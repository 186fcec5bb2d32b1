-------------------------- MODULE ExtensionRegistry --------------------------
(****************************************************************************)
(* The registry of unpacked extensions of a workspace, the file             *)
(* extensions.json (core/extensions/infra/registry.ts): load, reload and    *)
(* uninstall read it, change one record and write it back, with no lock.    *)
(*                                                                          *)
(* An extension is its path, hence its id; `build` is what its directory    *)
(* holds, a number for its manifest, its files and their fingerprint at     *)
(* once, or Gone.  A reference names a record by id or by name.  A command  *)
(* is synchronous code in a process of its own (or in the daemon, which     *)
(* then runs one at a time): it is interrupted only between system calls.   *)
(* writeFileSync truncates, then writes.  MaxBuild bounds the edits of an   *)
(* extension's directory.                                                   *)
(****************************************************************************)
EXTENDS Integers

CONSTANTS
  Loaders,    \* commands on the registry
  Exts,       \* extensions
  Names,      \* extension names
  NameOf,     \* the name in each extension's manifest
  MaxBuild,
  NoExt,
  Torn        \* a file that does not parse

Gone == 0
Builds == 1..MaxBuild
Registry == [Exts -> Builds \cup {Gone}]

ASSUME RegistryAssumption ==
  /\ NameOf \in [Exts -> Names] /\ MaxBuild \in Nat
  /\ NoExt \notin Exts /\ Torn \notin Registry

Empty == [e \in Exts |-> Gone]

VARIABLES
  registry,  \* the file: per extension the build recorded, or Gone; or Torn
  build,     \* what the directories hold
  loader,    \* commands: [at, op, ext, got, new]; got is what was read
  whole,     \* history: what the file last held whole
  behind     \* history: who read a torn file, or was overtaken by a write

registryVars == <<registry, build, loader, whole, behind>>

Loader ==
  [at : {"off", "read", "inspect", "truncate", "fill", "done", "failed", "dead"},
   op : {"load", "reload", "uninstall", "launch"}, ext : Exts \cup {NoExt},
   got : Registry, new : Builds \cup {Gone}]

RegistryTypeOK ==
  /\ registry \in Registry \cup {Torn}
  /\ build \in Registry
  /\ loader \in [Loaders -> Loader]
  /\ whole \in Registry /\ behind \in SUBSET Loaders

RegistryInit ==
  /\ registry = Empty
  /\ build \in [Exts -> Builds]
  /\ loader = [l \in Loaders |-> [at |-> "off", op |-> "load", ext |-> NoExt,
                                  got |-> Empty, new |-> Gone]]
  /\ whole = Empty /\ behind = {}

-----------------------------------------------------------------------------
(* readRegistry and writeRegistry                                           *)

\* no file, or one that does not parse, reads as an empty registry
ReadRegistry == IF registry = Torn THEN Empty ELSE registry

Writing(l) == loader[l].at \in {"inspect", "truncate", "fill"}

\* does a read now see less than what a writer is about to complete?
Remember(l) ==
  behind' = IF registry = Torn THEN behind \cup {l} ELSE behind \ {l}

\* MUTANT: a record whose directory is gone is left out of what is written
Updated_Tidy(l) ==
  [[e \in Exts |-> IF build[e] = Gone THEN Gone ELSE loader[l].got[e]]
     EXCEPT ![loader[l].ext] = loader[l].new]

Updated(l) == [loader[l].got EXCEPT ![loader[l].ext] = loader[l].new]

Truncate(l) ==
  /\ loader[l].at = "truncate"
  /\ registry' = Torn
  /\ loader' = [loader EXCEPT ![l].at = "fill"]
  /\ behind' = behind \cup {m \in Loaders \ {l} : Writing(m)}
  /\ UNCHANGED <<build, whole>>

\* over the longer text of a writer that truncated before and wrote in between,
\* a shorter one does not parse
Fill(l) ==
  /\ loader[l].at = "fill"
  /\ registry' \in IF registry = Torn THEN {Updated(l)} ELSE {Updated(l), Torn}
  /\ whole' = IF registry' = Torn THEN whole ELSE registry'
  /\ loader' = [loader EXCEPT ![l].at = "done"]
  /\ behind' = behind \cup {m \in Loaders \ {l} : Writing(m)}
  /\ UNCHANGED build

-----------------------------------------------------------------------------
(* The commands                                                             *)

\* the records a reference may mean: the id first, then a name
FindRecordByRef(recs, ref) ==
  IF ref \in Exts /\ recs[ref] # Gone THEN {ref}
  ELSE {e \in Exts : recs[e] # Gone /\ NameOf[e] = ref}

\* load reads the directory before the registry
ExtensionLoad(l, e) ==
  /\ loader[l].at = "off" /\ build[e] # Gone
  /\ loader' = [loader EXCEPT ![l].at = "read", ![l].op = "load", ![l].ext = e,
                              ![l].new = build[e]]
  /\ UNCHANGED <<registry, build, whole, behind>>

LoadReads(l) ==
  /\ loader[l].at = "read"
  /\ loader' = [loader EXCEPT ![l].at = "truncate", ![l].got = ReadRegistry]
  /\ Remember(l)
  /\ UNCHANGED <<registry, build, whole>>

\* E_QUERY_INVALID, or missing |-> TRUE
RefMissing(l, op, ref) ==
  /\ loader[l].at = "off"
  /\ FindRecordByRef(ReadRegistry, ref) = {}
  /\ loader' = [loader EXCEPT ![l].at = "failed", ![l].op = op]
  /\ UNCHANGED <<registry, build, whole, behind>>

ExtensionReload(l, ref) ==
  /\ loader[l].at = "off"
  /\ \E e \in FindRecordByRef(ReadRegistry, ref) :
       loader' = [loader EXCEPT ![l].at = "inspect", ![l].op = "reload", ![l].ext = e,
                                ![l].got = ReadRegistry]
  /\ Remember(l)
  /\ UNCHANGED <<registry, build, whole>>

\* E_EXTENSION_PATH_INVALID or E_EXTENSION_MANIFEST_INVALID when it is gone
ReloadInspects(l) ==
  LET e == loader[l].ext
  IN /\ loader[l].at = "inspect" /\ loader[l].op = "reload"
     /\ loader' = [loader EXCEPT ![l].at = IF build[e] = Gone THEN "failed" ELSE "truncate",
                                 ![l].new = build[e]]
     /\ UNCHANGED <<registry, build, whole, behind>>

ExtensionUninstall(l, ref) ==
  /\ loader[l].at = "off"
  /\ \E e \in FindRecordByRef(ReadRegistry, ref) :
       loader' = [loader EXCEPT ![l].at = "truncate", ![l].op = "uninstall",
                                ![l].ext = e, ![l].got = ReadRegistry, ![l].new = Gone]
  /\ Remember(l)
  /\ UNCHANGED <<registry, build, whole>>

-----------------------------------------------------------------------------
(* resolveManagedExtensionProjection: what a managed Chrome is started with *)

ProjectionReads(l) ==
  /\ loader[l].at = "off"
  /\ loader' = [loader EXCEPT ![l].at = "inspect", ![l].op = "launch",
                              ![l].got = ReadRegistry]
  /\ Remember(l)
  /\ UNCHANGED <<registry, build, whole>>

\* one directory that is gone stops the start; otherwise got becomes what the
\* directories hold now, not what the registry says
MaterializeForLaunch(l) ==
  LET recorded == {e \in Exts : loader[l].got[e] # Gone}
  IN /\ loader[l].at = "inspect" /\ loader[l].op = "launch"
     /\ loader' = [loader EXCEPT
          ![l].at = IF \E e \in recorded : build[e] = Gone THEN "failed" ELSE "done",
          ![l].got = [e \in Exts |-> IF e \in recorded THEN build[e] ELSE Gone]]
     /\ behind' = behind \ {l}
     /\ UNCHANGED <<registry, build, whole>>

-----------------------------------------------------------------------------
LoaderDies(l) ==
  /\ loader[l].at \notin {"off", "done", "failed", "dead"}
  /\ loader' = [loader EXCEPT ![l].at = "dead"]
  /\ UNCHANGED <<registry, build, whole, behind>>

\* the user edits, deletes and restores an extension
DirectoryChanges(e) ==
  /\ \E b \in Builds \cup {Gone} :
       /\ b # build[e] /\ (b = Gone \/ build[e] = Gone \/ b > build[e])
       /\ build' = [build EXCEPT ![e] = b]
  /\ UNCHANGED <<registry, loader, whole, behind>>

RegistryNext ==
  \/ \E l \in Loaders :
       \/ \E e \in Exts : ExtensionLoad(l, e)
       \/ \E ref \in Exts \cup Names :
            \/ ExtensionReload(l, ref) \/ ExtensionUninstall(l, ref)
            \/ \E op \in {"reload", "uninstall"} : RefMissing(l, op, ref)
       \/ LoadReads(l) \/ ReloadInspects(l)
       \/ ProjectionReads(l) \/ MaterializeForLaunch(l)
       \/ Truncate(l) \/ Fill(l) \/ LoaderDies(l)
  \/ \E e \in Exts : DirectoryChanges(e)

RegistrySpec == RegistryInit /\ [][RegistryNext]_registryVars

-----------------------------------------------------------------------------
(* Properties                                                               *)

\* What the last whole registry said of an extension changes only by a command
\* on that extension.  A command on another one loses or revives a record only
\* if it read the file while a write was under way or had been cut short, or
\* if another command wrote between its read and its write: nothing else, such
\* as a directory that went away or a name two extensions share, does.
RecordsChangeOnPurpose ==
  [][\A l \in Loaders :
       loader[l].at = "fill" /\ loader'[l].at = "done" /\ registry' # Torn
         => \/ l \in behind
            \/ \A e \in Exts \ {loader[l].ext} : registry'[e] = whole[e]]_registryVars
=============================================================================
