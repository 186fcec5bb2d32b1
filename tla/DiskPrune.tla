------------------------------ MODULE DiskPrune ------------------------------
(****************************************************************************)
(* `state disk-prune` (core/state/infra/disk-prune.ts): it reads the        *)
(* sessions, thins out runs/ and captures/ by age and by size, and removes  *)
(* the profile directories that no session uses, while commands start and   *)
(* forget sessions.                                                         *)
(*                                                                          *)
(* `artifacts` is runs/ or captures/; an entry is the tick it was last      *)
(* modified and its size, and `cutoff` the tick of the age limit.  Of a     *)
(* profile directory it only matters whether it is older than its limit, a  *)
(* day by default and an hour at least: a prune, and the start of a Chrome, *)
(* are shorter than that.  A launch makes Chrome modify the directory.      *)
(* Workspace profiles are pruned only when a limit is configured, as it is  *)
(* here.  A dry run does nothing and is left out.                           *)
(****************************************************************************)
EXTENDS Integers, FiniteSets, FiniteSetsExt

CONSTANTS
  SessionIds,
  WorkspaceIds,  \* those of them that are sessions of workspace profiles
  MaxTotalBytes,
  Sizes,         \* sizes of entries
  MaxEntries     \* entries ever made

ASSUME PruneAssumption ==
  /\ WorkspaceIds \subseteq SessionIds
  /\ MaxTotalBytes \in Nat /\ Sizes \subseteq Nat /\ MaxEntries \in Nat

VARIABLES
  artifacts,  \* set of [mtime, bytes]
  cutoff,
  profiles,   \* per session id: its directory
  managed,    \* ids of recorded managed sessions
  starting,   \* ids whose Chrome runs but is not recorded yet
  pruner,     \* [at, sessions, doomed]: sessions is the snapshot of the state
  launched    \* history: ids launched since the prune listed the profiles

pruneVars == <<artifacts, cutoff, profiles, managed, starting, pruner, launched>>

Entries == [mtime : 1..MaxEntries, bytes : Sizes]

PruneTypeOK ==
  /\ artifacts \subseteq Entries /\ cutoff \in 1..(MaxEntries + 1)
  /\ profiles \in [SessionIds -> {"absent", "fresh", "aged"}]
  /\ managed \subseteq SessionIds /\ starting \subseteq SessionIds
  /\ launched \subseteq SessionIds
  /\ pruner \in [at : {"off", "artifacts", "list", "remove"},
                 sessions : SUBSET SessionIds, doomed : SUBSET SessionIds]

PruneInit ==
  /\ artifacts = {} /\ cutoff = 1
  /\ profiles = [s \in SessionIds |-> "absent"]
  /\ managed = {} /\ starting = {} /\ launched = {}
  /\ pruner = [at |-> "off", sessions |-> {}, doomed |-> {}]

-----------------------------------------------------------------------------
(* The prune                                                                *)

StateDiskPrune ==
  /\ pruner.at = "off"
  /\ pruner' = [at |-> "artifacts", sessions |-> managed, doomed |-> {}]
  /\ UNCHANGED <<artifacts, cutoff, profiles, managed, starting, launched>>

BytesOf(S) == MapThenSumSet(LAMBDA e : e.bytes, S)

\* the entries of a tick that are young enough and fit beside the newer ones kept
Fitting(m, kept) ==
  {e \in artifacts : e.mtime = m /\ m >= cutoff /\ kept + e.bytes <= MaxTotalBytes}

\* the bytes kept of the entries modified at tick m or later: newest first, an
\* entry that does not fit is skipped, and an older one may still fit
KeptBytes[m \in 1..(MaxEntries + 1)] ==
  IF m > MaxEntries THEN 0
  ELSE KeptBytes[m + 1] + BytesOf(Fitting(m, KeptBytes[m + 1]))

\* MUTANT: the sum includes what was not kept
PickEntriesToRemove_Sum ==
  {e \in artifacts :
     \/ e.mtime < cutoff
     \/ BytesOf({d \in artifacts : d.mtime >= e.mtime}) > MaxTotalBytes}

PickEntriesToRemove ==
  {e \in artifacts : e.mtime < cutoff
                     \/ KeptBytes[e.mtime + 1] + e.bytes > MaxTotalBytes}

PruneDirectoryByAgeAndSize ==
  /\ pruner.at = "artifacts"
  /\ artifacts' = artifacts \ PickEntriesToRemove
  /\ pruner' = [pruner EXCEPT !.at = "list"]
  /\ UNCHANGED <<cutoff, profiles, managed, starting, launched>>

\* the listing, with the sessions that were read before, which are looked up by
\* the name of the directory: that of a workspace profile is the profile's, and
\* its session (p.<profile>) is not found
PruneOrphanProfiles ==
  /\ pruner.at = "list"
  /\ pruner' = [pruner EXCEPT !.at = "remove", !.doomed =
       {s \in WorkspaceIds \cup (SessionIds \ pruner.sessions) : profiles[s] = "aged"}]
  /\ launched' = {}
  /\ UNCHANGED <<artifacts, cutoff, profiles, managed, starting>>

RemovePath(s) ==
  /\ pruner.at = "remove" /\ s \in pruner.doomed
  /\ profiles' = [profiles EXCEPT ![s] = "absent"]
  /\ pruner' = [pruner EXCEPT !.doomed = @ \ {s}]
  /\ UNCHANGED <<artifacts, cutoff, managed, starting, launched>>

PruneEnds ==
  /\ pruner.at = "remove" /\ pruner.doomed = {}
  /\ pruner' = [at |-> "off", sessions |-> {}, doomed |-> {}]
  /\ UNCHANGED <<artifacts, cutoff, profiles, managed, starting, launched>>

-----------------------------------------------------------------------------
(* What goes on beside it                                                   *)

\* a managed session is started: Chrome first, the record later
Launch(s) ==
  /\ s \notin managed \cup starting
  /\ starting' = starting \cup {s}
  /\ profiles' = [profiles EXCEPT ![s] = "fresh"]
  /\ launched' = launched \cup {s}
  /\ UNCHANGED <<artifacts, cutoff, managed, pruner>>

Record(s) ==
  /\ s \in starting
  /\ starting' = starting \ {s}
  /\ managed' \in {managed, managed \cup {s}}
  /\ UNCHANGED <<artifacts, cutoff, profiles, pruner, launched>>

Forget(s) ==
  /\ s \in managed
  /\ managed' = managed \ {s}
  /\ UNCHANGED <<artifacts, cutoff, profiles, starting, pruner, launched>>

Ages(s) ==
  /\ pruner.at = "off" /\ s \notin starting /\ profiles[s] = "fresh"
  /\ profiles' = [profiles EXCEPT ![s] = "aged"]
  /\ UNCHANGED <<artifacts, cutoff, managed, starting, pruner, launched>>

ArtifactIsWritten ==
  /\ \E m \in cutoff..MaxEntries, b \in Sizes :
       /\ \A e \in artifacts : e.mtime < m
       /\ artifacts' = artifacts \cup {[mtime |-> m, bytes |-> b]}
  /\ UNCHANGED <<cutoff, profiles, managed, starting, pruner, launched>>

ArtifactsAge ==
  /\ cutoff <= MaxEntries
  /\ cutoff' = cutoff + 1
  /\ UNCHANGED <<artifacts, profiles, managed, starting, pruner, launched>>

PruneNext ==
  \/ StateDiskPrune \/ PruneDirectoryByAgeAndSize \/ PruneOrphanProfiles
  \/ \E s \in SessionIds : RemovePath(s) \/ Launch(s) \/ Record(s) \/ Forget(s) \/ Ages(s)
  \/ PruneEnds
  \/ ArtifactIsWritten
  \/ ArtifactsAge

PruneSpec == PruneInit /\ [][PruneNext]_pruneVars

-----------------------------------------------------------------------------
(* Properties                                                               *)

\* A prune removes garbage only.  An artifact goes because of its age, or because with
\* the newer ones that stay it would exceed the limit, which what stays respects.  The
\* directory of a session that is recorded, or whose Chrome starts, goes only if that
\* Chrome was launched after the prune listed the directories, or if it is a workspace
\* profile of any age above the limit, in use or not.
PruneRemovesGarbage ==
  [][/\ \A e \in artifacts \ artifacts' :
          \/ e.mtime < cutoff
          \/ BytesOf({d \in artifacts' : d.mtime > e.mtime}) + e.bytes > MaxTotalBytes
     /\ pruner.at = "artifacts" /\ pruner'.at = "list" => BytesOf(artifacts') <= MaxTotalBytes
     /\ \A s \in managed \cup starting :
          profiles[s] # "absent" /\ profiles'[s] = "absent" => s \in launched \cup WorkspaceIds
    ]_pruneVars
=============================================================================
