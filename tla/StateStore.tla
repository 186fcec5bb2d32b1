------------------------------ MODULE StateStore ------------------------------
(****************************************************************************)
(* The state store: updateState (core/state/infra/state-store.ts), the      *)
(* shard files it reads and writes (state-shards.ts) and the lock file      *)
(* around the write (state-lock.ts).                                        *)
(*                                                                          *)
(* Each process (a CLI command, the daemon, the maintenance worker) makes   *)
(* one update: it adds a session under a newly allocated id, or a target.   *)
(* updateState reads the revision, reads the shards and applies the change  *)
(* without the lock; under the lock it compares the revision and rewrites   *)
(* the shards one after the other.  Every file operation is one action;     *)
(* renames make the rewrite of a single file atomic.  A process may crash   *)
(* between any two of them and never comes back: its pid is dead.           *)
(*                                                                          *)
(* Left out: the shards for captures and artifacts, which come between      *)
(* sessions and targets and are handled like them; the split of the targets *)
(* shard into a file per session; activeSessionId; the ids skipped because  *)
(* an old profile directory has their name.  writeState() has no caller.    *)
(* Time is left out: waiting for the lock may end at any attempt, and       *)
(* a lock file without a pid counts as stale once its creator is dead       *)
(* (the creator writes the pid at once, staleness takes 12 s).              *)
(*                                                                          *)
(* Definitions marked MUTANT are defects a change could introduce; no action *)
(* uses them.                                                               *)
(****************************************************************************)
EXTENDS Integers, FiniteSets

CONSTANTS
  Processes,
  MaxAttempts,   \* STATE_OPTIMISTIC_RETRY_ATTEMPTS
  MaxCrashes,    \* bounds the model
  None           \* no lock file

ASSUME LimitsAssumption == MaxAttempts \in Nat \ {0} /\ MaxCrashes \in Nat

ASSUME NoneAssumption == None \notin [owner : Processes, named : BOOLEAN]

VARIABLES
  meta,       \* meta.json: revision and nextSessionOrdinal
  sessions,   \* sessions.json: the sessions, as [id, by]
  targets,    \* targets-by-session/: the targets, named by their creator
  lock,       \* state.lock: None, or its creator and whether the pid is in it
  pc,         \* per process: its next file operation
  attempt,    \* per process: attempts of updateState used up
  local,      \* per process: the variables of updateState
  stolen      \* some process has unlinked the lock of a live one

files == <<meta, sessions, targets>>
vars == <<files, lock, pc, attempt, local, stolen>>

Kinds == {"session", "target"}

Dead(p) == pc[p] = "dead"
Ended == {"done", "failed", "dead"}

\* the operations a process makes between creating the lock and removing it
Critical == {"name", "check", "write_meta", "write_sessions", "write_targets",
             "unlock", "unlock_retry"}

-----------------------------------------------------------------------------
(* Helpers *)

GoTo(p, step) == pc' = [pc EXCEPT ![p] = step]

\* MUTANT
AllocatedIgnoringOrdinal(next, known) ==
  CHOOSE id \in 1..(next + Cardinality(known)) :
    /\ \A r \in known : r.id # id
    /\ \A lower \in 1..(id - 1) : \E r \in known : r.id = lower

\* allocateSessionId: the first ordinal from next on that no known session has
Allocated(next, known) ==
  CHOOSE id \in next..(next + Cardinality(known)) :
    /\ \A r \in known : r.id # id
    /\ \A lower \in next..(id - 1) : \E r \in known : r.id = lower

\* MUTANT
StaleIfHeld(l) == l # None

\* the lock file was left behind (clearStaleLock's tests)
Stale(l) == l # None /\ Dead(l.owner)

-----------------------------------------------------------------------------
(* updateState: reading, and the mutation *)

\* MUTANT
ReadRevisionOnceMore(p) ==
  /\ pc[p] = "begin"
  /\ attempt[p] <= MaxAttempts
  /\ attempt' = [attempt EXCEPT ![p] = @ + 1]
  /\ local' = [local EXCEPT ![p].base = meta.revision]
  /\ GoTo(p, "read_meta")
  /\ UNCHANGED <<files, lock, stolen>>

\* readStateRevisionFromV2Shards
ReadRevision(p) ==
  /\ pc[p] = "begin"
  /\ attempt[p] < MaxAttempts
  /\ attempt' = [attempt EXCEPT ![p] = @ + 1]
  /\ local' = [local EXCEPT ![p].base = meta.revision]
  /\ GoTo(p, "read_meta")
  /\ UNCHANGED <<files, lock, stolen>>

\* the loop over the attempts ends: E_STATE_LOCK_TIMEOUT, budget exhausted
ExhaustAttempts(p) ==
  /\ pc[p] = "begin"
  /\ attempt[p] = MaxAttempts
  /\ GoTo(p, "failed")
  /\ UNCHANGED <<files, lock, attempt, local, stolen>>

ReadMeta(p) ==
  /\ pc[p] = "read_meta"
  /\ local' = [local EXCEPT ![p].next = meta.next]
  /\ GoTo(p, "read_sessions")
  /\ UNCHANGED <<files, lock, attempt, stolen>>

ReadSessions(p) ==
  /\ pc[p] = "read_sessions"
  /\ local' = [local EXCEPT ![p].sessions = sessions]
  /\ GoTo(p, "read_targets")
  /\ UNCHANGED <<files, lock, attempt, stolen>>

\* the last shard is read and mutate(state) changes the copy in memory
ReadTargetsAndMutate(p) ==
  /\ pc[p] = "read_targets"
  /\ LET mine == local[p]
         id == Allocated(mine.next, mine.sessions)
     IN  local' = [local EXCEPT ![p] =
           IF mine.kind = "session"
           THEN [mine EXCEPT !.id = id, !.next = id + 1, !.targets = targets,
                             !.sessions = @ \cup {[id |-> id, by |-> p]}]
           ELSE [mine EXCEPT !.targets = targets \cup {p}]]
  /\ GoTo(p, "lock")
  /\ UNCHANGED <<files, lock, attempt, stolen>>

-----------------------------------------------------------------------------
(* withStateFileLock *)

\* openSync(..., "wx") succeeds
CreateLock(p) ==
  /\ pc[p] = "lock"
  /\ lock = None
  /\ lock' = [owner |-> p, named |-> FALSE]
  /\ GoTo(p, "name")
  /\ UNCHANGED <<files, attempt, local, stolen>>

\* the pid is written into the open file, wherever that file is by now
NameLock(p) ==
  /\ pc[p] = "name"
  /\ lock' = IF lock # None /\ lock.owner = p
             THEN [lock EXCEPT !.named = TRUE] ELSE lock
  /\ GoTo(p, "check")
  /\ UNCHANGED <<files, attempt, local, stolen>>

\* EEXIST: clearStaleLock reads the lock file and decides to unlink it
InspectStale(p) ==
  /\ pc[p] = "lock"
  /\ Stale(lock)
  /\ GoTo(p, "unlink")
  /\ UNCHANGED <<files, lock, attempt, local, stolen>>

\* ... and unlinks whatever file is there by now
UnlinkStale(p) ==
  /\ pc[p] = "unlink"
  /\ lock' = None
  /\ stolen' = (stolen \/ (lock # None /\ ~Stale(lock)))
  /\ GoTo(p, "lock")
  /\ UNCHANGED <<files, attempt, local>>

\* the deadline passes while another process holds the lock
LockTimeout(p) ==
  /\ pc[p] = "lock"
  /\ lock # None
  /\ GoTo(p, "failed")
  /\ UNCHANGED <<files, lock, attempt, local, stolen>>

\* releaseLock unlinks the lock file, whoever created it; then updateState
\* returns, or starts its next attempt if it did not commit
Unlock(p) ==
  /\ pc[p] \in {"unlock", "unlock_retry"}
  /\ lock' = None
  /\ stolen' = (stolen \/ (lock # None /\ lock.owner # p /\ ~Stale(lock)))
  /\ GoTo(p, IF pc[p] = "unlock" THEN "done" ELSE "begin")
  /\ UNCHANGED <<files, attempt, local>>

-----------------------------------------------------------------------------
(* updateState: compare and write, under the lock *)

\* MUTANT
CheckNothing(p) ==
  /\ pc[p] = "check"
  /\ GoTo(p, "write_meta")
  /\ UNCHANGED <<files, lock, attempt, local, stolen>>

\* MUTANT
CheckNextRevision(p) ==
  /\ pc[p] = "check"
  /\ GoTo(p, IF meta.revision = local[p].base + 1 THEN "write_meta" ELSE "unlock_retry")
  /\ UNCHANGED <<files, lock, attempt, local, stolen>>

\* the revision must still be the one read at the start of the attempt
CheckRevision(p) ==
  /\ pc[p] = "check"
  /\ GoTo(p, IF meta.revision = local[p].base THEN "write_meta" ELSE "unlock_retry")
  /\ UNCHANGED <<files, lock, attempt, local, stolen>>

\* MUTANT
WriteMetaAfterTheRest(p) ==
  \/ /\ pc[p] = "write_meta"
     /\ sessions' = local[p].sessions
     /\ GoTo(p, "write_sessions")
     /\ UNCHANGED <<meta, targets, lock, attempt, local, stolen>>
  \/ /\ pc[p] = "write_sessions"
     /\ meta' = [revision |-> local[p].base + 1, next |-> local[p].next]
     /\ GoTo(p, "write_targets")
     /\ UNCHANGED <<sessions, targets, lock, attempt, local, stolen>>

\* writeStateToV2Shards: the meta shard, with the new revision, comes first
WriteMeta(p) ==
  /\ pc[p] = "write_meta"
  /\ meta' = [revision |-> local[p].base + 1, next |-> local[p].next]
  /\ GoTo(p, "write_sessions")
  /\ UNCHANGED <<sessions, targets, lock, attempt, local, stolen>>

WriteSessions(p) ==
  /\ pc[p] = "write_sessions"
  /\ sessions' = local[p].sessions
  /\ GoTo(p, "write_targets")
  /\ UNCHANGED <<meta, targets, lock, attempt, local, stolen>>

WriteTargets(p) ==
  /\ pc[p] = "write_targets"
  /\ targets' = local[p].targets
  /\ GoTo(p, "unlock")
  /\ UNCHANGED <<meta, sessions, lock, attempt, local, stolen>>

-----------------------------------------------------------------------------
(* Specification *)

Crash(p) ==
  /\ Cardinality({q \in Processes : Dead(q)}) < MaxCrashes
  /\ pc[p] \notin Ended
  /\ GoTo(p, "dead")
  /\ UNCHANGED <<files, lock, attempt, local, stolen>>

Init ==
  /\ meta = [revision |-> 0, next |-> 1]
  /\ sessions = {}
  /\ targets = {}
  /\ lock = None
  /\ pc = [p \in Processes |-> "begin"]
  /\ attempt = [p \in Processes |-> 0]
  /\ \E kind \in [Processes -> Kinds] :
       local = [p \in Processes |->
                  [kind |-> kind[p], base |-> 0, next |-> 1, id |-> 0,
                   sessions |-> {}, targets |-> {}]]
  /\ stolen = FALSE

Read(p) ==
  \/ ReadRevision(p)
  \/ ExhaustAttempts(p)
  \/ ReadMeta(p)
  \/ ReadSessions(p)
  \/ ReadTargetsAndMutate(p)

Lock(p) ==
  \/ CreateLock(p)
  \/ NameLock(p)
  \/ InspectStale(p)
  \/ UnlinkStale(p)
  \/ LockTimeout(p)
  \/ Unlock(p)

Write(p) ==
  \/ CheckRevision(p)
  \/ WriteMeta(p)
  \/ WriteSessions(p)
  \/ WriteTargets(p)

Next == \E p \in Processes : Read(p) \/ Lock(p) \/ Write(p) \/ Crash(p)

Spec == Init /\ [][Next]_vars

-----------------------------------------------------------------------------
(* Properties.  A stale lock can be taken from a live process: two waiters  *)
(* find the lock of a dead process, one unlinks it and creates its own, the *)
(* other then unlinks that one (`stolen`).  What the lock is for holds as   *)
(* long as this has not happened; with no crash it never does.              *)

SessionRecords == [id : Nat, by : Processes]
Local == [kind : Kinds, base : Nat, next : Nat \ {0}, id : Nat,
          sessions : SUBSET SessionRecords, targets : SUBSET Processes]

\* Type invariant.
TypeOK ==
  /\ meta \in [revision : Nat, next : Nat \ {0}]
  /\ sessions \subseteq SessionRecords
  /\ targets \subseteq Processes
  /\ lock \in [owner : Processes, named : BOOLEAN] \cup {None}
  /\ pc \in [Processes -> Ended \cup Critical \cup
               {"begin", "read_meta", "read_sessions", "read_targets", "lock",
                "unlink"}]
  /\ attempt \in [Processes -> 0..MaxAttempts]
  /\ local \in [Processes -> Local]
  /\ stolen \in BOOLEAN

\* A process compares and writes only while the lock file is its own, so no two
\* do at once; locks are taken over from dead processes only.
OneWriter ==
  ~stolen => \A p \in Processes : pc[p] \in Critical =>
    lock # None /\ lock.owner = p

\* Two updates that succeed never allocate the same session id, although they
\* allocate it from a copy read without the lock and retry on conflict.
IdsAreUnique ==
  ~stolen => \A p, q \in Processes :
    /\ pc[p] = "done" /\ pc[q] = "done"
    /\ local[p].kind = "session" /\ local[q].kind = "session"
    /\ local[p].id = local[q].id
    => p = q

\* The next ordinal on disk is above every session id on disk, whenever a writer
\* crashes between two shards.
OrdinalsCoverIds == ~stolen => \A r \in sessions : r.id < meta.next

\* An attempt is only ever spoilt by the commit of another process, so somebody
\* always gets through: after k attempts without success the revision has gone
\* up k times.
ConflictsAreCommits ==
  ~stolen => \A p \in Processes : pc[p] = "begin" => meta.revision >= attempt[p]

\* The revision goes up by one with each commit and never back: equal revisions
\* mean that nobody committed in between.
RevisionsAdvance ==
  [][stolen \/ meta' = meta \/ meta'.revision = meta.revision + 1]_vars

\* state-and-versioning.md:59 says "Writes are guarded via a lock file strategy
\* in the state store": an update that returned is in the state afterwards (no
\* update here removes anything).
NoLostUpdates ==
  \A p \in Processes : pc[p] = "done" =>
    IF local[p].kind = "session"
    THEN [id |-> local[p].id, by |-> p] \in sessions
    ELSE p \in targets
=============================================================================
