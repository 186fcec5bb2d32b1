--------------------------- MODULE StateStoreProofs ---------------------------
(****************************************************************************)
(* Theorems about the state store, for every set of processes, every budget *)
(* of attempts and every number of crashes.                                 *)
(****************************************************************************)
EXTENDS StateStore, FiniteSetTheorems, WellFoundedInduction, TLAPS

-----------------------------------------------------------------------------
(* The allocation of session ids. *)

\* A set of natural numbers that is not empty has a least element.
LEMMA HasLeast ==
  ASSUME NEW T, T \subseteq Nat, T # {}
  PROVE  \E x \in T : \A y \in T : x <= y
<1>1. PICK R : /\ IsWellFoundedOn(R, Nat)
               /\ \A x, y \in Nat : x < y => <<x, y>> \in R
  <2>1. \A x, y \in Nat : x < y => <<x, y>> \in OpToRel(<, Nat)
    BY DEF OpToRel
  <2> QED
    BY <2>1, NatLessThanWellFounded, Zenon
<1>2. IsWellFoundedOn(R, Nat)
  BY <1>1
<1>3. PICK x \in T : \A y \in T : <<y, x>> \notin R
  BY <1>2, WFMin
<1>4. \A y \in T : ~(y < x)
  BY <1>1, <1>3
<1> QED
  BY <1>4

\* allocateSessionId finds an id, and one that no known session has.
LEMMA AllocatedIsFree ==
  ASSUME NEW next \in Nat, NEW known \in SUBSET SessionRecords, IsFiniteSet(known)
  PROVE  /\ Allocated(next, known) \in Nat
         /\ Allocated(next, known) >= next
         /\ \A r \in known : r.id # Allocated(next, known)
<1> DEFINE ids == {r.id : r \in known}
           range == next..(next + Cardinality(known))
           f == [r \in known |-> r.id]
<1>1. Cardinality(known) \in Nat
  BY FS_CardinalityType
<1>2. f \in Surjection(known, ids)
  BY DEF Surjection
<1>3. IsFiniteSet(ids) /\ Cardinality(ids) <= Cardinality(known)
  BY <1>2, FS_Surjection
<1>4. IsFiniteSet(range) /\ Cardinality(range) = Cardinality(known) + 1
  BY <1>1, FS_Interval
<1>5. ~(range \subseteq ids)
  <2>1. range \subseteq ids => Cardinality(range) <= Cardinality(ids)
    BY <1>3, FS_Subset
  <2>2. Cardinality(ids) \in Nat
    BY <1>3, FS_CardinalityType
  <2> QED
    BY <1>1, <1>3, <1>4, <2>1, <2>2
<1>6. PICK id \in range \ ids : \A other \in range \ ids : id <= other
  <2>1. range \ ids \subseteq Nat /\ range \ ids # {}
    BY <1>1, <1>5
  <2> QED
    BY <2>1, HasLeast
<1>7. /\ \A r \in known : r.id # id
      /\ \A lower \in next..(id - 1) : \E r \in known : r.id = lower
  BY <1>1, <1>6
<1>8. /\ Allocated(next, known) \in range
      /\ \A r \in known : r.id # Allocated(next, known)
  BY <1>7 DEF Allocated
<1> QED
  BY <1>1, <1>8

-----------------------------------------------------------------------------
(* The invariant.  The lock keeps all but one process out of the critical   *)
(* steps (OneWriter), so that what a process read is what is on disk when   *)
(* its revision check succeeds: any commit since would show in the revision.*)

\* between the lock and the first write
Prepared == {"lock", "unlink", "name", "check", "write_meta"}

\* the id and revision are in meta.json
Committed == {"write_sessions", "write_targets", "unlock", "done"}

Busy(p) == pc[p] \notin Ended \cup {"begin"}
Below(known, next) == \A r \in known : r.id < next
Took(p) == pc[p] \in Committed /\ local[p].kind = "session"

SetsAreFinite ==
  /\ IsFiniteSet(sessions)
  /\ \A p \in Processes : IsFiniteSet(local[p].sessions)

\* what p read or prepared when the revision on disk is the one it read
ReadsAreFresh ==
  ~stolen => \A p \in Processes : local[p].base = meta.revision =>
    /\ pc[p] \in {"read_sessions", "read_targets"} => local[p].next = meta.next
    /\ pc[p] = "read_targets" => Below(local[p].sessions, local[p].next)
    /\ pc[p] \in Prepared =>
         /\ local[p].next >= meta.next
         /\ Below(local[p].sessions, local[p].next)
         /\ local[p].kind = "session" =>
              local[p].id >= meta.next /\ local[p].id < local[p].next

BasesAreOld ==
  ~stolen => \A p \in Processes :
    /\ Busy(p) => local[p].base <= meta.revision
    /\ pc[p] = "write_meta" => local[p].base = meta.revision
    /\ pc[p] = "write_sessions" => Below(local[p].sessions, meta.next)
    /\ pc[p] = "unlock_retry" => local[p].base < meta.revision

IdsAreTaken ==
  ~stolen => \A p \in Processes : Took(p) => local[p].id < meta.next

TakenIdsDiffer ==
  ~stolen => \A p, q \in Processes :
    Took(p) /\ Took(q) /\ local[p].id = local[q].id => p = q

AttemptsArePaid ==
  ~stolen => \A p \in Processes : Busy(p) => attempt[p] <= local[p].base + 1

IInv ==
  /\ TypeOK
  /\ SetsAreFinite
  /\ OneWriter
  /\ OrdinalsCoverIds
  /\ ConflictsAreCommits
  /\ ReadsAreFresh
  /\ BasesAreOld
  /\ IdsAreTaken
  /\ TakenIdsDiffer
  /\ AttemptsArePaid

-----------------------------------------------------------------------------
(* Steps that change no file but the lock and nothing in memory but pc. *)

\* such a step of p from its program counter to `to`
Moves(p, to) ==
  \/ to \in {"dead", "failed"}
  \/ /\ pc[p] \in {"lock", "unlink", "name"}
     /\ to \in {"lock", "unlink", "name", "check"}
  \/ pc[p] = "check" /\ to = "write_meta" /\ local[p].base = meta.revision
  \/ pc[p] = "check" /\ to = "unlock_retry" /\ local[p].base # meta.revision
  \/ pc[p] = "unlock_retry" /\ to = "begin"
  \/ pc[p] = "unlock" /\ to = "done"

\* They keep everything that the lock itself does not decide: an attempt goes on
\* only after the comparison of the revisions.
LEMMA MovesIInv ==
  ASSUME IInv, NEW p \in Processes, NEW to,
         Moves(p, to), GoTo(p, to), UNCHANGED <<files, attempt, local>>,
         TypeOK', OneWriter', ~stolen' => ~stolen
  PROVE  IInv'
<1>1. SetsAreFinite'
  BY DEF IInv, SetsAreFinite, files
<1>2. OrdinalsCoverIds'
  BY DEF IInv, OrdinalsCoverIds, files
<1>3. ConflictsAreCommits'
  BY DEF IInv, ConflictsAreCommits, BasesAreOld, AttemptsArePaid, Busy, Ended,
         Moves, GoTo, files, TypeOK, Local
<1>4. ReadsAreFresh'
  BY DEF IInv, ReadsAreFresh, Prepared, Below, Moves, GoTo, files, TypeOK
<1>5. BasesAreOld'
  BY DEF IInv, BasesAreOld, Busy, Below, Ended, Moves, GoTo, files, TypeOK, Local
<1>6. IdsAreTaken'
  BY DEF IInv, IdsAreTaken, Took, Committed, Moves, GoTo, files, TypeOK
<1>7. TakenIdsDiffer'
  BY DEF IInv, TakenIdsDiffer, Took, Committed, Moves, GoTo, files, TypeOK
<1>8. AttemptsArePaid'
  BY DEF IInv, AttemptsArePaid, Busy, Ended, Moves, GoTo, files, TypeOK
<1> QED
  BY <1>1, <1>2, <1>3, <1>4, <1>5, <1>6, <1>7, <1>8 DEF IInv

\* The budget is used up between two attempts.
LEMMA ExhaustAttemptsIInv ==
  ASSUME IInv, NEW p \in Processes, ExhaustAttempts(p)
  PROVE  IInv'
<1>1. TypeOK'
  BY DEF IInv, TypeOK, ExhaustAttempts, GoTo, Ended, files
<1>2. OneWriter'
  BY DEF IInv, TypeOK, OneWriter, ExhaustAttempts, GoTo, Critical
<1> QED
  BY <1>1, <1>2, MovesIInv DEF ExhaustAttempts, Moves

\* The lock is created while it does not exist, so nobody is in a critical step.
LEMMA CreateLockIInv ==
  ASSUME IInv, NEW p \in Processes, CreateLock(p)
  PROVE  IInv'
<1>1. TypeOK'
  BY DEF IInv, TypeOK, CreateLock, GoTo, Critical, files
<1>2. OneWriter'
  <2>1. lock' # None /\ lock'.owner = p
    <3>1. [owner |-> p, named |-> FALSE] \in [owner : Processes, named : BOOLEAN]
      OBVIOUS
    <3>2. lock' = [owner |-> p, named |-> FALSE]
      BY DEF CreateLock
    <3> QED
      BY <3>1, <3>2, NoneAssumption
  <2>2. ~stolen => \A q \in Processes : pc[q] \notin Critical
    BY DEF IInv, OneWriter, CreateLock
  <2> QED
    BY <2>1, <2>2 DEF IInv, TypeOK, OneWriter, CreateLock, GoTo
<1> QED
  BY <1>1, <1>2, MovesIInv DEF CreateLock, Moves

\* Writing the pid into the lock changes no owner.
LEMMA NameLockIInv ==
  ASSUME IInv, NEW p \in Processes, NameLock(p)
  PROVE  IInv'
<1>1. TypeOK'
  BY DEF IInv, TypeOK, NameLock, GoTo, Critical, files
<1>2. OneWriter'
  <2>1. lock # None => lock' # None /\ lock'.owner = lock.owner
    BY NoneAssumption DEF IInv, TypeOK, NameLock
  <2> QED
    BY <2>1 DEF IInv, TypeOK, OneWriter, NameLock, GoTo, Critical
<1> QED
  BY <1>1, <1>2, MovesIInv DEF NameLock, Moves

\* Reading the lock of a dead process leaves it where it is.
LEMMA InspectStaleIInv ==
  ASSUME IInv, NEW p \in Processes, InspectStale(p)
  PROVE  IInv'
<1>1. TypeOK'
  BY DEF IInv, TypeOK, InspectStale, GoTo, files
<1>2. OneWriter'
  BY DEF IInv, TypeOK, OneWriter, InspectStale, GoTo, Critical
<1> QED
  BY <1>1, <1>2, MovesIInv DEF InspectStale, Moves

\* Unlinking a lock that is not stale is what `stolen` records; a stale one has
\* no owner in a critical step.
LEMMA UnlinkStaleIInv ==
  ASSUME IInv, NEW p \in Processes, UnlinkStale(p)
  PROVE  IInv'
<1>1. TypeOK'
  BY DEF IInv, TypeOK, UnlinkStale, GoTo, files
<1>2. OneWriter'
  BY DEF IInv, TypeOK, OneWriter, UnlinkStale, GoTo, Critical, Stale, Dead
<1>3. ~stolen' => ~stolen
  BY DEF UnlinkStale
<1> QED
  BY <1>1, <1>2, <1>3, MovesIInv DEF UnlinkStale, Moves

\* A process that gives up waiting never had the lock.
LEMMA LockTimeoutIInv ==
  ASSUME IInv, NEW p \in Processes, LockTimeout(p)
  PROVE  IInv'
<1>1. TypeOK'
  BY DEF IInv, TypeOK, LockTimeout, GoTo, Ended, files
<1>2. OneWriter'
  BY DEF IInv, TypeOK, OneWriter, LockTimeout, GoTo, Critical
<1> QED
  BY <1>1, <1>2, MovesIInv DEF LockTimeout, Moves

\* The lock that p removes is its own, and p leaves its critical steps with it.
LEMMA UnlockIInv ==
  ASSUME IInv, NEW p \in Processes, Unlock(p)
  PROVE  IInv'
<1>1. TypeOK'
  BY DEF IInv, TypeOK, Unlock, GoTo, Ended, files
<1>2. OneWriter'
  <2>1. ~stolen' => ~stolen /\ lock.owner = p
    BY DEF IInv, OneWriter, Unlock, Critical
  <2> QED
    BY <2>1 DEF IInv, TypeOK, OneWriter, Unlock, GoTo, Critical
<1>3. ~stolen' => ~stolen
  BY DEF Unlock
<1>4. PICK to : Moves(p, to) /\ GoTo(p, to)
  BY DEF Unlock, Moves
<1> QED
  BY <1>1, <1>2, <1>3, <1>4, MovesIInv DEF Unlock

\* Only an attempt whose revision is still on disk goes on to write.
LEMMA CheckRevisionIInv ==
  ASSUME IInv, NEW p \in Processes, CheckRevision(p)
  PROVE  IInv'
<1>1. TypeOK'
  BY DEF IInv, TypeOK, CheckRevision, GoTo, Critical, files
<1>2. OneWriter'
  BY DEF IInv, TypeOK, OneWriter, CheckRevision, GoTo, Critical
<1>3. PICK to : Moves(p, to) /\ GoTo(p, to)
  BY DEF CheckRevision, Moves
<1> QED
  BY <1>1, <1>2, <1>3, MovesIInv DEF CheckRevision

\* A crash leaves files and lock as they are, at any step.
LEMMA CrashIInv ==
  ASSUME IInv, NEW p \in Processes, Crash(p)
  PROVE  IInv'
<1>1. TypeOK'
  BY DEF IInv, TypeOK, Crash, GoTo, Ended, files
<1>2. OneWriter'
  BY DEF IInv, TypeOK, OneWriter, Crash, GoTo, Critical
<1> QED
  BY <1>1, <1>2, MovesIInv DEF Crash, Moves

-----------------------------------------------------------------------------
(* Steps that read and prepare: they change nothing but p's own variables. *)

\* Such a step of p from outside the critical steps leaves the files, the lock
\* and everybody else's part of the invariant alone.
LEMMA OwnStepKeepsFiles ==
  ASSUME IInv, NEW p \in Processes, NEW to, GoTo(p, to), to \notin Critical,
         UNCHANGED <<files, lock, stolen>>
  PROVE  OneWriter' /\ OrdinalsCoverIds'
<1>1. OneWriter'
  BY DEF IInv, TypeOK, OneWriter, GoTo, files
<1>2. OrdinalsCoverIds'
  BY DEF IInv, OrdinalsCoverIds, files
<1> QED
  BY <1>1, <1>2

\* A new attempt notes the revision on disk.
LEMMA ReadRevisionIInv ==
  ASSUME IInv, NEW p \in Processes, ReadRevision(p)
  PROVE  IInv'
<1>1. TypeOK'
  BY LimitsAssumption DEF IInv, TypeOK, Local, ReadRevision, GoTo, files
<1>2. SetsAreFinite'
  BY DEF IInv, TypeOK, Local, SetsAreFinite, ReadRevision, files
<1>3. OneWriter' /\ OrdinalsCoverIds'
  BY OwnStepKeepsFiles DEF ReadRevision, Critical
<1>4. ConflictsAreCommits'
  BY DEF IInv, TypeOK, ConflictsAreCommits, ReadRevision, GoTo, files
<1>5. ReadsAreFresh'
  BY DEF IInv, TypeOK, Local, ReadsAreFresh, Prepared, Below, ReadRevision, GoTo, files
<1>6. BasesAreOld'
  BY DEF IInv, TypeOK, Local, BasesAreOld, Busy, Below, ReadRevision, GoTo, files
<1>7. IdsAreTaken'
  BY DEF IInv, TypeOK, Local, IdsAreTaken, Took, Committed, ReadRevision, GoTo, files
<1>8. TakenIdsDiffer'
  BY DEF IInv, TypeOK, Local, TakenIdsDiffer, Took, Committed, ReadRevision, GoTo, files
<1>9. AttemptsArePaid'
  BY LimitsAssumption
     DEF IInv, TypeOK, Local, AttemptsArePaid, ConflictsAreCommits, Busy,
         ReadRevision, GoTo, files
<1> QED
  BY <1>1, <1>2, <1>3, <1>4, <1>5, <1>6, <1>7, <1>8, <1>9 DEF IInv

\* The ordinal read is the one on disk, if the revision still is.
LEMMA ReadMetaIInv ==
  ASSUME IInv, NEW p \in Processes, ReadMeta(p)
  PROVE  IInv'
<1>1. TypeOK'
  BY DEF IInv, TypeOK, Local, ReadMeta, GoTo, files
<1>2. SetsAreFinite'
  BY DEF IInv, TypeOK, Local, SetsAreFinite, ReadMeta, files
<1>3. OneWriter' /\ OrdinalsCoverIds'
  BY OwnStepKeepsFiles DEF ReadMeta, Critical
<1>4. ConflictsAreCommits'
  BY DEF IInv, TypeOK, ConflictsAreCommits, ReadMeta, GoTo, files
<1>5. ReadsAreFresh'
  BY DEF IInv, TypeOK, Local, ReadsAreFresh, Prepared, Below, ReadMeta, GoTo, files
<1>6. BasesAreOld'
  BY DEF IInv, TypeOK, Local, BasesAreOld, Busy, Ended, Below, ReadMeta, GoTo, files
<1>7. IdsAreTaken'
  BY DEF IInv, TypeOK, Local, IdsAreTaken, Took, Committed, ReadMeta, GoTo, files
<1>8. TakenIdsDiffer'
  BY DEF IInv, TypeOK, Local, TakenIdsDiffer, Took, Committed, ReadMeta, GoTo, files
<1>9. AttemptsArePaid'
  BY DEF IInv, TypeOK, Local, AttemptsArePaid, Busy, Ended, ReadMeta, GoTo, files
<1> QED
  BY <1>1, <1>2, <1>3, <1>4, <1>5, <1>6, <1>7, <1>8, <1>9 DEF IInv

\* The sessions on disk are below the ordinal on disk, which is the one p read
\* if the revision still is.
LEMMA ReadSessionsIInv ==
  ASSUME IInv, NEW p \in Processes, ReadSessions(p)
  PROVE  IInv'
<1>1. TypeOK'
  BY DEF IInv, TypeOK, Local, ReadSessions, GoTo, files
<1>2. SetsAreFinite'
  BY DEF IInv, TypeOK, Local, SetsAreFinite, ReadSessions, files
<1>3. OneWriter' /\ OrdinalsCoverIds'
  BY OwnStepKeepsFiles DEF ReadSessions, Critical
<1>4. ConflictsAreCommits'
  BY DEF IInv, TypeOK, ConflictsAreCommits, ReadSessions, GoTo, files
<1>5. ReadsAreFresh'
  BY DEF IInv, TypeOK, Local, ReadsAreFresh, OrdinalsCoverIds, Prepared, Below,
         ReadSessions, GoTo, files
<1>6. BasesAreOld'
  BY DEF IInv, TypeOK, Local, BasesAreOld, Busy, Ended, Below, ReadSessions, GoTo, files
<1>7. IdsAreTaken'
  BY DEF IInv, TypeOK, Local, IdsAreTaken, Took, Committed, ReadSessions, GoTo, files
<1>8. TakenIdsDiffer'
  BY DEF IInv, TypeOK, Local, TakenIdsDiffer, Took, Committed, ReadSessions, GoTo, files
<1>9. AttemptsArePaid'
  BY DEF IInv, TypeOK, Local, AttemptsArePaid, Busy, Ended, ReadSessions, GoTo, files
<1> QED
  BY <1>1, <1>2, <1>3, <1>4, <1>5, <1>6, <1>7, <1>8, <1>9 DEF IInv

\* The id allocated is not below the ordinal read, and the new ordinal is above
\* it and all the sessions read.
LEMMA ReadTargetsAndMutateIInv ==
  ASSUME IInv, NEW p \in Processes, ReadTargetsAndMutate(p)
  PROVE  IInv'
<1> DEFINE id == Allocated(local[p].next, local[p].sessions)
<1>1. id \in Nat /\ id >= local[p].next
  <2>1. /\ local[p].next \in Nat /\ local[p].sessions \in SUBSET SessionRecords
        /\ IsFiniteSet(local[p].sessions)
    BY DEF IInv, TypeOK, Local, SetsAreFinite
  <2> QED
    BY <2>1, AllocatedIsFree
<1> HIDE DEF id
<1>2. /\ local' = [local EXCEPT ![p] =
           IF local[p].kind = "session"
           THEN [local[p] EXCEPT !.id = id, !.next = id + 1, !.targets = targets,
                                 !.sessions = @ \cup {[id |-> id, by |-> p]}]
           ELSE [local[p] EXCEPT !.targets = targets \cup {p}]]
      /\ pc[p] = "read_targets" /\ pc' = [pc EXCEPT ![p] = "lock"]
      /\ UNCHANGED <<meta, sessions, targets, lock, attempt, stolen>>
  BY DEF ReadTargetsAndMutate, GoTo, files, id
<1>3. local'[p] \in Local
  <2>1. local[p] \in Local /\ local \in [Processes -> Local]
    BY DEF IInv, TypeOK
  <2>2. CASE local[p].kind = "session"
    <3>1. [id |-> id, by |-> p] \in SessionRecords
      BY <1>1 DEF SessionRecords
    <3>2. targets \subseteq Processes /\ id + 1 \in Nat \ {0}
      BY <1>1 DEF IInv, TypeOK
    <3> QED
      BY <1>1, <1>2, <2>1, <2>2, <3>1, <3>2 DEF Local
  <2>3. CASE local[p].kind # "session"
    BY <1>2, <2>1, <2>3 DEF IInv, TypeOK, Local
  <2> QED
    BY <2>2, <2>3
<1>4. TypeOK'
  BY <1>2, <1>3 DEF IInv, TypeOK
<1>5. IsFiniteSet(local'[p].sessions)
  <2>1. IsFiniteSet(local[p].sessions)
    BY DEF IInv, SetsAreFinite
  <2>2. IsFiniteSet(local[p].sessions \cup {[id |-> id, by |-> p]})
    BY <2>1, FS_AddElement
  <2> QED
    BY <1>2, <2>1, <2>2 DEF IInv, TypeOK, Local
<1>6. SetsAreFinite'
  BY <1>2, <1>5 DEF IInv, TypeOK, SetsAreFinite
<1>7. OneWriter' /\ OrdinalsCoverIds'
  BY OwnStepKeepsFiles DEF ReadTargetsAndMutate, Critical
<1>8. ConflictsAreCommits'
  BY <1>2 DEF IInv, TypeOK, ConflictsAreCommits
<1>9. /\ local'[p].base = local[p].base /\ local'[p].kind = local[p].kind
      /\ local'[p].next >= local[p].next
      /\ Below(local[p].sessions, local[p].next) => Below(local'[p].sessions, local'[p].next)
      /\ local'[p].kind = "session" =>
           local'[p].id >= local[p].next /\ local'[p].id < local'[p].next
  BY <1>1, <1>2 DEF IInv, TypeOK, Local, SessionRecords, Below
<1>10. ReadsAreFresh'
  BY <1>2, <1>4, <1>9 DEF IInv, TypeOK, Local, ReadsAreFresh, Prepared, Below
<1>11. BasesAreOld'
  BY <1>2, <1>9 DEF IInv, TypeOK, BasesAreOld, Busy, Ended, Below
<1>12. IdsAreTaken'
  BY <1>2 DEF IInv, TypeOK, IdsAreTaken, Took, Committed
<1>13. TakenIdsDiffer'
  BY <1>2 DEF IInv, TypeOK, TakenIdsDiffer, Took, Committed
<1>14. AttemptsArePaid'
  BY <1>2, <1>9 DEF IInv, TypeOK, AttemptsArePaid, Busy, Ended
<1> QED
  BY <1>4, <1>6, <1>7, <1>8, <1>10, <1>11, <1>12, <1>13, <1>14 DEF IInv

-----------------------------------------------------------------------------
(* Steps that write.  Only the owner of the lock takes one. *)

\* The meta shard gets the next revision and an ordinal above all ids: what the
\* others read since is out of date, and shows it.
LEMMA WriteMetaIInv ==
  ASSUME IInv, NEW p \in Processes, WriteMeta(p)
  PROVE  IInv'
<1>1. /\ pc[p] = "write_meta" /\ pc' = [pc EXCEPT ![p] = "write_sessions"]
      /\ meta' = [revision |-> local[p].base + 1, next |-> local[p].next]
      /\ UNCHANGED <<sessions, targets, lock, attempt, local, stolen>>
  BY DEF WriteMeta, GoTo
<1>2. meta' \in [revision : Nat, next : Nat \ {0}]
  BY <1>1 DEF IInv, TypeOK, Local
<1>3. TypeOK'
  BY <1>1, <1>2 DEF IInv, TypeOK, Critical
<1>4. SetsAreFinite'
  BY <1>1 DEF IInv, SetsAreFinite
<1>5. OneWriter'
  BY <1>1 DEF IInv, TypeOK, OneWriter, Critical
<1>6. ASSUME ~stolen
      PROVE  /\ meta'.revision = meta.revision + 1 /\ meta'.next >= meta.next
             /\ meta'.next = local[p].next /\ local[p].base = meta.revision
             /\ Below(local[p].sessions, meta'.next)
             /\ local[p].kind = "session" =>
                  local[p].id >= meta.next /\ local[p].id < meta'.next
             /\ \A q \in Processes \ {p} : pc[q] \notin Critical
  BY <1>1, <1>6 DEF IInv, TypeOK, Local, OneWriter, Critical, BasesAreOld,
                    ReadsAreFresh, Prepared
<1>7. meta \in [revision : Nat, next : Nat \ {0}] /\ local \in [Processes -> Local]
  BY DEF IInv, TypeOK
<1>8. OrdinalsCoverIds'
  BY <1>1, <1>2, <1>6, <1>7 DEF IInv, TypeOK, OrdinalsCoverIds, SessionRecords
<1>9. ConflictsAreCommits'
  BY <1>1, <1>2, <1>6, <1>7 DEF IInv, TypeOK, ConflictsAreCommits
<1>10. BasesAreOld'
  BY <1>1, <1>2, <1>6, <1>7 DEF IInv, TypeOK, Local, BasesAreOld, Busy, Below, Critical
<1>11. ReadsAreFresh'
  BY <1>1, <1>2, <1>6, <1>7
     DEF IInv, TypeOK, Local, ReadsAreFresh, BasesAreOld, Busy, Ended, Prepared
<1>12. IdsAreTaken'
  BY <1>1, <1>2, <1>6, <1>7 DEF IInv, TypeOK, Local, IdsAreTaken, Took, Committed
<1>13. TakenIdsDiffer'
  BY <1>1, <1>6, <1>7 DEF IInv, TypeOK, Local, TakenIdsDiffer, IdsAreTaken, Took, Committed
<1>14. AttemptsArePaid'
  BY <1>1 DEF IInv, TypeOK, AttemptsArePaid, Busy, Ended
<1> QED
  BY <1>3, <1>4, <1>5, <1>8, <1>9, <1>10, <1>11, <1>12, <1>13, <1>14 DEF IInv

\* The sessions written are below the ordinal p wrote before.
LEMMA WriteSessionsIInv ==
  ASSUME IInv, NEW p \in Processes, WriteSessions(p)
  PROVE  IInv'
<1>1. /\ pc[p] = "write_sessions" /\ pc' = [pc EXCEPT ![p] = "write_targets"]
      /\ sessions' = local[p].sessions
      /\ UNCHANGED <<meta, targets, lock, attempt, local, stolen>>
  BY DEF WriteSessions, GoTo
<1>2. TypeOK'
  BY <1>1 DEF IInv, TypeOK, Local, Critical
<1>3. SetsAreFinite'
  BY <1>1 DEF IInv, SetsAreFinite
<1>4. OneWriter'
  BY <1>1 DEF IInv, TypeOK, OneWriter, Critical
<1>5. OrdinalsCoverIds'
  BY <1>1 DEF IInv, OrdinalsCoverIds, BasesAreOld, Below
<1>6. ConflictsAreCommits'
  BY <1>1 DEF IInv, TypeOK, ConflictsAreCommits
<1>7. ReadsAreFresh'
  BY <1>1 DEF IInv, TypeOK, ReadsAreFresh, Prepared
<1>8. BasesAreOld'
  BY <1>1 DEF IInv, TypeOK, BasesAreOld, Busy, Ended
<1>9. IdsAreTaken'
  BY <1>1 DEF IInv, TypeOK, IdsAreTaken, Took, Committed
<1>10. TakenIdsDiffer'
  BY <1>1 DEF IInv, TypeOK, TakenIdsDiffer, Took, Committed
<1>11. AttemptsArePaid'
  BY <1>1 DEF IInv, TypeOK, AttemptsArePaid, Busy, Ended
<1> QED
  BY <1>2, <1>3, <1>4, <1>5, <1>6, <1>7, <1>8, <1>9, <1>10, <1>11 DEF IInv

\* The targets shard has no part in ids and revisions.
LEMMA WriteTargetsIInv ==
  ASSUME IInv, NEW p \in Processes, WriteTargets(p)
  PROVE  IInv'
<1>1. /\ pc[p] = "write_targets" /\ pc' = [pc EXCEPT ![p] = "unlock"]
      /\ targets' = local[p].targets
      /\ UNCHANGED <<meta, sessions, lock, attempt, local, stolen>>
  BY DEF WriteTargets, GoTo
<1>2. TypeOK'
  BY <1>1 DEF IInv, TypeOK, Local, Critical
<1>3. SetsAreFinite'
  BY <1>1 DEF IInv, SetsAreFinite
<1>4. OneWriter'
  BY <1>1 DEF IInv, TypeOK, OneWriter, Critical
<1>5. OrdinalsCoverIds'
  BY <1>1 DEF IInv, OrdinalsCoverIds
<1>6. ConflictsAreCommits'
  BY <1>1 DEF IInv, TypeOK, ConflictsAreCommits
<1>7. ReadsAreFresh'
  BY <1>1 DEF IInv, TypeOK, ReadsAreFresh, Prepared
<1>8. BasesAreOld'
  BY <1>1 DEF IInv, TypeOK, BasesAreOld, Busy, Ended
<1>9. IdsAreTaken'
  BY <1>1 DEF IInv, TypeOK, IdsAreTaken, Took, Committed
<1>10. TakenIdsDiffer'
  BY <1>1 DEF IInv, TypeOK, TakenIdsDiffer, Took, Committed
<1>11. AttemptsArePaid'
  BY <1>1 DEF IInv, TypeOK, AttemptsArePaid, Busy, Ended
<1> QED
  BY <1>2, <1>3, <1>4, <1>5, <1>6, <1>7, <1>8, <1>9, <1>10, <1>11 DEF IInv

-----------------------------------------------------------------------------
(* The invariant holds of every behaviour. *)

\* The empty state directory satisfies the invariant.
LEMMA InitIInv == Init => IInv
<1> SUFFICES ASSUME Init PROVE IInv
  OBVIOUS
<1>1. PICK kind \in [Processes -> Kinds] :
        local = [p \in Processes |->
                   [kind |-> kind[p], base |-> 0, next |-> 1, id |-> 0,
                    sessions |-> {}, targets |-> {}]]
  BY DEF Init
<1>2. TypeOK
  <2>1. \A p \in Processes :
          [kind |-> kind[p], base |-> 0, next |-> 1, id |-> 0,
           sessions |-> {}, targets |-> {}] \in Local
    BY <1>1 DEF Local
  <2>2. local \in [Processes -> Local]
    BY <1>1, <2>1
  <2>3. attempt \in [Processes -> 0..MaxAttempts]
    BY LimitsAssumption DEF Init
  <2>4. meta \in [revision : Nat, next : Nat \ {0}]
    BY DEF Init
  <2>5. /\ sessions \subseteq SessionRecords /\ targets \subseteq Processes
        /\ lock = None /\ stolen \in BOOLEAN
    BY DEF Init
  <2>6. pc \in [Processes -> Ended \cup Critical \cup
               {"begin", "read_meta", "read_sessions", "read_targets", "lock",
                "unlink"}]
    BY DEF Init
  <2> QED
    BY <2>2, <2>3, <2>4, <2>5, <2>6 DEF TypeOK
<1>3. SetsAreFinite
  BY <1>1, FS_EmptySet DEF Init, SetsAreFinite
<1>4. \A p \in Processes : pc[p] = "begin" /\ attempt[p] = 0
  BY DEF Init
<1>5. OneWriter /\ OrdinalsCoverIds /\ ConflictsAreCommits
  BY <1>4 DEF Init, OneWriter, Critical, OrdinalsCoverIds, ConflictsAreCommits
<1>6. ReadsAreFresh /\ BasesAreOld /\ AttemptsArePaid
  BY <1>4 DEF ReadsAreFresh, BasesAreOld, AttemptsArePaid, Prepared, Busy
<1>7. IdsAreTaken /\ TakenIdsDiffer
  BY <1>4 DEF IdsAreTaken, TakenIdsDiffer, Took, Committed
<1> QED
  BY <1>2, <1>3, <1>5, <1>6, <1>7 DEF IInv

\* Every step preserves the invariant.
LEMMA NextIInv == IInv /\ [Next]_vars => IInv'
<1> SUFFICES ASSUME IInv, [Next]_vars PROVE IInv'
  OBVIOUS
<1>1. ASSUME NEW p \in Processes, Read(p)
      PROVE  IInv'
  BY <1>1, ReadRevisionIInv, ExhaustAttemptsIInv, ReadMetaIInv, ReadSessionsIInv,
     ReadTargetsAndMutateIInv DEF Read
<1>2. ASSUME NEW p \in Processes, Lock(p)
      PROVE  IInv'
  BY <1>2, CreateLockIInv, NameLockIInv, InspectStaleIInv, UnlinkStaleIInv,
     LockTimeoutIInv, UnlockIInv DEF Lock
<1>3. ASSUME NEW p \in Processes, Write(p)
      PROVE  IInv'
  BY <1>3, CheckRevisionIInv, WriteMetaIInv, WriteSessionsIInv, WriteTargetsIInv
     DEF Write
<1>4. ASSUME NEW p \in Processes, Crash(p)
      PROVE  IInv'
  BY <1>4, CrashIInv
<1>5. CASE UNCHANGED vars
  BY <1>5 DEF vars, files, IInv, TypeOK, SetsAreFinite, OneWriter, OrdinalsCoverIds,
     ConflictsAreCommits, ReadsAreFresh, BasesAreOld, IdsAreTaken, TakenIdsDiffer,
     AttemptsArePaid, Busy, Took, Below
<1> QED
  BY <1>1, <1>2, <1>3, <1>4, <1>5 DEF Next

\* The inductive invariant holds in every state the store reaches.
THEOREM Invariance == Spec => []IInv
  BY InitIInv, NextIInv, PTL DEF Spec

\* Types, and the budget of attempts of updateState.
THEOREM TypeCorrect == Spec => []TypeOK
<1>1. IInv => TypeOK
  BY DEF IInv
<1> QED
  BY <1>1, Invariance, PTL

\* state.lock excludes, as long as no stale lock was cleared twice: whatever
\* else any number of processes do, wherever they crash, and whoever waits.
THEOREM LockExcludes == Spec => []OneWriter
<1>1. IInv => OneWriter
  BY DEF IInv
<1> QED
  BY <1>1, Invariance, PTL

\* allocateSessionId gives each successful update an id of its own.
THEOREM IdsUnique == Spec => []IdsAreUnique
<1>1. IInv => IdsAreUnique
  BY DEF IInv, IdsAreUnique, TakenIdsDiffer, Took, Committed
<1> QED
  BY <1>1, Invariance, PTL

\* A crash between the shards leaves no session above the ordinal on disk.
THEOREM OrdinalsCover == Spec => []OrdinalsCoverIds
<1>1. IInv => OrdinalsCoverIds
  BY DEF IInv
<1> QED
  BY <1>1, Invariance, PTL

\* Optimistic retries are only ever spent on other processes' commits.
THEOREM ConflictsCommit == Spec => []ConflictsAreCommits
<1>1. IInv => ConflictsAreCommits
  BY DEF IInv
<1> QED
  BY <1>1, Invariance, PTL

\* A commit raises the revision by exactly one.
LEMMA CommitRaises ==
  ASSUME IInv, ~stolen, NEW p \in Processes, WriteMeta(p)
  PROVE  meta'.revision = meta.revision + 1
BY DEF IInv, TypeOK, Local, BasesAreOld, WriteMeta

\* Equal revisions mean that nobody committed in between (no ABA).
THEOREM RevisionsRise == Spec => RevisionsAdvance
<1>1. IInv /\ [Next]_vars =>
        [stolen \/ meta' = meta \/ meta'.revision = meta.revision + 1]_vars
  <2> SUFFICES ASSUME IInv, ~stolen, Next
               PROVE  meta' = meta \/ meta'.revision = meta.revision + 1
    OBVIOUS
  <2>1. PICK p \in Processes : Read(p) \/ Lock(p) \/ Write(p) \/ Crash(p)
    BY DEF Next
  <2>2. CASE WriteMeta(p)
    BY <2>2, CommitRaises
  <2>3. CASE Read(p) \/ Lock(p) \/ Crash(p)
    BY <2>3 DEF Read, ReadRevision, ExhaustAttempts, ReadMeta, ReadSessions,
       ReadTargetsAndMutate, Lock, CreateLock, NameLock, InspectStale, UnlinkStale,
       LockTimeout, Unlock, Crash, files
  <2>4. CASE Write(p) /\ ~WriteMeta(p)
    BY <2>4 DEF Write, CheckRevision, WriteSessions, WriteTargets, files
  <2> QED
    BY <2>1, <2>2, <2>3, <2>4
<1> QED
  BY <1>1, Invariance, PTL DEF Spec, RevisionsAdvance

=============================================================================
