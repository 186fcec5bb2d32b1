------------------------ MODULE ProfileSessionProofs ---------------------------
(****************************************************************************)
(* Theorems about the profile lock and the profile's Chrome, for every set  *)
(* of processes, of modes and any number of Chromes.                        *)
(****************************************************************************)
EXTENDS ProfileSession, TLAPS

HaveEnded == {"dead", "done", "failed"}

\* whoever has created the lock file and not removed it is its owner
HolderOwns ==
  \A p \in Procs : user[p].at \in Holding \cup {"write"} => lock.owner = p

\* a process is only swept after it ended, and an ended process stays ended
JudgedAreGone ==
  \A p \in Procs : user[p].at \in {"sweep", "clearSweep"} =>
    user[p].judged \in Procs /\ user[user[p].judged].at \in HaveEnded

\* what a holder read is still so
ProbesSeeMeta ==
  \A p \in Procs : user[p].at = "probe" => user[p].seen = meta

StartersClearedMeta ==
  \A p \in Procs : user[p].at \in {"start", "wait", "record"} => meta = NoChrome

StartedIsLast ==
  \A p \in Procs : user[p].at \in {"wait", "record"} =>
    /\ user[p].started \in Chromes
    /\ \A c \in Chromes : c > user[p].started => chrome[c].life = "unborn"

BornInOrder ==
  \A c, d \in Chromes : c < d /\ chrome[c].life = "unborn" => chrome[d].life = "unborn"

MetaIsLast ==
  meta # NoChrome => \A c \in Chromes : c > meta => chrome[c].life = "unborn"

\* Unless a lock was seized: the first two make the lock exclusive, the others
\* say what the exclusive holder may count on between two of its steps.
LockPart == ~seized => HolderOwns /\ JudgedAreGone

ChromePart ==
  ~seized => ProbesSeeMeta /\ StartersClearedMeta /\ StartedIsLast /\ BornInOrder /\ MetaIsLast

ProfileInv == ProfileTypeOK /\ LockPart /\ ChromePart

-----------------------------------------------------------------------------
(* Types                                                                    *)

LEMMA MoveKeepsTypes ==
  ASSUME user \in [Procs -> User], NEW p \in Procs, NEW at \in Places, Move(p, at)
  PROVE  user' \in [Procs -> User]
<1>1. [user[p] EXCEPT !.at = at] \in User
  BY DEF User
<1> QED
  BY <1>1 DEF Move

LEMMA FreshLocks ==
  /\ NoLock \in Lock
  /\ \A p \in Procs : [owner |-> p, written |-> FALSE] \in Lock
BY DEF NoLock, Lock

LEMMA ChromeLifeTypes ==
  ASSUME NEW c \in Chromes, NEW life \in {"unborn", "hung", "up", "closing", "dead"},
         chrome \in [Chromes -> [life : {"unborn", "hung", "up", "closing", "dead"},
                                 mode : Modes]]
  PROVE  [chrome EXCEPT ![c].life = life] \in
           [Chromes -> [life : {"unborn", "hung", "up", "closing", "dead"}, mode : Modes]]
OBVIOUS

LEMMA InitProfileInv ==
  ASSUME ProfileInit
  PROVE  ProfileInv
<1>1. PICK mode \in Modes :
       /\ chrome = [c \in Chromes |-> [life |-> "unborn", mode |-> mode]]
       /\ user = [p \in Procs |-> [at |-> "off", mode |-> mode, judged |-> Nobody,
                                   seen |-> NoChrome, started |-> NoChrome]]
  BY DEF ProfileInit
<1>2. ProfileTypeOK
  <2>1. user \in [Procs -> User]
    BY <1>1 DEF User, Places
  <2>2. lock \in Lock
    BY DEF ProfileInit, Lock, NoLock
  <2>3. chrome \in [Chromes -> [life : {"unborn", "hung", "up", "closing", "dead"},
                                mode : Modes]]
    BY <1>1
  <2> QED
    BY <2>1, <2>2, <2>3 DEF ProfileInit, ProfileTypeOK
<1>3. LockPart
  BY <1>1 DEF LockPart, HolderOwns, JudgedAreGone, Holding
<1>4. ChromePart
  <2>1. meta = NoChrome
    BY DEF ProfileInit
  <2> QED
    BY <1>1, <2>1 DEF ChromePart, ProbesSeeMeta, StartersClearedMeta, StartedIsLast,
      BornInOrder, MetaIsLast
<1> QED
  BY <1>2, <1>3, <1>4 DEF ProfileInv

\* Every step of a process keeps the types.
LEMMA StepKeepsTypes ==
  ASSUME ProfileTypeOK, NEW p \in Procs, ProfileStep(p)
  PROVE  ProfileTypeOK'
<1> USE DEF ProfileTypeOK
<1>u. user \in [Procs -> User] /\ user[p] \in User
  OBVIOUS
<1>1. ASSUME NEW mode \in Modes, Open(p, mode)
      PROVE  ProfileTypeOK'
  <2>1. [user[p] EXCEPT !.at = "try", !.mode = mode] \in User
    BY <1>u DEF User, Places
  <2>2. user' = [user EXCEPT ![p] = [user[p] EXCEPT !.at = "try", !.mode = mode]]
    BY <1>1, <1>u DEF Open
  <2> QED
    BY <1>1, <2>1, <2>2 DEF Open
<1>2. CASE TryAcquireLock(p)
  <2>1. PICK at \in {"write", "look"} : Move(p, at)
    BY <1>2 DEF TryAcquireLock
  <2>2. user' \in [Procs -> User]
    BY <1>u, <2>1, MoveKeepsTypes DEF Places
  <2>3. lock' \in Lock
    BY <1>2, FreshLocks DEF TryAcquireLock
  <2>4. old' \in BOOLEAN
    BY <1>2 DEF TryAcquireLock
  <2> QED
    BY <1>2, <2>2, <2>3, <2>4 DEF TryAcquireLock
<1>3. CASE WriteLock(p)
  <2>1. user' \in [Procs -> User]
    BY <1>u, <1>3, MoveKeepsTypes DEF WriteLock, Places, Holding
  <2>2. lock' \in Lock
    BY <1>3 DEF WriteLock, Lock
  <2> QED
    BY <1>3, <2>1, <2>2 DEF WriteLock
<1>4. CASE Look(p) \/ ClearLook(p)
  <2>1. PICK at \in {"sweep", "try", "clearSweep", "done"}, q \in Procs \cup {Nobody} :
          user' = [user EXCEPT ![p].at = at, ![p].judged = q]
    BY <1>4 DEF Look, ClearLook, Judge, Stale, Lock
  <2>2. [user[p] EXCEPT !.at = at, !.judged = q] \in User
    BY <1>u DEF User, Places
  <2>3. user' = [user EXCEPT ![p] = [user[p] EXCEPT !.at = at, !.judged = q]]
    BY <1>u, <2>1
  <2> QED
    BY <1>4, <2>2, <2>3 DEF Look, ClearLook
<1>5. CASE Sweep(p)
  <2>1. PICK at \in {"try", "done"} :
          user' = [user EXCEPT ![p].judged = Nobody, ![p].at = at]
    BY <1>5 DEF Sweep
  <2>2. [user[p] EXCEPT !.judged = Nobody, !.at = at] \in User
    BY <1>u DEF User, Places
  <2>3. user' = [user EXCEPT ![p] = [user[p] EXCEPT !.judged = Nobody, !.at = at]]
    BY <1>u, <2>1
  <2>4. lock' \in Lock /\ seized' \in BOOLEAN
    BY <1>5 DEF Sweep, RemoveLock, Lock, NoLock
  <2> QED
    BY <1>5, <2>2, <2>3, <2>4 DEF Sweep
<1>6. CASE LockTimesOut(p) \/ Clear(p) \/ Reuse(p) \/ Starts(p) \/ Dies(p)
  <2>1. PICK at \in {"failed", "done", "clear", "release", "record", "dead"} : Move(p, at)
    BY <1>6 DEF LockTimesOut, Clear, Reuse, Starts, Dies
  <2>2. user' \in [Procs -> User]
    BY <1>u, <2>1, MoveKeepsTypes DEF Places, Holding
  <2> QED
    BY <1>6, <2>2 DEF LockTimesOut, Clear, Reuse, Starts, Dies
<1>7. CASE ClearForced(p) \/ Release(p)
  <2>1. user' \in [Procs -> User]
    BY <1>7, <1>u, MoveKeepsTypes DEF ClearForced, Release, Places
  <2>2. lock' \in Lock
    BY <1>7, FreshLocks DEF ClearForced, Release, RemoveLock
  <2>3. seized' \in BOOLEAN
    BY <1>7 DEF ClearForced, Release, RemoveLock
  <2> QED
    BY <1>7, <2>1, <2>2, <2>3 DEF ClearForced, Release
<1>8. CASE ReadMeta(p)
  <2>1. [user[p] EXCEPT !.at = "probe", !.seen = meta] \in User
    BY <1>u DEF User, Places, Holding
  <2>2. user' = [user EXCEPT ![p] = [user[p] EXCEPT !.at = "probe", !.seen = meta]]
    BY <1>8, <1>u DEF ReadMeta
  <2> QED
    BY <1>8, <2>1, <2>2 DEF ReadMeta
<1>9. CASE Replace(p)
  <2>1. user' \in [Procs -> User]
    BY <1>9, <1>u, MoveKeepsTypes DEF Replace, Places, Holding
  <2>2. user[p].seen # NoChrome => user[p].seen \in Chromes
    BY <1>u DEF User
  <2>3. chrome' \in [Chromes -> [life : {"unborn", "hung", "up", "closing", "dead"},
                                 mode : Modes]]
    BY <1>9, <2>2, ChromeLifeTypes DEF Replace, Answers
  <2>4. meta' \in Chromes \cup {NoChrome}
    BY <1>9 DEF Replace
  <2> QED
    BY <1>9, <2>1, <2>3, <2>4 DEF Replace
<1>10. CASE Start(p)
  <2>1. PICK c \in Chromes :
          /\ chrome' = [chrome EXCEPT ![c] = [life |-> "hung", mode |-> user[p].mode]]
          /\ user' = [user EXCEPT ![p].at = "wait", ![p].started = c]
    BY <1>10 DEF Start
  <2>2. [user[p] EXCEPT !.at = "wait", !.started = c] \in User
    BY <1>u DEF User, Places, Holding
  <2>3. user' = [user EXCEPT ![p] = [user[p] EXCEPT !.at = "wait", !.started = c]]
    BY <1>u, <2>1
  <2>4. [life |-> "hung", mode |-> user[p].mode] \in
          [life : {"unborn", "hung", "up", "closing", "dead"}, mode : Modes]
    BY <1>u DEF User
  <2>5. chrome' \in [Chromes -> [life : {"unborn", "hung", "up", "closing", "dead"},
                                 mode : Modes]]
    BY <2>1, <2>4
  <2> QED
    BY <1>10, <2>2, <2>3, <2>5 DEF Start
<1>11. CASE StartFails(p) \/ WriteMeta(p) \/ Conflicts(p)
  <2>1. user' = [user EXCEPT ![p].at = "release", ![p].started = NoChrome]
    BY <1>11 DEF StartFails, WriteMeta, Conflicts
  <2>2. [user[p] EXCEPT !.at = "release", !.started = NoChrome] \in User
    BY <1>u DEF User, Places, Holding
  <2>3. user' = [user EXCEPT ![p] = [user[p] EXCEPT !.at = "release", !.started = NoChrome]]
    BY <1>u, <2>1
  <2>4. user[p].started \in Chromes \cup {NoChrome}
    BY <1>u DEF User
  <2>5. chrome' \in [Chromes -> [life : {"unborn", "hung", "up", "closing", "dead"},
                                 mode : Modes]]
    <3>1. CASE StartFails(p)
      <4>1. CASE Lives(user[p].started)
        <5>1. user[p].started \in Chromes
          BY <2>4, <4>1 DEF Lives
        <5> QED
          BY <3>1, <4>1, <5>1, ChromeLifeTypes DEF StartFails
      <4> QED
        BY <3>1, <4>1 DEF StartFails
    <3> QED
      BY <1>11, <3>1 DEF WriteMeta, Conflicts
  <2>6. meta' \in Chromes \cup {NoChrome}
    BY <1>11, <2>4 DEF StartFails, WriteMeta, Conflicts
  <2> QED
    BY <1>11, <2>2, <2>3, <2>5, <2>6 DEF StartFails, WriteMeta, Conflicts
<1> QED
  BY <1>1, <1>2, <1>3, <1>4, <1>5, <1>6, <1>7, <1>8, <1>9, <1>10, <1>11 DEF ProfileStep


LEMMA NextKeepsTypes ==
  ASSUME ProfileTypeOK, ProfileNext
  PROVE  ProfileTypeOK'
<1>1. ASSUME NEW p \in Procs, ProfileStep(p)
      PROVE  ProfileTypeOK'
  BY <1>1, StepKeepsTypes
<1>2. CASE LockGrowsOld
  BY <1>2 DEF LockGrowsOld, ProfileTypeOK
<1>3. ASSUME NEW c \in Chromes, ChromeChanges(c)
      PROVE  ProfileTypeOK'
  <2>1. PICK life \in {"up", "hung", "dead"} : chrome' = [chrome EXCEPT ![c].life = life]
    BY <1>3 DEF ChromeChanges
  <2>2. chrome' \in [Chromes -> [life : {"unborn", "hung", "up", "closing", "dead"},
                                 mode : Modes]]
    BY <2>1, ChromeLifeTypes DEF ProfileTypeOK
  <2> QED
    BY <1>3, <2>2 DEF ChromeChanges, ProfileTypeOK
<1> QED
  BY <1>1, <1>2, <1>3 DEF ProfileNext

-----------------------------------------------------------------------------
(* The lock                                                                 *)

\* What the lemmas about steps use of the types.
LEMMA UserFields ==
  ASSUME ProfileTypeOK
  PROVE  \A p \in Procs :
           /\ user[p].at \in Places /\ user[p].judged \in Procs \cup {Nobody}
           /\ user[p].seen \in Chromes \cup {NoChrome}
           /\ user[p].started \in Chromes \cup {NoChrome}
BY DEF ProfileTypeOK, User

\* A step of a process that leaves the lock alone and neither ends, nor begins to
\* hold or to sweep.
LEMMA LockUntouched ==
  ASSUME ProfileTypeOK, LockPart, NEW p \in Procs, UNCHANGED <<lock, seized>>,
         \A q \in Procs \ {p} : user'[q] = user[q],
         user'[p].at \in Holding => user[p].at \in Holding \cup {"write"},
         user'[p].at \notin {"write", "sweep", "clearSweep"},
         user[p].at \notin HaveEnded
  PROVE  LockPart'
<1> SUFFICES ASSUME ~seized
             PROVE  HolderOwns' /\ JudgedAreGone'
  BY DEF LockPart
<1>1. HolderOwns'
  BY DEF LockPart, HolderOwns, Holding
<1>2. JudgedAreGone'
  BY DEF LockPart, JudgedAreGone
<1> QED
  BY <1>1, <1>2

\* The other steps of a process.
LEMMA StepKeepsLock ==
  ASSUME ProfileTypeOK, LockPart, NEW p \in Procs, ProfileStep(p)
  PROVE  LockPart'
<1> USE UserFields, ProfileAssumption
<1>u. user \in [Procs -> User]
  BY DEF ProfileTypeOK
<1>1. CASE TryAcquireLock(p)
  <2> SUFFICES ASSUME ~seized
               PROVE  HolderOwns' /\ JudgedAreGone'
    BY <1>1 DEF LockPart, TryAcquireLock
  <2>1. PICK at \in {"write", "look"} :
          /\ user' = [user EXCEPT ![p].at = at]
          /\ at = "write" => lock = NoLock /\ lock'.owner = p
          /\ at = "look" => lock' = lock
    BY <1>1 DEF TryAcquireLock, Move
  \* with no lock file nobody holds
  <2>2. HolderOwns'
    BY <1>u, <2>1 DEF LockPart, HolderOwns, Holding, NoLock
  <2>3. user[p].at \notin HaveEnded
    BY <1>1 DEF TryAcquireLock, HaveEnded
  <2>4. JudgedAreGone'
    BY <1>u, <2>1, <2>3 DEF LockPart, JudgedAreGone
  <2> QED
    BY <2>2, <2>4
<1>2. CASE WriteLock(p)
  <2> SUFFICES ASSUME ~seized
               PROVE  HolderOwns' /\ JudgedAreGone'
    BY <1>2 DEF LockPart, WriteLock
  <2>1. lock'.owner = lock.owner
    BY <1>2 DEF WriteLock, ProfileTypeOK, Lock
  <2>2. HolderOwns'
    BY <1>2, <1>u, <2>1 DEF WriteLock, Move, LockPart, HolderOwns, Holding
  <2>3. JudgedAreGone'
    BY <1>2, <1>u DEF WriteLock, Move, LockPart, JudgedAreGone, HaveEnded
  <2> QED
    BY <2>2, <2>3
<1>3. CASE Look(p) \/ ClearLook(p)
  <2> SUFFICES ASSUME ~seized
               PROVE  HolderOwns' /\ JudgedAreGone'
    BY <1>3 DEF LockPart, Look, ClearLook
  <2>1. PICK at \in {"sweep", "try", "clearSweep", "done"}, q \in Procs \cup {Nobody} :
          /\ user' = [user EXCEPT ![p].at = at, ![p].judged = q]
          /\ at \in {"sweep", "clearSweep"} => q \in Procs /\ user[q].at \in HaveEnded
    BY <1>3 DEF Look, ClearLook, Judge, Stale, HaveEnded, ProfileTypeOK, Lock
  <2>2. user[p].at \notin HaveEnded
    BY <1>3 DEF Look, ClearLook, HaveEnded
  <2>3. user'[p].at = at /\ user'[p].judged = q /\ \A r \in Procs \ {p} : user'[r] = user[r]
    BY <1>u, <2>1 DEF User
  <2>4. HolderOwns'
    BY <1>3, <2>3 DEF LockPart, HolderOwns, Look, ClearLook, Holding
  <2>5. ASSUME NEW r \in Procs, user'[r].at \in {"sweep", "clearSweep"}
        PROVE  user'[r].judged \in Procs /\ user'[user'[r].judged].at \in HaveEnded
    <3>1. CASE r = p
      BY <2>1, <2>2, <2>3, <2>5, <3>1
    <3>2. CASE r # p
      BY <2>2, <2>3, <2>5, <3>2 DEF LockPart, JudgedAreGone
    <3> QED
      BY <3>1, <3>2
  <2> QED
    BY <2>4, <2>5 DEF JudgedAreGone
<1>4. CASE Sweep(p)
  <2> SUFFICES ASSUME ~seized'
               PROVE  HolderOwns' /\ JudgedAreGone'
    BY DEF LockPart
  <2>1. ~seized /\ (lock = NoLock \/ lock.owner = user[p].judged)
    BY <1>4 DEF Sweep, RemoveLock
  <2>2. user[user[p].judged].at \in HaveEnded /\ user[p].judged \in Procs
    BY <1>4, <2>1 DEF Sweep, LockPart, JudgedAreGone
  <2>3. PICK at \in {"try", "done"} :
          user' = [user EXCEPT ![p].judged = Nobody, ![p].at = at]
    BY <1>4 DEF Sweep
  <2>4. user'[p].at = at /\ \A r \in Procs \ {p} : user'[r] = user[r]
    BY <1>u, <2>3 DEF User
  \* the process that ended was the only one that could hold
  <2>5. \A r \in Procs : user[r].at \notin Holding \cup {"write"}
    BY <2>1, <2>2 DEF LockPart, HolderOwns, HaveEnded, Holding, NoLock
  <2>6. HolderOwns'
    BY <2>4, <2>5 DEF HolderOwns, Holding
  <2>7. JudgedAreGone'
    BY <1>4, <2>1, <2>4 DEF Sweep, LockPart, JudgedAreGone, HaveEnded
  <2> QED
    BY <2>6, <2>7
<1>5. CASE ClearForced(p)
  <2> SUFFICES ASSUME ~seized'
               PROVE  HolderOwns' /\ JudgedAreGone'
    BY DEF LockPart
  <2>1. ~seized /\ lock = NoLock /\ lock' = NoLock
    BY <1>5 DEF ClearForced, RemoveLock
  <2>2. HolderOwns'
    BY <1>5, <1>u, <2>1 DEF ClearForced, Move, LockPart, HolderOwns, Holding
  <2>3. JudgedAreGone'
    BY <1>5, <1>u, <2>1 DEF ClearForced, Move, LockPart, JudgedAreGone, HaveEnded
  <2> QED
    BY <2>2, <2>3
<1>6. CASE Release(p)
  <2> SUFFICES ASSUME ~seized
               PROVE  HolderOwns' /\ JudgedAreGone'
    BY <1>6 DEF LockPart, Release, RemoveLock
  <2>1. \A r \in Procs \ {p} : user[r].at \notin Holding \cup {"write"}
    BY <1>6 DEF Release, LockPart, HolderOwns, Holding
  <2>2. HolderOwns'
    BY <1>6, <1>u, <2>1 DEF Release, Move, HolderOwns, Holding
  <2>3. JudgedAreGone'
    BY <1>6, <1>u DEF Release, Move, LockPart, JudgedAreGone, HaveEnded
  <2> QED
    BY <2>2, <2>3
<1>7. ASSUME NEW mode \in Modes, Open(p, mode)
      PROVE  LockPart'
  BY <1>7, <1>u, LockUntouched DEF Open, HaveEnded, Holding, User
<1>8. CASE LockTimesOut(p) \/ Clear(p) \/ ReadMeta(p) \/ Reuse(p) \/ Replace(p) \/ Start(p)
           \/ StartFails(p) \/ Starts(p) \/ WriteMeta(p) \/ Conflicts(p) \/ Dies(p)
  <2>1. UNCHANGED <<lock, seized>>
    BY <1>8 DEF LockTimesOut, Clear, ReadMeta, Reuse, Replace, Start, StartFails, Starts,
      WriteMeta, Conflicts, Dies
  <2>2. \A q \in Procs \ {p} : user'[q] = user[q]
    BY <1>8, <1>u DEF LockTimesOut, Clear, ReadMeta, Reuse, Replace, Start, StartFails,
      Starts, WriteMeta, Conflicts, Dies, Move
  <2>3. user'[p].at \notin {"write", "sweep", "clearSweep"}
    BY <1>8, <1>u DEF LockTimesOut, Clear, ReadMeta, Reuse, Replace, Start, StartFails,
      Starts, WriteMeta, Conflicts, Dies, Move, User
  <2>4. user'[p].at \in Holding => user[p].at \in Holding
    BY <1>8, <1>u DEF LockTimesOut, Clear, ReadMeta, Reuse, Replace, Start, StartFails,
      Starts, WriteMeta, Conflicts, Dies, Move, User, Holding
  <2>5. user[p].at \notin HaveEnded
    BY <1>8 DEF LockTimesOut, Clear, ReadMeta, Reuse, Replace, Start, StartFails, Starts,
      WriteMeta, Conflicts, Dies, HaveEnded
  <2> QED
    BY <2>1, <2>2, <2>3, <2>4, <2>5, LockUntouched
<1> QED
  BY <1>1, <1>2, <1>3, <1>4, <1>5, <1>6, <1>7, <1>8 DEF ProfileStep


-----------------------------------------------------------------------------
(* The Chrome                                                               *)

\* While one process holds, no other does.
LEMMA OneHolder ==
  ASSUME LockPart, ~seized, NEW p \in Procs, user[p].at \in Holding
  PROVE  \A q \in Procs \ {p} : user[q].at \notin Holding
BY DEF LockPart, HolderOwns

\* A step of a process that neither touches Chromes or the meta file nor begins
\* to rely on them.
LEMMA ChromeUntouched ==
  ASSUME ChromePart, NEW p \in Procs, seized => seized',
         UNCHANGED <<meta, chrome>>,
         \A q \in Procs \ {p} : user'[q] = user[q],
         user'[p].at \notin {"probe", "start", "wait", "record"}
  PROVE  ChromePart'
<1> SUFFICES ASSUME ~seized
             PROVE  /\ ProbesSeeMeta' /\ StartersClearedMeta' /\ StartedIsLast'
                    /\ BornInOrder' /\ MetaIsLast'
  BY DEF ChromePart
<1>1. ProbesSeeMeta' /\ StartersClearedMeta'
  BY DEF ChromePart, ProbesSeeMeta, StartersClearedMeta
<1>2. StartedIsLast'
  BY DEF ChromePart, StartedIsLast
<1>3. BornInOrder' /\ MetaIsLast'
  BY DEF ChromePart, BornInOrder, MetaIsLast
<1> QED
  BY <1>1, <1>2, <1>3

LEMMA StepKeepsChrome ==
  ASSUME ProfileTypeOK, LockPart, ChromePart, NEW p \in Procs, ProfileStep(p)
  PROVE  ChromePart'
<1> USE UserFields, ProfileAssumption
<1>u. user \in [Procs -> User]
  BY DEF ProfileTypeOK
<1>c. Chromes \subseteq Nat /\ NoChrome \notin Chromes
  BY DEF Chromes, NoChrome
<1>l. chrome \in [Chromes -> [life : {"unborn", "hung", "up", "closing", "dead"},
                              mode : Modes]]
  BY DEF ProfileTypeOK
<1>1. ASSUME NEW mode \in Modes, Open(p, mode)
      PROVE  ChromePart'
  BY <1>1, <1>u, ChromeUntouched DEF Open, User
<1>2. CASE TryAcquireLock(p) \/ WriteLock(p) \/ Look(p) \/ ClearLook(p) \/ Sweep(p)
           \/ LockTimesOut(p) \/ Clear(p) \/ ClearForced(p) \/ Reuse(p) \/ Conflicts(p)
           \/ Release(p) \/ Dies(p)
  <2>1. UNCHANGED <<meta, chrome>>
    BY <1>2 DEF TryAcquireLock, WriteLock, Look, ClearLook, Sweep, LockTimesOut, Clear,
      ClearForced, Reuse, Conflicts, Release, Dies
  <2>2. seized => seized'
    BY <1>2 DEF TryAcquireLock, WriteLock, Look, ClearLook, Sweep, LockTimesOut, Clear,
      ClearForced, Reuse, Conflicts, Release, Dies, RemoveLock
  <2>3. \A q \in Procs \ {p} : user'[q] = user[q]
    BY <1>2, <1>u DEF TryAcquireLock, WriteLock, Look, ClearLook, Sweep, LockTimesOut,
      Clear, ClearForced, Reuse, Conflicts, Release, Dies, Move, Judge
  <2>4. user'[p].at \notin {"probe", "start", "wait", "record"}
    <3>1. CASE TryAcquireLock(p) \/ WriteLock(p)
      BY <1>u, <3>1 DEF TryAcquireLock, WriteLock, Move, User
    <3>2. CASE Look(p) \/ ClearLook(p)
      BY <1>u, <3>2 DEF Look, ClearLook, Judge, User
    <3>3. CASE Sweep(p)
      <4>1. PICK at \in {"try", "done"} :
              user' = [user EXCEPT ![p].judged = Nobody, ![p].at = at]
        BY <3>3 DEF Sweep
      <4> QED
        BY <1>u, <4>1 DEF User
    <3>4. CASE LockTimesOut(p) \/ Clear(p) \/ ClearForced(p) \/ Reuse(p)
               \/ Release(p) \/ Dies(p)
      <4>1. PICK at \in {"failed", "done", "clear", "release", "dead"} : Move(p, at)
        BY <3>4 DEF LockTimesOut, Clear, ClearForced, Reuse, Release, Dies
      <4> QED
        BY <1>u, <4>1 DEF Move, User
    <3>5. CASE Conflicts(p)
      BY <1>u, <3>5 DEF Conflicts, User
    <3> QED
      BY <1>2, <3>1, <3>2, <3>3, <3>4, <3>5
  <2> QED
    BY <2>1, <2>2, <2>3, <2>4, ChromeUntouched
\* the other steps are steps of a holder, and leave the lock alone
<1> DEFINE Rest == ProbesSeeMeta' /\ StartersClearedMeta' /\ StartedIsLast'
                     /\ BornInOrder' /\ MetaIsLast'
<1>3. CASE ReadMeta(p)
  <2> SUFFICES ASSUME ~seized PROVE Rest
    BY <1>3 DEF ReadMeta, ChromePart
  <2>1. /\ user'[p].at = "probe" /\ user'[p].seen = meta
        /\ \A q \in Procs \ {p} : user'[q] = user[q]
    BY <1>3, <1>u DEF ReadMeta, User
  <2>2. UNCHANGED <<meta, chrome>>
    BY <1>3 DEF ReadMeta
  <2>3. ProbesSeeMeta' /\ StartersClearedMeta'
    BY <2>1, <2>2 DEF ChromePart, ProbesSeeMeta, StartersClearedMeta
  <2>4. StartedIsLast'
    BY <2>1, <2>2 DEF ChromePart, StartedIsLast
  <2>5. BornInOrder' /\ MetaIsLast'
    BY <2>2 DEF ChromePart, BornInOrder, MetaIsLast
  <2> QED
    BY <2>3, <2>4, <2>5
<1>4. CASE Starts(p)
  <2> SUFFICES ASSUME ~seized PROVE Rest
    BY <1>4 DEF Starts, ChromePart
  <2>1. /\ user[p].at = "wait" /\ user'[p].at = "record"
        /\ user'[p].started = user[p].started
        /\ \A q \in Procs \ {p} : user'[q] = user[q]
    BY <1>4, <1>u DEF Starts, Move, User
  <2>2. UNCHANGED <<meta, chrome>>
    BY <1>4 DEF Starts
  <2>3. ProbesSeeMeta' /\ StartersClearedMeta'
    BY <2>1, <2>2 DEF ChromePart, ProbesSeeMeta, StartersClearedMeta
  <2>4. StartedIsLast'
    BY <2>1, <2>2 DEF ChromePart, StartedIsLast
  <2>5. BornInOrder' /\ MetaIsLast'
    BY <2>2 DEF ChromePart, BornInOrder, MetaIsLast
  <2> QED
    BY <2>3, <2>4, <2>5
<1>5. CASE Replace(p)
  <2> SUFFICES ASSUME ~seized PROVE Rest
    BY <1>5 DEF Replace, ChromePart
  <2>1. /\ user[p].at = "probe" /\ user'[p].at = "start"
        /\ \A q \in Procs \ {p} : user'[q] = user[q]
    BY <1>5, <1>u DEF Replace, Move, User
  <2>2. \A q \in Procs \ {p} : user'[q].at \notin Holding
    BY <2>1, OneHolder DEF Holding
  <2>3. meta' = NoChrome
    BY <1>5, <2>1 DEF Replace, ChromePart, ProbesSeeMeta
  <2>4. \A c \in Chromes : chrome'[c].life = "unborn" <=> chrome[c].life = "unborn"
    BY <1>5, <1>l DEF Replace, Answers
  <2>5. ProbesSeeMeta' /\ StartersClearedMeta' /\ StartedIsLast'
    BY <2>1, <2>2, <2>3 DEF ProbesSeeMeta, StartersClearedMeta, StartedIsLast, Holding
  <2>6. BornInOrder'
    BY <2>4 DEF ChromePart, BornInOrder
  <2>7. MetaIsLast'
    BY <2>3 DEF MetaIsLast
  <2> QED
    BY <2>5, <2>6, <2>7
<1>6. CASE Start(p)
  <2> SUFFICES ASSUME ~seized PROVE Rest
    BY <1>6 DEF Start, ChromePart
  <2>1. PICK c \in Chromes :
          /\ chrome[c].life = "unborn" /\ \A d \in 1..(c - 1) : chrome[d].life # "unborn"
          /\ chrome' = [chrome EXCEPT ![c] = [life |-> "hung", mode |-> user[p].mode]]
          /\ user' = [user EXCEPT ![p].at = "wait", ![p].started = c]
    BY <1>6 DEF Start
  <2>2. /\ user[p].at = "start" /\ user'[p].at = "wait" /\ user'[p].started = c
        /\ \A q \in Procs \ {p} : user'[q] = user[q]
    BY <1>6, <1>u, <2>1 DEF Start, User
  <2>3. \A q \in Procs \ {p} : user'[q].at \notin Holding
    BY <2>2, OneHolder DEF Holding
  <2>4. meta' = NoChrome
    BY <1>6, <2>2 DEF Start, ChromePart, StartersClearedMeta
  <2>5. ProbesSeeMeta' /\ StartersClearedMeta'
    BY <2>2, <2>3, <2>4 DEF ProbesSeeMeta, StartersClearedMeta, Holding
  <2>6. \A d \in Chromes : d > c => chrome'[d].life = "unborn"
    BY <1>c, <1>l, <2>1 DEF ChromePart, BornInOrder
  <2>7. StartedIsLast'
    BY <2>2, <2>3, <2>6 DEF StartedIsLast, Holding
  <2>8. BornInOrder'
    <3> SUFFICES ASSUME NEW a \in Chromes, NEW b \in Chromes, a < b,
                        chrome'[a].life = "unborn"
                 PROVE  chrome'[b].life = "unborn"
      BY DEF BornInOrder
    <3>1. a # c /\ chrome[a].life = "unborn"
      BY <1>l, <2>1
    <3>2. a \notin 1..(c - 1)
      BY <2>1, <3>1
    <3>3. a > c /\ b > c
      BY <1>c, <3>1, <3>2 DEF Chromes
    <3> QED
      BY <2>6, <3>3
  <2>9. MetaIsLast'
    BY <2>4 DEF MetaIsLast
  <2> QED
    BY <2>5, <2>7, <2>8, <2>9
<1>7. CASE StartFails(p)
  <2> SUFFICES ASSUME ~seized PROVE Rest
    BY <1>7 DEF StartFails, ChromePart
  <2>1. /\ user[p].at \in {"start", "wait"} /\ user'[p].at = "release"
        /\ \A q \in Procs \ {p} : user'[q] = user[q]
    BY <1>7, <1>u DEF StartFails, User
  <2>2. \A q \in Procs \ {p} : user'[q].at \notin Holding
    BY <2>1, OneHolder DEF Holding
  <2>3. \A c \in Chromes : chrome'[c].life = "unborn" <=> chrome[c].life = "unborn"
    BY <1>7, <1>l DEF StartFails, Lives
  <2>4. meta' = meta
    BY <1>7 DEF StartFails
  <2>5. ProbesSeeMeta' /\ StartersClearedMeta' /\ StartedIsLast'
    BY <2>1, <2>2 DEF ProbesSeeMeta, StartersClearedMeta, StartedIsLast, Holding
  <2>6. BornInOrder' /\ MetaIsLast'
    BY <2>3, <2>4 DEF ChromePart, BornInOrder, MetaIsLast
  <2> QED
    BY <2>5, <2>6
<1>8. CASE WriteMeta(p)
  <2> SUFFICES ASSUME ~seized PROVE Rest
    BY <1>8 DEF WriteMeta, ChromePart
  <2>1. /\ user[p].at = "record" /\ user'[p].at = "release"
        /\ \A q \in Procs \ {p} : user'[q] = user[q]
    BY <1>8, <1>u DEF WriteMeta, User
  <2>2. \A q \in Procs \ {p} : user'[q].at \notin Holding
    BY <2>1, OneHolder DEF Holding
  <2>3. meta' = user[p].started /\ chrome' = chrome
    BY <1>8 DEF WriteMeta
  <2>4. ProbesSeeMeta' /\ StartersClearedMeta' /\ StartedIsLast'
    BY <2>1, <2>2 DEF ProbesSeeMeta, StartersClearedMeta, StartedIsLast, Holding
  <2>5. BornInOrder'
    BY <2>3 DEF ChromePart, BornInOrder
  <2>6. MetaIsLast'
    BY <2>1, <2>3 DEF ChromePart, StartedIsLast, MetaIsLast
  <2> QED
    BY <2>4, <2>5, <2>6
<1> QED
  BY <1>1, <1>2, <1>3, <1>4, <1>5, <1>6, <1>7, <1>8 DEF ProfileStep

-----------------------------------------------------------------------------
(* The theorems                                                             *)

LEMMA NextKeepsProfileInv ==
  ASSUME ProfileInv, [ProfileNext]_profileVars
  PROVE  ProfileInv'
<1> USE DEF ProfileInv
<1>1. ASSUME NEW p \in Procs, ProfileStep(p)
      PROVE  LockPart' /\ ChromePart'
  BY <1>1, StepKeepsLock, StepKeepsChrome
<1>2. CASE LockGrowsOld
  <2>1. lock' = lock /\ UNCHANGED <<meta, chrome, user, seized>>
    BY <1>2 DEF LockGrowsOld
  <2>2. LockPart'
    BY <2>1 DEF LockPart, HolderOwns, JudgedAreGone
  <2>3. ChromePart'
    BY <2>1 DEF ChromePart, ProbesSeeMeta, StartersClearedMeta, StartedIsLast, BornInOrder,
      MetaIsLast
  <2> QED
    BY <1>2, <2>2, <2>3, NextKeepsTypes DEF ProfileNext
<1>3. ASSUME NEW c \in Chromes, ChromeChanges(c)
      PROVE  LockPart' /\ ChromePart'
  <2>1. UNCHANGED <<lock, old, meta, user, seized>>
    BY <1>3 DEF ChromeChanges
  <2>2. \A d \in Chromes : chrome'[d].life = "unborn" <=> chrome[d].life = "unborn"
    BY <1>3 DEF ChromeChanges, ProfileTypeOK
  <2>3. LockPart'
    BY <2>1 DEF LockPart, HolderOwns, JudgedAreGone
  <2>4. ChromePart'
    BY <2>1, <2>2 DEF ChromePart, ProbesSeeMeta, StartersClearedMeta, StartedIsLast,
      BornInOrder, MetaIsLast
  <2> QED
    BY <2>3, <2>4
<1>4. CASE UNCHANGED profileVars
  <2>1. ProfileTypeOK'
    BY <1>4 DEF profileVars, ProfileTypeOK
  <2>2. LockPart'
    BY <1>4 DEF profileVars, LockPart, HolderOwns, JudgedAreGone
  <2>3. ChromePart'
    BY <1>4 DEF profileVars, ChromePart, ProbesSeeMeta, StartersClearedMeta, StartedIsLast,
      BornInOrder, MetaIsLast
  <2> QED
    BY <2>1, <2>2, <2>3
<1> QED
  BY <1>1, <1>2, <1>3, <1>4, NextKeepsTypes DEF ProfileNext

\* The inductive invariant holds in every reachable state.
THEOREM ProfileInvariance == ProfileSpec => []ProfileInv
<1>1. ProfileInit => ProfileInv
  BY InitProfileInv
<1>2. ProfileInv /\ [ProfileNext]_profileVars => ProfileInv'
  BY NextKeepsProfileInv
<1> QED
  BY <1>1, <1>2, PTL DEF ProfileSpec

\* The lock file, the meta file, the Chromes and the processes are well typed.
THEOREM ProfileTypeCorrect == ProfileSpec => []ProfileTypeOK
<1>1. ProfileInv => ProfileTypeOK
  BY DEF ProfileInv
<1> QED
  BY <1>1, ProfileInvariance, PTL

\* Any number of processes, dying anywhere and of any slowness, work on a profile
\* one at a time until a lock is seized.
THEOREM ProfileLockExcludes == ProfileSpec => []HoldersAreExclusive
<1>1. ProfileInv => HoldersAreExclusive
  BY OneHolder DEF ProfileInv, HoldersAreExclusive
<1> QED
  BY <1>1, ProfileInvariance, PTL

\* Until a lock is seized the meta file names no Chrome but the last one started.
THEOREM MetaIsNotStale == ProfileSpec => []MetaNamesLastChrome
<1>1. ProfileInv => MetaNamesLastChrome
  BY DEF ProfileInv, ChromePart, MetaIsLast, MetaNamesLastChrome
<1> QED
  BY <1>1, ProfileInvariance, PTL
=============================================================================
