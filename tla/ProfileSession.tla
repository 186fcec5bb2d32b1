--------------------------- MODULE ProfileSession ----------------------------
(****************************************************************************)
(* The managed session of a workspace profile                               *)
(* (core/profile/infra/profile-session.ts,                                  *)
(* core/workspace/infra/profile-locks.ts): a lock file, a file that names   *)
(* the Chrome of the profile, and the commands that share them across       *)
(* processes.                                                               *)
(*                                                                          *)
(* One profile.  A process is one run of `--profile` or of `workspace       *)
(* profile-lock-clear`, and its pid is not used again.  An action is one    *)
(* system call on a shared file, or what happens between two awaits.  The   *)
(* meta file is only written under the lock and was removed before, and     *)
(* half of one reads as none, so that writing it is one step.               *)
(*                                                                          *)
(* Chrome is external; `old` stands for PROFILE_LOCK_STALE_MS.  MaxChrome   *)
(* bounds the Chromes ever started.  Names start with Profile where another *)
(* module of the same run may use them.  Definitions marked MUTANT are      *)
(* defects a change could introduce; no action uses them.                   *)
(****************************************************************************)
EXTENDS Integers, FiniteSets

CONSTANTS
  Procs,      \* processes
  Nobody,
  MaxChrome,  \* Chromes ever started
  Modes       \* browser mode, executable and extensions, as one value

ASSUME ProfileAssumption ==
  Nobody \notin Procs /\ IsFiniteSet(Procs) /\ MaxChrome \in Nat

Chromes == 1..MaxChrome
NoChrome == 0

VARIABLES
  lock,    \* the lock file: who created it, and whether its text is written
  old,     \* is that text older than PROFILE_LOCK_STALE_MS?
  meta,    \* the Chrome the meta file names, or NoChrome
  chrome,  \* Chromes: [life, mode]
  user,    \* processes
  seized   \* history: has a lock been removed that was not the remover's to
           \* remove?

profileVars == <<lock, old, meta, chrome, user, seized>>

Lock == [owner : Procs \cup {Nobody}, written : BOOLEAN]
NoLock == [owner |-> Nobody, written |-> FALSE]

Holding == {"held", "probe", "start", "wait", "record", "release"}
Places == {"off", "try", "write", "look", "sweep", "clear", "clearSweep",
           "done", "failed", "dead"} \cup Holding

User ==
  [at : Places, mode : Modes, judged : Procs \cup {Nobody},
   seen : Chromes \cup {NoChrome}, started : Chromes \cup {NoChrome}]

ProfileTypeOK ==
  /\ lock \in Lock
  /\ old \in BOOLEAN
  /\ meta \in Chromes \cup {NoChrome}
  /\ chrome \in [Chromes -> [life : {"unborn", "hung", "up", "closing", "dead"},
                             mode : Modes]]
  /\ user \in [Procs -> User]
  /\ seized \in BOOLEAN

Move(p, at) == user' = [user EXCEPT ![p].at = at]

-----------------------------------------------------------------------------
(* acquireLockOrThrow                                                       *)

Open(p, mode) ==
  /\ user[p].at = "off"
  /\ user' = [user EXCEPT ![p].at = "try", ![p].mode = mode]
  /\ UNCHANGED <<lock, old, meta, chrome, seized>>

\* writeFileSync with flag wx: the file is created, then written
TryAcquireLock(p) ==
  /\ user[p].at = "try"
  /\ IF lock = NoLock
     THEN /\ lock' = [owner |-> p, written |-> FALSE]
          /\ old' = FALSE
          /\ Move(p, "write")
     ELSE UNCHANGED <<lock, old>> /\ Move(p, "look")
  /\ UNCHANGED <<meta, chrome, seized>>

\* into a file that may have been unlinked meanwhile
WriteLock(p) ==
  /\ user[p].at = "write"
  /\ lock' = IF lock.owner = p THEN [lock EXCEPT !.written = TRUE] ELSE lock
  /\ Move(p, "held")
  /\ UNCHANGED <<old, meta, chrome, seized>>

\* MUTANT: an old lock is stale even if its owner is at work
Stale_Careless == lock.owner # Nobody /\ lock.written /\ old

\* readLock and the age check; without a text there is no age
Stale ==
  /\ lock.owner # Nobody /\ lock.written /\ old
  /\ user[lock.owner].at \in {"dead", "done", "failed"}

Judge(p, sweep, otherwise) ==
  user' = [user EXCEPT ![p].at = IF Stale THEN sweep ELSE otherwise,
                       ![p].judged = IF Stale THEN lock.owner ELSE Nobody]

Look(p) ==
  /\ user[p].at = "look"
  /\ Judge(p, "sweep", "try")
  /\ UNCHANGED <<lock, old, meta, chrome, seized>>

\* the file of that name is removed, whoever created it by now
RemoveLock(foul) ==
  /\ lock' = NoLock
  /\ seized' = (seized \/ (lock # NoLock /\ foul))

Sweep(p) ==
  /\ user[p].at \in {"sweep", "clearSweep"}
  /\ RemoveLock(lock.owner # user[p].judged)
  /\ user' = [user EXCEPT ![p].judged = Nobody,
                          ![p].at = IF @ = "sweep" THEN "try" ELSE "done"]
  /\ UNCHANGED <<old, meta, chrome>>

\* E_PROFILE_LOCKED
LockTimesOut(p) ==
  /\ user[p].at = "try"
  /\ Move(p, "failed")
  /\ UNCHANGED <<lock, old, meta, chrome, seized>>

-----------------------------------------------------------------------------
(* workspaceProfileLockClearForDir                                          *)

Clear(p) ==
  /\ user[p].at = "off"
  /\ IF lock = NoLock THEN Move(p, "done") ELSE Move(p, "clear")
  /\ UNCHANGED <<lock, old, meta, chrome, seized>>

ClearLook(p) ==
  /\ user[p].at = "clear"
  /\ Judge(p, "clearSweep", "done")
  /\ UNCHANGED <<lock, old, meta, chrome, seized>>

ClearForced(p) ==
  /\ user[p].at = "clear"
  /\ RemoveLock(TRUE)
  /\ Move(p, "done")
  /\ UNCHANGED <<old, meta, chrome>>

-----------------------------------------------------------------------------
(* ensureProfileManagedSession                                              *)

Lives(c) == c # NoChrome /\ chrome[c].life \in {"hung", "up", "closing"}

Answers(c) == c # NoChrome /\ chrome[c].life = "up"

ReadMeta(p) ==
  /\ user[p].at = "held"
  /\ user' = [user EXCEPT ![p].at = "probe", ![p].seen = meta]
  /\ UNCHANGED <<lock, old, meta, chrome, seized>>

\* a Chrome that answers, of the wanted mode, is handed out as it is
Reuse(p) ==
  LET c == user[p].seen
  IN /\ user[p].at = "probe"
     /\ Answers(c) /\ chrome[c].mode = user[p].mode
     /\ Move(p, "release")
     /\ UNCHANGED <<lock, old, meta, chrome, seized>>

\* MUTANT: the meta file stays until it is overwritten
Replace_Keeping(p) ==
  LET c == user[p].seen
      drifted == Answers(c) /\ chrome[c].mode # user[p].mode
  IN /\ user[p].at = "probe"
     /\ drifted \/ ~Answers(c)
     /\ chrome' = IF drifted THEN [chrome EXCEPT ![c].life = "closing"] ELSE chrome
     /\ Move(p, "start")
     /\ UNCHANGED <<lock, old, meta, seized>>

\* one of another mode gets a SIGTERM; one that does not answer is forgotten
Replace(p) ==
  LET c == user[p].seen
      drifted == Answers(c) /\ chrome[c].mode # user[p].mode
  IN /\ user[p].at = "probe"
     /\ drifted \/ ~Answers(c)
     /\ chrome' = IF drifted THEN [chrome EXCEPT ![c].life = "closing"] ELSE chrome
     /\ meta' = IF c = NoChrome THEN meta ELSE NoChrome
     /\ Move(p, "start")
     /\ UNCHANGED <<lock, old, seized>>

Start(p) ==
  /\ user[p].at = "start"
  /\ \E c \in Chromes :
       /\ chrome[c].life = "unborn" /\ \A d \in 1..(c - 1) : chrome[d].life # "unborn"
       /\ chrome' = [chrome EXCEPT ![c] = [life |-> "hung", mode |-> user[p].mode]]
       /\ user' = [user EXCEPT ![p].at = "wait", ![p].started = c]
  /\ UNCHANGED <<lock, old, meta, seized>>

\* startManagedSession kills what did not come up
StartFails(p) ==
  /\ user[p].at \in {"start", "wait"}
  /\ chrome' = IF Lives(user[p].started)
               THEN [chrome EXCEPT ![user[p].started].life = "dead"] ELSE chrome
  /\ user' = [user EXCEPT ![p].at = "release", ![p].started = NoChrome]
  /\ UNCHANGED <<lock, old, meta, seized>>

Starts(p) ==
  /\ user[p].at = "wait"
  /\ Answers(user[p].started)
  /\ Move(p, "record")
  /\ UNCHANGED <<lock, old, meta, chrome, seized>>

WriteMeta(p) ==
  /\ user[p].at = "record"
  /\ meta' = user[p].started
  /\ user' = [user EXCEPT ![p].at = "release", ![p].started = NoChrome]
  /\ UNCHANGED <<lock, old, chrome, seized>>

\* E_SESSION_CONFLICT: another session has the id; the Chrome stays up
Conflicts(p) ==
  /\ user[p].at = "record"
  /\ user' = [user EXCEPT ![p].at = "release", ![p].started = NoChrome]
  /\ UNCHANGED <<lock, old, meta, chrome, seized>>

\* the finally block does not look whose lock it removes
Release(p) ==
  /\ user[p].at = "release"
  /\ RemoveLock(FALSE)
  /\ Move(p, "done")
  /\ UNCHANGED <<old, meta, chrome>>

-----------------------------------------------------------------------------
(* What the processes do not control                                        *)

Dies(p) ==
  /\ user[p].at \notin {"off", "done", "failed", "dead"}
  /\ Move(p, "dead")
  /\ UNCHANGED <<lock, old, meta, chrome, seized>>

LockGrowsOld ==
  /\ lock # NoLock /\ ~old
  /\ old' = TRUE
  /\ UNCHANGED <<lock, meta, chrome, user, seized>>

ChromeChanges(c) ==
  /\ \E life \in {"up", "hung", "dead"} :
       /\ \/ chrome[c].life \in {"hung", "up"}
          \/ chrome[c].life = "closing" /\ life = "dead"
       /\ chrome' = [chrome EXCEPT ![c].life = life]
  /\ UNCHANGED <<lock, old, meta, user, seized>>

ProfileInit ==
  /\ lock = NoLock /\ old = FALSE /\ meta = NoChrome /\ seized = FALSE
  /\ \E mode \in Modes :
       /\ chrome = [c \in Chromes |-> [life |-> "unborn", mode |-> mode]]
       /\ user = [p \in Procs |-> [at |-> "off", mode |-> mode, judged |-> Nobody,
                                   seen |-> NoChrome, started |-> NoChrome]]

ProfileStep(p) ==
  \/ \E mode \in Modes : Open(p, mode)
  \/ TryAcquireLock(p) \/ WriteLock(p) \/ Look(p) \/ Sweep(p) \/ LockTimesOut(p)
  \/ Clear(p) \/ ClearLook(p) \/ ClearForced(p)
  \/ ReadMeta(p) \/ Reuse(p) \/ Replace(p) \/ Start(p) \/ StartFails(p)
  \/ Starts(p) \/ WriteMeta(p) \/ Conflicts(p) \/ Release(p)
  \/ Dies(p)

ProfileNext ==
  \/ \E p \in Procs : ProfileStep(p)
  \/ LockGrowsOld
  \/ \E c \in Chromes : ChromeChanges(c)

ProfileSpec == ProfileInit /\ [][ProfileNext]_profileVars

-----------------------------------------------------------------------------
(* Properties                                                               *)

\* Two processes work on a profile at once only after a lock was seized: by
\* --force, or by a process that judged a lock stale and then removed the one
\* that had replaced it.  Death of a holder at any point, a slow holder and a
\* half-written lock file lead to no other way.
HoldersAreExclusive ==
  \A p, q \in Procs :
    user[p].at \in Holding /\ user[q].at \in Holding /\ p # q => seized

\* As long as no lock was seized, the meta file names the Chrome of the profile
\* that was started last, or none: a command never hands out, restarts or kills
\* the predecessor of the Chrome another command just started.
MetaNamesLastChrome ==
  meta # NoChrome /\ ~seized =>
    \A c \in Chromes : c > meta => chrome[c].life = "unborn"
=============================================================================
