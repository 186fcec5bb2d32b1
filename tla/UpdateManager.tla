---------------------------- MODULE UpdateManager ----------------------------
(****************************************************************************)
(* `update run` and `update rollback` (core/update/infra/manager.ts): npm   *)
(* installs a version for everybody, `doctor` judges it, and the file       *)
(* updates/history.json records what was done, to be undone later.          *)
(*                                                                          *)
(* One package; versions are numbers, of which Sound pass `doctor`.  The    *)
(* dist-tag that npm reports is any version.  Nothing is locked: a command  *)
(* is interrupted between calls of npm, doctor and the file system.  npm    *)
(* and doctor are external.  MaxHistory bounds the entries.                 *)
(****************************************************************************)
EXTENDS Integers, Sequences

CONSTANTS Updaters, Versions, Sound, MaxHistory

ASSUME UpdateAssumption ==
  Versions \subseteq Nat /\ Versions # {} /\ Sound \subseteq Versions /\ MaxHistory \in Nat

Policies == {"manual", "pinned", "safe-patch"}

VARIABLES
  installed,  \* the version on disk
  history,    \* entries, newest last; an unreadable file reads as <<>>
  updater,    \* commands: [at, from, to, status, got]
  mixed       \* history: did commands overlap, or did one end halfway?

updateVars == <<installed, history, updater, mixed>>

Entry == [old : Versions, new : Versions, status : {"updated", "rolled-back"}]

Updater ==
  [at : {"off", "install", "doctor", "revert", "append", "truncate", "fill"},
   from : Versions, to : Versions, status : {"updated", "rolled-back"},
   got : Seq(Entry)]

UpdateTypeOK ==
  /\ installed \in Versions
  /\ history \in Seq(Entry)
  /\ mixed \in BOOLEAN
  /\ updater \in [Updaters -> Updater]

Idle == LET v == CHOOSE v \in Versions : TRUE
        IN [at |-> "off", from |-> v, to |-> v, status |-> "updated", got |-> <<>>]

UpdateInit ==
  /\ installed \in Sound
  /\ history = <<>> /\ mixed = FALSE
  /\ updater = [u \in Updaters |-> Idle]

Quiet == \A u \in Updaters : updater[u].at = "off"

-----------------------------------------------------------------------------
(* updateCheck, with the version of the command's own package               *)

\* manual never updates; safe-patch may or may not, by the patch line
PolicyBlocksUpdate(policy, pinned, to) ==
  policy = "manual" \/ (policy = "pinned" /\ pinned # to)

Begin(u, from, to, status) ==
  /\ updater[u].at = "off" /\ Len(history) < MaxHistory
  /\ updater' = [updater EXCEPT ![u] = [at |-> "install", from |-> from, to |-> to,
                                        status |-> status, got |-> <<>>]]
  /\ mixed' = (mixed \/ ~Quiet)
  /\ UNCHANGED <<installed, history>>

\* a dry run, a dirty worktree and a policy that blocks go no further
UpdateRun(u, latest) ==
  /\ latest > installed
  /\ \E policy \in Policies, pinned \in Versions : ~PolicyBlocksUpdate(policy, pinned, latest)
  /\ Begin(u, installed, latest, "updated")

LastUpdated(entries) ==
  LET n == CHOOSE i \in DOMAIN entries :
             /\ entries[i].status = "updated"
             /\ \A j \in DOMAIN entries : entries[j].status = "updated" => j <= i
  IN entries[n]

\* MUTANT: the rollback takes the newest entry, whatever it says
UpdateRollback_Newest(u) ==
  /\ history # <<>>
  /\ Begin(u, installed, history[Len(history)].old, "rolled-back")

UpdateRollback(u) ==
  /\ \E i \in DOMAIN history : history[i].status = "updated"
  /\ Begin(u, installed, LastUpdated(history).old, "rolled-back")

-----------------------------------------------------------------------------
(* What follows the checks                                                  *)

\* the doctor judges what is installed by now; only an update asks it
RunNpmInstallGlobal(u) ==
  /\ updater[u].at \in {"install", "revert"}
  /\ installed' = updater[u].to
  /\ updater' = [updater EXCEPT ![u].at =
       IF updater[u].status = "updated" THEN "doctor" ELSE "append"]
  /\ UNCHANGED <<history, mixed>>

DoctorPasses(u) ==
  /\ updater[u].at = "doctor"
  /\ installed \in Sound
  /\ updater' = [updater EXCEPT ![u].at = "append"]
  /\ UNCHANGED <<installed, history, mixed>>

\* the version before is installed again, which is recorded from new to old
DoctorFails(u) ==
  /\ updater[u].at = "doctor"
  /\ installed \notin Sound
  /\ updater' = [updater EXCEPT ![u].at = "revert", ![u].status = "rolled-back",
                                ![u].from = updater[u].to, ![u].to = updater[u].from]
  /\ UNCHANGED <<installed, history, mixed>>

\* appendHistory
AppendReads(u) ==
  /\ updater[u].at = "append" /\ Len(history) < MaxHistory
  /\ updater' = [updater EXCEPT ![u].at = "truncate", ![u].got = history]
  /\ UNCHANGED <<installed, history, mixed>>

AppendTruncates(u) ==
  /\ updater[u].at = "truncate"
  /\ history' = <<>>
  /\ updater' = [updater EXCEPT ![u].at = "fill"]
  /\ UNCHANGED <<installed, mixed>>

\* a shorter text over a longer one that came in between does not parse
AppendFills(u) ==
  LET entry == [old |-> updater[u].from, new |-> updater[u].to,
                status |-> updater[u].status]
  IN /\ updater[u].at = "fill"
     /\ history' \in {Append(updater[u].got, entry)} \cup (IF history = <<>> THEN {} ELSE {<<>>})
     /\ updater' = [updater EXCEPT ![u] = Idle]
     /\ UNCHANGED <<installed, mixed>>

\* npm or the file system fails, or the command is killed: before npm did
\* anything nothing is lost, later the history misses what was installed
Breaks(u) ==
  /\ updater[u].at # "off"
  /\ updater' = [updater EXCEPT ![u] = Idle]
  /\ mixed' = (mixed \/ updater[u].at # "install")
  /\ UNCHANGED <<installed, history>>

UpdateNext ==
  \E u \in Updaters :
    \/ \E latest \in Versions : UpdateRun(u, latest)
    \/ UpdateRollback(u) \/ RunNpmInstallGlobal(u) \/ DoctorPasses(u) \/ DoctorFails(u)
    \/ AppendReads(u) \/ AppendTruncates(u) \/ AppendFills(u) \/ Breaks(u)

UpdateSpec == UpdateInit /\ [][UpdateNext]_updateVars

-----------------------------------------------------------------------------
(* Properties                                                               *)

\* As long as update commands ran to their end and one at a time, whatever
\* sequence of updates, failed doctor checks and rollbacks it was: between
\* commands the newest entry names the version that is installed, every entry
\* starts where the one before ended, but for one that a failed check undid, and
\* a version that does not pass `doctor` is never what is left behind.
HistoryIsTrue ==
  Quiet /\ ~mixed =>
    /\ installed \in Sound
    /\ history # <<>> => history[Len(history)].new = installed
    /\ \A i \in 1..(Len(history) - 1) :
         history[i + 1].old \in Sound => history[i + 1].old = history[i].new
=============================================================================
