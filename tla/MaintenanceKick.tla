--------------------------- MODULE MaintenanceKick ---------------------------
(****************************************************************************)
(* Who starts the opportunistic maintenance worker                          *)
(* (core/state/infra/opportunistic-maintenance.ts): after a command, every  *)
(* process tries to reserve the next slot under a lock file, opportunistic- *)
(* gc.lock; the time of the file opportunistic-gc.stamp is the last slot.   *)
(*                                                                          *)
(* A kicker is one process; all of this is synchronous code, interrupted    *)
(* between system calls.  `aged` stands for KICK_LOCK_STALE_MS, a clock of  *)
(* at most MaxTime ticks for the minimum interval, which each process takes *)
(* from its own environment and the load it saw.                            *)
(****************************************************************************)
EXTENDS Integers

CONSTANTS Kickers, NoKicker, Intervals, MaxTime

ASSUME KickAssumption ==
  NoKicker \notin Kickers /\ Intervals \subseteq Nat /\ MaxTime \in Nat

Never == -1

VARIABLES
  kickLock,  \* who created the lock file, or NoKicker
  aged,      \* is it older than KICK_LOCK_STALE_MS?
  stamp,     \* the time of the stamp file, or Never
  time,
  kicker,    \* [at, attempt, interval]
  stolen     \* history: was the lock of a live process removed by another?

kickVars == <<kickLock, aged, stamp, time, kicker, stolen>>

KickTypeOK ==
  /\ kickLock \in Kickers \cup {NoKicker}
  /\ aged \in BOOLEAN /\ stolen \in BOOLEAN
  /\ time \in 0..MaxTime /\ stamp \in 0..MaxTime \cup {Never}
  /\ kicker \in [Kickers ->
       [at : {"off", "create", "stat", "unlink", "check", "stamp", "keep", "give",
              "spawn", "idle", "ended"},
        attempt : 0..2, interval : Intervals]]

KickInit ==
  /\ kickLock = NoKicker /\ aged = FALSE /\ stolen = FALSE
  /\ time = 0 /\ stamp \in {Never, 0}
  /\ \E i \in Intervals :
       kicker = [k \in Kickers |-> [at |-> "off", attempt |-> 0, interval |-> i]]

KickerGoes(k, at) == kicker' = [kicker EXCEPT ![k].at = at]

\* maintenancePressureProfile
Kick(k) ==
  /\ kicker[k].at = "off"
  /\ \E i \in Intervals :
       kicker' = [kicker EXCEPT ![k] = [at |-> "create", attempt |-> 1, interval |-> i]]
  /\ UNCHANGED <<kickLock, aged, stamp, time, stolen>>

-----------------------------------------------------------------------------
(* withKickLock                                                             *)

\* MUTANT: the file is opened without wx
CreateKickLock_Overwriting(k) ==
  /\ kicker[k].at = "create"
  /\ kickLock' = k /\ aged' = FALSE
  /\ KickerGoes(k, "check")
  /\ UNCHANGED <<stamp, time, stolen>>

CreateKickLock(k) ==
  /\ kicker[k].at = "create"
  /\ IF kickLock = NoKicker
     THEN kickLock' = k /\ aged' = FALSE /\ KickerGoes(k, "check")
     ELSE KickerGoes(k, "stat") /\ UNCHANGED <<kickLock, aged>>
  /\ UNCHANGED <<stamp, time, stolen>>

\* a lock that went away meanwhile counts as held
StatKickLock(k) ==
  /\ kicker[k].at = "stat"
  /\ KickerGoes(k, IF kickLock # NoKicker /\ aged THEN "unlink" ELSE "idle")
  /\ UNCHANGED <<kickLock, aged, stamp, time, stolen>>

Running(k) == k # NoKicker /\ kicker[k].at \notin {"off", "idle", "ended"}

\* MUTANT: as often as it takes
UnlinkKickLock_Stubborn(k) ==
  /\ kicker[k].at = "unlink"
  /\ kickLock' = NoKicker
  /\ stolen' = (stolen \/ Running(kickLock))
  /\ kicker' = [kicker EXCEPT ![k].at = "create", ![k].attempt = @ + 1]
  /\ UNCHANGED <<aged, stamp, time>>

\* whoever created it by now; two attempts in all
UnlinkKickLock(k) ==
  /\ kicker[k].at = "unlink"
  /\ kickLock' = NoKicker
  /\ stolen' = (stolen \/ Running(kickLock))
  /\ kicker' = [kicker EXCEPT
       ![k].at = IF kickLock # NoKicker /\ kicker[k].attempt < 2 THEN "create" ELSE "idle",
       ![k].attempt = 2]
  /\ UNCHANGED <<aged, stamp, time>>

\* the finally block does not look whose lock it is
ReleaseKickLock(k) ==
  /\ kicker[k].at \in {"keep", "give"}
  /\ kickLock' = NoKicker
  /\ KickerGoes(k, IF kicker[k].at = "keep" THEN "spawn" ELSE "idle")
  /\ UNCHANGED <<aged, stamp, time, stolen>>

-----------------------------------------------------------------------------
(* reserveKickSlot, kickOpportunisticStateMaintenance                       *)

CheckStamp(k) ==
  /\ kicker[k].at = "check"
  /\ KickerGoes(k, IF stamp # Never /\ time - stamp < kicker[k].interval
                   THEN "give" ELSE "stamp")
  /\ UNCHANGED <<kickLock, aged, stamp, time, stolen>>

WriteStamp(k) ==
  /\ kicker[k].at = "stamp"
  /\ stamp' = time
  /\ KickerGoes(k, "keep")
  /\ UNCHANGED <<kickLock, aged, time, stolen>>

SpawnMaintenance(k) ==
  /\ kicker[k].at = "spawn"
  /\ KickerGoes(k, "ended")
  /\ UNCHANGED <<kickLock, aged, stamp, time, stolen>>

-----------------------------------------------------------------------------
KickerDies(k) ==
  /\ Running(k)
  /\ KickerGoes(k, "ended")
  /\ UNCHANGED <<kickLock, aged, stamp, time, stolen>>

KickLockAges ==
  /\ kickLock # NoKicker /\ ~aged
  /\ aged' = TRUE
  /\ UNCHANGED <<kickLock, stamp, time, kicker, stolen>>

TimePasses ==
  /\ time < MaxTime
  /\ time' = time + 1
  /\ UNCHANGED <<kickLock, aged, stamp, kicker, stolen>>

KickNext ==
  \/ \E k \in Kickers :
       \/ Kick(k) \/ CreateKickLock(k) \/ StatKickLock(k) \/ UnlinkKickLock(k)
       \/ ReleaseKickLock(k) \/ CheckStamp(k) \/ WriteStamp(k) \/ SpawnMaintenance(k)
       \/ KickerDies(k)
  \/ KickLockAges
  \/ TimePasses

KickSpec == KickInit /\ [][KickNext]_kickVars

-----------------------------------------------------------------------------
(* Properties                                                               *)

\* A process that stamps a new slot leaves at least its own interval to the one
\* before, however the processes interleave and wherever they die: two of them
\* start maintenance in one interval only after the lock of a live process was
\* removed as stale.
KicksAreSpaced ==
  [][\A k \in Kickers :
       kicker[k].at = "stamp" /\ kicker'[k].at = "keep" /\ stamp # Never /\ ~stolen
         => stamp' - stamp >= kicker[k].interval]_kickVars
=============================================================================
