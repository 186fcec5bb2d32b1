-------------------------- MODULE SessionLifecycle ---------------------------
(****************************************************************************)
(* Session records and the Chrome processes behind them                     *)
(* (core/session/public.ts, core/browser.ts,                                *)
(* core/target/infra/targets.ts, core/state/infra/{maintenance,             *)
(* maintenance-session-prune, session-idle-parking}.ts).                    *)
(*                                                                          *)
(* A command runs in a process of its own or in the daemon.  It reads the   *)
(* state file, awaits browsers for seconds, and only then changes the state *)
(* in one mutateState (StateStore), so that other commands, the two clean-  *)
(* ers (prune and idle parking) and Chrome itself act in between.  An       *)
(* action here is what happens between two awaits.                          *)
(*                                                                          *)
(* Chrome is external: it may come up or not, stop answering, or exit at    *)
(* any time; SIGKILL ends it.  A port is named by the process it was first  *)
(* allocated for, which makes allocateFreePort exact: its window between    *)
(* close and reuse is not modelled, nor is the reuse of a pid.  A user's    *)
(* own Chrome, to which sessions attach, is the port Foreign.               *)
(*                                                                          *)
(* clock stamps lastSeenAt; ops, events and the supply of pids bound runs.  *)
(* Definitions marked MUTANT are defects a change could introduce; no action *)
(* uses them.                                                               *)
(****************************************************************************)
EXTENDS Integers, FiniteSets

CONSTANTS
  Ids,        \* session ids
  Default,    \* DEFAULT_SESSION_ID
  NoId,
  Commands,   \* processes that run session commands
  MaxPid,     \* supply of Chrome processes
  MaxClock,   \* heartbeats ever stamped
  MaxOps,     \* commands ever started
  MaxEvents,  \* crashes, Chrome's failures and expiries
  SweepCap    \* sessions one parking run may stop

Foreign == 0
NoPid == 0
Pids == 1..MaxPid

ASSUME IdsAssumption == Default \in Ids /\ NoId \notin Ids /\ IsFiniteSet(Ids)
ASSUME BoundsAssumption ==
  /\ MaxPid \in Nat /\ MaxClock \in Nat /\ MaxOps \in Nat /\ MaxEvents \in Nat
  /\ SweepCap \in Nat \ {0}

VARIABLES
  sessions,  \* state.sessions: id -> record (kind "none": no record)
  active,    \* state.activeSessionId
  proc,      \* Chrome processes: [life, port]
  foreign,   \* does the user's own Chrome answer?
  cmd,       \* commands: where they are and what they hold
  clock,     \* the last lastSeenAt given out
  ops,       \* commands started so far
  events,    \* what went wrong so far
  misses     \* history: prunes that found a session unreachable since it was
             \* last recorded as answering

vars == <<sessions, active, proc, foreign, cmd, clock, ops, events, misses>>

Record ==
  [kind : {"none", "managed", "attached"},
   pid : Pids \cup {NoPid}, port : Pids \cup {Foreign},
   seen : 0..MaxClock, count : 0..2, age : {"fresh", "idle", "expired"}]

NoRecord ==
  [kind |-> "none", pid |-> NoPid, port |-> Foreign,
   seen |-> 0, count |-> 0, age |-> "fresh"]

Process ==
  [life : {"unborn", "hung", "up", "closing", "dead"}, port : Pids \cup {Foreign}]

Places ==
  {"idle", "ensureDefault", "reserve", "reread", "probe", "spawn", "wait",
   "store", "kill", "look", "stop", "apply", "after"}

Ops == {"none", "new", "use", "ensureActive", "ensureDefault", "ensureNew",
        "clear", "prune", "park"}

Command ==
  [op : Ops, at : Places, id : Ids \cup {NoId}, snap : [Ids -> Record],
   pid : Pids \cup {NoPid}, port : Pids \cup {Foreign}, attempt : 1..2,
   todo : SUBSET Ids, hit : SUBSET Ids, flag : BOOLEAN, stop : SUBSET Pids]

Idle ==
  [op |-> "none", at |-> "idle", id |-> NoId, snap |-> [i \in Ids |-> NoRecord],
   pid |-> NoPid, port |-> Foreign, attempt |-> 1,
   todo |-> {}, hit |-> {}, flag |-> FALSE, stop |-> {}]

\* The active session has a record, whatever clear, prune and the commands that are
\* under way during them do.
TypeOK ==
  /\ sessions \in [Ids -> Record]
  /\ active \in {i \in Ids : sessions[i].kind # "none"} \cup {NoId}
  /\ proc \in [Pids -> Process]
  /\ foreign \in BOOLEAN
  /\ cmd \in [Commands -> Command]
  /\ clock \in 0..MaxClock
  /\ ops \in 0..MaxOps
  /\ events \in 0..MaxEvents
  /\ misses \in [Ids -> 0..2]

-----------------------------------------------------------------------------
(* The state file and the processes                                         *)

Exists(i) == sessions[i].kind # "none"

Alive(p) == p # NoPid /\ proc[p].life \in {"hung", "up", "closing"}

Answers(port) ==
  \/ port = Foreign /\ foreign
  \/ \E p \in Pids : proc[p].life = "up" /\ proc[p].port = port

\* killManagedBrowserProcessTree(pid, "SIGTERM"): Chrome closes in its own time
Terminated(P) ==
  [p \in Pids |-> IF p \in P /\ Alive(p) THEN [proc[p] EXCEPT !.life = "closing"]
                                         ELSE proc[p]]

\* SIGTERM, then SIGKILL, waiting for the pid to be gone
Killed(p) ==
  [q \in Pids |-> IF q = p /\ Alive(q) THEN [proc[q] EXCEPT !.life = "dead"]
                                       ELSE proc[q]]

\* withSessionHeartbeat
Heartbeat(r) == [r EXCEPT !.seen = clock + 1, !.count = 0, !.age = "fresh"]

\* the record of a Chrome that answers on its port
Started(p) ==
  [kind |-> "managed", pid |-> p, port |-> proc[p].port,
   seen |-> clock + 1, count |-> 0, age |-> "fresh"]

\* what readState returns, the sessions the caller does not look at left out
ReadOf(I) == [i \in Ids |-> IF i \in I THEN sessions[i] ELSE NoRecord]

Tick == clock < MaxClock /\ clock' = clock + 1

-----------------------------------------------------------------------------
(* sessionNew                                                               *)

\* a command is started
Begin(c) == cmd[c] = Idle /\ ops < MaxOps /\ ops' = ops + 1

\* the command is over, well or with an error
Done(c) == cmd' = [cmd EXCEPT ![c] = Idle]

New(c, i) ==
  /\ Begin(c)
  /\ cmd' = [cmd EXCEPT ![c] = [Idle EXCEPT !.op = "new", !.at = "reserve", !.id = i]]
  /\ UNCHANGED <<sessions, active, proc, foreign, clock, events, misses>>

\* the first mutateState only asserts that the id is free: nothing is recorded
Reserve(c) ==
  /\ cmd[c].at = "reserve"
  /\ IF ~Exists(cmd[c].id)
     THEN cmd' = [cmd EXCEPT ![c].at = "spawn"]
     ELSE IF cmd[c].op = "ensureNew" THEN cmd' = [cmd EXCEPT ![c].at = "reread"]
                                     ELSE Done(c)
  /\ UNCHANGED <<sessions, active, proc, foreign, clock, ops, events, misses>>

\* the second one records the session, if the id is free still
StoreNew(c) ==
  /\ cmd[c].at = "store" /\ cmd[c].op \in {"new", "ensureNew"}
  /\ IF Exists(cmd[c].id)
     THEN /\ cmd' = [cmd EXCEPT ![c].at = "kill", ![c].stop = {cmd[c].pid},
                                ![c].pid = NoPid]
          /\ UNCHANGED <<sessions, active, events, misses>>
     ELSE /\ sessions' = [sessions EXCEPT ![cmd[c].id] = cmd[c].snap[cmd[c].id]]
          /\ active' = cmd[c].id
          /\ misses' = [misses EXCEPT ![cmd[c].id] = 0]
          /\ Done(c)
  /\ UNCHANGED <<proc, foreign, clock, ops, events>>

\* the SIGTERM that follows a mutateState, of sessionNew or of prune
Kill(c) ==
  /\ cmd[c].at = "kill"
  /\ proc' = Terminated(cmd[c].stop)
  /\ IF cmd[c].op = "ensureNew"
     THEN cmd' = [cmd EXCEPT ![c].at = "reread", ![c].stop = {}]
     ELSE Done(c)
  /\ UNCHANGED <<sessions, active, foreign, clock, ops, events, misses>>

-----------------------------------------------------------------------------
(* sessionAttach, sessionUse (and resolveSessionForAction), sessionEnsure   *)

\* the endpoint, which answered when it was resolved, is not looked at again
Attach(c, i) ==
  /\ Begin(c) /\ Tick
  /\ ~Exists(i)
  /\ sessions' = [sessions EXCEPT ![i] =
       [kind |-> "attached", pid |-> NoPid, port |-> Foreign,
        seen |-> clock + 1, count |-> 0, age |-> "fresh"]]
  /\ active' = i
  /\ misses' = [misses EXCEPT ![i] = 0]
  /\ UNCHANGED <<proc, foreign, cmd, events>>

\* the read before ensureSessionReachable
ToProbe(c, op, i) ==
  cmd' = [cmd EXCEPT ![c] =
    [Idle EXCEPT !.op = op, !.at = "probe", !.id = i, !.snap = ReadOf({i})]]

Use(c, i) ==
  /\ Begin(c)
  /\ Exists(i)
  /\ ToProbe(c, "use", i)
  /\ UNCHANGED <<sessions, active, proc, foreign, clock, events, misses>>

Ensure(c) ==
  /\ Begin(c)
  /\ IF active # NoId /\ Exists(active)
     THEN ToProbe(c, "ensureActive", active)
     ELSE cmd' = [cmd EXCEPT ![c] =
            [Idle EXCEPT !.op = "ensureDefault", !.at = "ensureDefault"]]
  /\ UNCHANGED <<sessions, active, proc, foreign, clock, events, misses>>

\* the session `default`, which must be a managed one, or a new one
EnsureDefault(c) ==
  /\ cmd[c].at = "ensureDefault"
  /\ CASE sessions[Default].kind = "managed" -> ToProbe(c, "ensureDefault", Default)
       [] sessions[Default].kind = "attached" -> Done(c)
       [] OTHER -> cmd' = [cmd EXCEPT ![c] =
            [Idle EXCEPT !.op = "ensureNew", !.at = "reserve", !.id = Default]]
  /\ UNCHANGED <<sessions, active, proc, foreign, clock, ops, events, misses>>

\* sessionNew lost to another process: take what that one recorded
Reread(c) ==
  /\ cmd[c].at = "reread"
  /\ IF sessions[Default].kind = "managed"
     THEN ToProbe(c, "ensureDefault", Default)
     ELSE Done(c)
  /\ UNCHANGED <<sessions, active, proc, foreign, clock, ops, events, misses>>

-----------------------------------------------------------------------------
(* ensureSessionReachable and startManagedSession                           *)

Snap(c) == cmd[c].snap[cmd[c].id]

\* the browser mode, the executable or the extensions are not the wanted ones:
\* the Chrome is killed and another started on its port
ProbeDrifted(c) ==
  /\ cmd[c].at = "probe"
  /\ Snap(c).kind = "managed"
  /\ proc' = Killed(Snap(c).pid)
  /\ cmd' = [cmd EXCEPT ![c].at = "spawn", ![c].port = Snap(c).port]
  /\ UNCHANGED <<sessions, active, foreign, clock, ops, events, misses>>

\* cdpReachabilityCache: a port that answered a moment ago may have stopped
ProbeAnswered(c) ==
  /\ cmd[c].at = "probe" /\ Tick
  /\ \/ Answers(Snap(c).port) \/ Snap(c).port = Foreign
     \/ \E p \in Pids : proc[p].port = Snap(c).port /\ proc[p].life # "unborn"
  /\ cmd' = [cmd EXCEPT ![c].at = "store",
                        ![c].snap = [@ EXCEPT ![cmd[c].id] = Heartbeat(Snap(c))]]
  /\ UNCHANGED <<sessions, active, proc, foreign, ops, events, misses>>

ProbeSilent(c) ==
  /\ cmd[c].at = "probe"
  /\ ~Answers(Snap(c).port)
  /\ CASE Snap(c).kind = "managed" ->
            cmd' = [cmd EXCEPT ![c].at = "spawn", ![c].port = Snap(c).port]
       [] Snap(c).kind # "managed" /\ cmd[c].op = "ensureActive" ->
            cmd' = [cmd EXCEPT ![c] =
              [Idle EXCEPT !.op = "ensureDefault", !.at = "ensureDefault"]]
       [] OTHER -> Done(c)
  /\ UNCHANGED <<sessions, active, proc, foreign, clock, ops, events, misses>>

\* launchDetachedBrowser, on the port of the session or on a fresh one; what
\* the record still says of an older Chrome is not asked
Spawn(c) ==
  /\ cmd[c].at = "spawn"
  /\ \E p \in Pids :
       /\ proc[p].life = "unborn" /\ \A q \in 1..(p - 1) : proc[q].life # "unborn"
       /\ proc' = [proc EXCEPT ![p] =
            [life |-> "hung", port |-> IF cmd[c].port = NoPid THEN p ELSE cmd[c].port]]
       /\ cmd' = [cmd EXCEPT ![c].at = "wait", ![c].pid = p]
  /\ UNCHANGED <<sessions, active, foreign, clock, ops, events, misses>>

SpawnFailed(c) ==
  /\ cmd[c].at = "spawn"
  /\ Done(c)
  /\ UNCHANGED <<sessions, active, proc, foreign, clock, ops, events, misses>>

\* waitForCdpEndpoint asks the port, whichever Chrome answers there
Ready(c) ==
  /\ cmd[c].at = "wait" /\ Tick
  /\ Answers(proc[cmd[c].pid].port)
  /\ cmd' = [cmd EXCEPT ![c].at = "store",
                        ![c].snap = [@ EXCEPT ![cmd[c].id] = Started(cmd[c].pid)]]
  /\ UNCHANGED <<sessions, active, proc, foreign, ops, events, misses>>

\* strict verification: an extension is missing
Rejected(c) ==
  /\ cmd[c].at = "wait"
  /\ Answers(proc[cmd[c].pid].port)
  /\ proc' = Killed(cmd[c].pid)
  /\ Done(c)
  /\ UNCHANGED <<sessions, active, foreign, clock, ops, events, misses>>

\* one retry, on a fresh port
StartTimedOut(c) ==
  /\ cmd[c].at = "wait"
  /\ ~Answers(proc[cmd[c].pid].port)
  /\ proc' = Killed(cmd[c].pid)
  /\ IF cmd[c].attempt = 1
     THEN cmd' = [cmd EXCEPT ![c].at = "spawn", ![c].attempt = 2,
                             ![c].pid = NoPid, ![c].port = NoPid]
     ELSE Done(c)
  /\ UNCHANGED <<sessions, active, foreign, clock, ops, events, misses>>

\* the mutateState after ensureSessionReachable: the record of the session, if
\* there is one still, becomes the one computed from the snapshot
StoreEnsured(c) ==
  /\ cmd[c].at = "store" /\ cmd[c].op \in {"use", "ensureActive", "ensureDefault"}
  /\ IF /\ Exists(cmd[c].id)
        /\ cmd[c].op = "ensureDefault" => sessions[cmd[c].id].kind = "managed"
     THEN /\ sessions' = [sessions EXCEPT ![cmd[c].id] = Snap(c)]
          /\ active' = cmd[c].id
          /\ misses' = [misses EXCEPT ![cmd[c].id] = 0]
     ELSE UNCHANGED <<sessions, active, events, misses>>
  /\ Done(c)
  /\ UNCHANGED <<proc, foreign, clock, ops, events>>
-----------------------------------------------------------------------------
(* sessionClear                                                             *)

\* MUTANT: activeSessionId is left as it is
Remove_KeepsActive(I) ==
  /\ sessions' = [i \in Ids |-> IF i \in I THEN NoRecord ELSE sessions[i]]
  /\ UNCHANGED active

\* the sessions a mutation leaves: no active session without its record
Remove(I) ==
  /\ sessions' = [i \in Ids |-> IF i \in I THEN NoRecord ELSE sessions[i]]
  /\ active' = IF active \in I THEN NoId ELSE active

\* id NoId: all of them; flag: keepProcesses
Clear(c, i, keep) ==
  LET I == {j \in Ids : Exists(j) /\ i \in {j, NoId}}
  IN /\ Begin(c)
     /\ i # NoId => Exists(i)
     /\ cmd' = [cmd EXCEPT ![c] =
          [Idle EXCEPT !.op = "clear", !.id = i, !.flag = keep, !.snap = ReadOf(I),
                       !.at = IF keep \/ I = {} THEN "apply" ELSE "stop",
                       !.todo = IF keep THEN {} ELSE I]]
     /\ UNCHANGED <<sessions, active, proc, foreign, clock, events, misses>>

\* stopSessionProcess: the pid if it is alive, or else Browser.close on the
\* endpoint, also of an attached session
ClearStop(c, i) ==
  /\ cmd[c].op = "clear" /\ cmd[c].at \in {"stop", "after"} /\ i \in cmd[c].todo
  /\ LET r == cmd[c].snap[i]
         pids == {p \in Pids : proc[p].life = "up" /\ proc[p].port = r.port}
     IN IF r.kind = "managed" /\ Alive(r.pid)
        THEN proc' = Killed(r.pid) /\ UNCHANGED foreign
        ELSE proc' = Terminated(pids) /\ foreign' = (foreign /\ r.port # Foreign)
  /\ LET rest == cmd[c].todo \ {i}
     IN IF rest = {} /\ cmd[c].at = "after" THEN Done(c)
        ELSE cmd' = [cmd EXCEPT ![c].todo = rest, ![c].hit = @ \cup {i},
                                ![c].at = IF rest = {} THEN "apply" ELSE @]
  /\ UNCHANGED <<sessions, active, clock, ops, events, misses>>

\* whatever has these ids now is removed; only what was not stopped before is
\* stopped after
ClearApply(c) ==
  LET I == {i \in Ids : Exists(i) /\ cmd[c].id \in {i, NoId}}
      late == IF cmd[c].flag THEN {} ELSE I \ cmd[c].hit
  IN /\ cmd[c].op = "clear" /\ cmd[c].at = "apply"
     /\ Remove(I)
     /\ cmd' = [cmd EXCEPT
          ![c] = IF late = {} THEN Idle
                 ELSE [@ EXCEPT !.at = "after", !.todo = late, !.snap = ReadOf(late)]]
     /\ UNCHANGED <<proc, foreign, clock, ops, events, misses>>

-----------------------------------------------------------------------------
(* sessionPrune                                                             *)

\* flag: dropManagedUnreachable
Prune(c, flag) ==
  LET I == {i \in Ids : Exists(i) /\ sessions[i].age # "expired"}
  IN /\ Begin(c)
     /\ cmd' = [cmd EXCEPT ![c] =
          [Idle EXCEPT !.op = "prune", !.flag = flag, !.snap = ReadOf(Ids),
                       !.at = IF I = {} THEN "apply" ELSE "look", !.todo = I]]
     /\ UNCHANGED <<sessions, active, proc, foreign, clock, events, misses>>

\* hit: the sessions whose endpoint did not answer
PruneLook(c, i) ==
  /\ cmd[c].at = "look" /\ i \in cmd[c].todo
  /\ LET silent == ~Answers(cmd[c].snap[i].port)
     IN /\ cmd' = [cmd EXCEPT ![c].todo = @ \ {i},
                              ![c].at = IF cmd[c].todo = {i} THEN "apply" ELSE "look",
                              ![c].hit = IF silent THEN @ \cup {i} ELSE @]
        /\ misses' = [misses EXCEPT
             ![i] = IF silent /\ @ < 2 THEN @ + 1 ELSE @]
  /\ UNCHANGED <<sessions, active, proc, foreign, clock, ops, events>>

\* MUTANT: lastSeenAt is left out of the fingerprint
SameSession_Unseen(r, s) == r.kind = s.kind /\ r.port = s.port /\ r.pid = s.pid

\* sessionFingerprint
SameSession(r, s) ==
  r.kind = s.kind /\ r.port = s.port /\ r.pid = s.pid /\ r.seen = s.seen

\* the sessions of the snapshot that are there still, and were not changed
\* since their endpoint was asked (an expired one was not asked)
PruneScope(c) ==
  {i \in Ids : /\ cmd[c].snap[i].kind # "none" /\ Exists(i)
               /\ \/ cmd[c].snap[i].age = "expired"
                  \/ SameSession(cmd[c].snap[i], sessions[i])}

\* a lease may have expired, or been renewed, since the snapshot
PruneExpired(c) == {i \in PruneScope(c) : sessions[i].age = "expired"}

PruneAsked(c) ==
  {i \in PruneScope(c) \ PruneExpired(c) : cmd[c].snap[i].age # "expired"}

PruneSilent(c) == PruneAsked(c) \cap cmd[c].hit

\* a managed session is let off once
PruneDropped(c) ==
  PruneExpired(c) \cup
    {i \in PruneSilent(c) : \/ sessions[i].kind = "attached"
                            \/ cmd[c].flag
                            \/ sessions[i].count >= 1}

PruneApply(c) ==
  /\ cmd[c].op = "prune" /\ cmd[c].at = "apply"
  /\ LET heard == PruneAsked(c) \ cmd[c].hit
         pids == {sessions[i].pid : i \in {j \in PruneDropped(c) :
                    sessions[j].kind = "managed" /\ Alive(sessions[j].pid)}}
     IN /\ IF heard = {} THEN UNCHANGED clock ELSE Tick
        /\ sessions' = [i \in Ids |->
             CASE i \in PruneDropped(c) -> NoRecord
               [] i \in heard -> Heartbeat(sessions[i])
               [] i \in PruneSilent(c) \ PruneDropped(c) ->
                    [sessions[i] EXCEPT !.count = 1,
                       !.pid = IF Alive(@) THEN @ ELSE NoPid]
               [] OTHER -> sessions[i]]
        /\ active' = IF active \in PruneDropped(c) THEN NoId ELSE active
        /\ misses' = [i \in Ids |-> IF i \in heard THEN 0 ELSE misses[i]]
        /\ cmd' = [cmd EXCEPT
             ![c] = IF pids = {} THEN Idle
                    ELSE [Idle EXCEPT !.op = "prune", !.at = "kill", !.stop = pids]]
  /\ UNCHANGED <<proc, foreign, ops, events>>

-----------------------------------------------------------------------------
(* sessionParkIdleManagedProcesses                                          *)

Eligible(i) ==
  /\ sessions[i].kind = "managed" /\ sessions[i].age # "fresh"
  /\ Alive(sessions[i].pid)

\* with more than SweepCap of them the first ids are taken; here, any
Park(c, I) ==
  /\ Begin(c)
  /\ I # {} /\ Cardinality(I) <= SweepCap /\ \A i \in I : Eligible(i)
  /\ cmd' = [cmd EXCEPT ![c] =
       [Idle EXCEPT !.op = "park", !.at = "stop", !.snap = ReadOf(I), !.todo = I]]
  /\ UNCHANGED <<sessions, active, proc, foreign, clock, events, misses>>

\* the Chrome of the snapshot is killed, whoever uses it by now
ParkStop(c, i) ==
  /\ cmd[c].op = "park" /\ cmd[c].at = "stop" /\ i \in cmd[c].todo
  /\ proc' = Killed(cmd[c].snap[i].pid)
  /\ cmd' = [cmd EXCEPT ![c].todo = @ \ {i}, ![c].hit = @ \cup {i},
                        ![c].at = IF cmd[c].todo = {i} THEN "apply" ELSE "stop"]
  /\ UNCHANGED <<sessions, active, foreign, clock, ops, events, misses>>

\* MUTANT: the stop is trusted, the pid that is recorded by now not looked at
ParkApply_Trusting(c) ==
  /\ cmd[c].op = "park" /\ cmd[c].at = "apply"
  /\ sessions' = [i \in Ids |->
       IF i \in cmd[c].hit /\ sessions[i].kind = "managed"
       THEN [sessions[i] EXCEPT !.pid = NoPid] ELSE sessions[i]]
  /\ Done(c)
  /\ UNCHANGED <<active, proc, foreign, clock, ops, events, misses>>

\* a record that has another Chrome by now keeps it
ParkApply(c) ==
  /\ cmd[c].op = "park" /\ cmd[c].at = "apply"
  /\ sessions' = [i \in Ids |->
       IF i \in cmd[c].hit /\ sessions[i].kind = "managed" /\ ~Alive(sessions[i].pid)
       THEN [sessions[i] EXCEPT !.pid = NoPid] ELSE sessions[i]]
  /\ Done(c)
  /\ UNCHANGED <<active, proc, foreign, clock, ops, events, misses>>

-----------------------------------------------------------------------------
(* What commands do not control                                             *)

Event == events < MaxEvents /\ events' = events + 1

\* the process of a command is killed; the Chromes it started live on
Crash(c) ==
  /\ Event
  /\ cmd[c] # Idle
  /\ Done(c)
  /\ UNCHANGED <<sessions, active, proc, foreign, clock, ops, misses>>

\* of two Chromes started on one port the second does not get it
ComesUp(p) ==
  /\ proc[p].life = "hung"
  /\ \A q \in Pids : proc[q].port = proc[p].port => proc[q].life # "up"
  /\ proc' = [proc EXCEPT ![p].life = "up"]
  /\ UNCHANGED <<sessions, active, foreign, cmd, clock, ops, events, misses>>

Hangs(p) ==
  /\ Event
  /\ proc[p].life = "up"
  /\ proc' = [proc EXCEPT ![p].life = "hung"]
  /\ UNCHANGED <<sessions, active, foreign, cmd, clock, ops, misses>>

Exits(p) ==
  /\ Event
  /\ Alive(p)
  /\ proc' = [proc EXCEPT ![p].life = "dead"]
  /\ UNCHANGED <<sessions, active, foreign, cmd, clock, ops, misses>>

\* idleTtlMs, then the lease, run out
Ages(i) ==
  /\ Event
  /\ Exists(i)
  /\ sessions[i].age # "expired"
  /\ sessions' = [sessions EXCEPT
       ![i].age = IF @ = "fresh" THEN "idle" ELSE "expired"]
  /\ UNCHANGED <<active, proc, foreign, cmd, clock, ops, misses>>

ForeignChanges ==
  /\ Event
  /\ foreign' = ~foreign
  /\ UNCHANGED <<sessions, active, proc, cmd, clock, ops, misses>>

-----------------------------------------------------------------------------
\* a state file in use: some sessions are managed ones, used a while ago, whose
\* Chrome answers
Init ==
  /\ \E I \in SUBSET Ids, pid \in [Ids -> Pids] :
       /\ \A i, j \in I : pid[i] = pid[j] => i = j
       /\ {pid[i] : i \in I} = 1..Cardinality(I)
       /\ \A i \in Ids \ I : pid[i] = 1
       /\ proc = [p \in Pids |->
            IF p <= Cardinality(I) THEN [life |-> "up", port |-> p]
                                   ELSE [life |-> "unborn", port |-> Foreign]]
       /\ sessions = [i \in Ids |->
            IF i \in I THEN [NoRecord EXCEPT !.kind = "managed", !.pid = pid[i],
                                             !.port = pid[i], !.age = "idle"]
            ELSE NoRecord]
       /\ active \in I \cup {NoId}
  /\ foreign = TRUE
  /\ cmd = [c \in Commands |-> Idle]
  /\ clock = 0 /\ ops = 0 /\ events = 0
  /\ misses = [i \in Ids |-> 0]

Step(c) ==
  \/ \E i \in Ids : New(c, i) \/ Attach(c, i) \/ Use(c, i)
  \/ Ensure(c) \/ EnsureDefault(c) \/ Reserve(c) \/ Reread(c)
  \/ ProbeDrifted(c) \/ ProbeAnswered(c) \/ ProbeSilent(c)
  \/ Spawn(c) \/ SpawnFailed(c) \/ Ready(c) \/ Rejected(c) \/ StartTimedOut(c)
  \/ StoreNew(c) \/ StoreEnsured(c) \/ Kill(c)
  \/ \E i \in Ids \cup {NoId}, keep \in BOOLEAN : Clear(c, i, keep)
  \/ ClearApply(c)
  \/ \E flag \in BOOLEAN : Prune(c, flag)
  \/ PruneApply(c)
  \/ \E I \in SUBSET Ids : Park(c, I)
  \/ ParkApply(c)
  \/ \E i \in Ids : ClearStop(c, i) \/ PruneLook(c, i) \/ ParkStop(c, i)
  \/ Crash(c)

Next ==
  \/ \E c \in Commands : Step(c)
  \/ \E p \in Pids : ComesUp(p) \/ Hangs(p) \/ Exits(p)
  \/ \E i \in Ids : Ages(i)
  \/ ForeignChanges

Spec == Init /\ [][Next]_vars

-----------------------------------------------------------------------------
(* Properties                                                               *)

\* A Chrome that nothing knows of any more: no record names it, and no command
\* is about to record it or to stop it.
Orphan(p) ==
  /\ proc[p].life \in {"hung", "up"}
  /\ \A i \in Ids : sessions[i].pid # p
  /\ \A c \in Commands : cmd[c].pid # p /\ p \notin cmd[c].stop
  /\ \A c \in Commands : \A i \in cmd[c].todo :
       cmd[c].op = "prune" \/ cmd[c].snap[i].pid # p

\* The ways to lose a Chrome.  A command that restarted a session overwrites
\* the pid another one recorded meanwhile or gives up because the record is
\* gone; a session is cleared with keepProcesses, or got another Chrome after
\* the clearing command had stopped the one it had read; a command is killed.
\* Two commands that create one session, a start that fails or is retried,
\* prune and idle parking lose none.
LeaksHaveKnownCauses ==
  [][\A p \in Pids : ~Orphan(p) /\ Orphan(p)' =>
       \E c \in Commands :
         \/ Crash(c)
         \/ StoreEnsured(c) /\ \/ p = cmd[c].pid
                               \/ p = sessions[cmd[c].id].pid
         \/ /\ ClearApply(c)
            /\ cmd[c].flag \/ \E i \in cmd[c].hit : /\ sessions[i].pid = p
                                                    /\ cmd[c].snap[i].pid # p]_vars

\* prune drops a session whose lease runs only if its endpoint was silent, and
\* a managed one only if two prunes found it silent since it was last recorded
\* as answering (or the caller asked for no grace): a command that uses the
\* session between a prune's look and its mutation saves it.
PruneIsPatient ==
  [][\A c \in Commands, i \in Ids :
       PruneApply(c) /\ Exists(i) /\ ~Exists(i)' /\ sessions[i].age # "expired" =>
         IF sessions[i].kind = "managed" /\ ~cmd[c].flag THEN misses[i] = 2
                                                         ELSE misses[i] > 0]_vars
=============================================================================
