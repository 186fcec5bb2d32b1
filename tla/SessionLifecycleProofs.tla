-------------------------- MODULE SessionLifecycleProofs --------------------------
(****************************************************************************)
(* Theorems about the life of sessions, for every set of ids and commands   *)
(* and every bound.                                                         *)
(****************************************************************************)
EXTENDS SessionLifecycle, FiniteSetTheorems, TLAPS

-----------------------------------------------------------------------------
(* The inductive invariant                                                  *)

Creating == {"new", "ensureNew"}

Sweeping == {"clear", "prune", "park"}

\* What a command holds in memory at each of its places: r is cmd[c].
Shape(r) ==
  /\ r.at \in {"reserve", "reread", "probe", "spawn", "wait", "store"} => r.id \in Ids
  /\ r.op \in Creating => r.id \in Ids
  /\ r.at \in {"probe", "store"} => r.snap[r.id].kind # "none"
  /\ r.at = "probe" => r.op \notin Creating
  /\ r.at = "wait" \/ (r.at = "store" /\ r.op \in Creating) => r.pid # NoPid
  /\ r.pid # NoPid => r.at \in {"wait", "store"}
  /\ r.at = "store" => /\ r.snap[r.id].count = 0
                       /\ r.pid # NoPid => r.snap[r.id].pid = r.pid
  /\ r.stop # {} => r.at = "kill"
  /\ r.todo # {} => r.at \in {"look", "stop", "after"}
  /\ r.at = "look" => r.op = "prune"
  /\ r.op \in Sweeping => r.at \in {"look", "stop", "kill", "apply", "after"}
  /\ r.op = "prune" => r.todo \cap r.hit = {}
  /\ \A i \in Ids : r.snap[i].kind # "managed" => r.snap[i].pid = NoPid

ShapePart ==
  /\ \A c \in Commands : Shape(cmd[c])
  /\ \A i \in Ids : sessions[i].kind # "managed" => sessions[i].pid = NoPid

\* A Chrome somebody names was started.
Born(p) == p # NoPid => proc[p].life # "unborn"

BornPart ==
  /\ \A i \in Ids : Born(sessions[i].pid)
  /\ \A c \in Commands : Born(cmd[c].pid) /\ \A i \in Ids : Born(cmd[c].snap[i].pid)

\* What a clear has stopped does not come back.
Gone(p) == p # NoPid => proc[p].life \in {"closing", "dead"}

StoppedPart ==
  \A c \in Commands : cmd[c].op = "clear" =>
    \A i \in cmd[c].hit : Gone(cmd[c].snap[i].pid)

\* Heartbeats are given out once: a command that is about to record one is the
\* only one to have it.
SeenPart ==
  /\ \A i \in Ids : sessions[i].seen <= clock
  /\ \A c \in Commands, i \in Ids : cmd[c].snap[i].seen <= clock

Stamp(c) == cmd[c].snap[cmd[c].id].seen

Unseen(c, d) ==
  /\ cmd[d].op = "prune" => cmd[d].snap[cmd[c].id].seen # Stamp(c)
  /\ cmd[d].at = "store" /\ cmd[d].id = cmd[c].id => Stamp(d) # Stamp(c)

StampsPart ==
  \A c \in Commands : cmd[c].at = "store" =>
    /\ Stamp(c) > 0
    /\ sessions[cmd[c].id].seen # Stamp(c)
    /\ \A d \in Commands \ {c} : Unseen(c, d)

\* a prune has found the session silent as it is recorded still
Found(c, i) ==
  /\ cmd[c].op = "prune" /\ i \in cmd[c].hit
  /\ Exists(i) /\ cmd[c].snap[i].seen = sessions[i].seen

\* Each prune that found a session silent since it last answered is counted:
\* those under way, and one that has left its mark in the record.
MissesPart ==
  \A i \in Ids :
    /\ sessions[i].count > 0 => misses[i] > 0
    /\ \A c \in Commands : Found(c, i) =>
         /\ misses[i] > 0
         /\ sessions[i].count > 0 => misses[i] = 2
         /\ \A d \in Commands \ {c} : Found(d, i) => misses[i] = 2

SessionInv ==
  /\ TypeOK /\ ShapePart /\ BornPart /\ StoppedPart
  /\ SeenPart /\ StampsPart /\ MissesPart
-----------------------------------------------------------------------------
(* Types and shapes                                                         *)

Moves(c, next) == cmd' = [cmd EXCEPT ![c] = next]

Fit == {r \in Command : Shape(r)}

LEMMA FitMoves ==
  ASSUME cmd \in [Commands -> Command], NEW c \in Commands, NEW next \in Fit, Moves(c, next)
  PROVE  /\ cmd' \in [Commands -> Command]
         /\ cmd'[c] = next
         /\ \A d \in Commands : d # c => cmd'[d] = cmd[d]
BY DEF Moves, Fit

LEMMA NoRecordIsRecord == NoRecord \in Record
BY BoundsAssumption DEF NoRecord, Record, NoPid, Foreign

LEMMA IdleFits == Idle \in Fit
<1>1. [i \in Ids |-> NoRecord] \in [Ids -> Record]
  BY NoRecordIsRecord
<1>2. Idle \in Command
  BY <1>1 DEF Idle, Command, Ops, Places
<1>3. Shape(Idle)
  BY DEF Idle, Shape, NoRecord, Creating, Sweeping
<1> QED
  BY <1>2, <1>3 DEF Fit

LEMMA HeartbeatFits ==
  ASSUME TypeOK, Tick, NEW r \in Record
  PROVE  Heartbeat(r) \in Record
<1>1. clock + 1 \in 0..MaxClock
  BY BoundsAssumption DEF TypeOK, Tick
<1>2. PICK s \in 0..MaxClock : s = clock + 1
  BY <1>1
<1>3. PICK n \in 0..2 : n = 0
  OBVIOUS
<1>4. [r EXCEPT !.seen = s, !.count = n, !.age = "fresh"] \in Record
  BY DEF Record
<1> QED
  BY <1>2, <1>3, <1>4 DEF Heartbeat

\* What a read of the state returns.
LEMMA ReadsFit ==
  ASSUME TypeOK, ShapePart, NEW I \in SUBSET Ids
  PROVE  /\ ReadOf(I) \in [Ids -> Record]
         /\ \A i \in Ids : ReadOf(I)[i].kind # "managed" => ReadOf(I)[i].pid = NoPid
         /\ \A i \in I : ReadOf(I)[i] = sessions[i]
<1>1. ReadOf(I) \in [Ids -> Record]
  BY NoRecordIsRecord DEF ReadOf, TypeOK
<1>2. ASSUME NEW i \in Ids, ReadOf(I)[i].kind # "managed"
      PROVE  ReadOf(I)[i].pid = NoPid
  BY <1>2 DEF ReadOf, NoRecord, ShapePart
<1> QED
  BY <1>1, <1>2 DEF ReadOf

LEMMA ToProbeFits ==
  ASSUME TypeOK, ShapePart, NEW c \in Commands, NEW i \in Ids, Exists(i),
         NEW op \in {"use", "ensureActive", "ensureDefault"}, ToProbe(c, op, i)
  PROVE  \E next \in Fit : Moves(c, next)
<1> DEFINE next == [Idle EXCEPT !.op = op, !.at = "probe", !.id = i, !.snap = ReadOf({i})]
<1>1. ReadOf({i}) \in [Ids -> Record] /\ ReadOf({i})[i] = sessions[i]
  BY ReadsFit
<1>2. next \in Command
  BY <1>1, IdleFits DEF Fit, Command, Places, Ops
<1>3. Shape(next)
  BY <1>1, ReadsFit DEF Shape, Idle, Exists, Creating, Sweeping
<1> QED
  BY <1>2, <1>3 DEF Fit, ToProbe, Moves

\* Every step of a command leaves it in memory what its place asks for.
LEMMA StepFits ==
  ASSUME TypeOK, ShapePart, NEW c \in Commands, Step(c)
  PROVE  \E next \in Fit : Moves(c, next)
<1> DEFINE Goal == \E next \in Fit : Moves(c, next)
<1> USE DEF NoPid, Sweeping
<1>0. /\ cmd \in [Commands -> Command] /\ cmd[c] \in Command /\ Shape(cmd[c])
      /\ cmd[c] \in Fit
  BY DEF TypeOK, ShapePart, Fit
<1>1. ASSUME Done(c) PROVE Goal
  BY <1>1, IdleFits DEF Done, Moves
<1>2. ASSUME NEW i \in Ids, New(c, i) PROVE Goal
  <2> DEFINE next == [Idle EXCEPT !.op = "new", !.at = "reserve", !.id = i]
  <2>1. next \in Command
    BY IdleFits DEF Fit, Command, Ops, Places
  <2>2. Shape(next)
    BY IdleFits DEF Fit, Shape, Idle, NoRecord
  <2> QED
    BY <1>2, <2>1, <2>2 DEF New, Fit, Moves
<1>3. ASSUME NEW i \in Ids, Attach(c, i) PROVE Goal
  BY <1>0, <1>3 DEF Attach, Moves
<1>4. ASSUME NEW i \in Ids, Use(c, i) PROVE Goal
  BY <1>4, ToProbeFits DEF Use
<1>5. CASE Ensure(c)
  <2> DEFINE next == [Idle EXCEPT !.op = "ensureDefault", !.at = "ensureDefault"]
  <2>1. next \in Command
    BY IdleFits DEF Fit, Command, Ops, Places
  <2>2. Shape(next)
    BY DEF Shape, Idle, NoRecord, Creating
  <2>3. CASE active # NoId /\ Exists(active)
    BY <1>5, <2>3, ToProbeFits DEF Ensure, TypeOK
  <2> QED
    BY <1>5, <2>1, <2>2, <2>3 DEF Ensure, Fit, Moves
<1>6. CASE EnsureDefault(c)
  <2> DEFINE next == [Idle EXCEPT !.op = "ensureNew", !.at = "reserve", !.id = Default]
  <2>1. next \in Command
    BY IdleFits, IdsAssumption DEF Fit, Command, Ops, Places
  <2>2. Shape(next)
    BY IdsAssumption DEF Shape, Idle, NoRecord
  <2>3. CASE sessions[Default].kind = "managed"
    BY <1>6, <2>3, ToProbeFits, IdsAssumption DEF EnsureDefault, Exists
  <2>4. CASE sessions[Default].kind = "attached"
    BY <1>1, <1>6, <2>4 DEF EnsureDefault
  <2> QED
    BY <1>6, <2>1, <2>2, <2>3, <2>4 DEF EnsureDefault, Fit, Moves
<1>7. CASE Reserve(c)
  <2>1. [cmd[c] EXCEPT !.at = "spawn"] \in Fit
    BY <1>0, <1>7 DEF Reserve, Fit, Command, Places, Shape
  <2>2. [cmd[c] EXCEPT !.at = "reread"] \in Fit
    BY <1>0, <1>7 DEF Reserve, Fit, Command, Places, Shape
  <2> QED
    BY <1>0, <1>1, <1>7, <2>1, <2>2 DEF Reserve, Moves
<1>8. CASE Reread(c)
  BY <1>1, <1>8, ToProbeFits, IdsAssumption DEF Reread, Exists
<1>9. CASE ProbeDrifted(c)
  <2> DEFINE next == [cmd[c] EXCEPT !.at = "spawn", !.port = Snap(c).port]
  <2>1. Snap(c) \in Record
    BY <1>0, <1>9 DEF ProbeDrifted, Snap, Shape, Command
  <2>2. next \in Command
    BY <1>0, <2>1 DEF Command, Places, Record
  <2>3. Shape(next)
    BY <1>0, <1>9 DEF ProbeDrifted, Shape, Command
  <2> QED
    BY <1>0, <1>9, <2>2, <2>3 DEF ProbeDrifted, Fit, Moves
<1>10. CASE ProbeAnswered(c)
  <2> DEFINE snap == [cmd[c].snap EXCEPT ![cmd[c].id] = Heartbeat(Snap(c))]
             next == [cmd[c] EXCEPT !.at = "store", !.snap = snap]
  <2>1. Snap(c) \in Record /\ cmd[c].id \in Ids
    BY <1>0, <1>10 DEF ProbeAnswered, Snap, Shape, Command
  <2>3. Heartbeat(Snap(c)) \in Record
    BY <1>10, <2>1, HeartbeatFits DEF ProbeAnswered
  <2>4. next \in Command
    BY <1>0, <2>1, <2>3 DEF Command, Places
  <2>5. Shape(next)
    BY <1>0, <1>10, <2>1 DEF ProbeAnswered, Shape, Heartbeat, Snap, Record, Command
  <2> QED
    BY <1>0, <1>10, <2>4, <2>5 DEF ProbeAnswered, Fit, Moves
<1>11. CASE ProbeSilent(c)
  <2>1. [cmd[c] EXCEPT !.at = "spawn", !.port = Snap(c).port] \in Fit
    <3> DEFINE next == [cmd[c] EXCEPT !.at = "spawn", !.port = Snap(c).port]
    <3>1. Snap(c) \in Record
      BY <1>0, <1>11 DEF ProbeSilent, Snap, Shape, Command
    <3>2. next \in Command
      BY <1>0, <3>1 DEF Command, Places, Record
    <3>3. Shape(next)
      BY <1>0, <1>11 DEF ProbeSilent, Shape, Command
    <3> QED
      BY <3>2, <3>3 DEF Fit
  <2>2. [Idle EXCEPT !.op = "ensureDefault", !.at = "ensureDefault"] \in Fit
    <3>1. [Idle EXCEPT !.op = "ensureDefault", !.at = "ensureDefault"] \in Command
      BY IdleFits DEF Fit, Command, Ops, Places
    <3> QED
      BY <3>1 DEF Fit, Shape, Idle, NoRecord, Creating
  <2>3. \/ cmd' = [cmd EXCEPT ![c].at = "spawn", ![c].port = Snap(c).port]
        \/ cmd' = [cmd EXCEPT ![c] = [Idle EXCEPT !.op = "ensureDefault", !.at = "ensureDefault"]]
        \/ Done(c)
    BY <1>11 DEF ProbeSilent
  <2> QED
    BY <1>0, <1>1, <2>1, <2>2, <2>3 DEF Moves
<1>12. CASE Spawn(c)
  <2>1. PICK p \in Pids : cmd' = [cmd EXCEPT ![c].at = "wait", ![c].pid = p]
    BY <1>12 DEF Spawn
  <2> DEFINE next == [cmd[c] EXCEPT !.at = "wait", !.pid = p]
  <2>2. next \in Command
    BY <1>0 DEF Command, Places
  <2>3. p # NoPid
    BY BoundsAssumption DEF Pids
  <2>4. Shape(next)
    BY <1>0, <1>12, <2>3 DEF Spawn, Shape, Command
  <2> QED
    BY <1>0, <2>1, <2>2, <2>4 DEF Fit, Moves
<1>13. CASE Ready(c)
  <2> DEFINE p == cmd[c].pid
             snap == [cmd[c].snap EXCEPT ![cmd[c].id] = Started(p)]
             next == [cmd[c] EXCEPT !.at = "store", !.snap = snap]
  <2>1. p \in Pids /\ p # NoPid /\ cmd[c].id \in Ids
    BY <1>0, <1>13 DEF Ready, Shape, Command
  <2>2. Started(p) \in Record /\ Started(p).kind = "managed"
        /\ Started(p).pid = p /\ Started(p).count = 0
    <3>1. PICK s \in 0..MaxClock : s = clock + 1
      BY <1>13, BoundsAssumption DEF Ready, Tick, TypeOK
    <3>2. PICK n \in 0..2 : n = 0
      OBVIOUS
    <3>3. proc[p].port \in Pids \cup {Foreign}
      BY <2>1 DEF TypeOK, Process
    <3>4. [kind |-> "managed", pid |-> p, port |-> proc[p].port,
           seen |-> s, count |-> n, age |-> "fresh"] \in Record
      BY <2>1, <3>3 DEF Record
    <3> QED
      BY <3>1, <3>2, <3>4 DEF Started
  <2>3. next \in Command
    BY <1>0, <2>1, <2>2 DEF Command, Places
  <2>4. Shape(next)
    BY <1>0, <1>13, <2>1, <2>2 DEF Ready, Shape, Command
  <2> QED
    BY <1>0, <1>13, <2>3, <2>4 DEF Ready, Fit, Moves
<1>14. CASE StartTimedOut(c)
  <2> DEFINE next == [cmd[c] EXCEPT !.at = "spawn", !.attempt = 2, !.pid = NoPid, !.port = NoPid]
  <2>1. next \in Command
    <3>1. PICK n \in 1..2 : n = 2
      OBVIOUS
    <3>2. PICK q \in Pids \cup {NoPid} : q = NoPid
      OBVIOUS
    <3>3. PICK r \in Pids \cup {Foreign} : r = NoPid
      BY DEF Foreign
    <3>4. [cmd[c] EXCEPT !.at = "spawn", !.attempt = n, !.pid = q, !.port = r] \in Command
      BY <1>0 DEF Command, Places
    <3> QED
      BY <3>1, <3>2, <3>3, <3>4
  <2>2. Shape(next)
    BY <1>0, <1>14 DEF StartTimedOut, Shape, Command
  <2> QED
    BY <1>0, <1>1, <1>14, <2>1, <2>2 DEF StartTimedOut, Fit, Moves
<1>15. CASE SpawnFailed(c) \/ Rejected(c) \/ StoreEnsured(c) \/ ParkApply(c) \/ Crash(c)
  BY <1>1, <1>15 DEF SpawnFailed, Rejected, StoreEnsured, ParkApply, Crash
<1>16. CASE StoreNew(c)
  <2> DEFINE next == [cmd[c] EXCEPT !.at = "kill", !.stop = {cmd[c].pid}, !.pid = NoPid]
  <2>1. cmd[c].pid \in Pids
    BY <1>0, <1>16 DEF StoreNew, Shape, Command, Creating
  <2>2. next \in Command
    <3>1. PICK q \in Pids \cup {NoPid} : q = NoPid
      OBVIOUS
    <3>2. {cmd[c].pid} \in SUBSET Pids
      BY <2>1
    <3>3. [cmd[c] EXCEPT !.at = "kill", !.stop = {cmd[c].pid}, !.pid = q] \in Command
      BY <1>0, <3>2 DEF Command, Places
    <3> QED
      BY <3>1, <3>3
  <2>3. Shape(next)
    BY <1>0, <1>16 DEF StoreNew, Shape, Command
  <2> QED
    BY <1>0, <1>1, <1>16, <2>2, <2>3 DEF StoreNew, Fit, Moves
<1>17. CASE Kill(c)
  <2> DEFINE next == [cmd[c] EXCEPT !.at = "reread", !.stop = {}]
  <2>1. next \in Command
    BY <1>0 DEF Command, Places
  <2>2. cmd[c].op = "ensureNew" => Shape(next)
    BY <1>0, <1>17 DEF Kill, Shape, Command, Creating
  <2> QED
    BY <1>0, <1>1, <1>17, <2>1, <2>2 DEF Kill, Fit, Moves
<1>18. ASSUME NEW i \in Ids \cup {NoId}, NEW keep \in BOOLEAN, Clear(c, i, keep)
       PROVE  Goal
  <2> DEFINE I == {j \in Ids : Exists(j) /\ i \in {j, NoId}}
             at == IF keep \/ I = {} THEN "apply" ELSE "stop"
             todo == IF keep THEN {} ELSE I
             next == [Idle EXCEPT !.op = "clear", !.id = i, !.flag = keep, !.snap = ReadOf(I),
                                  !.at = at, !.todo = todo]
  <2>1. /\ ReadOf(I) \in [Ids -> Record]
        /\ \A j \in Ids : ReadOf(I)[j].kind # "managed" => ReadOf(I)[j].pid = NoPid
    BY ReadsFit
  <2>2. at \in Places /\ todo \in SUBSET Ids /\ (todo # {} => at = "stop")
        /\ at \in {"apply", "stop"}
    BY DEF Places
  <2>3. Moves(c, next)
    BY <1>18 DEF Clear, Moves
  <2> HIDE DEF I, at, todo
  <2>4. next \in Command
    BY <2>1, <2>2, IdleFits DEF Fit, Command, Ops
  <2>5. Shape(next)
    BY <2>1, <2>2 DEF Shape, Idle, Creating
  <2> QED
    BY <2>3, <2>4, <2>5 DEF Fit
<1>19. ASSUME NEW i \in Ids, ClearStop(c, i) PROVE Goal
  <2> DEFINE rest == cmd[c].todo \ {i}
             at == IF rest = {} THEN "apply" ELSE cmd[c].at
             next == [cmd[c] EXCEPT !.todo = rest, !.hit = @ \cup {i}, !.at = at]
  <2>1. rest \in SUBSET Ids /\ at \in {"apply", "stop", "after"} /\ (rest # {} => at # "apply")
    BY <1>0, <1>19 DEF ClearStop, Command
  <2>2. \/ Done(c)
        \/ Moves(c, next)
    BY <1>19 DEF ClearStop, Moves, Done
  <2> HIDE DEF rest, at
  <2>3. next \in Command
    BY <1>0, <2>1 DEF Command, Places
  <2>4. Shape(next)
    BY <1>0, <1>19, <2>1 DEF ClearStop, Shape, Command
  <2> QED
    BY <1>1, <2>2, <2>3, <2>4 DEF Fit
<1>20. CASE ClearApply(c)
  <2> DEFINE I == {i \in Ids : Exists(i) /\ cmd[c].id \in {i, NoId}}
             late == IF cmd[c].flag THEN {} ELSE I \ cmd[c].hit
             next == [cmd[c] EXCEPT !.at = "after", !.todo = late, !.snap = ReadOf(late)]
  <2>1. /\ ReadOf(late) \in [Ids -> Record]
        /\ \A j \in Ids : ReadOf(late)[j].kind # "managed" => ReadOf(late)[j].pid = NoPid
    BY ReadsFit
  <2>2. late \in SUBSET Ids
    OBVIOUS
  <2>3. Done(c) \/ Moves(c, next)
    BY <1>20 DEF ClearApply, Moves, Done
  <2> HIDE DEF I, late
  <2>4. next \in Command
    BY <1>0, <2>1, <2>2 DEF Command, Places
  <2>5. Shape(next)
    BY <1>0, <1>20, <2>1, <2>2 DEF ClearApply, Shape, Command
  <2> QED
    BY <1>1, <2>3, <2>4, <2>5 DEF Fit
<1>21. ASSUME NEW flag \in BOOLEAN, Prune(c, flag) PROVE Goal
  <2> DEFINE I == {i \in Ids : Exists(i) /\ sessions[i].age # "expired"}
             at == IF I = {} THEN "apply" ELSE "look"
             next == [Idle EXCEPT !.op = "prune", !.flag = flag, !.snap = ReadOf(Ids),
                                  !.at = at, !.todo = I]
  <2>1. /\ ReadOf(Ids) \in [Ids -> Record]
        /\ \A j \in Ids : ReadOf(Ids)[j].kind # "managed" => ReadOf(Ids)[j].pid = NoPid
    BY ReadsFit
  <2>2. at \in {"apply", "look"} /\ I \in SUBSET Ids /\ (I # {} => at = "look")
    OBVIOUS
  <2>3. Moves(c, next)
    BY <1>21 DEF Prune, Moves
  <2> HIDE DEF I, at
  <2>4. next \in Command
    BY <2>1, <2>2, IdleFits DEF Fit, Command, Ops, Places
  <2>5. Shape(next)
    BY <2>1, <2>2 DEF Shape, Idle, Creating
  <2> QED
    BY <2>3, <2>4, <2>5 DEF Fit
<1>22. ASSUME NEW i \in Ids, PruneLook(c, i) PROVE Goal
  <2> DEFINE at == IF cmd[c].todo = {i} THEN "apply" ELSE "look"
             hit == IF ~Answers(cmd[c].snap[i].port) THEN cmd[c].hit \cup {i} ELSE cmd[c].hit
             next == [cmd[c] EXCEPT !.todo = @ \ {i}, !.at = at, !.hit = hit]
  <2>1. hit \in SUBSET Ids /\ hit \subseteq cmd[c].hit \cup {i}
        /\ at \in {"apply", "look"} /\ (cmd[c].todo \ {i} # {} => at = "look")
    BY <1>0 DEF Command
  <2>2. Moves(c, next)
    BY <1>22 DEF PruneLook, Moves
  <2> HIDE DEF at, hit
  <2>3. next \in Command
    BY <1>0, <2>1 DEF Command, Places
  <2>4. Shape(next)
    BY <1>0, <1>22, <2>1 DEF PruneLook, Shape, Command, Creating
  <2> QED
    BY <2>2, <2>3, <2>4 DEF Fit
<1>23. CASE PruneApply(c)
  <2> DEFINE pids == {sessions[i].pid : i \in {j \in PruneDropped(c) :
                        sessions[j].kind = "managed" /\ Alive(sessions[j].pid)}}
             next == [Idle EXCEPT !.op = "prune", !.at = "kill", !.stop = pids]
  <2>1. pids \in SUBSET Pids
    BY DEF TypeOK, Record, Alive, PruneDropped, PruneExpired, PruneScope, PruneSilent, PruneAsked
  <2>2. Done(c) \/ Moves(c, next)
    BY <1>23 DEF PruneApply, Moves, Done
  <2> HIDE DEF pids
  <2>3. next \in Command
    BY <2>1, IdleFits DEF Fit, Command, Ops, Places
  <2>4. Shape(next)
    BY DEF Shape, Idle, Creating, NoRecord
  <2> QED
    BY <1>1, <2>2, <2>3, <2>4 DEF Fit
<1>24. ASSUME NEW I \in SUBSET Ids, Park(c, I) PROVE Goal
  <2> DEFINE next == [Idle EXCEPT !.op = "park", !.at = "stop", !.snap = ReadOf(I), !.todo = I]
  <2>1. /\ ReadOf(I) \in [Ids -> Record]
        /\ \A j \in Ids : ReadOf(I)[j].kind # "managed" => ReadOf(I)[j].pid = NoPid
    BY ReadsFit
  <2>2. next \in Command
    BY <2>1, IdleFits DEF Fit, Command, Ops, Places
  <2>3. Shape(next)
    BY <2>1 DEF Shape, Idle, Creating
  <2> QED
    BY <1>24, <2>2, <2>3 DEF Park, Moves, Fit
<1>25. ASSUME NEW i \in Ids, ParkStop(c, i) PROVE Goal
  <2> DEFINE at == IF cmd[c].todo = {i} THEN "apply" ELSE "stop"
             next == [cmd[c] EXCEPT !.todo = @ \ {i}, !.hit = @ \cup {i}, !.at = at]
  <2>1. at \in {"apply", "stop"} /\ (cmd[c].todo \ {i} # {} => at = "stop")
    BY <1>0 DEF Command
  <2>2. Moves(c, next)
    BY <1>25 DEF ParkStop, Moves
  <2> HIDE DEF at
  <2>3. next \in Command
    BY <1>0, <2>1 DEF Command, Places
  <2>4. Shape(next)
    BY <1>0, <1>25, <2>1 DEF ParkStop, Shape, Command, Creating
  <2> QED
    BY <2>2, <2>3, <2>4 DEF Fit
<1> QED
  BY <1>2, <1>3, <1>4, <1>5, <1>6, <1>7, <1>8, <1>9, <1>10, <1>11, <1>12, <1>13, <1>14, <1>15,
     <1>16, <1>17, <1>18, <1>19, <1>20, <1>21, <1>22, <1>23, <1>24, <1>25 DEF Step

-----------------------------------------------------------------------------
(* The processes                                                            *)

Running(p) == proc[p].life \in {"hung", "up"}

Over(p) == proc[p].life \in {"closing", "dead"}

\* Of a Chrome that was started, in one step.
GoesOn(p) ==
  /\ proc[p].life # "unborn" => proc'[p].life # "unborn"
  /\ Over(p) => Over(p)'

LEMMA TerminatedGoesOn ==
  ASSUME TypeOK, NEW P, proc' = Terminated(P)
  PROVE  /\ proc' \in [Pids -> Process]
         /\ \A p \in Pids : GoesOn(p) /\ (Running(p)' => Running(p) /\ p \notin P)
<1>1. proc' \in [Pids -> Process]
  BY DEF TypeOK, Process, Terminated
<1>2. ASSUME NEW p \in Pids
      PROVE  GoesOn(p) /\ (Running(p)' => Running(p) /\ p \notin P)
  <2>1. p # NoPid
    BY BoundsAssumption DEF Pids, NoPid
  <2>2. proc[p] \in Process /\ proc'[p] = IF p \in P /\ Alive(p)
                                          THEN [proc[p] EXCEPT !.life = "closing"] ELSE proc[p]
    BY DEF TypeOK, Terminated
  <2> QED
    BY <2>1, <2>2 DEF Process, Alive, GoesOn, Over, Running
<1> QED
  BY <1>1, <1>2

LEMMA KilledGoesOn ==
  ASSUME TypeOK, NEW q, proc' = Killed(q)
  PROVE  /\ proc' \in [Pids -> Process]
         /\ \A p \in Pids : GoesOn(p) /\ (Running(p)' => Running(p) /\ p # q)
<1>1. proc' \in [Pids -> Process]
  BY DEF TypeOK, Process, Killed
<1>2. ASSUME NEW p \in Pids
      PROVE  GoesOn(p) /\ (Running(p)' => Running(p) /\ p # q)
  <2>1. p # NoPid
    BY BoundsAssumption DEF Pids, NoPid
  <2>2. proc[p] \in Process /\ proc'[p] = IF p = q /\ Alive(p)
                                          THEN [proc[p] EXCEPT !.life = "dead"] ELSE proc[p]
    BY DEF TypeOK, Killed
  <2> QED
    BY <2>1, <2>2 DEF Process, Alive, GoesOn, Over, Running
<1> QED
  BY <1>1, <1>2

LEMMA SpawnGoesOn ==
  ASSUME TypeOK, ShapePart, NEW c \in Commands, Spawn(c)
  PROVE  /\ proc' \in [Pids -> Process]
         /\ \A p \in Pids : GoesOn(p) /\ (Running(p)' => Running(p) \/ cmd'[c].pid = p)
         /\ cmd'[c].pid \in Pids /\ proc'[cmd'[c].pid].life # "unborn"
<1>1. PICK p \in Pids :
        /\ proc[p].life = "unborn"
        /\ proc' = [proc EXCEPT ![p] =
             [life |-> "hung", port |-> IF cmd[c].port = NoPid THEN p ELSE cmd[c].port]]
        /\ cmd' = [cmd EXCEPT ![c].at = "wait", ![c].pid = p]
  BY DEF Spawn
<1>2. cmd'[c].pid = p /\ cmd[c].port \in Pids \cup {Foreign}
  BY <1>1 DEF TypeOK, Command
<1>3. proc' \in [Pids -> Process]
  BY <1>1, <1>2 DEF TypeOK, Process
<1>4. ASSUME NEW q \in Pids
      PROVE  GoesOn(q) /\ (Running(q)' => Running(q) \/ cmd'[c].pid = q)
  BY <1>1, <1>2 DEF TypeOK, GoesOn, Running, Over
<1> QED
  BY <1>1, <1>2, <1>3, <1>4 DEF TypeOK

\* No Chrome is started but by Spawn, and none comes back.
LEMMA LivesGoOn ==
  ASSUME TypeOK, ShapePart, Next
  PROVE  /\ proc' \in [Pids -> Process]
         /\ \A p \in Pids :
              /\ GoesOn(p)
              /\ Running(p)' => Running(p) \/ \E c \in Commands : Spawn(c) /\ cmd'[c].pid = p
<1> DEFINE Goal == /\ proc' \in [Pids -> Process]
                   /\ \A p \in Pids :
                        /\ GoesOn(p)
                        /\ Running(p)' =>
                             Running(p) \/ \E c \in Commands : Spawn(c) /\ cmd'[c].pid = p
<1>1. ASSUME proc' = proc PROVE Goal
  BY <1>1 DEF TypeOK, GoesOn, Over, Running
<1>2. ASSUME NEW c \in Commands, Spawn(c) PROVE Goal
  BY <1>2, SpawnGoesOn
<1>3. ASSUME NEW q, proc' = Killed(q) PROVE Goal
  BY <1>3, KilledGoesOn
<1>4. ASSUME NEW P, proc' = Terminated(P) PROVE Goal
  BY <1>4, TerminatedGoesOn
<1> HIDE DEF Goal
<1>5. ASSUME NEW c \in Commands, Step(c) PROVE Goal
  <2>1. CASE \/ \E i \in Ids : New(c, i) \/ Attach(c, i) \/ Use(c, i) \/ PruneLook(c, i)
             \/ Ensure(c) \/ EnsureDefault(c) \/ Reserve(c) \/ Reread(c)
             \/ ProbeAnswered(c) \/ ProbeSilent(c) \/ SpawnFailed(c) \/ Ready(c)
    BY <1>1, <2>1 DEF New, Attach, Use, PruneLook, Ensure, EnsureDefault, Reserve, Reread,
      ProbeAnswered, ProbeSilent, SpawnFailed, Ready
  <2>2. CASE \/ StoreNew(c) \/ StoreEnsured(c) \/ ClearApply(c) \/ PruneApply(c) \/ ParkApply(c)
             \/ Crash(c)
             \/ \E i \in Ids \cup {NoId}, keep \in BOOLEAN : Clear(c, i, keep)
             \/ \E flag \in BOOLEAN : Prune(c, flag)
             \/ \E I \in SUBSET Ids : Park(c, I)
    BY <1>1, <2>2 DEF StoreNew, StoreEnsured, ClearApply, PruneApply, ParkApply, Crash, Clear,
      Prune, Park
  <2>3. CASE ProbeDrifted(c) \/ Rejected(c) \/ StartTimedOut(c)
             \/ \E i \in Ids : ParkStop(c, i)
    BY <1>3, <2>3 DEF ProbeDrifted, Rejected, StartTimedOut, ParkStop
  <2>4. ASSUME NEW i \in Ids, ClearStop(c, i)
        PROVE  Goal
    BY <1>3, <1>4, <2>4 DEF ClearStop
  <2>5. CASE Kill(c)
    BY <1>4, <2>5 DEF Kill
  <2> QED
    BY <1>2, <1>5, <2>1, <2>2, <2>3, <2>4, <2>5 DEF Step
<1>6. ASSUME NEW p \in Pids, NEW life \in {"hung", "up", "dead"},
             proc' = [proc EXCEPT ![p].life = life], proc[p].life \in {"hung", "up", "closing"},
             life # "dead" => Running(p)
      PROVE  Goal
  <2>1. proc' \in [Pids -> Process]
    BY <1>6 DEF TypeOK, Process
  <2>2. ASSUME NEW q \in Pids PROVE GoesOn(q) /\ (Running(q)' => Running(q))
    BY <1>6 DEF TypeOK, Process, GoesOn, Over, Running
  <2> QED
    BY <2>1, <2>2 DEF Goal
<1>7. ASSUME NEW p \in Pids, ComesUp(p) \/ Hangs(p) \/ Exits(p) PROVE Goal
  BY <1>6, <1>7 DEF ComesUp, Hangs, Exits, Alive, Running
<1>8. ASSUME ForeignChanges \/ \E i \in Ids : Ages(i) PROVE Goal
  BY <1>1, <1>8 DEF ForeignChanges, Ages
<1> QED
  BY <1>5, <1>7, <1>8 DEF Next, Goal

-----------------------------------------------------------------------------
(* The records                                                              *)

Attached == [kind |-> "attached", pid |-> NoPid, port |-> Foreign,
             seen |-> clock + 1, count |-> 0, age |-> "fresh"]

\* a command records what it has found out
Stores(c, i) ==
  /\ (StoreNew(c) /\ ~Exists(i)) \/ (StoreEnsured(c) /\ Exists(i))
  /\ cmd[c].at = "store" /\ cmd[c].id = i /\ Done(c)
  /\ sessions'[i] = cmd[c].snap[i] /\ misses'[i] = 0

Removes(c, i) ==
  /\ Exists(i) /\ sessions'[i] = NoRecord /\ misses'[i] = misses[i]
  /\ \/ ClearApply(c) /\ cmd[c].id \in {i, NoId}
     \/ PruneApply(c) /\ i \in PruneDropped(c)

Marks(c, i) ==
  /\ PruneApply(c) /\ i \in PruneSilent(c) \ PruneDropped(c)
  /\ sessions'[i] = [sessions[i] EXCEPT !.count = 1,
                       !.pid = IF Alive(@) THEN @ ELSE NoPid]
  /\ misses'[i] = misses[i]

Answered(i) ==
  /\ Tick /\ misses'[i] = 0
  /\ \/ ~Exists(i) /\ sessions'[i] = Attached
     \/ Exists(i) /\ sessions'[i] = Heartbeat(sessions[i])

\* nothing but what the record says of the Chrome or of the lease
Touched(i) ==
  /\ misses'[i] = misses[i]
  /\ \/ sessions'[i] = sessions[i]
     \/ /\ sessions[i].kind = "managed" /\ ~Alive(sessions[i].pid)
        /\ sessions'[i] = [sessions[i] EXCEPT !.pid = NoPid]
     \/ \E age \in {"idle", "expired"} : sessions'[i] = [sessions[i] EXCEPT !.age = age]

\* a prune has found the session silent
Misses(c, i) ==
  /\ PruneLook(c, i) /\ sessions'[i] = sessions[i] /\ cmd[c].op = "prune"
  /\ misses'[i] = IF misses[i] < 2 THEN misses[i] + 1 ELSE misses[i]

RecordMoves(i) ==
  \/ Touched(i) \/ Answered(i)
  \/ \E c \in Commands : Stores(c, i) \/ Removes(c, i) \/ Marks(c, i) \/ Misses(c, i)

ActiveMoves == active' \in Ids \cup {NoId} /\ (active' # NoId => sessions'[active'].kind # "none")

\* What any step does to a record.
LEMMA RecordsMove ==
  ASSUME TypeOK, ShapePart, Next
  PROVE  /\ sessions' = [i \in Ids |-> sessions'[i]] /\ misses' = [i \in Ids |-> misses'[i]]
         /\ \A i \in Ids : RecordMoves(i)
         /\ ActiveMoves
<1> DEFINE Goal == /\ sessions' = [i \in Ids |-> sessions'[i]]
                   /\ misses' = [i \in Ids |-> misses'[i]]
                   /\ \A i \in Ids : RecordMoves(i)
                   /\ ActiveMoves
<1>0. /\ sessions \in [Ids -> Record] /\ misses \in [Ids -> 0..2]
      /\ active \in Ids \cup {NoId} /\ (active # NoId => Exists(active))
  BY DEF TypeOK, Exists
<1>1. ASSUME UNCHANGED <<sessions, active, misses>> PROVE Goal
  BY <1>0, <1>1 DEF RecordMoves, Touched, ActiveMoves, Exists
<1>2. ASSUME NEW c \in Commands, NEW i \in Ids, Attach(c, i) PROVE Goal
  <2>1. \A j \in Ids : j # i => Touched(j)
    BY <1>0, <1>2 DEF Attach, Touched
  <2>2. Answered(i)
    BY <1>0, <1>2 DEF Attach, Answered, Attached
  <2>3. ActiveMoves
    BY <1>0, <1>2 DEF Attach, ActiveMoves, Exists
  <2> QED
    BY <1>0, <1>2, <2>1, <2>2, <2>3 DEF Attach, RecordMoves
<1>3. ASSUME NEW c \in Commands, StoreNew(c) \/ StoreEnsured(c) PROVE Goal
  <2> DEFINE i == cmd[c].id
  <2>1. /\ cmd[c].at = "store" /\ i \in Ids /\ cmd[c].snap[i].kind # "none"
    BY <1>3 DEF StoreNew, StoreEnsured, ShapePart, Shape
  <2>2. CASE UNCHANGED <<sessions, active, misses>>
    BY <1>1, <2>2
  <2>3. CASE ~UNCHANGED <<sessions, active, misses>>
    <3> DEFINE Stored == /\ sessions' = [sessions EXCEPT ![i] = cmd[c].snap[i]]
                         /\ active' = i /\ misses' = [misses EXCEPT ![i] = 0] /\ Done(c)
    <3>4. ASSUME StoreNew(c) PROVE Stored /\ ~Exists(i)
      BY <2>3, <3>4 DEF StoreNew
    <3>5. ASSUME StoreEnsured(c) PROVE Stored /\ Exists(i)
      BY <2>3, <3>5 DEF StoreEnsured, Snap
    <3>1. Stored /\ ((StoreNew(c) /\ ~Exists(i)) \/ (StoreEnsured(c) /\ Exists(i)))
      BY <1>3, <3>4, <3>5
    <3>2. \A j \in Ids : j # i => Touched(j)
      BY <1>0, <3>1 DEF Touched
    <3>3. Stores(c, i)
      BY <1>0, <2>1, <3>1 DEF Stores
    <3>6. ActiveMoves
      BY <1>0, <2>1, <3>1 DEF ActiveMoves
    <3> QED
      BY <1>0, <3>1, <3>2, <3>3, <3>6 DEF RecordMoves
  <2> QED
    BY <2>2, <2>3
<1>4. ASSUME NEW c \in Commands, ClearApply(c) PROVE Goal
  <2> DEFINE I == {i \in Ids : Exists(i) /\ cmd[c].id \in {i, NoId}}
  <2>1. /\ sessions' = [i \in Ids |-> IF i \in I THEN NoRecord ELSE sessions[i]]
        /\ active' = (IF active \in I THEN NoId ELSE active) /\ misses' = misses
    BY <1>4 DEF ClearApply, Remove
  <2>2. \A j \in Ids : j \notin I => Touched(j)
    BY <1>0, <2>1 DEF Touched
  <2>3. \A j \in I : Removes(c, j)
    BY <1>0, <1>4, <2>1 DEF Removes
  <2>4. ActiveMoves
    BY <1>0, <2>1 DEF ActiveMoves, Exists
  <2> QED
    BY <1>0, <2>1, <2>2, <2>3, <2>4 DEF RecordMoves
<1>5. ASSUME NEW c \in Commands, PruneApply(c) PROVE Goal
  <2> DEFINE heard == PruneAsked(c) \ cmd[c].hit
             marked == PruneSilent(c) \ PruneDropped(c)
  <2>1. /\ sessions' = [i \in Ids |->
             CASE i \in PruneDropped(c) -> NoRecord
               [] i \in heard -> Heartbeat(sessions[i])
               [] i \in marked ->
                    [sessions[i] EXCEPT !.count = 1,
                       !.pid = IF Alive(@) THEN @ ELSE NoPid]
               [] OTHER -> sessions[i]]
        /\ active' = (IF active \in PruneDropped(c) THEN NoId ELSE active)
        /\ misses' = [i \in Ids |-> IF i \in heard THEN 0 ELSE misses[i]]
        /\ heard # {} => Tick
    BY <1>5 DEF PruneApply
  <2>2. /\ PruneScope(c) \subseteq Ids /\ \A i \in PruneScope(c) : Exists(i)
        /\ PruneDropped(c) \subseteq PruneScope(c) /\ heard \subseteq PruneScope(c)
        /\ heard \cap PruneDropped(c) = {} /\ heard \cap marked = {}
        /\ marked \subseteq PruneScope(c)
    BY DEF PruneScope, PruneDropped, PruneExpired, PruneSilent, PruneAsked
  <2>3. ASSUME NEW i \in Ids PROVE RecordMoves(i)
    <3>1. CASE i \in PruneDropped(c)
      <4>1. sessions'[i] = NoRecord /\ misses'[i] = misses[i]
        BY <2>1, <2>2, <3>1
      <4> QED
        BY <1>5, <2>2, <3>1, <4>1 DEF Removes, RecordMoves
    <3>2. CASE i \in heard
      <4>1. sessions'[i] = Heartbeat(sessions[i]) /\ misses'[i] = 0 /\ Tick
        BY <2>1, <2>2, <3>2
      <4> QED
        BY <2>2, <3>2, <4>1 DEF Answered, RecordMoves
    <3>3. CASE i \in marked
      <4>1. /\ sessions'[i] = [sessions[i] EXCEPT !.count = 1,
                                 !.pid = IF Alive(@) THEN @ ELSE NoPid]
            /\ misses'[i] = misses[i]
        BY <2>1, <2>2, <3>3
      <4> QED
        BY <1>5, <3>3, <4>1 DEF Marks, RecordMoves
    <3>4. CASE i \notin PruneDropped(c) /\ i \notin heard /\ i \notin marked
      <4>1. sessions'[i] = sessions[i] /\ misses'[i] = misses[i]
        BY <2>1, <3>4
      <4> QED
        BY <4>1 DEF Touched, RecordMoves
    <3> QED
      BY <3>1, <3>2, <3>3, <3>4
  <2>4. ActiveMoves
    <3>1. ASSUME active # NoId, active \notin PruneDropped(c)
          PROVE  sessions'[active'].kind # "none"
      <4> DEFINE i == active
      <4>1. i \in Ids /\ i \notin PruneDropped(c) /\ Exists(i)
        BY <1>0, <3>1
      <4>2. sessions'[i].kind = sessions[i].kind
        BY <1>0, <2>1, <4>1 DEF Heartbeat, Record
      <4>3. active' = active
        BY <2>1, <3>1
      <4> QED
        BY <4>1, <4>2, <4>3 DEF Exists
    <3> QED
      <4>1. active' = IF active \in PruneDropped(c) THEN NoId ELSE active
        BY <2>1
      <4> QED
        BY <1>0, <3>1, <4>1 DEF ActiveMoves
  <2>5. misses' = [i \in Ids |-> misses'[i]]
    BY <2>1
  <2>6. sessions' = [i \in Ids |-> sessions'[i]]
    <3> DEFINE rec(i) == CASE i \in PruneDropped(c) -> NoRecord
                           [] i \in heard -> Heartbeat(sessions[i])
                           [] i \in marked ->
                                [sessions[i] EXCEPT !.count = 1,
                                   !.pid = IF Alive(@) THEN @ ELSE NoPid]
                           [] OTHER -> sessions[i]
    <3>1. sessions' = [i \in Ids |-> rec(i)]
      BY <2>1
    <3> HIDE DEF rec
    <3> QED
      BY <3>1
  <2> QED
    BY <2>3, <2>4, <2>5, <2>6
<1>6. ASSUME NEW c \in Commands, ParkApply(c) PROVE Goal
  <2>1. \A i \in Ids : Touched(i)
    BY <1>0, <1>6 DEF ParkApply, Touched
  <2>2. ActiveMoves
    BY <1>0, <1>6 DEF ParkApply, ActiveMoves, Exists, Record
  <2> QED
    BY <1>0, <1>6, <2>1, <2>2 DEF ParkApply, RecordMoves
<1>7. ASSUME NEW c \in Commands, NEW i \in Ids, PruneLook(c, i) PROVE Goal
  <2>1. cmd[c].op = "prune"
    BY <1>7 DEF PruneLook, ShapePart, Shape
  <2>2. \A j \in Ids : j # i => Touched(j)
    BY <1>0, <1>7 DEF PruneLook, Touched
  <2>3. Touched(i) \/ Misses(c, i)
    BY <1>0, <1>7, <2>1 DEF PruneLook, Touched, Misses
  <2> QED
    BY <1>0, <1>7, <2>2, <2>3 DEF PruneLook, RecordMoves, ActiveMoves, Exists
<1>8. ASSUME NEW i \in Ids, Ages(i) PROVE Goal
  <2>1. \A j \in Ids : Touched(j)
    BY <1>0, <1>8 DEF Ages, Touched
  <2>2. ActiveMoves
    BY <1>0, <1>8 DEF Ages, ActiveMoves, Exists, Record
  <2> QED
    BY <1>0, <1>8, <2>1, <2>2 DEF Ages, RecordMoves
<1> HIDE DEF Goal
<1>9. ASSUME NEW c \in Commands, Step(c) PROVE Goal
  <2>1. CASE \/ \E i \in Ids : New(c, i) \/ Use(c, i) \/ ClearStop(c, i) \/ ParkStop(c, i)
             \/ Ensure(c) \/ EnsureDefault(c) \/ Reserve(c) \/ Reread(c)
             \/ ProbeDrifted(c) \/ ProbeAnswered(c) \/ ProbeSilent(c)
             \/ Spawn(c) \/ SpawnFailed(c) \/ Ready(c) \/ Rejected(c) \/ StartTimedOut(c)
    BY <1>1, <2>1 DEF New, Use, ClearStop, ParkStop, Ensure, EnsureDefault, Reserve, Reread,
      ProbeDrifted, ProbeAnswered, ProbeSilent, Spawn, SpawnFailed, Ready, Rejected, StartTimedOut
  <2>2. CASE \/ Kill(c) \/ Crash(c)
             \/ \E i \in Ids \cup {NoId}, keep \in BOOLEAN : Clear(c, i, keep)
             \/ \E flag \in BOOLEAN : Prune(c, flag)
             \/ \E I \in SUBSET Ids : Park(c, I)
    BY <1>1, <2>2 DEF Kill, Crash, Clear, Prune, Park
  <2> QED
    BY <1>2, <1>3, <1>4, <1>5, <1>6, <1>7, <1>9, <2>1, <2>2 DEF Step
<1>10. ASSUME \/ \E p \in Pids : ComesUp(p) \/ Hangs(p) \/ Exits(p)
              \/ ForeignChanges
       PROVE  Goal
  BY <1>1, <1>10 DEF ComesUp, Hangs, Exits, ForeignChanges
<1> QED
  BY <1>8, <1>9, <1>10 DEF Next, Goal

\* What these say of the fields.
LEMMA TouchedKeeps ==
  ASSUME TypeOK, NEW i \in Ids, Touched(i)
  PROVE  /\ sessions'[i].kind = sessions[i].kind /\ sessions'[i].seen = sessions[i].seen
         /\ sessions'[i].count = sessions[i].count
         /\ sessions'[i].pid # sessions[i].pid =>
              sessions'[i].pid = NoPid /\ ~Alive(sessions[i].pid)
<1>0. sessions[i] \in Record
  BY DEF TypeOK
<1>1. CASE sessions'[i] = sessions[i]
  BY <1>1
<1>2. CASE /\ ~Alive(sessions[i].pid)
           /\ sessions'[i] = [sessions[i] EXCEPT !.pid = NoPid]
  BY <1>0, <1>2 DEF Record
<1>3. ASSUME NEW age \in {"idle", "expired"}, sessions'[i] = [sessions[i] EXCEPT !.age = age]
      PROVE  /\ sessions'[i].kind = sessions[i].kind /\ sessions'[i].seen = sessions[i].seen
             /\ sessions'[i].count = sessions[i].count /\ sessions'[i].pid = sessions[i].pid
  BY <1>0, <1>3 DEF Record
<1> QED
  BY <1>1, <1>2, <1>3 DEF Touched

LEMMA AnsweredIsNew ==
  ASSUME TypeOK, NEW i \in Ids, Answered(i)
  PROVE  /\ sessions'[i].seen = clock + 1 /\ sessions'[i].count = 0
         /\ sessions'[i].kind # "none" /\ clock' = clock + 1
         /\ IF Exists(i) THEN sessions'[i].pid = sessions[i].pid ELSE sessions'[i].pid = NoPid
<1>0. sessions[i] \in Record
  BY DEF TypeOK
<1>1. clock' = clock + 1
  BY DEF Answered, Tick
<1>2. CASE ~Exists(i) /\ sessions'[i] = Attached
  BY <1>1, <1>2 DEF Attached
<1>3. CASE Exists(i) /\ sessions'[i] = Heartbeat(sessions[i])
  BY <1>0, <1>1, <1>3 DEF Heartbeat, Exists, Record
<1> QED
  BY <1>2, <1>3 DEF Answered

LEMMA MarkedIsCounted ==
  ASSUME TypeOK, NEW i \in Ids, NEW c \in Commands, Marks(c, i)
  PROVE  /\ sessions'[i].kind = sessions[i].kind /\ sessions'[i].seen = sessions[i].seen
         /\ sessions'[i].count = 1
         /\ sessions'[i].pid # sessions[i].pid =>
              sessions'[i].pid = NoPid /\ ~Alive(sessions[i].pid)
<1>0. sessions[i] \in Record
  BY DEF TypeOK
<1> QED
  BY <1>0 DEF Marks, Record

\* The counters and the user's own Chrome.
LEMMA CountersFit ==
  ASSUME TypeOK, Next
  PROVE  /\ foreign' \in BOOLEAN /\ clock' \in 0..MaxClock
         /\ ops' \in 0..MaxOps /\ events' \in 0..MaxEvents
         /\ clock' = clock \/ Tick
<1> DEFINE Counted == /\ clock' = clock \/ Tick
                      /\ ops' = ops \/ (ops < MaxOps /\ ops' = ops + 1)
                      /\ events' = events \/ Event
                      /\ foreign' \in BOOLEAN
<1>0. foreign \in BOOLEAN
  BY DEF TypeOK
<1>1. ASSUME NEW c \in Commands, Step(c) PROVE Counted
  <2>1. CASE \/ \E i \in Ids : New(c, i) \/ Attach(c, i) \/ Use(c, i)
             \/ Ensure(c) \/ EnsureDefault(c) \/ Reserve(c) \/ Reread(c)
             \/ ProbeDrifted(c) \/ ProbeAnswered(c) \/ ProbeSilent(c)
    BY <1>0, <2>1 DEF New, Attach, Use, Ensure, EnsureDefault, Reserve, Reread, ProbeDrifted,
      ProbeAnswered, ProbeSilent, Begin
  <2>2. CASE \/ Spawn(c) \/ SpawnFailed(c) \/ Ready(c) \/ Rejected(c) \/ StartTimedOut(c)
             \/ StoreNew(c) \/ StoreEnsured(c) \/ Kill(c) \/ ClearApply(c)
    BY <1>0, <2>2 DEF Spawn, SpawnFailed, Ready, Rejected, StartTimedOut, StoreNew, StoreEnsured,
      Kill, ClearApply
  <2>3. CASE \/ \E i \in Ids \cup {NoId}, keep \in BOOLEAN : Clear(c, i, keep)
             \/ \E flag \in BOOLEAN : Prune(c, flag)
             \/ \E I \in SUBSET Ids : Park(c, I)
             \/ PruneApply(c) \/ ParkApply(c) \/ Crash(c)
    BY <1>0, <2>3 DEF Clear, Prune, Park, PruneApply, ParkApply, Crash, Begin
  <2>4. CASE \E i \in Ids : ClearStop(c, i) \/ PruneLook(c, i) \/ ParkStop(c, i)
    BY <1>0, <2>4 DEF ClearStop, PruneLook, ParkStop
  <2> QED
    BY <1>1, <2>1, <2>2, <2>3, <2>4 DEF Step
<1>2. ASSUME \/ \E p \in Pids : ComesUp(p) \/ Hangs(p) \/ Exits(p)
             \/ \E i \in Ids : Ages(i)
             \/ ForeignChanges
      PROVE  Counted
  BY <1>0, <1>2 DEF ComesUp, Hangs, Exits, Ages, ForeignChanges
<1>3. Counted
  BY <1>1, <1>2 DEF Next
<1> QED
  BY <1>3, BoundsAssumption DEF TypeOK, Tick, Event

\* The state file stays well-formed.
LEMMA RecordsFit ==
  ASSUME TypeOK, ShapePart, Next
  PROVE  /\ sessions' \in [Ids -> Record] /\ misses' \in [Ids -> 0..2]
         /\ active' \in {i \in Ids : sessions'[i].kind # "none"} \cup {NoId}
         /\ \A i \in Ids : sessions'[i].kind # "managed" => sessions'[i].pid = NoPid
<1>1. ASSUME NEW i \in Ids
      PROVE  /\ sessions'[i] \in Record /\ misses'[i] \in 0..2
             /\ sessions'[i].kind # "managed" => sessions'[i].pid = NoPid
  <2> DEFINE r == sessions'[i]
             Goal == r \in Record /\ misses'[i] \in 0..2
                     /\ (r.kind # "managed" => r.pid = NoPid)
  <2>0. /\ sessions[i] \in Record /\ misses[i] \in 0..2
        /\ sessions[i].kind # "managed" => sessions[i].pid = NoPid
    BY DEF TypeOK, ShapePart
  <2>a. PICK none \in Pids \cup {NoPid} : none = NoPid
    OBVIOUS
  <2>1. ASSUME Touched(i) PROVE Goal
    <3>1. CASE r = sessions[i]
      BY <2>0, <2>1, <3>1 DEF Touched
    <3>2. CASE r = [sessions[i] EXCEPT !.pid = NoPid]
      <4>1. [sessions[i] EXCEPT !.pid = none] \in Record
        BY <2>0 DEF Record
      <4> QED
        BY <2>0, <2>1, <2>a, <3>2, <4>1 DEF Touched, Record
    <3>3. ASSUME NEW age \in {"idle", "expired"}, r = [sessions[i] EXCEPT !.age = age]
          PROVE  Goal
      BY <2>0, <2>1, <3>3 DEF Touched, Record
    <3> QED
      BY <2>1, <3>1, <3>2, <3>3 DEF Touched
  <2>2. ASSUME Answered(i) PROVE Goal
    <3>1. CASE r = Attached
      <4>1. PICK s \in 0..MaxClock : s = clock + 1
        BY <2>2, BoundsAssumption DEF Answered, Tick, TypeOK
      <4>2. PICK n \in 0..2 : n = 0
        OBVIOUS
      <4>3. PICK q \in Pids \cup {Foreign} : q = Foreign
        OBVIOUS
      <4>4. [kind |-> "attached", pid |-> none, port |-> q, seen |-> s, count |-> n,
             age |-> "fresh"] \in Record
        BY DEF Record
      <4> QED
        BY <2>2, <2>a, <3>1, <4>1, <4>2, <4>3, <4>4 DEF Answered, Attached
    <3>2. CASE r = Heartbeat(sessions[i])
      <4>1. r \in Record
        BY <2>0, <2>2, <3>2, HeartbeatFits DEF Answered
      <4> QED
        BY <2>0, <2>2, <3>2, <4>1 DEF Answered, Heartbeat, Record
    <3> QED
      BY <2>2, <3>1, <3>2 DEF Answered
  <2>3. ASSUME NEW c \in Commands, Stores(c, i) PROVE Goal
    BY <2>3 DEF Stores, TypeOK, Command, ShapePart, Shape
  <2>4. ASSUME NEW c \in Commands, Removes(c, i) PROVE Goal
    BY <2>0, <2>4, NoRecordIsRecord DEF Removes, NoRecord
  <2>5. ASSUME NEW c \in Commands, Marks(c, i) PROVE Goal
    <3>1. PICK n \in 0..2 : n = 1
      OBVIOUS
    <3>2. PICK q \in Pids \cup {NoPid} :
            q = IF Alive(sessions[i].pid) THEN sessions[i].pid ELSE NoPid
      BY <2>0 DEF Record
    <3>3. r = [sessions[i] EXCEPT !.count = n, !.pid = q] /\ misses'[i] = misses[i]
      BY <2>5, <3>1, <3>2 DEF Marks
    <3>4. r \in Record
      BY <2>0, <3>3 DEF Record
    <3> QED
      BY <2>0, <3>2, <3>3, <3>4 DEF Record
  <2>6. ASSUME NEW c \in Commands, Misses(c, i) PROVE Goal
    BY <2>0, <2>6 DEF Misses
  <2> HIDE DEF Goal
  <2>7. Goal
    BY <2>1, <2>2, <2>3, <2>4, <2>5, <2>6, RecordsMove DEF RecordMoves
  <2> QED
    BY <2>7 DEF Goal
<1> QED
  BY <1>1, RecordsMove DEF ActiveMoves

-----------------------------------------------------------------------------
(* What a command remembers                                                 *)

\* A command has seen its session answer, and is about to record that.
Renews(c) ==
  /\ Tick /\ UNCHANGED <<sessions, misses>>
  /\ cmd[c].id \in Ids /\ cmd'[c].id = cmd[c].id
  /\ \A i \in Ids : i # cmd[c].id => cmd'[c].snap[i] = cmd[c].snap[i]
  /\ cmd'[c].snap[cmd[c].id] \in {Heartbeat(cmd[c].snap[cmd[c].id]), Started(cmd[c].pid)}
  /\ cmd'[c].op = cmd[c].op /\ cmd[c].op \notin Sweeping

\* What it knows of the other sessions it has read now or earlier.
Recalls(c) ==
  /\ cmd'[c].at # "store"
  /\ \A i \in Ids : \/ cmd'[c].snap[i] \in {NoRecord, sessions[i]}
                    \/ cmd'[c].snap[i] = cmd[c].snap[i] /\ cmd'[c].op = cmd[c].op

\* What it has found out of i, or stopped, it goes on knowing.
Hits(c, i) ==
  /\ cmd'[c].op = "prune" =>
       /\ cmd[c].op = "prune" /\ cmd'[c].snap = cmd[c].snap /\ ~PruneApply(c)
       /\ i \in cmd[c].hit \/ Misses(c, i)
  /\ cmd'[c].op = "clear" =>
       /\ cmd[c].op = "clear"
       /\ \/ cmd'[c].snap[i] = NoRecord
          \/ /\ cmd'[c].snap[i] = cmd[c].snap[i]
             /\ i \in cmd[c].hit \/ ClearStop(c, i)

MemoryMoves(c) ==
  /\ Renews(c) \/ Recalls(c)
  /\ cmd'[c].pid \in {NoPid, cmd[c].pid} \/ Spawn(c)
  /\ \A i \in cmd'[c].hit : Hits(c, i)

LEMMA StepRemembers ==
  ASSUME TypeOK, ShapePart, NEW c \in Commands, Step(c)
  PROVE  MemoryMoves(c)
<1>0. /\ cmd \in [Commands -> Command] /\ cmd[c] \in Command /\ Shape(cmd[c])
  BY DEF TypeOK, ShapePart
<1>1. ASSUME cmd'[c].hit = {}, cmd'[c].pid = NoPid, cmd'[c].at # "store",
             \A i \in Ids : cmd'[c].snap[i] \in {NoRecord, sessions[i]}
      PROVE  MemoryMoves(c)
  BY <1>1 DEF MemoryMoves, Recalls
<1>2. ASSUME Done(c) PROVE MemoryMoves(c)
  BY <1>0, <1>1, <1>2 DEF Done, Idle
<1>3. ASSUME NEW op, NEW i \in Ids, ToProbe(c, op, i) PROVE MemoryMoves(c)
  BY <1>0, <1>1, <1>3 DEF ToProbe, Idle, ReadOf
<1>4. CASE \E i \in Ids : New(c, i) \/ Attach(c, i) \/ Use(c, i)
  <2>1. ASSUME NEW i \in Ids, New(c, i) PROVE MemoryMoves(c)
    BY <1>0, <1>1, <2>1 DEF New, Idle
  <2>2. ASSUME NEW i \in Ids, Attach(c, i) PROVE MemoryMoves(c)
    BY <1>0, <1>1, <2>2 DEF Attach, Begin, Idle
  <2>3. ASSUME NEW i \in Ids, Use(c, i) PROVE MemoryMoves(c)
    BY <1>3, <2>3 DEF Use
  <2> QED
    BY <1>4, <2>1, <2>2, <2>3
<1>5. CASE Ensure(c)
  <2>1. CASE active # NoId /\ Exists(active)
    BY <1>3, <1>5, <2>1 DEF Ensure, TypeOK
  <2>2. CASE ~(active # NoId /\ Exists(active))
    <3>1. cmd'[c] = [Idle EXCEPT !.op = "ensureDefault", !.at = "ensureDefault"]
      BY <1>0, <1>5, <2>2 DEF Ensure
    <3> QED
      BY <1>1, <3>1 DEF Idle
  <2> QED
    BY <2>1, <2>2
<1>6. CASE EnsureDefault(c)
  <2>1. CASE sessions[Default].kind = "managed"
    BY <1>3, <1>6, <2>1, IdsAssumption DEF EnsureDefault
  <2>2. CASE sessions[Default].kind = "attached"
    BY <1>2, <1>6, <2>2 DEF EnsureDefault
  <2>3. CASE sessions[Default].kind \notin {"managed", "attached"}
    <3>1. cmd'[c] = [Idle EXCEPT !.op = "ensureNew", !.at = "reserve", !.id = Default]
      BY <1>0, <1>6, <2>3 DEF EnsureDefault
    <3> QED
      BY <1>1, <3>1 DEF Idle
  <2> QED
    BY <2>1, <2>2, <2>3
<1>7. ASSUME cmd'[c].snap = cmd[c].snap, cmd'[c].op = cmd[c].op, cmd'[c].hit = cmd[c].hit,
             cmd'[c].at # "store", cmd[c].at # "apply",
             cmd'[c].pid \in {NoPid, cmd[c].pid} \/ Spawn(c)
      PROVE  MemoryMoves(c)
  BY <1>7 DEF MemoryMoves, Recalls, Hits, PruneApply
<1>8. CASE Reserve(c) \/ Reread(c) \/ ProbeDrifted(c)
  <2>1. CASE Reserve(c)
    BY <1>0, <1>2, <1>7, <2>1 DEF Reserve, Command
  <2>2. CASE Reread(c)
    BY <1>2, <1>3, <2>2, IdsAssumption DEF Reread
  <2>3. CASE ProbeDrifted(c)
    BY <1>0, <1>7, <2>3 DEF ProbeDrifted, Command
  <2> QED
    BY <1>8, <2>1, <2>2, <2>3
<1>9. CASE ProbeAnswered(c)
  <2>1. /\ cmd[c].at = "probe" /\ Tick /\ UNCHANGED <<sessions, misses>>
        /\ cmd' = [cmd EXCEPT ![c].at = "store",
                      ![c].snap = [@ EXCEPT ![cmd[c].id] = Heartbeat(Snap(c))]]
    BY <1>9 DEF ProbeAnswered
  <2>2. /\ cmd[c].id \in Ids /\ cmd[c].op \notin Sweeping
        /\ cmd'[c].snap = [cmd[c].snap EXCEPT ![cmd[c].id] = Heartbeat(Snap(c))]
        /\ cmd'[c].op = cmd[c].op /\ cmd'[c].id = cmd[c].id /\ cmd'[c].pid = cmd[c].pid
    BY <1>0, <2>1 DEF Shape, Command
  <2>3. Renews(c)
    BY <1>0, <2>1, <2>2 DEF Renews, Snap, Command
  <2> QED
    BY <2>2, <2>3 DEF MemoryMoves, Hits, Sweeping
<1>10. CASE Ready(c)
  <2>1. /\ cmd[c].at = "wait" /\ Tick /\ UNCHANGED <<sessions, misses>>
        /\ cmd' = [cmd EXCEPT ![c].at = "store",
                      ![c].snap = [@ EXCEPT ![cmd[c].id] = Started(cmd[c].pid)]]
    BY <1>10 DEF Ready
  <2>2. /\ cmd[c].id \in Ids /\ cmd[c].op \notin Sweeping
        /\ cmd'[c].snap = [cmd[c].snap EXCEPT ![cmd[c].id] = Started(cmd[c].pid)]
        /\ cmd'[c].op = cmd[c].op /\ cmd'[c].id = cmd[c].id /\ cmd'[c].pid = cmd[c].pid
    BY <1>0, <2>1 DEF Shape, Command
  <2>3. Renews(c)
    BY <1>0, <2>1, <2>2 DEF Renews, Command
  <2> QED
    BY <2>2, <2>3 DEF MemoryMoves, Hits, Sweeping
<1>11. CASE ProbeSilent(c)
  <2>1. \/ cmd' = [cmd EXCEPT ![c].at = "spawn", ![c].port = Snap(c).port]
        \/ cmd' = [cmd EXCEPT ![c] = [Idle EXCEPT !.op = "ensureDefault", !.at = "ensureDefault"]]
        \/ Done(c)
    BY <1>11 DEF ProbeSilent
  <2>2. CASE cmd' = [cmd EXCEPT ![c].at = "spawn", ![c].port = Snap(c).port]
    BY <1>0, <1>7, <1>11, <2>2 DEF ProbeSilent, Command
  <2>3. CASE cmd' = [cmd EXCEPT ![c] = [Idle EXCEPT !.op = "ensureDefault", !.at = "ensureDefault"]]
    BY <1>0, <1>1, <2>3 DEF Idle
  <2> QED
    BY <1>2, <2>1, <2>2, <2>3
<1>12. CASE Spawn(c) \/ StartTimedOut(c)
  <2>1. CASE Spawn(c)
    <3>1. PICK p \in Pids : cmd' = [cmd EXCEPT ![c].at = "wait", ![c].pid = p]
      BY <2>1 DEF Spawn
    <3>2. /\ cmd'[c].snap = cmd[c].snap /\ cmd'[c].op = cmd[c].op /\ cmd'[c].hit = cmd[c].hit
          /\ cmd'[c].at # "store" /\ cmd[c].at # "apply"
      BY <1>0, <2>1, <3>1 DEF Spawn, Command
    <3> QED
      BY <1>7, <2>1, <3>2
  <2>2. CASE StartTimedOut(c)
    BY <1>0, <1>2, <1>7, <2>2 DEF StartTimedOut, Command
  <2> QED
    BY <1>12, <2>1, <2>2
<1>13. CASE StoreNew(c) \/ Kill(c)
  <2>1. CASE StoreNew(c)
    BY <1>0, <1>2, <1>7, <2>1 DEF StoreNew, Command
  <2>2. CASE Kill(c)
    BY <1>0, <1>2, <1>7, <2>2 DEF Kill, Command
  <2> QED
    BY <1>13, <2>1, <2>2
<1>14. CASE SpawnFailed(c) \/ Rejected(c) \/ StoreEnsured(c) \/ ParkApply(c) \/ Crash(c)
  BY <1>2, <1>14 DEF SpawnFailed, Rejected, StoreEnsured, ParkApply, Crash
<1>15. CASE \/ \E i \in Ids \cup {NoId}, keep \in BOOLEAN : Clear(c, i, keep)
            \/ \E flag \in BOOLEAN : Prune(c, flag)
            \/ \E I \in SUBSET Ids : Park(c, I)
  <2>1. ASSUME NEW i \in Ids \cup {NoId}, NEW keep \in BOOLEAN, Clear(c, i, keep)
        PROVE  MemoryMoves(c)
    <3> DEFINE I == {j \in Ids : Exists(j) /\ i \in {j, NoId}}
    <3>1. cmd'[c] = [Idle EXCEPT !.op = "clear", !.id = i, !.flag = keep, !.snap = ReadOf(I),
                       !.at = IF keep \/ I = {} THEN "apply" ELSE "stop",
                       !.todo = IF keep THEN {} ELSE I]
      BY <1>0, <2>1 DEF Clear
    <3> HIDE DEF I
    <3>2. /\ cmd'[c].hit = {} /\ cmd'[c].pid = NoPid /\ cmd'[c].at \in {"apply", "stop"}
          /\ cmd'[c].snap = ReadOf(I)
      BY <3>1 DEF Idle
    <3> QED
      BY <1>1, <3>2 DEF ReadOf
  <2>2. ASSUME NEW flag \in BOOLEAN, Prune(c, flag) PROVE MemoryMoves(c)
    <3> DEFINE I == {i \in Ids : Exists(i) /\ sessions[i].age # "expired"}
    <3>1. cmd'[c] = [Idle EXCEPT !.op = "prune", !.flag = flag, !.snap = ReadOf(Ids),
                       !.at = IF I = {} THEN "apply" ELSE "look", !.todo = I]
      BY <1>0, <2>2 DEF Prune
    <3> HIDE DEF I
    <3>2. /\ cmd'[c].hit = {} /\ cmd'[c].pid = NoPid /\ cmd'[c].at \in {"apply", "look"}
          /\ cmd'[c].snap = ReadOf(Ids)
      BY <3>1 DEF Idle
    <3> QED
      BY <1>1, <3>2 DEF ReadOf
  <2>3. ASSUME NEW I \in SUBSET Ids, Park(c, I) PROVE MemoryMoves(c)
    <3>1. cmd'[c] = [Idle EXCEPT !.op = "park", !.at = "stop", !.snap = ReadOf(I), !.todo = I]
      BY <1>0, <2>3 DEF Park
    <3>2. /\ cmd'[c].hit = {} /\ cmd'[c].pid = NoPid /\ cmd'[c].at = "stop"
          /\ cmd'[c].snap = ReadOf(I)
      BY <3>1 DEF Idle
    <3> QED
      BY <1>1, <3>2 DEF ReadOf
  <2> QED
    BY <1>15, <2>1, <2>2, <2>3
<1>16. ASSUME NEW i \in Ids, ClearStop(c, i) PROVE MemoryMoves(c)
  <2>1. \/ Done(c)
        \/ cmd' = [cmd EXCEPT ![c].todo = @ \ {i}, ![c].hit = @ \cup {i},
                              ![c].at = IF cmd[c].todo \ {i} = {} THEN "apply" ELSE @]
    BY <1>16 DEF ClearStop
  <2>2. CASE cmd' = [cmd EXCEPT ![c].todo = @ \ {i}, ![c].hit = @ \cup {i},
                                ![c].at = IF cmd[c].todo \ {i} = {} THEN "apply" ELSE @]
    <3>1. /\ cmd'[c].snap = cmd[c].snap /\ cmd'[c].op = "clear" /\ cmd[c].op = "clear"
          /\ cmd'[c].hit = cmd[c].hit \cup {i} /\ cmd'[c].pid = cmd[c].pid
          /\ cmd'[c].at # "store"
      BY <1>0, <1>16, <2>2 DEF ClearStop, Command
    <3> QED
      BY <1>16, <3>1 DEF MemoryMoves, Recalls, Hits
  <2> QED
    BY <1>2, <2>1, <2>2
<1>17. CASE ClearApply(c)
  <2> DEFINE I == {i \in Ids : Exists(i) /\ cmd[c].id \in {i, NoId}}
             late == IF cmd[c].flag THEN {} ELSE I \ cmd[c].hit
  <2>1. \/ Done(c)
        \/ cmd' = [cmd EXCEPT ![c] =
             [cmd[c] EXCEPT !.at = "after", !.todo = late, !.snap = ReadOf(late)]]
    BY <1>17 DEF ClearApply, Done
  <2>2. late \cap cmd[c].hit = {}
    OBVIOUS
  <2> HIDE DEF late
  <2>3. CASE cmd' = [cmd EXCEPT ![c] =
               [cmd[c] EXCEPT !.at = "after", !.todo = late, !.snap = ReadOf(late)]]
    <3>1. cmd'[c] = [cmd[c] EXCEPT !.at = "after", !.todo = late, !.snap = ReadOf(late)]
      BY <1>0, <2>3
    <3>2. cmd[c].op = "clear" /\ cmd[c].hit \subseteq Ids
      BY <1>0, <1>17 DEF ClearApply, Command
    <3>3. /\ cmd'[c].snap = ReadOf(late) /\ cmd'[c].op = "clear"
          /\ cmd'[c].hit = cmd[c].hit /\ cmd'[c].pid = cmd[c].pid /\ cmd'[c].at # "store"
      BY <1>0, <3>1, <3>2 DEF Command
    <3> QED
      BY <2>2, <3>2, <3>3 DEF MemoryMoves, Recalls, Hits, ReadOf
  <2> QED
    BY <1>2, <2>1, <2>3
<1>18. ASSUME NEW i \in Ids, PruneLook(c, i) PROVE MemoryMoves(c)
  <2> DEFINE silent == ~Answers(cmd[c].snap[i].port)
  <2>1. /\ cmd[c].op = "prune" /\ cmd'[c].op = "prune" /\ cmd'[c].snap = cmd[c].snap
        /\ cmd'[c].hit = (IF silent THEN cmd[c].hit \cup {i} ELSE cmd[c].hit)
        /\ cmd'[c].at \in {"apply", "look"} /\ cmd'[c].pid = cmd[c].pid
        /\ cmd[c].at = "look"
    BY <1>0, <1>18 DEF PruneLook, Shape, Command
  <2>2. silent => Misses(c, i)
    BY <1>18, <2>1 DEF PruneLook, Misses, TypeOK
  <2> HIDE DEF silent
  <2> QED
    BY <2>1, <2>2 DEF MemoryMoves, Recalls, Hits, PruneApply
<1>19. CASE PruneApply(c)
  <2>1. PICK pids :
          \/ Done(c)
          \/ cmd' = [cmd EXCEPT ![c] =
               [Idle EXCEPT !.op = "prune", !.at = "kill", !.stop = pids]]
    BY <1>19 DEF PruneApply, Done
  <2> QED
    <3>1. CASE cmd' = [cmd EXCEPT ![c] =
                 [Idle EXCEPT !.op = "prune", !.at = "kill", !.stop = pids]]
      <4>1. cmd'[c] = [Idle EXCEPT !.op = "prune", !.at = "kill", !.stop = pids]
        BY <1>0, <3>1
      <4> QED
        BY <1>1, <4>1 DEF Idle
    <3> QED
      BY <1>2, <2>1, <3>1
<1>20. ASSUME NEW i \in Ids, ParkStop(c, i) PROVE MemoryMoves(c)
  <2>1. /\ cmd'[c].op = "park" /\ cmd[c].op = "park" /\ cmd'[c].snap = cmd[c].snap
        /\ cmd'[c].at \in {"apply", "stop"} /\ cmd'[c].pid = cmd[c].pid
    BY <1>0, <1>20 DEF ParkStop, Command
  <2> QED
    BY <2>1 DEF MemoryMoves, Recalls, Hits
<1> QED
  BY <1>4, <1>5, <1>6, <1>8, <1>9, <1>10, <1>11, <1>12, <1>13, <1>14, <1>15, <1>16, <1>17, <1>18,
     <1>19, <1>20 DEF Step

\* One command moves at a time.
LEMMA CommandsMove ==
  ASSUME TypeOK, ShapePart, Next
  PROVE  /\ cmd' \in [Commands -> Command]
         /\ \A c \in Commands : Shape(cmd'[c])
         /\ \A c \in Commands : cmd'[c] = cmd[c] \/ (Step(c) /\ MemoryMoves(c))
         /\ \A c, d \in Commands : cmd'[c] # cmd[c] /\ cmd'[d] # cmd[d] => c = d
<1>1. CASE cmd' = cmd
  BY <1>1 DEF TypeOK, ShapePart
<1>2. ASSUME NEW c \in Commands, Step(c)
      PROVE  /\ cmd' \in [Commands -> Command]
             /\ \A d \in Commands : Shape(cmd'[d])
             /\ MemoryMoves(c)
             /\ \A d \in Commands : d # c => cmd'[d] = cmd[d]
  <2>1. PICK next \in Fit : Moves(c, next)
    BY <1>2, StepFits
  <2>2. /\ cmd' \in [Commands -> Command] /\ cmd'[c] = next
        /\ \A d \in Commands : d # c => cmd'[d] = cmd[d]
    BY <2>1, FitMoves DEF TypeOK
  <2>3. \A d \in Commands : Shape(cmd'[d])
    BY <2>1, <2>2 DEF Fit, ShapePart
  <2>4. MemoryMoves(c)
    BY <1>2, StepRemembers
  <2> QED
    BY <2>2, <2>3, <2>4
<1>3. ASSUME \/ \E p \in Pids : ComesUp(p) \/ Hangs(p) \/ Exits(p)
             \/ \E i \in Ids : Ages(i)
             \/ ForeignChanges
      PROVE  cmd' = cmd
  BY <1>3 DEF ComesUp, Hangs, Exits, Ages, ForeignChanges
<1> QED
  BY <1>1, <1>2, <1>3 DEF Next

-----------------------------------------------------------------------------
(* The invariant is kept                                                    *)

LEMMA InitHolds == Init => SessionInv
<1> SUFFICES ASSUME Init PROVE SessionInv
  OBVIOUS
<1>1. PICK I \in SUBSET Ids, pid \in [Ids -> Pids] :
        /\ \A i, j \in I : pid[i] = pid[j] => i = j
        /\ {pid[i] : i \in I} = 1..Cardinality(I)
        /\ \A i \in Ids \ I : pid[i] = 1
        /\ proc = [p \in Pids |->
             IF p <= Cardinality(I) THEN [life |-> "up", port |-> p]
                                    ELSE [life |-> "unborn", port |-> Foreign]]
        /\ sessions = [i \in Ids |->
             IF i \in I THEN [NoRecord EXCEPT !.kind = "managed", !.pid = pid[i],
                                              !.port = pid[i], !.age = "idle"]
             ELSE NoRecord]
        /\ active \in I \cup {NoId}
  BY DEF Init
<1>2. /\ foreign = TRUE /\ cmd = [c \in Commands |-> Idle]
      /\ clock = 0 /\ ops = 0 /\ events = 0 /\ misses = [i \in Ids |-> 0]
  BY DEF Init
<1>3. \A i \in I : pid[i] \in Pids /\ pid[i] <= Cardinality(I)
  <2>1. I \subseteq Ids /\ IsFiniteSet(I)
    BY IdsAssumption, FS_Subset
  <2>2. Cardinality(I) \in Nat
    BY <2>1, FS_CardinalityType
  <2> QED
    <3>1. ASSUME NEW i \in I PROVE pid[i] \in Pids /\ pid[i] <= Cardinality(I)
      <4>1. pid[i] \in {pid[j] : j \in I}
        OBVIOUS
      <4>2. pid[i] \in 1..Cardinality(I)
        BY <1>1, <4>1
      <4> QED
        BY <2>1, <2>2, <4>2
    <3> QED
      BY <3>1
<1>4. ASSUME NEW i \in Ids
      PROVE  /\ sessions[i] \in Record /\ sessions[i].count = 0 /\ sessions[i].seen = 0
             /\ sessions[i].kind # "managed" => sessions[i].pid = NoPid
             /\ i \in I => sessions[i].kind = "managed"
             /\ Born(sessions[i].pid)
  <2>1. CASE i \in I
    <3>1. sessions[i] = [NoRecord EXCEPT !.kind = "managed", !.pid = pid[i],
                                         !.port = pid[i], !.age = "idle"]
      BY <1>1, <2>1
    <3>2. sessions[i] \in Record
      BY <1>3, <2>1, <3>1, NoRecordIsRecord DEF Record
    <3>3. proc[pid[i]].life = "up"
      BY <1>1, <1>3, <2>1
    <3> QED
      BY <2>1, <3>1, <3>2, <3>3 DEF NoRecord, Born
  <2>2. CASE i \notin I
    BY <1>1, <2>2, NoRecordIsRecord DEF NoRecord, Born
  <2> QED
    BY <2>1, <2>2
<1>5. TypeOK
  <2>1. sessions \in [Ids -> Record]
    BY <1>1, <1>4
  <2>2. proc \in [Pids -> Process]
    BY <1>1 DEF Process
  <2>3. cmd \in [Commands -> Command]
    BY <1>2, IdleFits DEF Fit
  <2>4. active \in {i \in Ids : sessions[i].kind # "none"} \cup {NoId}
    BY <1>1, <1>4
  <2> QED
    BY <1>2, <2>1, <2>2, <2>3, <2>4, BoundsAssumption DEF TypeOK
<1>6. ShapePart
  BY <1>2, <1>4, IdleFits DEF ShapePart, Fit
<1>7. \A c \in Commands : cmd[c] = Idle
  BY <1>2
<1>8. BornPart
  BY <1>4, <1>7 DEF BornPart, Born, Idle, NoRecord
<1>9. StoppedPart /\ StampsPart
  BY <1>7 DEF StoppedPart, StampsPart, Idle
<1>10. SeenPart
  BY <1>2, <1>4, <1>7 DEF SeenPart, Idle, NoRecord
<1>11. MissesPart
  BY <1>4, <1>7 DEF MissesPart, Found, Idle
<1> QED
  BY <1>5, <1>6, <1>8, <1>9, <1>10, <1>11 DEF SessionInv

LEMMA TypesKept == TypeOK /\ ShapePart /\ Next => TypeOK' /\ ShapePart'
BY LivesGoOn, RecordsFit, CountersFit, CommandsMove DEF TypeOK, ShapePart

\* A Chrome that anybody names has been started, whatever the step.
LEMMA BornKept == TypeOK /\ ShapePart /\ BornPart /\ Next => BornPart'
<1> SUFFICES ASSUME TypeOK, ShapePart, BornPart, Next PROVE BornPart'
  OBVIOUS
<1> DEFINE BornThen(p) == p # NoPid => proc'[p].life # "unborn"
<1>1. ASSUME NEW p \in Pids \cup {NoPid}, Born(p) PROVE BornThen(p)
  BY <1>1, LivesGoOn DEF Born, BornThen, GoesOn
<1>2. BornThen(NoPid)
  BY DEF BornThen
<1>3. /\ \A i \in Ids : Born(sessions[i].pid) /\ sessions[i].pid \in Pids \cup {NoPid}
      /\ \A c \in Commands :
           /\ Born(cmd[c].pid) /\ cmd[c].pid \in Pids \cup {NoPid}
           /\ \A i \in Ids : /\ Born(cmd[c].snap[i].pid)
                             /\ cmd[c].snap[i] \in Record
  BY DEF BornPart, TypeOK, Command, Record
<1>4. ASSUME NEW i \in Ids PROVE BornThen(sessions'[i].pid)
  <2>1. \/ sessions'[i].pid \in {NoPid, sessions[i].pid}
        \/ \E c \in Commands : sessions'[i].pid = cmd[c].snap[i].pid
    <3>1. CASE Touched(i) \/ Answered(i)
      BY <3>1, TouchedKeeps, AnsweredIsNew
    <3>2. ASSUME NEW c \in Commands, Stores(c, i) \/ Removes(c, i) \/ Marks(c, i) \/ Misses(c, i)
          PROVE  \/ sessions'[i].pid \in {NoPid, sessions[i].pid}
                 \/ sessions'[i].pid = cmd[c].snap[i].pid
      BY <3>2, MarkedIsCounted DEF Stores, Removes, Misses, NoRecord
    <3> QED
      BY <3>1, <3>2, RecordsMove DEF RecordMoves
  <2> QED
    BY <1>1, <1>2, <1>3, <2>1 DEF Record
<1>5. ASSUME NEW c \in Commands
      PROVE  BornThen(cmd'[c].pid) /\ \A i \in Ids : BornThen(cmd'[c].snap[i].pid)
  <2>1. CASE cmd'[c] = cmd[c]
    BY <1>1, <1>3, <2>1 DEF Record
  <2>2. CASE Step(c) /\ MemoryMoves(c)
    <3>1. ASSUME Spawn(c) PROVE BornThen(cmd'[c].pid)
      BY <3>1, SpawnGoesOn DEF BornThen
    <3>2. ASSUME cmd'[c].pid \in {NoPid, cmd[c].pid} PROVE BornThen(cmd'[c].pid)
      BY <1>1, <1>2, <1>3, <3>2
    <3>3. ASSUME NEW i \in Ids PROVE BornThen(cmd'[c].snap[i].pid)
      <4>1. cmd'[c].snap[i].pid \in
              {NoPid, sessions[i].pid, cmd[c].snap[i].pid, cmd[c].pid}
        <5>1. CASE Renews(c)
          <6>1. Heartbeat(cmd[c].snap[i]).pid = cmd[c].snap[i].pid
            BY <1>3 DEF Heartbeat, Record
          <6> QED
            BY <5>1, <6>1 DEF Renews, Started
        <5>2. CASE Recalls(c)
          BY <5>2 DEF Recalls, NoRecord
        <5> QED
          BY <2>2, <5>1, <5>2 DEF MemoryMoves
      <4>2. cmd[c].snap[i].pid \in Pids \cup {NoPid}
        BY <1>3 DEF Record
      <4> QED
        BY <1>1, <1>2, <1>3, <4>1, <4>2
    <3> QED
      BY <2>2, <3>1, <3>2, <3>3 DEF MemoryMoves
  <2> QED
    BY <2>1, <2>2, CommandsMove
<1> QED
  BY <1>4, <1>5 DEF BornPart, Born, BornThen

LEMMA StoppedKept == TypeOK /\ ShapePart /\ BornPart /\ StoppedPart /\ Next => StoppedPart'
<1> SUFFICES ASSUME TypeOK, ShapePart, BornPart, StoppedPart, Next,
                    NEW c \in Commands, cmd'[c].op = "clear", NEW i \in cmd'[c].hit
             PROVE  cmd'[c].snap[i].pid # NoPid =>
                      proc'[cmd'[c].snap[i].pid].life \in {"closing", "dead"}
  BY DEF StoppedPart, Gone
<1> DEFINE GoneThen(p) == p # NoPid => proc'[p].life \in {"closing", "dead"}
<1>1. ASSUME NEW p \in Pids \cup {NoPid}, Gone(p) PROVE GoneThen(p)
  BY <1>1, LivesGoOn DEF Gone, GoesOn, Over
<1>2. cmd' \in [Commands -> Command] /\ i \in Ids
  BY CommandsMove DEF Command
<1>3. cmd[c].snap[i] \in Record /\ cmd[c].snap[i].pid \in Pids \cup {NoPid}
  BY <1>2 DEF TypeOK, Command, Record
<1>4. CASE cmd'[c] = cmd[c]
  BY <1>1, <1>3, <1>4 DEF StoppedPart
<1>5. CASE Step(c) /\ MemoryMoves(c)
  <2>1. Hits(c, i)
    BY <1>5 DEF MemoryMoves
  <2>2. CASE cmd'[c].snap[i] = NoRecord
    BY <2>2 DEF NoRecord
  <2>3. CASE cmd'[c].snap[i] = cmd[c].snap[i] /\ i \in cmd[c].hit
    BY <1>1, <1>3, <2>1, <2>3 DEF Hits, StoppedPart
  <2>4. CASE cmd'[c].snap[i] = cmd[c].snap[i] /\ ClearStop(c, i)
    <3> DEFINE p == cmd[c].snap[i].pid
    <3>1. p # NoPid => cmd[c].snap[i].kind = "managed" /\ p \in Pids /\ proc[p] \in Process
      BY <1>2, <1>3 DEF ShapePart, Shape, TypeOK
    <3>2. CASE p # NoPid /\ Alive(p)
      <4>1. proc' = Killed(p)
        BY <2>4, <3>1, <3>2 DEF ClearStop
      <4>2. proc'[p].life = "dead"
        BY <3>1, <3>2, <4>1 DEF Killed, Process
      <4> QED
        BY <2>4, <4>2
    <3>3. CASE p # NoPid /\ ~Alive(p)
      <4>1. Gone(p)
        BY <1>2, <3>1, <3>3 DEF BornPart, Born, Gone, Alive, Process
      <4> QED
        BY <1>1, <1>3, <2>4, <4>1
    <3> QED
      BY <2>4, <3>2, <3>3
  <2> QED
    BY <2>1, <2>2, <2>3, <2>4 DEF Hits
<1> QED
  BY <1>4, <1>5, CommandsMove

LEMMA ClockIsNat == TypeOK => clock \in Nat
BY BoundsAssumption DEF TypeOK

LEMMA ClockGoesOn == TypeOK /\ Next => clock' \in Nat /\ clock' >= clock
BY CountersFit, BoundsAssumption DEF TypeOK, Tick

\* What any step may do to the stamp of a record.
LEMMA StampMoves ==
  ASSUME TypeOK, ShapePart, Next, NEW i \in Ids
  PROVE  \/ sessions'[i].seen \in {0, sessions[i].seen}
         \/ sessions'[i].seen = clock + 1 /\ clock' = clock + 1
         \/ \E c \in Commands : Stores(c, i)
<1>1. CASE Touched(i)
  BY <1>1, TouchedKeeps
<1>2. CASE Answered(i)
  BY <1>2, AnsweredIsNew
<1>3. CASE \E c \in Commands : Removes(c, i) \/ Marks(c, i) \/ Misses(c, i)
  BY <1>3, MarkedIsCounted DEF Removes, NoRecord, Misses
<1> QED
  BY <1>1, <1>2, <1>3, RecordsMove DEF RecordMoves

\* What any step of a command may do to a stamp it knows.
LEMMA RenewedStamp ==
  ASSUME TypeOK, NEW c \in Commands, Renews(c)
  PROVE  cmd'[c].snap[cmd[c].id].seen = clock + 1 /\ clock' = clock + 1
<1>1. cmd[c].snap[cmd[c].id] \in Record
  BY DEF Renews, TypeOK, Command
<1>2. Heartbeat(cmd[c].snap[cmd[c].id]).seen = clock + 1 /\ Started(cmd[c].pid).seen = clock + 1
  BY <1>1 DEF Heartbeat, Started, Record
<1> QED
  BY <1>2 DEF Renews, Tick

LEMMA SeenKept == TypeOK /\ ShapePart /\ SeenPart /\ Next => SeenPart'
<1> SUFFICES ASSUME TypeOK, ShapePart, SeenPart, Next PROVE SeenPart'
  OBVIOUS
<1>0. clock \in Nat /\ clock' \in Nat /\ clock' >= clock
  BY ClockIsNat, ClockGoesOn
<1>1. /\ \A i \in Ids : sessions[i].seen \in Nat /\ sessions[i].seen <= clock
      /\ \A c \in Commands, i \in Ids :
           cmd[c].snap[i].seen \in Nat /\ cmd[c].snap[i].seen <= clock
  BY BoundsAssumption DEF SeenPart, TypeOK, Command, Record
<1>2. ASSUME NEW i \in Ids PROVE sessions'[i].seen <= clock'
  <2>1. ASSUME NEW c \in Commands, Stores(c, i) PROVE sessions'[i].seen <= clock'
    BY <1>0, <1>1, <2>1 DEF Stores
  <2> QED
    BY <1>0, <1>1, <2>1, StampMoves
<1>3. ASSUME NEW c \in Commands, NEW i \in Ids PROVE cmd'[c].snap[i].seen <= clock'
  <2>1. CASE cmd'[c] = cmd[c]
    BY <1>0, <1>1, <2>1
  <2>2. CASE Renews(c)
    <3>1. CASE i = cmd[c].id
      BY <1>0, <2>2, <3>1, RenewedStamp
    <3>2. CASE i # cmd[c].id
      BY <1>0, <1>1, <2>2, <3>2 DEF Renews
    <3> QED
      BY <3>1, <3>2
  <2>3. CASE Recalls(c)
    <3>1. cmd'[c].snap[i].seen \in {0, sessions[i].seen, cmd[c].snap[i].seen}
      BY <2>3 DEF Recalls, NoRecord
    <3> QED
      BY <1>0, <1>1, <3>1
  <2> QED
    BY <2>1, <2>2, <2>3, CommandsMove DEF MemoryMoves
<1> QED
  BY <1>2, <1>3 DEF SeenPart

\* The stamp a command is about to record is its own.
LEMMA StampsKept ==
  TypeOK /\ ShapePart /\ SeenPart /\ StampsPart /\ Next => StampsPart'
<1> SUFFICES ASSUME TypeOK, ShapePart, SeenPart, StampsPart, Next,
                    NEW c \in Commands, cmd'[c].at = "store"
             PROVE  /\ Stamp(c)' > 0 /\ (sessions[cmd[c].id].seen # Stamp(c))'
                    /\ \A d \in Commands \ {c} : Unseen(c, d)'
  BY DEF StampsPart
<1>0. clock \in Nat
  BY ClockIsNat
<1>1. /\ \A i \in Ids : sessions[i].seen \in Nat /\ sessions[i].seen <= clock
      /\ \A d \in Commands, i \in Ids :
           cmd[d].snap[i].seen \in Nat /\ cmd[d].snap[i].seen <= clock
  BY BoundsAssumption DEF SeenPart, TypeOK, Command, Record
<1>2. CASE cmd'[c] # cmd[c]
  <2>1. Renews(c)
    BY <1>2, CommandsMove DEF MemoryMoves, Recalls
  <2>2. /\ cmd'[c].id = cmd[c].id /\ cmd[c].id \in Ids /\ Stamp(c)' = clock + 1
        /\ sessions' = sessions
    BY <2>1, RenewedStamp DEF Renews, Stamp
  <2>3. \A d \in Commands \ {c} : cmd'[d] = cmd[d]
    BY <1>2, CommandsMove
  <2>4. \A d \in Commands \ {c} : Unseen(c, d)'
    BY <1>0, <1>1, <2>2, <2>3 DEF Unseen, Stamp
  <2> QED
    BY <1>0, <1>1, <2>2, <2>4
<1>3. CASE cmd'[c] = cmd[c]
  <2> DEFINE i == cmd[c].id
             s == Stamp(c)
  <2>1. /\ i \in Ids /\ cmd'[c].id = i /\ Stamp(c)' = s
        /\ s > 0 /\ s \in Nat /\ s <= clock /\ sessions[i].seen # s
        /\ \A d \in Commands \ {c} : Unseen(c, d)
    BY <1>1, <1>3 DEF StampsPart, ShapePart, Shape, Stamp
  <2>2. sessions'[i].seen # s
    <3>1. ASSUME NEW d \in Commands, Stores(d, i) PROVE sessions'[i].seen # s
      <4>1. d # c
        BY <1>3, <3>1 DEF Stores, Done, Idle, TypeOK
      <4>2. cmd[d].at = "store" /\ cmd[d].id = i /\ Stamp(d) = sessions'[i].seen
        BY <3>1 DEF Stores, Stamp
      <4> QED
        BY <2>1, <4>1, <4>2 DEF Unseen
    <3> QED
      BY <1>0, <1>1, <2>1, <3>1, StampMoves
  <2>3. ASSUME NEW d \in Commands \ {c} PROVE Unseen(c, d)'
    <3>1. CASE cmd'[d] = cmd[d]
      BY <1>3, <2>1, <3>1 DEF Unseen, Stamp
    <3>2. CASE Renews(d)
      <4>1. /\ cmd'[d].id = cmd[d].id /\ cmd'[d].op # "prune"
            /\ cmd'[d].snap[cmd[d].id].seen = clock + 1
        BY <3>2, RenewedStamp DEF Renews, Sweeping
      <4> QED
        BY <1>0, <1>3, <2>1, <4>1 DEF Unseen, Stamp
    <3>3. CASE Recalls(d)
      <4>1. cmd'[d].at # "store"
        BY <3>3 DEF Recalls
      <4>2. ASSUME cmd'[d].op = "prune" PROVE cmd'[d].snap[i].seen # s
        <5>1. CASE cmd'[d].snap[i] = NoRecord
          BY <2>1, <5>1 DEF NoRecord
        <5>2. CASE cmd'[d].snap[i] = sessions[i]
          BY <2>1, <5>2
        <5>3. CASE cmd'[d].snap[i] = cmd[d].snap[i] /\ cmd'[d].op = cmd[d].op
          BY <2>1, <4>2, <5>3 DEF Unseen
        <5> QED
          BY <2>1, <3>3, <5>1, <5>2, <5>3 DEF Recalls
      <4> QED
        BY <1>3, <2>1, <4>1, <4>2 DEF Unseen, Stamp
    <3> QED
      BY <3>1, <3>2, <3>3, CommandsMove DEF MemoryMoves
  <2> QED
    BY <1>3, <2>1, <2>2, <2>3
<1> QED
  BY <1>2, <1>3

\* the conjuncts of MissesPart for one session
Counted(i) ==
  /\ sessions[i].count > 0 => misses[i] > 0
  /\ \A c \in Commands : Found(c, i) =>
       /\ misses[i] > 0
       /\ sessions[i].count > 0 => misses[i] = 2
       /\ \A d \in Commands \ {c} : Found(d, i) => misses[i] = 2

\* What was not found before is found by a look that is counted.
LEMMA FoundMoves ==
  ASSUME TypeOK, ShapePart, Next, NEW i \in Ids, NEW c \in Commands, Found(c, i)'
  PROVE  /\ cmd[c].op = "prune" /\ cmd'[c].snap = cmd[c].snap /\ ~Marks(c, i)
         /\ i \in cmd[c].hit \/ Misses(c, i)
<1>1. cmd'[c].op = "prune" /\ i \in cmd'[c].hit
  BY DEF Found
<1>2. CASE cmd'[c] = cmd[c]
  <2>1. ~PruneApply(c)
    <3>1. SUFFICES ASSUME PruneApply(c) PROVE FALSE
      OBVIOUS
    <3>2. PICK pids : cmd' = [cmd EXCEPT ![c] =
                        IF pids = {} THEN Idle
                        ELSE [Idle EXCEPT !.op = "prune", !.at = "kill", !.stop = pids]]
      BY <3>1 DEF PruneApply
    <3>3. cmd'[c].hit = {}
      BY <3>2 DEF TypeOK, Idle
    <3> QED
      BY <1>1, <3>3
  <2> QED
    BY <1>1, <1>2, <2>1 DEF Marks
<1>3. CASE Step(c) /\ MemoryMoves(c)
  BY <1>1, <1>3 DEF MemoryMoves, Hits, Marks
<1> QED
  BY <1>2, <1>3, CommandsMove

LEMMA MissesKept ==
  TypeOK /\ ShapePart /\ SeenPart /\ StampsPart /\ MissesPart /\ Next => MissesPart'
<1> SUFFICES ASSUME TypeOK, ShapePart, SeenPart, StampsPart, MissesPart, Next, NEW i \in Ids
             PROVE  Counted(i)'
  BY DEF MissesPart, Counted
<1>0. /\ sessions[i] \in Record /\ misses[i] \in 0..2 /\ clock \in Nat /\ Counted(i)
      /\ sessions[i].seen \in Nat
      /\ \A c \in Commands : cmd[c].snap[i].seen \in Nat /\ cmd[c].snap[i].seen <= clock
  BY ClockIsNat, BoundsAssumption DEF TypeOK, MissesPart, Counted, SeenPart, Command, Record
\* a record with a new stamp, or none: no prune has found it silent
<1>1. ASSUME sessions'[i].count = 0, \A c \in Commands : ~Found(c, i)' PROVE Counted(i)'
  BY <1>1 DEF Counted
\* the record is what it was
<1>2. ASSUME sessions'[i].kind = sessions[i].kind, sessions'[i].seen = sessions[i].seen,
             NEW c \in Commands, Found(c, i)'
      PROVE  Found(c, i) \/ Misses(c, i)
  BY <1>2, FoundMoves DEF Found, Exists
<1>3. CASE Touched(i)
  <2>1. /\ sessions'[i].kind = sessions[i].kind /\ sessions'[i].seen = sessions[i].seen
        /\ sessions'[i].count = sessions[i].count /\ misses'[i] = misses[i]
    BY <1>3, TouchedKeeps DEF Touched
  <2>2. \A c \in Commands : ~Misses(c, i) \/ misses[i] = 2
    BY <1>0, <2>1 DEF Misses
  <2>3. \A c \in Commands : Found(c, i)' => Found(c, i) \/ misses[i] = 2
    BY <1>2, <2>1, <2>2
  <2> QED
    BY <1>0, <2>1, <2>3 DEF Counted
<1>4. CASE Answered(i)
  <2>1. sessions'[i].seen = clock + 1 /\ sessions'[i].count = 0
    BY <1>4, AnsweredIsNew
  <2>2. ASSUME NEW c \in Commands, Found(c, i)' PROVE FALSE
    BY <1>0, <2>1, <2>2, FoundMoves DEF Found
  <2> QED
    BY <1>1, <2>1, <2>2
<1>5. ASSUME NEW c \in Commands, Stores(c, i) PROVE Counted(i)'
  <2>1. /\ cmd[c].at = "store" /\ cmd[c].id = i /\ sessions'[i] = cmd[c].snap[i] /\ cmd'[c] = Idle
    BY <1>5 DEF Stores, Done, TypeOK
  <2>2. sessions'[i].count = 0
    BY <2>1 DEF ShapePart, Shape
  <2>3. ASSUME NEW d \in Commands, Found(d, i)' PROVE FALSE
    <3>1. /\ cmd[d].op = "prune" /\ cmd'[d].snap = cmd[d].snap
          /\ cmd'[d].op = "prune" /\ cmd'[d].snap[i].seen = sessions'[i].seen
      BY <2>3, FoundMoves DEF Found
    <3>2. d # c
      BY <2>1, <3>1 DEF Idle
    <3>3. cmd[d].snap[i].seen # Stamp(c)
      BY <2>1, <3>1, <3>2 DEF StampsPart, Unseen
    <3> QED
      BY <2>1, <3>1, <3>3 DEF Stamp
  <2> QED
    BY <1>1, <2>2, <2>3
<1>6. ASSUME NEW c \in Commands, Removes(c, i) PROVE Counted(i)'
  BY <1>1, <1>6 DEF Removes, NoRecord, Found, Exists
<1>7. ASSUME NEW c \in Commands, Marks(c, i) PROVE Counted(i)'
  <2>1. /\ sessions'[i].kind = sessions[i].kind /\ sessions'[i].seen = sessions[i].seen
        /\ sessions'[i].count = 1 /\ misses'[i] = misses[i]
    BY <1>7, MarkedIsCounted DEF Marks
  <2>2. Found(c, i)
    BY <1>7 DEF Marks, PruneApply, PruneSilent, PruneAsked, PruneScope, SameSession, Found
  <2>3. misses[i] > 0
    BY <1>0, <2>2 DEF Counted
  <2>4. ASSUME NEW d \in Commands, Found(d, i)' PROVE misses[i] = 2
    <3>1. d # c
      BY <1>7, <2>4, FoundMoves
    <3>2. CASE Found(d, i)
      BY <1>0, <2>2, <3>1, <3>2 DEF Counted
    <3>3. CASE Misses(d, i)
      BY <1>0, <2>1, <3>3 DEF Misses
    <3> QED
      BY <1>2, <2>1, <2>4, <3>2, <3>3
  <2> QED
    BY <1>0, <2>1, <2>3, <2>4 DEF Counted
<1>8. ASSUME NEW c \in Commands, Misses(c, i) PROVE Counted(i)'
  <2>1. /\ sessions'[i] = sessions[i] /\ misses'[i] \in {1, 2} /\ misses'[i] >= misses[i]
        /\ (misses[i] > 0 => misses'[i] = 2)
    BY <1>0, <1>8 DEF Misses
  <2>2. \A d \in Commands : d # c /\ Found(d, i)' => Found(d, i)
    <3>1. ASSUME NEW d \in Commands, d # c, Found(d, i)' PROVE Found(d, i)
      <4>1. cmd'[d] = cmd[d]
        <5>1. cmd'[c] # cmd[c]
          <6>1. cmd' = [cmd EXCEPT ![c].todo = @ \ {i},
                          ![c].at = IF cmd[c].todo = {i} THEN "apply" ELSE "look",
                          ![c].hit = IF ~Answers(cmd[c].snap[i].port) THEN @ \cup {i} ELSE @]
            BY <1>8 DEF Misses, PruneLook
          <6>2. i \in cmd[c].todo /\ cmd[c] \in Command
            BY <1>8 DEF Misses, PruneLook, TypeOK
          <6>3. i \notin cmd'[c].todo
            BY <6>1, <6>2 DEF TypeOK, Command
          <6> QED
            BY <6>2, <6>3
        <5> QED
          BY <3>1, <5>1, CommandsMove
      <4> QED
        BY <2>1, <3>1, <4>1 DEF Found, Exists
    <3> QED
      BY <3>1
  <2>3. \A d \in Commands \ {c} : Found(d, i)' => misses'[i] = 2
    BY <1>0, <2>1, <2>2 DEF Counted
  <2>4. sessions[i].count > 0 => misses'[i] = 2
    BY <1>0, <2>1 DEF Counted
  <2> QED
    BY <2>1, <2>3, <2>4 DEF Counted
<1> QED
  BY <1>3, <1>4, <1>5, <1>6, <1>7, <1>8, RecordsMove DEF RecordMoves

LEMMA StutterKeeps == SessionInv /\ UNCHANGED vars => SessionInv'
BY DEF SessionInv, vars, TypeOK, ShapePart, BornPart, StoppedPart, SeenPart, StampsPart, MissesPart,
  Shape, Born, Gone, Stamp, Unseen, Found, Exists

LEMMA StepKeeps == SessionInv /\ [Next]_vars => SessionInv'
BY TypesKept, BornKept, StoppedKept, SeenKept, StampsKept, MissesKept, StutterKeeps DEF SessionInv

\* The inductive invariant holds throughout: what a command remembers of the
\* state file and of the Chromes it has started or stopped fits what they are,
\* however its steps interleave with those of others and with failures.
THEOREM SessionInvariance == Spec => []SessionInv
BY InitHolds, StepKeeps, PTL DEF Spec

\* Records are well-formed and the active session is one of them, whatever
\* clear, prune, parking and the commands under way during them do.
THEOREM SessionTypeCorrect == Spec => []TypeOK
<1>1. SessionInv => TypeOK
  BY DEF SessionInv
<1> QED
  BY <1>1, SessionInvariance, PTL

-----------------------------------------------------------------------------
(* Prune is patient                                                         *)

LEMMA DroppedWasMissed ==
  ASSUME SessionInv, NEW c \in Commands, NEW i \in Ids, PruneApply(c), Exists(i),
         ~Exists(i)', sessions[i].age # "expired"
  PROVE  IF sessions[i].kind = "managed" /\ ~cmd[c].flag THEN misses[i] = 2 ELSE misses[i] > 0
<1>0. sessions[i] \in Record /\ misses[i] \in 0..2 /\ sessions[i].count \in 0..2
  BY DEF SessionInv, TypeOK, Record
<1>1. i \in PruneDropped(c)
  <2>1. CASE i \in PruneDropped(c)
    BY <2>1
  <2>2. CASE i \notin PruneDropped(c)
    <3>1. sessions'[i] \in {Heartbeat(sessions[i]), sessions[i],
                            [sessions[i] EXCEPT !.count = 1,
                               !.pid = IF Alive(@) THEN @ ELSE NoPid]}
      BY <2>2 DEF PruneApply
    <3>2. sessions'[i].kind = sessions[i].kind
      BY <1>0, <3>1 DEF Heartbeat, Record
    <3> QED
      BY <3>2 DEF Exists
  <2> QED
    BY <2>1, <2>2
<1>2. i \in PruneSilent(c) /\ (sessions[i].kind = "managed" /\ ~cmd[c].flag => sessions[i].count >= 1)
  BY <1>1 DEF PruneDropped, PruneExpired
<1>3. Found(c, i)
  BY <1>2 DEF PruneApply, PruneSilent, PruneAsked, PruneScope, SameSession, Found
<1>4. misses[i] > 0 /\ (sessions[i].count > 0 => misses[i] = 2)
  BY <1>3 DEF SessionInv, MissesPart
<1> QED
  BY <1>0, <1>2, <1>4

\* A session whose lease runs is dropped by prune only after its endpoint was
\* silent, and a managed one only after two prunes found it so since it was last
\* recorded as answering: a command that uses it in between saves it.
THEOREM PruneWaits == Spec => PruneIsPatient
<1> DEFINE Patient ==
      \A c \in Commands, i \in Ids :
        PruneApply(c) /\ Exists(i) /\ ~Exists(i)' /\ sessions[i].age # "expired" =>
          IF sessions[i].kind = "managed" /\ ~cmd[c].flag THEN misses[i] = 2
                                                          ELSE misses[i] > 0
<1>1. SessionInv /\ [Next]_vars => [Patient]_vars
  BY DroppedWasMissed
<1> QED
  BY <1>1, SessionInvariance, PTL DEF Spec, PruneIsPatient

-----------------------------------------------------------------------------
(* The causes of leaks                                                      *)

Known(p) ==
  \/ \E i \in Ids : sessions[i].pid = p
  \/ \E c \in Commands : cmd[c].pid = p \/ p \in cmd[c].stop
  \/ \E c \in Commands : \E i \in cmd[c].todo :
       cmd[c].op # "prune" /\ cmd[c].snap[i].pid = p

\* the causes of LeaksHaveKnownCauses
Causes(c, p) ==
  \/ Crash(c)
  \/ StoreEnsured(c) /\ \/ p = cmd[c].pid
                        \/ p = sessions[cmd[c].id].pid
  \/ /\ ClearApply(c)
     /\ cmd[c].flag \/ \E i \in cmd[c].hit : /\ sessions[i].pid = p
                                             /\ cmd[c].snap[i].pid # p

LEMMA OrphansAreUnknown ==
  \A p \in Pids : Orphan(p) <=> Running(p) /\ ~Known(p)
BY DEF Orphan, Running, Known

\* Where a command holds a Chrome, few of the steps are possible.
LEMMA StepsAt ==
  ASSUME NEW c \in Commands, Step(c)
  PROVE  \/ Crash(c)
         \/ cmd[c].at \in {"idle", "ensureDefault", "reserve", "reread", "probe", "spawn", "look",
                          "apply"}
         \/ cmd[c].at = "wait" /\ (Ready(c) \/ Rejected(c) \/ StartTimedOut(c))
         \/ cmd[c].at = "store" /\ (StoreNew(c) \/ StoreEnsured(c))
         \/ cmd[c].at = "kill" /\ Kill(c)
         \/ /\ cmd[c].at \in {"stop", "after"}
            /\ \E i \in Ids : ClearStop(c, i) \/ ParkStop(c, i)
<1>1. CASE \/ \E i \in Ids : New(c, i) \/ Attach(c, i) \/ Use(c, i)
           \/ Ensure(c)
           \/ \E i \in Ids \cup {NoId}, keep \in BOOLEAN : Clear(c, i, keep)
           \/ \E flag \in BOOLEAN : Prune(c, flag)
           \/ \E I \in SUBSET Ids : Park(c, I)
  <2>1. Begin(c)
    BY <1>1 DEF New, Attach, Use, Ensure, Clear, Prune, Park
  <2> QED
    BY <2>1 DEF Begin, Idle
<1>2. CASE \/ EnsureDefault(c) \/ Reserve(c) \/ Reread(c)
           \/ ProbeDrifted(c) \/ ProbeAnswered(c) \/ ProbeSilent(c)
           \/ Spawn(c) \/ SpawnFailed(c)
  BY <1>2 DEF EnsureDefault, Reserve, Reread, ProbeDrifted, ProbeAnswered, ProbeSilent, Spawn,
    SpawnFailed
<1>3. CASE ClearApply(c) \/ PruneApply(c) \/ ParkApply(c) \/ \E i \in Ids : PruneLook(c, i)
  BY <1>3 DEF ClearApply, PruneApply, ParkApply, PruneLook
<1>4. CASE \/ Ready(c) \/ Rejected(c) \/ StartTimedOut(c) \/ StoreNew(c) \/ StoreEnsured(c)
           \/ Kill(c) \/ \E i \in Ids : ClearStop(c, i) \/ ParkStop(c, i)
  BY <1>4 DEF Ready, Rejected, StartTimedOut, StoreNew, StoreEnsured, Kill, ClearStop, ParkStop
<1> QED
  BY <1>1, <1>2, <1>3, <1>4 DEF Step

\* A record that loses its Chrome.
LEMMA RecordLost ==
  ASSUME SessionInv, Next, NEW p \in Pids, Running(p), NEW i \in Ids,
         sessions[i].pid = p, sessions'[i].pid # p
  PROVE  Known(p)' \/ \E c \in Commands : Causes(c, p)
<1>1. p # NoPid /\ Alive(p) /\ sessions[i].kind = "managed" /\ Exists(i)
  BY BoundsAssumption DEF Pids, NoPid, Running, Alive, SessionInv, ShapePart, Exists
<1>2. TypeOK /\ ShapePart /\ cmd' \in [Commands -> Command]
  BY CommandsMove DEF SessionInv
<1>3. ~Touched(i) /\ ~Answered(i)
  BY <1>1, <1>2, TouchedKeeps, AnsweredIsNew
<1>4. \A c \in Commands : ~Marks(c, i) /\ ~Misses(c, i)
  BY <1>1, <1>2, MarkedIsCounted DEF Misses
<1>5. ASSUME NEW c \in Commands, Stores(c, i) PROVE Causes(c, p)
  BY <1>1, <1>5 DEF Stores, Causes
<1>6. ASSUME NEW c \in Commands, Removes(c, i), ClearApply(c), cmd[c].id \in {i, NoId}
      PROVE  Known(p)' \/ Causes(c, p)
  <2>1. CASE cmd[c].flag
    BY <1>6, <2>1 DEF Causes
  <2>2. CASE i \in cmd[c].hit
    <3>1. cmd[c].snap[i].pid # p
      BY <1>1, <1>6, <2>2 DEF SessionInv, StoppedPart, Gone, ClearApply, Running
    <3> QED
      BY <1>6, <2>2, <3>1 DEF Causes
  <2>3. CASE ~cmd[c].flag /\ i \notin cmd[c].hit
    <3> DEFINE I == {j \in Ids : Exists(j) /\ cmd[c].id \in {j, NoId}}
               late == IF cmd[c].flag THEN {} ELSE I \ cmd[c].hit
    <3>1. i \in late
      BY <1>1, <1>6, <2>3
    <3>2. cmd' = [cmd EXCEPT ![c] = [cmd[c] EXCEPT !.at = "after", !.todo = late,
                                                   !.snap = ReadOf(late)]]
      BY <1>6, <3>1 DEF ClearApply
    <3> HIDE DEF late
    <3>5. /\ cmd'[c] = [cmd[c] EXCEPT !.at = "after", !.todo = late, !.snap = ReadOf(late)]
          /\ cmd[c] \in Command /\ cmd[c].op = "clear"
      BY <1>2, <1>6, <3>2 DEF TypeOK, ClearApply
    <3>3. cmd'[c].todo = late /\ cmd'[c].snap = ReadOf(late) /\ cmd'[c].op = "clear"
      BY <3>5 DEF Command
    <3>4. cmd'[c].snap[i].pid = p
      BY <3>1, <3>3 DEF ReadOf
    <3> QED
      BY <3>1, <3>3, <3>4 DEF Known
  <2> QED
    BY <2>1, <2>2, <2>3
<1>7. ASSUME NEW c \in Commands, PruneApply(c), i \in PruneDropped(c) PROVE Known(p)'
  <2> DEFINE pids == {sessions[j].pid : j \in {k \in PruneDropped(c) :
                        sessions[k].kind = "managed" /\ Alive(sessions[k].pid)}}
  <2>1. p \in pids
    BY <1>1, <1>7
  <2>2. cmd' = [cmd EXCEPT ![c] = [Idle EXCEPT !.op = "prune", !.at = "kill", !.stop = pids]]
    BY <1>7, <2>1 DEF PruneApply
  <2> HIDE DEF pids
  <2>3. cmd'[c] = [Idle EXCEPT !.op = "prune", !.at = "kill", !.stop = pids]
    BY <1>2, <2>2 DEF TypeOK
  <2>4. cmd'[c].stop = pids
    BY <2>3 DEF Idle
  <2> QED
    BY <2>1, <2>4 DEF Known
<1> QED
  BY <1>2, <1>3, <1>4, <1>5, <1>6, <1>7, RecordsMove DEF RecordMoves, Removes

\* A command that lets go of the Chrome it has started.
LEMMA StartedLost ==
  ASSUME SessionInv, Next, NEW p \in Pids, Running(p)', NEW c \in Commands,
         cmd[c].pid = p, cmd'[c].pid # p
  PROVE  Known(p)' \/ Causes(c, p)
<1>1. /\ p # NoPid /\ cmd[c] \in Command /\ Shape(cmd[c]) /\ cmd \in [Commands -> Command]
      /\ TypeOK /\ ShapePart
  BY BoundsAssumption DEF Pids, NoPid, SessionInv, ShapePart, TypeOK
<1>2. cmd[c].at \in {"wait", "store"} /\ Step(c)
  BY <1>1, CommandsMove DEF Shape
<1>3. CASE Crash(c)
  BY <1>3 DEF Causes
<1>4. CASE Ready(c)
  BY <1>1, <1>4 DEF Ready, Command
<1>5. CASE Rejected(c) \/ StartTimedOut(c)
  <2>1. proc' = Killed(p)
    BY <1>5 DEF Rejected, StartTimedOut
  <2> QED
    BY <1>1, <2>1, KilledGoesOn
<1>6. CASE StoreNew(c)
  <2> DEFINE i == cmd[c].id
  <2>1. CASE Exists(i)
    <3>1. cmd'[c].stop = {p}
      BY <1>1, <1>6, <2>1 DEF StoreNew, Command
    <3> QED
      BY <3>1 DEF Known
  <2>2. CASE ~Exists(i)
    <3>1. i \in Ids /\ cmd[c].snap[i].pid = p
      BY <1>1, <1>6 DEF StoreNew, Shape
    <3>2. sessions'[i] = cmd[c].snap[i]
      BY <1>1, <1>6, <2>2, <3>1 DEF StoreNew, TypeOK
    <3> QED
      BY <3>1, <3>2 DEF Known
  <2> QED
    BY <2>1, <2>2
<1>7. CASE StoreEnsured(c)
  BY <1>7 DEF Causes
<1> QED
  BY <1>2, <1>3, <1>4, <1>5, <1>6, <1>7, StepsAt

\* A command that no longer has to stop a Chrome has stopped it.
LEMMA StopLost ==
  ASSUME SessionInv, Next, NEW p \in Pids, Running(p)', NEW c \in Commands,
         p \in cmd[c].stop, p \notin cmd'[c].stop
  PROVE  Causes(c, p)
<1>1. Shape(cmd[c]) /\ TypeOK /\ ShapePart
  BY DEF SessionInv, ShapePart
<1>2. cmd[c].at = "kill" /\ Step(c)
  BY <1>1, CommandsMove DEF Shape
<1>3. CASE Crash(c)
  BY <1>3 DEF Causes
<1>4. CASE Kill(c)
  BY <1>1, <1>4, TerminatedGoesOn DEF Kill
<1> QED
  BY <1>2, <1>3, <1>4, StepsAt

LEMMA TodoLost ==
  ASSUME SessionInv, Next, NEW p \in Pids, Running(p), Running(p)', NEW c \in Commands,
         NEW i \in cmd[c].todo, cmd[c].op # "prune", cmd[c].snap[i].pid = p
  PROVE  Known(p)' \/ Causes(c, p)
<1>1. /\ p # NoPid /\ cmd[c] \in Command /\ Shape(cmd[c]) /\ cmd \in [Commands -> Command]
      /\ i \in Ids /\ TypeOK /\ ShapePart /\ Alive(p)
  BY BoundsAssumption DEF Pids, NoPid, SessionInv, ShapePart, TypeOK, Command, Running, Alive
<1>2. cmd[c].at \in {"stop", "after"} /\ cmd[c].snap[i].kind = "managed"
  BY <1>1 DEF Shape
<1>3. CASE cmd'[c] = cmd[c]
  BY <1>3 DEF Known
<1>4. ASSUME i \in cmd'[c].todo, cmd'[c].op = cmd[c].op, cmd'[c].snap = cmd[c].snap PROVE Known(p)'
  BY <1>4 DEF Known
<1>5. ASSUME NEW j \in Ids, ClearStop(c, j) PROVE Known(p)'
  <2>1. CASE j = i
    <3>1. proc' = Killed(p)
      BY <1>1, <1>2, <1>5, <2>1 DEF ClearStop
    <3> QED
      BY <1>1, <3>1, KilledGoesOn
  <2>2. CASE j # i
    <3>1. i \in cmd[c].todo \ {j}
      BY <2>2
    <3>2. cmd' = [cmd EXCEPT ![c].todo = @ \ {j}, ![c].hit = @ \cup {j},
                             ![c].at = IF cmd[c].todo \ {j} = {} THEN "apply" ELSE @]
      BY <1>5, <3>1 DEF ClearStop
    <3> QED
      BY <1>1, <1>4, <3>1, <3>2 DEF Command
  <2> QED
    BY <2>1, <2>2
<1>6. ASSUME NEW j \in Ids, ParkStop(c, j) PROVE Known(p)'
  <2>1. CASE j = i
    <3>1. proc' = Killed(p)
      BY <1>6, <2>1 DEF ParkStop
    <3> QED
      BY <1>1, <3>1, KilledGoesOn
  <2>2. CASE j # i
    BY <1>1, <1>4, <1>6, <2>2 DEF ParkStop, Command
  <2> QED
    BY <2>1, <2>2
<1>7. CASE Crash(c)
  BY <1>7 DEF Causes
<1> QED
  BY <1>1, <1>2, <1>3, <1>5, <1>6, <1>7, StepsAt, CommandsMove

LEMMA LostForAKnownCause ==
  ASSUME SessionInv, Next, NEW p \in Pids, ~Orphan(p), Orphan(p)'
  PROVE  \E c \in Commands : Causes(c, p)
<1>1. Running(p)' /\ ~Known(p)'
  BY DEF Orphan, Running, Known
<1>2. Running(p)
  BY <1>1, LivesGoOn DEF SessionInv, Known
<1>3. Known(p)
  BY <1>2, OrphansAreUnknown
<1>4. CASE \E i \in Ids : sessions[i].pid = p
  BY <1>1, <1>2, <1>4, RecordLost DEF Known
<1>5. ASSUME NEW c \in Commands, cmd[c].pid = p PROVE Causes(c, p)
  BY <1>1, <1>5, StartedLost DEF Known
<1>6. ASSUME NEW c \in Commands, p \in cmd[c].stop PROVE Causes(c, p)
  BY <1>1, <1>6, StopLost DEF Known
<1>7. ASSUME NEW c \in Commands, NEW i \in cmd[c].todo, cmd[c].op # "prune", cmd[c].snap[i].pid = p
      PROVE  Causes(c, p)
  BY <1>1, <1>2, <1>7, TodoLost
<1> QED
  BY <1>3, <1>4, <1>5, <1>6, <1>7 DEF Known

\* A Chrome that runs is forgotten only by a command that is killed, by one that
\* overwrites or gives up what another recorded, or by a clear that keeps the
\* processes or had stopped an earlier Chrome of the session: creating one session
\* twice, failed and repeated starts, prune and idle parking lose none.
THEOREM LeaksAreKnown == Spec => LeaksHaveKnownCauses
<1> DEFINE Leaks ==
      \A p \in Pids : ~Orphan(p) /\ Orphan(p)' =>
        \E c \in Commands :
          \/ Crash(c)
          \/ StoreEnsured(c) /\ \/ p = cmd[c].pid
                                \/ p = sessions[cmd[c].id].pid
          \/ /\ ClearApply(c)
             /\ cmd[c].flag \/ \E i \in cmd[c].hit : /\ sessions[i].pid = p
                                                     /\ cmd[c].snap[i].pid # p
<1>1. SessionInv /\ [Next]_vars => [Leaks]_vars
  BY LostForAKnownCause DEF Causes
<1> QED
  BY <1>1, SessionInvariance, PTL DEF Spec, LeaksHaveKnownCauses
=============================================================================
