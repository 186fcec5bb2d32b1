---------------------------- MODULE LaneScheduler ----------------------------
(****************************************************************************)
(* The daemon's lane scheduler (core/daemon/domain/lane-scheduler.ts).      *)
(*                                                                          *)
(* A caller hands `enqueue` a command and the lane it belongs to.  Commands *)
(* of one lane run one at a time; at most GlobalActiveLanes lanes run at    *)
(* once; a rotating cursor over the lanes in insertion order picks the next *)
(* lane.  A queued command is rejected when its wait timer fires, a command *)
(* that finds LaneQueueDepth others queued is rejected on arrival.          *)
(*                                                                          *)
(* JavaScript runs each callback to completion, so every action below is    *)
(* one synchronous piece of code, except that the loop of `schedule` is one *)
(* action per iteration: while the flag `scheduling` is up no other action  *)
(* is enabled.  Time is left out: a wait timer may fire at any moment while *)
(* its task is queued, and never afterwards (clearTimeout at dispatch).     *)
(* Metrics and the fields of the error objects are left out.                *)
(*                                                                          *)
(* Definitions marked MUTANT are defects a change could introduce; they are *)
(* used by no action and only serve to show that the properties notice.     *)
(****************************************************************************)
EXTENDS Integers, Sequences, SequencesExt, FiniteSets

CONSTANTS
  Callers,            \* clients, each with at most one request outstanding
  Lanes,              \* lane keys
  GlobalActiveLanes,  \* DAEMON_GLOBAL_ACTIVE_LANES_DEFAULT
  LaneQueueDepth,     \* DAEMON_LANE_QUEUE_DEPTH_DEFAULT
  Stallable           \* lanes whose commands may never finish

ASSUME LimitsAssumption ==
  /\ GlobalActiveLanes \in Nat \ {0}
  /\ LaneQueueDepth \in Nat \ {0}

ASSUME CallersAssumption == IsFiniteSet(Callers)

ASSUME StallableAssumption == Stallable \subseteq Lanes

VARIABLES
  laneOrder,        \* keys of the Map `lanes`, in insertion order
  queue,            \* queue[l]: callers waiting in lane l
  active,           \* active[l]: lanes.get(l).active
  activeLaneCount,
  cursor,
  scheduling,
  tasks,            \* dispatched tasks whose `finally` has not run yet
  phase             \* per caller: where its latest request is

laneVars == <<laneOrder, queue, active, activeLaneCount, cursor, scheduling>>
vars == <<laneVars, tasks, phase>>

\* "answered": execute() settled the request (or none was made yet);
\* "refused": it was rejected with a queue error instead
Phases == {"answered", "refused", "queued", "started"}

Idle(c) == phase[c] \in {"answered", "refused"}

Task == [lane : Lanes, caller : Callers, settled : BOOLEAN]

-----------------------------------------------------------------------------
(* Helpers *)

\* MUTANT
RunnableIgnoringActive(l) == queue[l] # <<>>

\* `lane.active || lane.queue.length === 0` is false: the lane can be served
Runnable(l) == ~active[l] /\ queue[l] # <<>>

\* MUTANT
ScanPositionFromStart(offset) == offset + 1

\* position in laneOrder looked at `offset` places after the cursor
ScanPosition(offset) ==
  LET n == Len(laneOrder) IN (((cursor % n) + offset) % n) + 1

\* the scan of nextRunnableLaneKey stops at `offset`
FirstRunnable(offset) ==
  /\ Runnable(laneOrder[ScanPosition(offset)])
  /\ \A earlier \in 0..(offset - 1) :
       ~Runnable(laneOrder[ScanPosition(earlier)])

\* MUTANT
CompactKeepingCursor(l, idle, empty) ==
  IF idle /\ empty
  THEN /\ \E i \in 1..Len(laneOrder) :
            laneOrder[i] = l /\ laneOrder' = RemoveAt(laneOrder, i)
       /\ UNCHANGED cursor
  ELSE UNCHANGED <<laneOrder, cursor>>

\* compactLane: drop lane l from the Map once it is idle and empty (idle and
\* empty as this callback leaves it) and send a cursor past the end to 0
Compact(l, idle, empty) ==
  IF idle /\ empty
  THEN \E i \in 1..Len(laneOrder) :
         /\ laneOrder[i] = l
         /\ laneOrder' = RemoveAt(laneOrder, i)
         /\ cursor' = IF cursor >= Len(laneOrder') THEN 0 ELSE cursor
  ELSE UNCHANGED <<laneOrder, cursor>>

-----------------------------------------------------------------------------
(* Operations *)

\* enqueue, when the lane's queue is full: ensureLane and throw
EnqueueSaturated(c, l) ==
  /\ ~scheduling
  /\ Idle(c)
  /\ Len(queue[l]) >= LaneQueueDepth
  /\ phase' = [phase EXCEPT ![c] = "refused"]
  /\ UNCHANGED <<laneVars, tasks>>

\* enqueue: ensureLane, arm the wait timer, push the task, call schedule()
Enqueue(c, l) ==
  /\ ~scheduling
  /\ Idle(c)
  /\ Len(queue[l]) < LaneQueueDepth
  /\ laneOrder' = IF l \in ToSet(laneOrder) THEN laneOrder
                                            ELSE Append(laneOrder, l)
  /\ queue' = [queue EXCEPT ![l] = Append(@, c)]
  /\ phase' = [phase EXCEPT ![c] = "queued"]
  /\ scheduling' = TRUE
  /\ UNCHANGED <<active, activeLaneCount, cursor, tasks>>

\* one iteration of schedule's loop: the first runnable lane from the cursor
\* on gets its oldest task started, and the cursor moves behind that lane
Dispatch ==
  /\ scheduling
  /\ activeLaneCount < GlobalActiveLanes
  /\ \E offset \in 0..(Len(laneOrder) - 1) :
       LET position == ScanPosition(offset)
           l == laneOrder[position]
           c == Head(queue[l])
       IN  /\ FirstRunnable(offset)
           /\ cursor' = position
           /\ queue' = [queue EXCEPT ![l] = Tail(@)]
           /\ active' = [active EXCEPT ![l] = TRUE]
           /\ activeLaneCount' = activeLaneCount + 1
           /\ tasks' = tasks \cup {[lane |-> l, caller |-> c, settled |-> FALSE]}
           /\ phase' = [phase EXCEPT ![c] = "started"]
  /\ UNCHANGED <<laneOrder, scheduling>>

\* schedule's loop ends: the cap is reached or no lane is runnable
StopScheduling ==
  /\ scheduling
  /\ \/ activeLaneCount >= GlobalActiveLanes
     \/ \A l \in ToSet(laneOrder) : ~Runnable(l)
  /\ scheduling' = FALSE
  /\ UNCHANGED <<laneOrder, queue, active, activeLaneCount, cursor,
                 tasks, phase>>

\* MUTANT
QueueTimeoutWithoutCompact(c, l) ==
  /\ ~scheduling
  /\ \E i \in 1..Len(queue[l]) :
       /\ queue[l][i] = c
       /\ queue' = [queue EXCEPT ![l] = RemoveAt(@, i)]
  /\ phase' = [phase EXCEPT ![c] = "refused"]
  /\ scheduling' = TRUE
  /\ UNCHANGED <<laneOrder, cursor, active, activeLaneCount, tasks>>

\* MUTANT
QueueTimeoutWithoutSplice(c, l) ==
  /\ ~scheduling
  /\ phase[c] = "queued"
  /\ c \in ToSet(queue[l])
  /\ phase' = [phase EXCEPT ![c] = "refused"]
  /\ scheduling' = TRUE
  /\ UNCHANGED <<laneOrder, queue, cursor, active, activeLaneCount, tasks>>

\* the wait timer of a queued task fires: splice it out, compactLane, reject,
\* schedule()
QueueTimeout(c, l) ==
  /\ ~scheduling
  /\ \E i \in 1..Len(queue[l]) :
       /\ queue[l][i] = c
       /\ queue' = [queue EXCEPT ![l] = RemoveAt(@, i)]
  /\ Compact(l, ~active[l], Len(queue[l]) = 1)
  /\ phase' = [phase EXCEPT ![c] = "refused"]
  /\ scheduling' = TRUE
  /\ UNCHANGED <<active, activeLaneCount, tasks>>

\* execute() of a dispatched task settles and so does the caller's promise;
\* the caller may call again before the `finally` below runs
Settle(t) ==
  /\ ~scheduling
  /\ t \in tasks
  /\ ~t.settled
  /\ tasks' = (tasks \ {t}) \cup {[t EXCEPT !.settled = TRUE]}
  /\ phase' = [phase EXCEPT ![t.caller] = "answered"]
  /\ UNCHANGED laneVars

\* MUTANT
ReleaseWithoutSchedule(t) ==
  /\ ~scheduling
  /\ t \in tasks
  /\ t.settled
  /\ tasks' = tasks \ {t}
  /\ active' = [active EXCEPT ![t.lane] = FALSE]
  /\ activeLaneCount' = activeLaneCount - 1
  /\ Compact(t.lane, TRUE, queue[t.lane] = <<>>)
  /\ UNCHANGED <<queue, phase, scheduling>>

\* `finally`: free the lane, compactLane, schedule()
Release(t) ==
  /\ ~scheduling
  /\ t \in tasks
  /\ t.settled
  /\ tasks' = tasks \ {t}
  /\ active' = [active EXCEPT ![t.lane] = FALSE]
  /\ activeLaneCount' = IF activeLaneCount > 0 THEN activeLaneCount - 1 ELSE 0
  /\ Compact(t.lane, TRUE, queue[t.lane] = <<>>)
  /\ scheduling' = TRUE
  /\ UNCHANGED <<queue, phase>>

-----------------------------------------------------------------------------
(* Specification *)

Init ==
  /\ laneOrder = <<>>
  /\ queue = [l \in Lanes |-> <<>>]
  /\ active = [l \in Lanes |-> FALSE]
  /\ activeLaneCount = 0
  /\ cursor = 0
  /\ scheduling = FALSE
  /\ tasks = {}
  /\ phase = [c \in Callers |-> "answered"]

SettleIn(l) == \E t \in tasks : t.lane = l /\ Settle(t)
ReleaseIn(l) == \E t \in tasks : t.lane = l /\ Release(t)

Next ==
  \/ \E c \in Callers, l \in Lanes :
       EnqueueSaturated(c, l) \/ Enqueue(c, l) \/ QueueTimeout(c, l)
  \/ Dispatch
  \/ StopScheduling
  \/ \E l \in Lanes : SettleIn(l) \/ ReleaseIn(l)

Spec == Init /\ [][Next]_vars

(* Fairness.  The event loop runs every callback that is due, whatever else *)
(* it runs in between; a due callback is only held up while `schedule` is   *)
(* in its loop, which disables the other actions here, hence SF.  That      *)
(* holds for `finally` and, outside the Stallable lanes, for the end of a   *)
(* command.  Wait timers always fire in the code too; nothing is assumed of *)
(* them, so that what is shown is owed to the scheduler and not to timers.  *)
Fairness ==
  /\ WF_vars(Dispatch)
  /\ WF_vars(StopScheduling)
  /\ \A l \in Lanes : SF_vars(ReleaseIn(l))
  /\ \A l \in Lanes \ Stallable : SF_vars(SettleIn(l))

FairSpec == Spec /\ Fairness

-----------------------------------------------------------------------------
(* Properties *)

\* Type invariant.  The cursor never points past the end of the Map, although
\* lanes are deleted below it (compactLane).
TypeOK ==
  /\ laneOrder \in Seq(Lanes)
  /\ queue \in [Lanes -> Seq(Callers)]
  /\ active \in [Lanes -> BOOLEAN]
  /\ activeLaneCount \in Nat
  /\ cursor \in 0..Len(laneOrder)
  /\ scheduling \in BOOLEAN
  /\ tasks \subseteq Task
  /\ phase \in [Callers -> Phases]

\* Two commands of one lane never run at once, the active flags and
\* activeLaneCount agree with the tasks under way, and no more lanes are active
\* than the cap allows, however dispatches, timeouts and finally-callbacks
\* interleave.
LanesAreSerialized ==
  /\ \A t, u \in tasks : t.lane = u.lane => t = u
  /\ \A l \in Lanes : active[l] <=> \E t \in tasks : t.lane = l
  /\ activeLaneCount = Cardinality(tasks)
  /\ activeLaneCount <= GlobalActiveLanes

\* The Map holds exactly the lanes with work: compactLane leaks none and drops
\* none too early.
MapHoldsBusyLanes ==
  /\ IsInjective(laneOrder)
  /\ \A l \in Lanes : l \in ToSet(laneOrder) <=> active[l] \/ queue[l] # <<>>

QueuesAreLines ==
  \A l \in Lanes : IsInjective(queue[l]) /\ Len(queue[l]) <= LaneQueueDepth

QueuesAreDisjoint ==
  \A l, m \in Lanes : \A c \in ToSet(queue[l]) \cap ToSet(queue[m]) : l = m

QueuedIsInAQueue ==
  \A c \in Callers :
    phase[c] = "queued" <=> \E l \in Lanes : c \in ToSet(queue[l])

StartedHasATask ==
  /\ \A c \in Callers :
       phase[c] = "started" <=> \E t \in tasks : t.caller = c /\ ~t.settled
  /\ \A t, u \in tasks :
       t.caller = u.caller /\ ~t.settled /\ ~u.settled => t = u

\* A request is queued in one place of one lane the Map holds, or runs in one
\* lane, or is answered; no queue exceeds its depth cap.
RequestsAreInOnePlace ==
  /\ MapHoldsBusyLanes
  /\ QueuesAreLines
  /\ QueuesAreDisjoint
  /\ QueuedIsInAQueue
  /\ StartedHasATask

\* No wakeup is lost: between callbacks, either the cap is reached or no lane
\* has a queued command it could start.
NoWakeupIsLost ==
  ~scheduling =>
    \/ activeLaneCount = GlobalActiveLanes
    \/ \A l \in Lanes : ~Runnable(l)

\* One stalled lane must not starve unrelated lanes (cli-and-daemon.md:102):
\* as long as fewer lanes can stall than may be active, a lane with commands
\* queued gets its turn (or its last command gave up), although the deletion of
\* other lanes shifts the order under the cursor.
UnrelatedLanesAreServed ==
  \A l \in Lanes \ Stallable :
    queue[l] # <<>> ~> (active[l] \/ queue[l] = <<>>)

-----------------------------------------------------------------------------
(* What the scheduler promises its callers: see LaneService. *)

Running == {[lane |-> t.lane, caller |-> t.caller] :
              t \in {u \in tasks : ~u.settled}}

Service == INSTANCE LaneService
             WITH line <- queue, running <- Running, verdict <- phase

\* Without Map, cursor, flags and callbacks, the scheduler is the service
\* LaneService: first come first served in each lane, a command runs at most
\* once, and never after its caller was told E_DAEMON_QUEUE_TIMEOUT or
\* E_DAEMON_QUEUE_SATURATED.
ImplementsLaneService == Service!Spec
=============================================================================
