----------------------------- MODULE LaneService -----------------------------
(****************************************************************************)
(* What the daemon's lane scheduler promises, with no word about how: each  *)
(* lane is a line of callers served first come first served, one at a time; *)
(* at most Capacity lanes are being served; a caller is refused only while  *)
(* it has not been served, and a refused caller is never served.            *)
(****************************************************************************)
EXTENDS Integers, Sequences, SequencesExt, FiniteSets

CONSTANTS Callers, Lanes, GlobalActiveLanes, LaneQueueDepth

VARIABLES
  line,      \* line[l]: the callers waiting in lane l, the oldest first
  running,   \* the commands being executed, as [lane, caller]
  verdict    \* per caller: answered, refused, queued or started

vars == <<line, running, verdict>>

Settled(c) == verdict[c] \in {"answered", "refused"}

\* a full line refuses a caller at once
Refuse(c, l) ==
  /\ Settled(c)
  /\ Len(line[l]) = LaneQueueDepth
  /\ verdict' = [verdict EXCEPT ![c] = "refused"]
  /\ UNCHANGED <<line, running>>

Submit(c, l) ==
  /\ Settled(c)
  /\ Len(line[l]) < LaneQueueDepth
  /\ line' = [line EXCEPT ![l] = Append(@, c)]
  /\ verdict' = [verdict EXCEPT ![c] = "queued"]
  /\ UNCHANGED running

\* a caller still in line gives up waiting and leaves the line
GiveUp(c, l) ==
  /\ verdict[c] = "queued"
  /\ \E i \in 1..Len(line[l]) :
       line[l][i] = c /\ line' = [line EXCEPT ![l] = RemoveAt(@, i)]
  /\ verdict' = [verdict EXCEPT ![c] = "refused"]
  /\ UNCHANGED running

\* a lane that serves nobody starts its oldest caller
Start(c, l) ==
  /\ verdict[c] = "queued"
  /\ line[l] # <<>>
  /\ c = Head(line[l])
  /\ \A r \in running : r.lane # l
  /\ Cardinality(running) < GlobalActiveLanes
  /\ line' = [line EXCEPT ![l] = Tail(@)]
  /\ running' = running \cup {[lane |-> l, caller |-> c]}
  /\ verdict' = [verdict EXCEPT ![c] = "started"]

Finish(c, l) ==
  /\ [lane |-> l, caller |-> c] \in running
  /\ running' = running \ {[lane |-> l, caller |-> c]}
  /\ verdict' = [verdict EXCEPT ![c] = "answered"]
  /\ UNCHANGED line

Init ==
  /\ line = [l \in Lanes |-> <<>>]
  /\ running = {}
  /\ verdict = [c \in Callers |-> "answered"]

Next ==
  \E c \in Callers, l \in Lanes :
    Refuse(c, l) \/ Submit(c, l) \/ GiveUp(c, l) \/ Start(c, l) \/ Finish(c, l)

Spec == Init /\ [][Next]_vars
=============================================================================
