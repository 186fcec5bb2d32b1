------------------------- MODULE LaneSchedulerProofs -------------------------
(****************************************************************************)
(* Theorems about the lane scheduler, for every set of callers and lanes    *)
(* and every cap.                                                           *)
(****************************************************************************)
EXTENDS LaneScheduler, SequenceTheorems, FiniteSetTheorems, TLAPS

-----------------------------------------------------------------------------
(* Sequences without repetition: the queues and the order of the Map. *)

\* ToSet and IsInjective of a sequence in terms of its positions 1..Len(s).
LEMMA SeqByPositions ==
  ASSUME NEW S, NEW s \in Seq(S)
  PROVE  /\ Len(s) \in Nat
         /\ \A x : x \in ToSet(s) <=> \E j \in 1..Len(s) : s[j] = x
         /\ ToSet(s) \subseteq S
         /\ IsInjective(s) <=> \A j, k \in 1..Len(s) : s[j] = s[k] => j = k
<1>1. Len(s) \in Nat /\ DOMAIN s = 1..Len(s)
  BY LenProperties
<1>2. \A j \in 1..Len(s) : s[j] \in S
  BY ElementOfSeq
<1>3. \A x : x \in ToSet(s) <=> \E j \in 1..Len(s) : s[j] = x
  BY <1>1, Zenon DEF ToSet
<1>4. IsInjective(s) <=> \A j, k \in 1..Len(s) : s[j] = s[k] => j = k
  BY <1>1, Zenon DEF IsInjective
<1> QED
  BY <1>1, <1>2, <1>3, <1>4

\* RemoveAt(s, i) is s with its i-th element dropped and the rest moved up
\* (Array.prototype.splice and Map.delete).
LEMMA RemoveAtProperties ==
  ASSUME NEW S, NEW s \in Seq(S), NEW i \in 1..Len(s)
  PROVE  /\ RemoveAt(s, i) \in Seq(S)
         /\ Len(RemoveAt(s, i)) = Len(s) - 1
         /\ \A j \in 1..(Len(s) - 1) :
              RemoveAt(s, i)[j] = IF j < i THEN s[j] ELSE s[j + 1]
<1> DEFINE before == SubSeq(s, 1, i - 1)
           after  == SubSeq(s, i + 1, Len(s))
<1>1. Len(s) \in Nat /\ \A j \in 1..Len(s) : s[j] \in S
  BY LenProperties, ElementOfSeq
<1>2. /\ before \in Seq(S) /\ Len(before) = i - 1
      /\ \A j \in 1..(i - 1) : before[j] = s[j]
  <2>1. i - 1 \in Int /\ \A j \in 1..(i - 1) : s[j] \in S
    BY <1>1
  <2>2. /\ before \in Seq(S)
        /\ Len(before) = IF 1 <= i - 1 THEN (i - 1) - 1 + 1 ELSE 0
        /\ \A j \in 1..((i - 1) - 1 + 1) : before[j] = s[1 + j - 1]
    BY <2>1, SubSeqProperties
  <2> QED
    BY <1>1, <2>2
<1>3. /\ after \in Seq(S) /\ Len(after) = Len(s) - i
      /\ \A j \in 1..(Len(s) - i) : after[j] = s[i + j]
  <2>1. i + 1 \in Int /\ Len(s) \in Int /\ \A j \in (i + 1)..Len(s) : s[j] \in S
    BY <1>1
  <2>2. /\ after \in Seq(S)
        /\ Len(after) = IF i + 1 <= Len(s) THEN Len(s) - (i + 1) + 1 ELSE 0
        /\ \A j \in 1..(Len(s) - (i + 1) + 1) : after[j] = s[(i + 1) + j - 1]
    BY <2>1, SubSeqProperties
  <2> QED
    BY <1>1, <2>2
<1> HIDE DEF before, after
<1>4. /\ before \o after \in Seq(S)
      /\ Len(before \o after) = Len(before) + Len(after)
      /\ \A j \in 1..(Len(before) + Len(after)) : (before \o after)[j] =
           IF j <= Len(before) THEN before[j] ELSE after[j - Len(before)]
  <2>1. before \in Seq(S) /\ after \in Seq(S)
    BY <1>2, <1>3
  <2> QED
    BY <2>1, ConcatProperties
<1>5. ASSUME NEW j \in 1..(Len(s) - 1)
      PROVE  (before \o after)[j] = IF j < i THEN s[j] ELSE s[j + 1]
  <2>1. CASE j < i
    BY <1>1, <1>2, <1>3, <1>4, <2>1
  <2>2. CASE ~(j < i)
    <3>1. j - (i - 1) \in 1..(Len(s) - i) /\ i + (j - (i - 1)) = j + 1
      BY <1>1, <2>2
    <3>2. (before \o after)[j] = after[j - (i - 1)]
      BY <1>1, <1>2, <1>3, <1>4, <2>2
    <3> QED
      BY <1>3, <2>2, <3>1, <3>2
  <2> QED
    BY <2>1, <2>2
<1>6. Len(before \o after) = Len(s) - 1
  BY <1>1, <1>2, <1>3, <1>4
<1>7. RemoveAt(s, i) = before \o after
  BY DEF RemoveAt, before, after
<1> QED
  BY <1>4, <1>5, <1>6, <1>7

\* Dropping one element of a sequence without repetition.
LEMMA RemoveAtOne ==
  ASSUME NEW S, NEW s \in Seq(S), NEW i \in 1..Len(s), IsInjective(s)
  PROVE  /\ ToSet(RemoveAt(s, i)) = ToSet(s) \ {s[i]}
         /\ IsInjective(RemoveAt(s, i))
<1> DEFINE w == RemoveAt(s, i)
<1>1. /\ w \in Seq(S)
      /\ Len(w) = Len(s) - 1
      /\ \A j \in 1..(Len(s) - 1) : w[j] = IF j < i THEN s[j] ELSE s[j + 1]
  BY RemoveAtProperties
<1> HIDE DEF w
<1>2. /\ Len(s) \in Nat
      /\ \A x : x \in ToSet(s) <=> \E j \in 1..Len(s) : s[j] = x
      /\ \A j, k \in 1..Len(s) : s[j] = s[k] => j = k
  BY SeqByPositions
<1>3. /\ \A x : x \in ToSet(w) <=> \E j \in 1..Len(w) : w[j] = x
      /\ IsInjective(w) <=> \A j, k \in 1..Len(w) : w[j] = w[k] => j = k
  BY <1>1, SeqByPositions
<1>4. ASSUME NEW x \in ToSet(w)
      PROVE  x \in ToSet(s) /\ x # s[i]
  <2>1. PICK j \in 1..(Len(s) - 1) : w[j] = x
    BY <1>1, <1>3
  <2> QED
    BY <1>1, <1>2, <2>1
<1>5. ASSUME NEW x \in ToSet(s), x # s[i]
      PROVE  x \in ToSet(w)
  <2>1. PICK j \in 1..Len(s) : s[j] = x
    BY <1>2
  <2>2. CASE j < i
    BY <1>1, <1>2, <1>3, <2>1, <2>2
  <2>3. CASE j > i
    <3>1. j - 1 \in 1..(Len(s) - 1) /\ ~(j - 1 < i) /\ (j - 1) + 1 = j
      BY <1>2, <2>1, <2>3
    <3>2. w[j - 1] = x
      BY <1>1, <2>1, <3>1
    <3> QED
      BY <1>1, <1>3, <3>1, <3>2
  <2> QED
    BY <1>5, <2>1, <2>2, <2>3
<1>6. \A j, k \in 1..Len(w) : w[j] = w[k] => j = k
  BY <1>1, <1>2
<1> QED
  BY <1>3, <1>4, <1>5, <1>6 DEF w

\* Pushing a new element at the end.
LEMMA AppendNew ==
  ASSUME NEW S, NEW s \in Seq(S), NEW e \in S, e \notin ToSet(s), IsInjective(s)
  PROVE  /\ Append(s, e) \in Seq(S)
         /\ Len(Append(s, e)) = Len(s) + 1
         /\ ToSet(Append(s, e)) = ToSet(s) \cup {e}
         /\ IsInjective(Append(s, e))
<1> DEFINE w == Append(s, e)
<1>1. /\ Len(s) \in Nat
      /\ \A x : x \in ToSet(s) <=> \E j \in 1..Len(s) : s[j] = x
      /\ \A j, k \in 1..Len(s) : s[j] = s[k] => j = k
  BY SeqByPositions
<1>2. /\ w \in Seq(S)
      /\ Len(w) = Len(s) + 1
      /\ \A j \in 1..Len(s) : w[j] = s[j]
      /\ w[Len(s) + 1] = e
  BY <1>1
<1> HIDE DEF w
<1>3. \A x : x \in ToSet(w) <=> \E j \in 1..Len(w) : w[j] = x
  BY <1>2, SeqByPositions
<1>4. IsInjective(w) <=> \A j, k \in 1..Len(w) : w[j] = w[k] => j = k
  BY <1>2, SeqByPositions
<1>5. \A x : x \in ToSet(w) <=> x \in ToSet(s) \cup {e}
  BY <1>1, <1>2, <1>3
<1>6. ToSet(w) = ToSet(s) \cup {e}
  BY <1>5
<1>7. \A j, k \in 1..Len(w) : w[j] = w[k] => j = k
  BY <1>1, <1>2
<1> QED
  BY <1>2, <1>4, <1>6, <1>7 DEF w

\* Shifting the first element off.
LEMMA ShiftFirst ==
  ASSUME NEW S, NEW s \in Seq(S), s # <<>>, IsInjective(s)
  PROVE  /\ Tail(s) \in Seq(S)
         /\ Len(Tail(s)) = Len(s) - 1
         /\ Head(s) \in ToSet(s)
         /\ ToSet(Tail(s)) = ToSet(s) \ {Head(s)}
         /\ IsInjective(Tail(s))
<1> DEFINE w == Tail(s)
<1>1. /\ Len(s) \in Nat \ {0}
      /\ \A x : x \in ToSet(s) <=> \E j \in 1..Len(s) : s[j] = x
      /\ \A j, k \in 1..Len(s) : s[j] = s[k] => j = k
  BY EmptySeq, SeqByPositions
<1>2. /\ w \in Seq(S)
      /\ Len(w) = Len(s) - 1
      /\ \A j \in 1..Len(w) : w[j] = s[j + 1]
      /\ Head(s) = s[1]
  BY <1>1, HeadTailProperties
<1> HIDE DEF w
<1>3. /\ \A x : x \in ToSet(w) <=> \E j \in 1..Len(w) : w[j] = x
      /\ IsInjective(w) <=> \A j, k \in 1..Len(w) : w[j] = w[k] => j = k
  BY <1>2, SeqByPositions
<1>4. \A x \in ToSet(w) : x \in ToSet(s) /\ x # s[1]
  BY <1>1, <1>2, <1>3
<1>5. ASSUME NEW x \in ToSet(s), x # s[1]
      PROVE  x \in ToSet(w)
  <2>1. PICK j \in 1..Len(s) : s[j] = x
    BY <1>1
  <2>2. j - 1 \in 1..Len(w) /\ (j - 1) + 1 = j
    BY <1>1, <1>2, <1>5, <2>1
  <2>3. w[j - 1] = x
    BY <1>2, <2>1, <2>2
  <2> QED
    BY <1>3, <2>2, <2>3
<1>6. Head(s) \in ToSet(s)
  BY <1>1, <1>2
<1>7. \A j, k \in 1..Len(w) : w[j] = w[k] => j = k
  BY <1>1, <1>2
<1> QED
  BY <1>2, <1>3, <1>4, <1>5, <1>6, <1>7 DEF w

\* A sequence is empty when it has length 0, and then has no element.
LEMMA EmptyByLength ==
  ASSUME NEW S, NEW s \in Seq(S)
  PROVE  /\ s = <<>> <=> Len(s) = 0
         /\ ToSet(s) = {} <=> s = <<>>
<1>1. /\ Len(s) \in Nat
      /\ \A x : x \in ToSet(s) <=> \E j \in 1..Len(s) : s[j] = x
  BY SeqByPositions
<1>2. s = <<>> <=> Len(s) = 0
  BY EmptySeq, <1>1
<1>3. ToSet(s) = {} <=> Len(s) = 0
  BY <1>1
<1> QED
  BY <1>2, <1>3

-----------------------------------------------------------------------------
(* The invariant.  LanesAreSerialized and RequestsAreInOnePlace depend on   *)
(* each other: that a lane is started only while inactive keeps the tasks   *)
(* of a lane apart, that a caller is queued in one place keeps it from      *)
(* being started twice.  That tasks is finite gives its cardinality sense.  *)

IInv ==
  /\ TypeOK
  /\ IsFiniteSet(tasks)
  /\ LanesAreSerialized
  /\ RequestsAreInOnePlace
  /\ NoWakeupIsLost

\* The scan only looks at positions of laneOrder.
LEMMA ScanPositionInRange ==
  ASSUME TypeOK, NEW offset \in 0..(Len(laneOrder) - 1)
  PROVE  ScanPosition(offset) \in 1..Len(laneOrder)
<1> DEFINE n == Len(laneOrder)
<1>1. n \in Nat \ {0} /\ cursor \in Nat /\ offset \in Nat
  BY LenProperties DEF TypeOK
<1> HIDE DEF n
<1>2. cursor % n \in 0..(n - 1)
  BY <1>1
<1>3. (cursor % n) + offset \in Nat
  BY <1>1, <1>2
<1>4. ((cursor % n) + offset) % n \in 0..(n - 1)
  BY <1>1, <1>3
<1> QED
  BY <1>1, <1>4 DEF ScanPosition, n

\* compactLane keeps the Map free of repetition and the cursor inside it.
LEMMA CompactProperties ==
  ASSUME TypeOK, IsInjective(laneOrder),
         NEW l \in Lanes, NEW idle \in BOOLEAN, NEW empty \in BOOLEAN,
         Compact(l, idle, empty)
  PROVE  /\ laneOrder' \in Seq(Lanes)
         /\ cursor' \in 0..Len(laneOrder')
         /\ IsInjective(laneOrder')
         /\ ToSet(laneOrder') = IF idle /\ empty THEN ToSet(laneOrder) \ {l}
                                                ELSE ToSet(laneOrder)
<1>1. laneOrder \in Seq(Lanes) /\ cursor \in 0..Len(laneOrder)
  BY DEF TypeOK
<1>2. CASE idle /\ empty
  <2>1. PICK i \in 1..Len(laneOrder) :
          /\ laneOrder[i] = l
          /\ laneOrder' = RemoveAt(laneOrder, i)
          /\ cursor' = IF cursor >= Len(laneOrder') THEN 0 ELSE cursor
    BY <1>2 DEF Compact
  <2>2. /\ laneOrder' \in Seq(Lanes)
        /\ Len(laneOrder') = Len(laneOrder) - 1
    BY <1>1, <2>1, RemoveAtProperties
  <2>3. /\ ToSet(laneOrder') = ToSet(laneOrder) \ {l}
        /\ IsInjective(laneOrder')
    BY <1>1, <2>1, RemoveAtOne
  <2>4. Len(laneOrder) \in Nat /\ Len(laneOrder') \in Nat
    BY <1>1, <2>2, LenProperties
  <2> QED
    BY <1>1, <1>2, <2>1, <2>2, <2>3, <2>4
<1>3. CASE ~(idle /\ empty)
  BY <1>1, <1>3 DEF Compact
<1> QED
  BY <1>2, <1>3

-----------------------------------------------------------------------------
(* Every operation preserves the invariant. *)

\* The empty Map with no tasks satisfies the invariant.
LEMMA InitIInv == Init => IInv
<1> SUFFICES ASSUME Init PROVE IInv
  OBVIOUS
<1>1. TypeOK
  <2>1. \A S : <<>> \in Seq(S)
    OBVIOUS
  <2>2. Len(<<>>) = 0
    OBVIOUS
  <2>3. /\ laneOrder \in Seq(Lanes)
        /\ queue \in [Lanes -> Seq(Callers)]
        /\ cursor \in 0..Len(laneOrder)
    BY <2>1, <2>2 DEF Init
  <2>4. /\ active \in [Lanes -> BOOLEAN]
        /\ activeLaneCount \in Nat
        /\ scheduling \in BOOLEAN
        /\ tasks \subseteq Task
        /\ phase \in [Callers -> Phases]
    BY DEF Init, Phases
  <2> QED
    BY <2>3, <2>4 DEF TypeOK
<1>2. IsFiniteSet(tasks) /\ Cardinality(tasks) = 0
  BY FS_EmptySet DEF Init
<1>3. LanesAreSerialized
  BY <1>2, LimitsAssumption DEF Init, LanesAreSerialized
<1>4. /\ ToSet(<<>>) = {}
      /\ IsInjective(<<>>)
      /\ Len(<<>>) = 0
  BY DEF ToSet, IsInjective
<1>5. RequestsAreInOnePlace
  BY <1>4, LimitsAssumption DEF Init, RequestsAreInOnePlace, MapHoldsBusyLanes,
     QueuesAreLines, QueuesAreDisjoint, QueuedIsInAQueue, StartedHasATask
<1>6. NoWakeupIsLost
  BY DEF Init, NoWakeupIsLost, Runnable
<1> QED
  BY <1>1, <1>2, <1>3, <1>5, <1>6 DEF IInv

\* A refusal touches nothing but the caller, who was queued nowhere.
LEMMA EnqueueSaturatedIInv ==
  ASSUME IInv, NEW c \in Callers, NEW l \in Lanes, EnqueueSaturated(c, l)
  PROVE  IInv'
<1> USE DEF EnqueueSaturated, laneVars
<1>1. TypeOK'
  BY DEF IInv, TypeOK, Phases
<1>2. LanesAreSerialized' /\ IsFiniteSet(tasks)'
  BY DEF IInv, LanesAreSerialized
<1>3. /\ MapHoldsBusyLanes'
      /\ QueuesAreLines'
      /\ QueuesAreDisjoint'
  BY DEF IInv, RequestsAreInOnePlace, MapHoldsBusyLanes, QueuesAreLines,
         QueuesAreDisjoint
<1>4. QueuedIsInAQueue' /\ StartedHasATask'
  BY DEF IInv, TypeOK, RequestsAreInOnePlace, QueuedIsInAQueue,
         StartedHasATask, Idle
<1>5. NoWakeupIsLost'
  BY DEF IInv, NoWakeupIsLost, Runnable
<1> QED
  BY <1>1, <1>2, <1>3, <1>4, <1>5 DEF IInv, RequestsAreInOnePlace

\* The caller is new to every queue, and its lane is new to the Map or in it.
LEMMA EnqueueIInv ==
  ASSUME IInv, NEW c \in Callers, NEW l \in Lanes, Enqueue(c, l)
  PROVE  IInv'
<1> USE DEF Enqueue
<1>1. /\ laneOrder \in Seq(Lanes) /\ Len(laneOrder) \in Nat
      /\ queue \in [Lanes -> Seq(Callers)]
      /\ \A m \in Lanes : Len(queue[m]) \in Nat
  BY LenProperties DEF IInv, TypeOK
<1>2. \A m \in Lanes : c \notin ToSet(queue[m])
  BY DEF IInv, RequestsAreInOnePlace, QueuedIsInAQueue, Idle
<1>3. /\ queue'[l] \in Seq(Callers)
      /\ Len(queue'[l]) = Len(queue[l]) + 1
      /\ ToSet(queue'[l]) = ToSet(queue[l]) \cup {c}
      /\ IsInjective(queue'[l])
  <2>1. queue[l] \in Seq(Callers) /\ IsInjective(queue[l])
    BY <1>1 DEF IInv, RequestsAreInOnePlace, QueuesAreLines
  <2>2. queue'[l] = Append(queue[l], c)
    BY <1>1
  <2> QED
    BY <1>2, <2>1, <2>2, AppendNew
<1>4. queue' \in [Lanes -> Seq(Callers)]
      /\ \A m \in Lanes \ {l} : queue'[m] = queue[m]
  BY <1>1, <1>3
<1>5. /\ laneOrder' \in Seq(Lanes)
      /\ Len(laneOrder') \in Nat /\ Len(laneOrder') >= Len(laneOrder)
      /\ IsInjective(laneOrder')
      /\ ToSet(laneOrder') = ToSet(laneOrder) \cup {l}
  <2>1. IsInjective(laneOrder)
    BY DEF IInv, RequestsAreInOnePlace, MapHoldsBusyLanes
  <2>2. CASE l \in ToSet(laneOrder)
    BY <1>1, <2>1, <2>2
  <2>3. CASE l \notin ToSet(laneOrder)
    <3>1. laneOrder' = Append(laneOrder, l)
      BY <2>3
    <3> QED
      BY <1>1, <2>1, <2>3, <3>1, AppendNew
  <2> QED
    BY <2>2, <2>3
<1>6. TypeOK'
  BY <1>1, <1>4, <1>5 DEF IInv, TypeOK, Phases
<1>7. LanesAreSerialized' /\ IsFiniteSet(tasks)'
  BY DEF IInv, LanesAreSerialized
<1>8. MapHoldsBusyLanes'
  <2>1. queue'[l] # <<>>
    BY <1>1, <1>3, EmptyByLength
  <2> QED
    BY <1>4, <1>5, <2>1 DEF IInv, RequestsAreInOnePlace, MapHoldsBusyLanes
<1>9. QueuesAreLines'
  BY <1>1, <1>3, <1>4, LimitsAssumption
     DEF IInv, RequestsAreInOnePlace, QueuesAreLines
<1>10. QueuesAreDisjoint'
  BY <1>2, <1>3, <1>4 DEF IInv, RequestsAreInOnePlace, QueuesAreDisjoint
<1>11. QueuedIsInAQueue'
  BY <1>2, <1>3, <1>4 DEF IInv, TypeOK, RequestsAreInOnePlace, QueuedIsInAQueue
<1>12. StartedHasATask'
  BY DEF IInv, TypeOK, RequestsAreInOnePlace, StartedHasATask, Idle
<1>13. NoWakeupIsLost'
  BY DEF NoWakeupIsLost
<1> QED
  BY <1>6, <1>7, <1>8, <1>9, <1>10, <1>11, <1>12, <1>13
     DEF IInv, RequestsAreInOnePlace

\* The lane served was inactive, so its new task is its only one; its caller
\* was queued there and nowhere else, so nobody starts it again.
LEMMA DispatchIInv ==
  ASSUME IInv, Dispatch
  PROVE  IInv'
<1>1. PICK offset \in 0..(Len(laneOrder) - 1) :
        LET position == ScanPosition(offset)
            l == laneOrder[position]
            c == Head(queue[l])
        IN  /\ FirstRunnable(offset)
            /\ cursor' = position
            /\ queue' = [queue EXCEPT ![l] = Tail(@)]
            /\ active' = [active EXCEPT ![l] = TRUE]
            /\ activeLaneCount' = activeLaneCount + 1
            /\ tasks' = tasks \cup {[lane |-> l, caller |-> c, settled |-> FALSE]}
            /\ phase' = [phase EXCEPT ![c] = "started"]
  BY DEF Dispatch
<1> DEFINE position == ScanPosition(offset)
           l == laneOrder[position]
           c == Head(queue[l])
           t == [lane |-> l, caller |-> c, settled |-> FALSE]
<1>2. /\ Runnable(l)
      /\ cursor' = position
      /\ queue' = [queue EXCEPT ![l] = Tail(@)]
      /\ active' = [active EXCEPT ![l] = TRUE]
      /\ activeLaneCount' = activeLaneCount + 1
      /\ tasks' = tasks \cup {t}
      /\ phase' = [phase EXCEPT ![c] = "started"]
  BY <1>1 DEF FirstRunnable
<1>3. TypeOK
  BY DEF IInv
<1>4. position \in 1..Len(laneOrder)
  BY <1>3, ScanPositionInRange
<1> HIDE DEF position
<1>5. l \in Lanes /\ l \in ToSet(laneOrder)
  BY <1>3, <1>4, ElementOfSeq, SeqByPositions DEF TypeOK
<1> HIDE DEF l
<1>6. queue[l] \in Seq(Callers) /\ queue[l] # <<>> /\ IsInjective(queue[l])
  BY <1>2, <1>3, <1>5
     DEF TypeOK, Runnable, IInv, RequestsAreInOnePlace, QueuesAreLines
<1>7. /\ queue'[l] \in Seq(Callers)
      /\ Len(queue'[l]) = Len(queue[l]) - 1
      /\ c \in ToSet(queue[l])
      /\ ToSet(queue'[l]) = ToSet(queue[l]) \ {c}
      /\ IsInjective(queue'[l])
  <2>1. queue'[l] = Tail(queue[l])
    BY <1>2, <1>3, <1>5 DEF TypeOK
  <2> QED
    BY <1>6, <2>1, ShiftFirst
<1>8. c \in Callers
  BY <1>6, <1>7, SeqByPositions
<1> HIDE DEF c
<1>9. /\ t \in Task
      /\ t.lane = l /\ t.caller = c /\ t.settled = FALSE
  BY <1>5, <1>8 DEF Task
<1> HIDE DEF t
<1>10. /\ laneOrder' = laneOrder /\ scheduling' = scheduling /\ scheduling
       /\ activeLaneCount < GlobalActiveLanes
  BY DEF Dispatch
<1>11. ~active[l] /\ \A u \in tasks : u.lane # l
  BY <1>2, <1>5 DEF Runnable, IInv, LanesAreSerialized
<1>12. /\ queue' \in [Lanes -> Seq(Callers)]
       /\ \A m \in Lanes \ {l} : queue'[m] = queue[m]
  BY <1>2, <1>3, <1>5, <1>7 DEF TypeOK
<1>13. phase[c] = "queued"
  BY <1>5, <1>7, <1>8 DEF IInv, RequestsAreInOnePlace, QueuedIsInAQueue
<1>14. \A u \in tasks : u.settled \/ u.caller # c
  BY <1>8, <1>13 DEF IInv, RequestsAreInOnePlace, StartedHasATask
<1>15. TypeOK'
  <2>1. cursor' \in 0..Len(laneOrder')
    BY <1>2, <1>4, <1>10
  <2> QED
    BY <1>2, <1>3, <1>5, <1>8, <1>9, <1>10, <1>12, <2>1 DEF TypeOK, Phases
<1>16. IsFiniteSet(tasks') /\ Cardinality(tasks') = Cardinality(tasks) + 1
  BY <1>2, <1>9, <1>11, FS_AddElement DEF IInv
<1>17. LanesAreSerialized'
  <2>1. \A u, v \in tasks' : u.lane = v.lane => u = v
    BY <1>2, <1>9, <1>11 DEF IInv, LanesAreSerialized
  <2>2. \A m \in Lanes : active'[m] <=> \E u \in tasks' : u.lane = m
    BY <1>2, <1>3, <1>5, <1>9 DEF IInv, TypeOK, LanesAreSerialized
  <2>3. activeLaneCount' = Cardinality(tasks')
    BY <1>2, <1>16 DEF IInv, LanesAreSerialized
  <2>4. activeLaneCount' <= GlobalActiveLanes
    BY <1>2, <1>3, <1>10, LimitsAssumption DEF TypeOK
  <2> QED
    BY <2>1, <2>2, <2>3, <2>4 DEF LanesAreSerialized
<1>18. MapHoldsBusyLanes'
  BY <1>2, <1>3, <1>5, <1>10, <1>12
     DEF IInv, TypeOK, RequestsAreInOnePlace, MapHoldsBusyLanes
<1>19. QueuesAreLines'
  <2>1. Len(queue[l]) \in Nat
    BY <1>6, LenProperties
  <2> QED
    BY <1>7, <1>12, <2>1, LimitsAssumption
       DEF IInv, RequestsAreInOnePlace, QueuesAreLines
<1>20. QueuesAreDisjoint'
  BY <1>7, <1>12 DEF IInv, RequestsAreInOnePlace, QueuesAreDisjoint
<1>21. QueuedIsInAQueue'
  <2>1. \A m \in Lanes : c \notin ToSet(queue'[m])
    BY <1>5, <1>7, <1>12 DEF IInv, RequestsAreInOnePlace, QueuesAreDisjoint
  <2>2. \A d \in Callers \ {c} : \A m \in Lanes :
          d \in ToSet(queue'[m]) <=> d \in ToSet(queue[m])
    BY <1>7, <1>12
  <2>3. /\ phase'[c] = "started"
        /\ \A d \in Callers \ {c} : phase'[d] = phase[d]
    BY <1>2, <1>3, <1>8 DEF TypeOK
  <2> QED
    BY <2>1, <2>2, <2>3 DEF IInv, RequestsAreInOnePlace, QueuedIsInAQueue
<1>22. StartedHasATask'
  <2>1. /\ phase'[c] = "started"
        /\ \A d \in Callers \ {c} : phase'[d] = phase[d]
    BY <1>2, <1>3, <1>8 DEF TypeOK
  <2>2. \A d \in Callers :
          phase'[d] = "started" <=> \E u \in tasks' : u.caller = d /\ ~u.settled
    BY <1>2, <1>9, <2>1 DEF IInv, RequestsAreInOnePlace, StartedHasATask
  <2>3. \A u, v \in tasks' :
          u.caller = v.caller /\ ~u.settled /\ ~v.settled => u = v
    BY <1>2, <1>9, <1>14 DEF IInv, RequestsAreInOnePlace, StartedHasATask
  <2> QED
    BY <2>2, <2>3 DEF StartedHasATask
<1>23. NoWakeupIsLost'
  BY <1>10 DEF NoWakeupIsLost
<1> QED
  BY <1>15, <1>16, <1>17, <1>18, <1>19, <1>20, <1>21, <1>22, <1>23
     DEF IInv, RequestsAreInOnePlace

\* The loop only ends with the cap reached or nothing runnable.
LEMMA StopSchedulingIInv ==
  ASSUME IInv, StopScheduling
  PROVE  IInv'
<1> USE DEF StopScheduling
<1>1. TypeOK' /\ LanesAreSerialized' /\ IsFiniteSet(tasks)'
  BY DEF IInv, TypeOK, LanesAreSerialized
<1>2. RequestsAreInOnePlace'
  BY DEF IInv, RequestsAreInOnePlace, MapHoldsBusyLanes, QueuesAreLines,
         QueuesAreDisjoint, QueuedIsInAQueue, StartedHasATask
<1>3. CASE activeLaneCount >= GlobalActiveLanes
  <2>1. activeLaneCount = GlobalActiveLanes
    BY <1>3, LimitsAssumption DEF IInv, TypeOK, LanesAreSerialized
  <2> QED
    BY <1>1, <1>2, <2>1 DEF IInv, NoWakeupIsLost
<1>4. CASE \A l \in ToSet(laneOrder) : ~Runnable(l)
  <2>1. \A l \in Lanes : ~Runnable(l)
    BY <1>4 DEF Runnable, IInv, RequestsAreInOnePlace, MapHoldsBusyLanes
  <2>2. NoWakeupIsLost'
    BY <2>1 DEF NoWakeupIsLost, Runnable
  <2> QED
    BY <1>1, <1>2, <2>2 DEF IInv
<1> QED
  BY <1>3, <1>4

\* The task leaves its queue together with its caller, the lane leaves the Map
\* if that was all it had.
LEMMA QueueTimeoutIInv ==
  ASSUME IInv, NEW c \in Callers, NEW l \in Lanes, QueueTimeout(c, l)
  PROVE  IInv'
<1>1. PICK i \in 1..Len(queue[l]) :
        /\ queue[l][i] = c
        /\ queue' = [queue EXCEPT ![l] = RemoveAt(@, i)]
  BY DEF QueueTimeout
<1>2. /\ phase' = [phase EXCEPT ![c] = "refused"]
      /\ scheduling' = TRUE
      /\ Compact(l, ~active[l], Len(queue[l]) = 1)
      /\ active' = active /\ activeLaneCount' = activeLaneCount
      /\ tasks' = tasks
  BY DEF QueueTimeout
<1>3. TypeOK
  BY DEF IInv
<1>4. queue[l] \in Seq(Callers) /\ IsInjective(queue[l])
  BY <1>3 DEF TypeOK, IInv, RequestsAreInOnePlace, QueuesAreLines
<1>5. Len(queue[l]) \in Nat \ {0} /\ c \in ToSet(queue[l])
  BY <1>1, <1>4, SeqByPositions
<1>6. /\ queue'[l] \in Seq(Callers)
      /\ Len(queue'[l]) = Len(queue[l]) - 1
      /\ ToSet(queue'[l]) = ToSet(queue[l]) \ {c}
      /\ IsInjective(queue'[l])
  <2>1. queue'[l] = RemoveAt(queue[l], i)
    BY <1>1, <1>3 DEF TypeOK
  <2>2. /\ queue'[l] \in Seq(Callers)
        /\ Len(queue'[l]) = Len(queue[l]) - 1
    BY <1>1, <1>4, <2>1, RemoveAtProperties
  <2>3. /\ ToSet(queue'[l]) = ToSet(queue[l]) \ {c}
        /\ IsInjective(queue'[l])
    BY <1>1, <1>4, <2>1, RemoveAtOne
  <2> QED
    BY <2>2, <2>3
<1>7. /\ queue' \in [Lanes -> Seq(Callers)]
      /\ \A m \in Lanes \ {l} : queue'[m] = queue[m]
  BY <1>1, <1>3, <1>6 DEF TypeOK
<1>8. queue'[l] = <<>> <=> Len(queue[l]) = 1
  <2>1. queue'[l] = <<>> <=> Len(queue'[l]) = 0
    BY <1>6, EmptyByLength
  <2> QED
    BY <1>5, <1>6, <2>1
<1>9. /\ laneOrder' \in Seq(Lanes)
      /\ cursor' \in 0..Len(laneOrder')
      /\ IsInjective(laneOrder')
      /\ ToSet(laneOrder') = IF ~active[l] /\ Len(queue[l]) = 1
                             THEN ToSet(laneOrder) \ {l} ELSE ToSet(laneOrder)
  <2>1. IsInjective(laneOrder)
    BY DEF IInv, RequestsAreInOnePlace, MapHoldsBusyLanes
  <2> DEFINE idle == ~active[l]
             empty == Len(queue[l]) = 1
  <2>2. idle \in BOOLEAN /\ empty \in BOOLEAN /\ Compact(l, idle, empty)
    BY <1>2, Zenon
  <2> HIDE DEF idle, empty
  <2>3. /\ laneOrder' \in Seq(Lanes)
        /\ cursor' \in 0..Len(laneOrder')
        /\ IsInjective(laneOrder')
        /\ ToSet(laneOrder') = IF idle /\ empty THEN ToSet(laneOrder) \ {l}
                                               ELSE ToSet(laneOrder)
    BY <1>3, <2>1, <2>2, CompactProperties
  <2> QED
    BY <2>3 DEF idle, empty
<1>10. phase[c] = "queued"
  BY <1>5 DEF IInv, RequestsAreInOnePlace, QueuedIsInAQueue
<1>11. TypeOK'
  BY <1>2, <1>3, <1>7, <1>9 DEF TypeOK, Phases
<1>12. LanesAreSerialized' /\ IsFiniteSet(tasks)'
  BY <1>2 DEF IInv, LanesAreSerialized
<1>13. MapHoldsBusyLanes'
  <2>1. queue[l] # <<>>
    BY <1>4, <1>5, EmptyByLength
  <2>2. \A m \in Lanes : m \in ToSet(laneOrder) <=> active[m] \/ queue[m] # <<>>
    BY DEF IInv, RequestsAreInOnePlace, MapHoldsBusyLanes
  <2>3. ASSUME NEW m \in Lanes
        PROVE  m \in ToSet(laneOrder') <=> active'[m] \/ queue'[m] # <<>>
    <3>1. CASE m = l
      BY <1>2, <1>8, <1>9, <2>1, <2>2, <3>1
    <3>2. CASE m # l
      BY <1>2, <1>7, <1>9, <2>2, <3>2
    <3> QED
      BY <3>1, <3>2
  <2> QED
    BY <1>9, <2>3 DEF MapHoldsBusyLanes
<1>14. QueuesAreLines'
  BY <1>5, <1>6, <1>7, LimitsAssumption
     DEF IInv, RequestsAreInOnePlace, QueuesAreLines
<1>15. QueuesAreDisjoint'
  BY <1>6, <1>7 DEF IInv, RequestsAreInOnePlace, QueuesAreDisjoint
<1>16. QueuedIsInAQueue'
  <2>1. \A m \in Lanes : c \notin ToSet(queue'[m])
    BY <1>5, <1>6, <1>7 DEF IInv, RequestsAreInOnePlace, QueuesAreDisjoint
  <2>2. \A d \in Callers \ {c} : \A m \in Lanes :
          d \in ToSet(queue'[m]) <=> d \in ToSet(queue[m])
    BY <1>6, <1>7
  <2>3. /\ phase'[c] = "refused"
        /\ \A d \in Callers \ {c} : phase'[d] = phase[d]
    BY <1>2, <1>3 DEF TypeOK
  <2> QED
    BY <2>1, <2>2, <2>3 DEF IInv, RequestsAreInOnePlace, QueuedIsInAQueue
<1>17. StartedHasATask'
  BY <1>2, <1>3, <1>10
     DEF TypeOK, IInv, RequestsAreInOnePlace, StartedHasATask
<1>18. NoWakeupIsLost'
  BY <1>2 DEF NoWakeupIsLost
<1> QED
  BY <1>11, <1>12, <1>13, <1>14, <1>15, <1>16, <1>17, <1>18
     DEF IInv, RequestsAreInOnePlace

\* The task stays, settled, until its `finally`, and holds its lane till then.
LEMMA SettleIInv ==
  ASSUME IInv, NEW t \in tasks, Settle(t)
  PROVE  IInv'
<1> DEFINE u == [t EXCEPT !.settled = TRUE]
<1>1. /\ ~t.settled /\ ~scheduling
      /\ tasks' = (tasks \ {t}) \cup {u}
      /\ phase' = [phase EXCEPT ![t.caller] = "answered"]
      /\ UNCHANGED laneVars
  BY DEF Settle
<1>2. TypeOK
  BY DEF IInv
<1>3. /\ t \in Task /\ u \in Task
      /\ u.lane = t.lane /\ u.caller = t.caller /\ u.settled = TRUE
  BY <1>2 DEF TypeOK, Task
<1> HIDE DEF u
<1>4. t.lane \in Lanes /\ t.caller \in Callers
  BY <1>3 DEF Task
<1>5. u \notin tasks
  BY <1>1, <1>3 DEF IInv, LanesAreSerialized
<1>6. phase[t.caller] = "started"
  BY <1>1, <1>4 DEF IInv, RequestsAreInOnePlace, StartedHasATask
<1>7. /\ phase'[t.caller] = "answered"
      /\ \A d \in Callers \ {t.caller} : phase'[d] = phase[d]
  BY <1>1, <1>2, <1>4 DEF TypeOK
<1>8. TypeOK'
  BY <1>1, <1>2, <1>3 DEF TypeOK, laneVars, Phases
<1>9. IsFiniteSet(tasks') /\ Cardinality(tasks') = Cardinality(tasks)
  <2>1. /\ IsFiniteSet(tasks \ {t})
        /\ Cardinality(tasks \ {t}) = Cardinality(tasks) - 1
        /\ Cardinality(tasks) \in Nat
    BY FS_RemoveElement, FS_CardinalityType DEF IInv
  <2>2. u \notin tasks \ {t}
    BY <1>5
  <2>3. /\ IsFiniteSet(tasks')
        /\ Cardinality(tasks') = Cardinality(tasks \ {t}) + 1
    BY <1>1, <2>1, <2>2, FS_AddElement
  <2> QED
    BY <2>1, <2>3
<1>10. LanesAreSerialized'
  <2>1. \A v, w \in tasks' : v.lane = w.lane => v = w
    BY <1>1, <1>3 DEF IInv, LanesAreSerialized
  <2>2. \A m \in Lanes : active'[m] <=> \E v \in tasks' : v.lane = m
    BY <1>1, <1>3 DEF IInv, LanesAreSerialized, laneVars
  <2> QED
    BY <1>1, <1>9, <2>1, <2>2 DEF IInv, LanesAreSerialized, laneVars
<1>11. MapHoldsBusyLanes' /\ QueuesAreLines' /\ QueuesAreDisjoint'
  BY <1>1 DEF IInv, RequestsAreInOnePlace, MapHoldsBusyLanes, QueuesAreLines,
              QueuesAreDisjoint, laneVars
<1>12. QueuedIsInAQueue'
  BY <1>1, <1>4, <1>6, <1>7
     DEF IInv, RequestsAreInOnePlace, QueuedIsInAQueue, laneVars
<1>13. StartedHasATask'
  <2>1. ASSUME NEW d \in Callers
        PROVE  phase'[d] = "started" <=>
                 \E v \in tasks' : v.caller = d /\ ~v.settled
    <3>1. CASE d = t.caller
      BY <1>1, <1>3, <1>7, <3>1 DEF IInv, RequestsAreInOnePlace, StartedHasATask
    <3>2. CASE d # t.caller
      BY <1>1, <1>3, <1>7, <3>2 DEF IInv, RequestsAreInOnePlace, StartedHasATask
    <3> QED
      BY <3>1, <3>2
  <2>2. \A v, w \in tasks' :
          v.caller = w.caller /\ ~v.settled /\ ~w.settled => v = w
    BY <1>1, <1>3 DEF IInv, RequestsAreInOnePlace, StartedHasATask
  <2> QED
    BY <2>1, <2>2 DEF StartedHasATask
<1>14. NoWakeupIsLost'
  BY <1>1 DEF IInv, NoWakeupIsLost, Runnable, laneVars
<1> QED
  BY <1>8, <1>9, <1>10, <1>11, <1>12, <1>13, <1>14
     DEF IInv, RequestsAreInOnePlace

\* The lane's only task goes together with its flag and its place.
LEMMA ReleaseIInv ==
  ASSUME IInv, NEW t \in tasks, Release(t)
  PROVE  IInv'
<1> DEFINE l == t.lane
<1>1. /\ t.settled
      /\ tasks' = tasks \ {t}
      /\ active' = [active EXCEPT ![l] = FALSE]
      /\ activeLaneCount' = IF activeLaneCount > 0 THEN activeLaneCount - 1 ELSE 0
      /\ Compact(l, TRUE, queue[l] = <<>>)
      /\ scheduling' = TRUE
      /\ queue' = queue /\ phase' = phase
  BY DEF Release
<1>2. TypeOK
  BY DEF IInv
<1>3. t \in Task /\ l \in Lanes
  BY <1>2 DEF TypeOK, Task
<1>4. active[l] /\ \A u \in tasks : u.lane = l => u = t
  BY <1>3 DEF IInv, LanesAreSerialized
<1>5. /\ laneOrder' \in Seq(Lanes)
      /\ cursor' \in 0..Len(laneOrder')
      /\ IsInjective(laneOrder')
      /\ ToSet(laneOrder') = IF queue[l] = <<>> THEN ToSet(laneOrder) \ {l}
                                               ELSE ToSet(laneOrder)
  <2>1. IsInjective(laneOrder)
    BY DEF IInv, RequestsAreInOnePlace, MapHoldsBusyLanes
  <2> DEFINE empty == queue[l] = <<>>
  <2>2. empty \in BOOLEAN /\ Compact(l, TRUE, empty)
    BY <1>1
  <2> HIDE DEF empty, l
  <2>3. /\ laneOrder' \in Seq(Lanes)
        /\ cursor' \in 0..Len(laneOrder')
        /\ IsInjective(laneOrder')
        /\ ToSet(laneOrder') = IF TRUE /\ empty THEN ToSet(laneOrder) \ {l}
                                               ELSE ToSet(laneOrder)
    BY <1>2, <1>3, <2>1, <2>2, CompactProperties
  <2> QED
    BY <2>3 DEF empty
<1> HIDE DEF l
<1>6. /\ IsFiniteSet(tasks')
      /\ Cardinality(tasks') = Cardinality(tasks) - 1
      /\ Cardinality(tasks) \in Nat \ {0}
  <2>1. IsFiniteSet(tasks) /\ t \in tasks
    BY DEF IInv
  <2>2. Cardinality(tasks) \in Nat /\ Cardinality(tasks \ {t}) \in Nat
    BY <2>1, FS_RemoveElement, FS_CardinalityType
  <2>3. /\ IsFiniteSet(tasks \ {t})
        /\ Cardinality(tasks \ {t}) = Cardinality(tasks) - 1
    BY <2>1, FS_RemoveElement
  <2> QED
    BY <1>1, <2>2, <2>3
<1>7. activeLaneCount' = activeLaneCount - 1 /\ activeLaneCount' \in Nat
  BY <1>1, <1>6 DEF IInv, LanesAreSerialized
<1>8. TypeOK'
  BY <1>1, <1>2, <1>3, <1>5, <1>7 DEF TypeOK
<1>9. LanesAreSerialized'
  <2>1. \A u, v \in tasks' : u.lane = v.lane => u = v
    BY <1>1 DEF IInv, LanesAreSerialized
  <2>2. \A m \in Lanes : active'[m] <=> \E u \in tasks' : u.lane = m
    <3>1. \A u \in tasks' : u.lane # l
      BY <1>1, <1>4
    <3>2. \A u \in tasks : u.lane # l => u \in tasks'
      BY <1>1 DEF l
    <3>3. \A m \in Lanes : active'[m] = IF m = l THEN FALSE ELSE active[m]
      BY <1>1, <1>2 DEF TypeOK
    <3>4. \A m \in Lanes : active[m] <=> \E u \in tasks : u.lane = m
      BY DEF IInv, LanesAreSerialized
    <3> QED
      BY <1>1, <3>1, <3>2, <3>3, <3>4
  <2>3. activeLaneCount' = Cardinality(tasks') /\ activeLaneCount' <= GlobalActiveLanes
    BY <1>2, <1>6, <1>7, LimitsAssumption DEF TypeOK, IInv, LanesAreSerialized
  <2> QED
    BY <2>1, <2>2, <2>3 DEF LanesAreSerialized
<1>10. MapHoldsBusyLanes'
  BY <1>1, <1>2, <1>3, <1>4, <1>5
     DEF TypeOK, IInv, RequestsAreInOnePlace, MapHoldsBusyLanes
<1>11. QueuesAreLines' /\ QueuesAreDisjoint' /\ QueuedIsInAQueue'
  BY <1>1 DEF IInv, RequestsAreInOnePlace, QueuesAreLines, QueuesAreDisjoint,
              QueuedIsInAQueue
<1>12. StartedHasATask'
  BY <1>1 DEF IInv, RequestsAreInOnePlace, StartedHasATask
<1>13. NoWakeupIsLost'
  BY <1>1 DEF NoWakeupIsLost
<1> QED
  BY <1>6, <1>8, <1>9, <1>10, <1>11, <1>12, <1>13
     DEF IInv, RequestsAreInOnePlace

-----------------------------------------------------------------------------
(* The invariant holds of every behaviour. *)

\* Every step preserves the invariant.
LEMMA NextIInv == IInv /\ [Next]_vars => IInv'
<1> SUFFICES ASSUME IInv, [Next]_vars PROVE IInv'
  OBVIOUS
<1>1. ASSUME NEW c \in Callers, NEW l \in Lanes, EnqueueSaturated(c, l)
      PROVE  IInv'
  BY <1>1, EnqueueSaturatedIInv
<1>2. ASSUME NEW c \in Callers, NEW l \in Lanes, Enqueue(c, l)
      PROVE  IInv'
  BY <1>2, EnqueueIInv
<1>3. ASSUME NEW c \in Callers, NEW l \in Lanes, QueueTimeout(c, l)
      PROVE  IInv'
  BY <1>3, QueueTimeoutIInv
<1>4. CASE Dispatch
  BY <1>4, DispatchIInv
<1>5. CASE StopScheduling
  BY <1>5, StopSchedulingIInv
<1>6. ASSUME NEW l \in Lanes, SettleIn(l)
      PROVE  IInv'
  BY <1>6, SettleIInv DEF SettleIn
<1>7. ASSUME NEW l \in Lanes, ReleaseIn(l)
      PROVE  IInv'
  BY <1>7, ReleaseIInv DEF ReleaseIn
<1>8. CASE UNCHANGED vars
  BY <1>8 DEF vars, laneVars, IInv, TypeOK, LanesAreSerialized,
              RequestsAreInOnePlace, MapHoldsBusyLanes, QueuesAreLines,
              QueuesAreDisjoint, QueuedIsInAQueue, StartedHasATask,
              NoWakeupIsLost, Runnable
<1> QED
  BY <1>1, <1>2, <1>3, <1>4, <1>5, <1>6, <1>7, <1>8 DEF Next

\* The inductive invariant holds in every state the scheduler reaches.
THEOREM Invariance == Spec => []IInv
  BY InitIInv, NextIInv, PTL DEF Spec

\* The state of enqueue, schedule, the wait timers and `finally` stays well
\* typed; in particular the cursor stays inside the Map.
THEOREM TypeCorrect == Spec => []TypeOK
<1>1. IInv => TypeOK
  BY DEF IInv
<1> QED
  BY <1>1, Invariance, PTL

\* One command per lane and at most GlobalActiveLanes lanes at once, for every
\* number of callers and lanes and every cap.
THEOREM Serialized == Spec => []LanesAreSerialized
<1>1. IInv => LanesAreSerialized
  BY DEF IInv
<1> QED
  BY <1>1, Invariance, PTL

\* No request is lost, duplicated, or both queued and running.
THEOREM OnePlace == Spec => []RequestsAreInOnePlace
<1>1. IInv => RequestsAreInOnePlace
  BY DEF IInv
<1> QED
  BY <1>1, Invariance, PTL

\* schedule() is called wherever a lane may have become runnable.
THEOREM WakeupsAreKept == Spec => []NoWakeupIsLost
<1>1. IInv => NoWakeupIsLost
  BY DEF IInv
<1> QED
  BY <1>1, Invariance, PTL

-----------------------------------------------------------------------------
(* The scheduler implements LaneService. *)

\* The commands being executed are no more than the tasks under way.
LEMMA RunningIsBounded ==
  ASSUME IInv
  PROVE  /\ IsFiniteSet(Running)
         /\ Cardinality(Running) <= activeLaneCount
<1> DEFINE U == {u \in tasks : ~u.settled}
           f == [t \in U |-> [lane |-> t.lane, caller |-> t.caller]]
<1>1. /\ IsFiniteSet(U) /\ Cardinality(U) <= Cardinality(tasks)
  BY FS_Subset DEF IInv
<1>2. f \in Surjection(U, Running)
  BY DEF Surjection, Running
<1> HIDE DEF f
<1>3. IsFiniteSet(Running) /\ Cardinality(Running) <= Cardinality(U)
  BY <1>1, <1>2, FS_Surjection
<1>4. /\ Cardinality(Running) \in Nat /\ Cardinality(U) \in Nat
      /\ Cardinality(tasks) \in Nat
  BY <1>1, <1>3, FS_CardinalityType DEF IInv
<1> QED
  BY <1>1, <1>3, <1>4 DEF IInv, LanesAreSerialized

\* Initially nobody waits and nobody is served.
LEMMA InitImplements == Init => Service!Init
  BY DEF Init, Service!Init, Running

\* A full lane's refusal is the service's: the queue is never above its cap.
LEMMA EnqueueSaturatedImplements ==
  ASSUME IInv, NEW c \in Callers, NEW l \in Lanes, EnqueueSaturated(c, l)
  PROVE  Service!Refuse(c, l)
<1>1. Len(queue[l]) \in Nat
  BY LenProperties DEF IInv, TypeOK
<1>2. Len(queue[l]) = LaneQueueDepth
  BY <1>1, LimitsAssumption
     DEF IInv, RequestsAreInOnePlace, QueuesAreLines, EnqueueSaturated
<1> QED
  BY <1>2 DEF EnqueueSaturated, Idle, laneVars, Service!Refuse, Service!Settled, Running

\* enqueue is the service's Submit, whatever becomes of the Map.
LEMMA EnqueueImplements ==
  ASSUME NEW c \in Callers, NEW l \in Lanes, Enqueue(c, l)
  PROVE  Service!Submit(c, l)
  BY DEF Enqueue, Idle, Service!Submit, Service!Settled, Running

\* A wait timer is the service's GiveUp.
LEMMA QueueTimeoutImplements ==
  ASSUME IInv, NEW c \in Callers, NEW l \in Lanes, QueueTimeout(c, l)
  PROVE  Service!GiveUp(c, l)
<1>1. c \in ToSet(queue[l])
  BY SeqByPositions DEF QueueTimeout, IInv, TypeOK
<1>2. phase[c] = "queued"
  BY <1>1 DEF IInv, RequestsAreInOnePlace, QueuedIsInAQueue
<1> QED
  BY <1>2 DEF QueueTimeout, Service!GiveUp, Running, RemoveAt, Service!RemoveAt

\* A dispatch is the service's Start, of the oldest caller of an idle lane.
LEMMA DispatchImplements ==
  ASSUME IInv, Dispatch
  PROVE  \E c \in Callers, l \in Lanes : Service!Start(c, l)
<1>1. PICK offset \in 0..(Len(laneOrder) - 1) :
        LET position == ScanPosition(offset)
            l == laneOrder[position]
            c == Head(queue[l])
        IN  /\ FirstRunnable(offset)
            /\ queue' = [queue EXCEPT ![l] = Tail(@)]
            /\ tasks' = tasks \cup {[lane |-> l, caller |-> c, settled |-> FALSE]}
            /\ phase' = [phase EXCEPT ![c] = "started"]
  BY DEF Dispatch
<1> DEFINE l == laneOrder[ScanPosition(offset)]
           c == Head(queue[l])
           t == [lane |-> l, caller |-> c, settled |-> FALSE]
<1>2. /\ Runnable(l)
      /\ queue' = [queue EXCEPT ![l] = Tail(@)]
      /\ tasks' = tasks \cup {t}
      /\ phase' = [phase EXCEPT ![c] = "started"]
  BY <1>1 DEF FirstRunnable
<1>3. l \in Lanes
  BY ScanPositionInRange, ElementOfSeq DEF IInv, TypeOK
<1> HIDE DEF l
<1>4. queue[l] \in Seq(Callers) /\ queue[l] # <<>> /\ IsInjective(queue[l])
  BY <1>2, <1>3
     DEF Runnable, IInv, TypeOK, RequestsAreInOnePlace, QueuesAreLines
<1>5. c \in ToSet(queue[l]) /\ c \in Callers
  BY <1>4, ShiftFirst, SeqByPositions
<1>6. phase[c] = "queued"
  BY <1>3, <1>5 DEF IInv, RequestsAreInOnePlace, QueuedIsInAQueue
<1>7. c = Head(queue[l])
  OBVIOUS
<1> HIDE DEF c
<1>8. \A r \in Running : r.lane # l
  BY <1>2, <1>3 DEF Runnable, Running, IInv, LanesAreSerialized
<1>9. Cardinality(Running) < GlobalActiveLanes
  <2>1. Cardinality(Running) \in Nat /\ Cardinality(Running) <= activeLaneCount
    BY RunningIsBounded, FS_CardinalityType
  <2>2. activeLaneCount \in Nat /\ activeLaneCount < GlobalActiveLanes
    BY DEF Dispatch, IInv, TypeOK
  <2> QED
    BY <2>1, <2>2, LimitsAssumption
<1>10. Running' = Running \cup {[lane |-> l, caller |-> c]}
  <2>1. {u \in tasks' : ~u.settled} = {u \in tasks : ~u.settled} \cup {t}
    BY <1>2
  <2>2. t.lane = l /\ t.caller = c
    OBVIOUS
  <2> HIDE DEF t
  <2> DEFINE live == {u \in tasks : ~u.settled}
  <2>3. Running' = {[lane |-> u.lane, caller |-> u.caller] : u \in live \cup {t}}
    BY <2>1 DEF Running
  <2>4. Running = {[lane |-> u.lane, caller |-> u.caller] : u \in live}
    BY DEF Running
  <2> HIDE DEF live
  <2> QED
    BY <2>2, <2>3, <2>4
<1>11. Service!Cardinality(Running) < GlobalActiveLanes
  BY <1>9, Zenon DEF Cardinality, Service!Cardinality
<1>12. Service!Start(c, l)
  BY <1>2, <1>4, <1>6, <1>7, <1>8, <1>10, <1>11 DEF Service!Start
<1> QED
  BY <1>3, <1>5, <1>12

\* The end of execute() is the service's Finish.
LEMMA SettleImplements ==
  ASSUME IInv, NEW t \in tasks, Settle(t)
  PROVE  \E c \in Callers, l \in Lanes : Service!Finish(c, l)
<1> DEFINE u == [t EXCEPT !.settled = TRUE]
           r == [lane |-> t.lane, caller |-> t.caller]
<1>1. /\ ~t.settled
      /\ tasks' = (tasks \ {t}) \cup {u}
      /\ phase' = [phase EXCEPT ![t.caller] = "answered"]
      /\ queue' = queue
  BY DEF Settle, laneVars
<1>2. t \in Task /\ u.settled = TRUE
  BY DEF IInv, TypeOK, Task
<1>3. t.lane \in Lanes /\ t.caller \in Callers
  BY <1>2 DEF Task
<1> HIDE DEF u
<1>4. {v \in tasks' : ~v.settled} = {v \in tasks : ~v.settled} \ {t}
  BY <1>1, <1>2
<1>5. r \in Running
  BY <1>1 DEF Running
<1>6. \A v \in tasks : v.lane = t.lane => v = t
  BY DEF IInv, LanesAreSerialized
<1>7. Running' = Running \ {r}
  <2>1. Running' = {[lane |-> v.lane, caller |-> v.caller] :
                      v \in {w \in tasks : ~w.settled} \ {t}}
    BY <1>4 DEF Running
  <2>2. \A v \in {w \in tasks : ~w.settled} \ {t} :
          [lane |-> v.lane, caller |-> v.caller] # r
    BY <1>6
  <2> QED
    BY <2>1, <2>2 DEF Running
<1>8. Service!Finish(t.caller, t.lane)
  BY <1>1, <1>5, <1>7 DEF Service!Finish
<1> QED
  BY <1>3, <1>8

\* `finally` is invisible: the service knows no settled tasks.
LEMMA ReleaseImplements ==
  ASSUME NEW t \in tasks, Release(t)
  PROVE  UNCHANGED <<queue, Running, phase>>
<1>1. {u \in tasks' : ~u.settled} = {u \in tasks : ~u.settled}
  BY DEF Release
<1> QED
  BY <1>1 DEF Release, Running

\* Every step of the scheduler is a step of the service, or none.
LEMMA NextImplements == IInv /\ [Next]_vars => [Service!Next]_(Service!vars)
<1> SUFFICES ASSUME IInv, [Next]_vars PROVE [Service!Next]_(Service!vars)
  OBVIOUS
<1>1. ASSUME NEW c \in Callers, NEW l \in Lanes, EnqueueSaturated(c, l)
      PROVE  Service!Next
  BY <1>1, EnqueueSaturatedImplements DEF Service!Next
<1>2. ASSUME NEW c \in Callers, NEW l \in Lanes, Enqueue(c, l)
      PROVE  Service!Next
  BY <1>2, EnqueueImplements DEF Service!Next
<1>3. ASSUME NEW c \in Callers, NEW l \in Lanes, QueueTimeout(c, l)
      PROVE  Service!Next
  BY <1>3, QueueTimeoutImplements DEF Service!Next
<1>4. CASE Dispatch
  BY <1>4, DispatchImplements DEF Service!Next
<1>5. CASE StopScheduling
  BY <1>5 DEF StopScheduling, Running, Service!vars
<1>6. ASSUME NEW l \in Lanes, SettleIn(l)
      PROVE  Service!Next
  BY <1>6, SettleImplements DEF SettleIn, Service!Next
<1>7. ASSUME NEW l \in Lanes, ReleaseIn(l)
      PROVE  UNCHANGED Service!vars
  BY <1>7, ReleaseImplements DEF ReleaseIn, Service!vars
<1>8. CASE UNCHANGED vars
  BY <1>8 DEF vars, laneVars, Running, Service!vars
<1> QED
  BY <1>1, <1>2, <1>3, <1>4, <1>5, <1>6, <1>7, <1>8 DEF Next

\* For every number of callers and lanes and every cap, lane-scheduler.ts with
\* its Map, cursor, flags, timers and callbacks is the line service of
\* LaneService: each lane is served first come first served, each command at
\* most once, and a refused command never.
THEOREM Implements == Spec => ImplementsLaneService
<1>1. IInv /\ [Next]_vars => [Service!Next]_(Service!vars)
  BY NextImplements
<1> QED
  BY InitImplements, Invariance, <1>1, PTL
     DEF Spec, Service!Spec, ImplementsLaneService
=============================================================================
