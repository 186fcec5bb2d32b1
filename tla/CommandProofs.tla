----------------------------- MODULE CommandProofs -----------------------------
(****************************************************************************)
(* Theorems about the commands beside the daemon and the state store, for   *)
(* every set of clients, commands and network-ends and every bound: network *)
(* captures, lanes and sessions, plans, and commands on pages.              *)
(****************************************************************************)
EXTENDS MCCommands, TLAPS

-----------------------------------------------------------------------------
(* Network captures: what is reported of one is true                        *)

\* until the recorder is spawned nobody has written a file
FilesStartClean ==
  begin \in {"off", "clean", "spawn"} =>
    recorder = "none" /\ ~ready /\ done = "absent" /\ result = "absent"

\* page.on comes before the ready file
ReadinessIsEarned == recorder = "attached" \/ ready \/ begin = "ok" => heard

\* the done file is the recorder's last word, and comes after its result
DoneIsLast ==
  /\ done \in {"stopped", "failed"} => recorder = "ended"
  /\ recorder = "answer" \/ done = "stopped" => result = "whole"

\* what a network-end has seen, or has written to the record, is still there
AnswersAreKept ==
  /\ record = "stopped" => done = "stopped"
  /\ record = "failed" /\ ~misread => done = "failed"
  /\ \A e \in Enders :
       /\ ender[e].at \in {"report", "final", "ok"} \/ ender[e].saw = "stopped" =>
            done = "stopped"
       /\ ender[e].at \in {"report", "final", "broken"} => ender[e].saw # "nothing"
       /\ ender[e].saw = "failed" /\ ~misread => done = "failed"

CaptureInv ==
  CaptureTypeOK /\ FilesStartClean /\ ReadinessIsEarned /\ DoneIsLast /\ AnswersAreKept

LEMMA InitCaptureInv ==
  ASSUME CaptureInit
  PROVE  CaptureInv
BY DEF CaptureInit, CaptureInv, CaptureTypeOK, FilesStartClean, ReadinessIsEarned, DoneIsLast,
  AnswersAreKept, Begun, Recording

\* A step of network-begin, or a `session clear`, keeps the invariant: it writes
\* files only while there is no recorder.
LEMMA BeginInv ==
  ASSUME CaptureInv, BeginStep \/ ClearSession
  PROVE  CaptureInv'
<1> USE DEF CaptureInv, CaptureTypeOK, FilesStartClean, ReadinessIsEarned, DoneIsLast,
  AnswersAreKept, Begun, Recording
<1>1. CASE CreateCapture
  BY <1>1 DEF CreateCapture
<1>2. CASE CleanFiles
  BY <1>2 DEF CleanFiles
<1>3. CASE SpawnRecorder
  BY <1>3 DEF SpawnRecorder
<1>4. CASE SpawnRecorderFails
  BY <1>4 DEF SpawnRecorderFails
<1>5. CASE SeesReady
  BY <1>5 DEF SeesReady
<1>6. CASE ReadyTimesOut
  BY <1>6 DEF ReadyTimesOut
<1>7. CASE ClearSession
  BY <1>7 DEF ClearSession
<1> QED
  BY <1>1, <1>2, <1>3, <1>4, <1>5, <1>6, <1>7 DEF BeginStep

\* A step of the recorder keeps the invariant: it never goes back.
LEMMA RecorderInv ==
  ASSUME CaptureInv, RecorderStep \/ RecorderFails \/ RecorderDies
  PROVE  CaptureInv'
<1> USE DEF CaptureInv, CaptureTypeOK, FilesStartClean, ReadinessIsEarned, DoneIsLast,
  AnswersAreKept, Begun, Recording
<1>1. CASE AttachListeners
  BY <1>1 DEF AttachListeners
<1>2. CASE AnnounceReady
  BY <1>2 DEF AnnounceReady
<1>3. CASE WaitForCaptureEnd
  BY <1>3 DEF WaitForCaptureEnd
<1>4. CASE WriteResult
  BY <1>4 DEF WriteResult
<1>5. CASE WriteDone("answer", "stopped")
  BY <1>5 DEF WriteDone
<1>6. CASE WriteDone("excuse", "failed")
  BY <1>6 DEF WriteDone
<1>7. CASE RecorderFails
  BY <1>7 DEF RecorderFails
<1>8. CASE RecorderDies
  BY <1>8 DEF RecorderDies
<1> QED
  BY <1>1, <1>2, <1>3, <1>4, <1>5, <1>6, <1>7, <1>8 DEF RecorderStep

\* A step of a network-end keeps the invariant.
LEMMA EndInv ==
  ASSUME CaptureInv, NEW e \in Enders, EndStep(e)
  PROVE  CaptureInv'
<1> USE DEF CaptureInv, CaptureTypeOK, FilesStartClean, ReadinessIsEarned, DoneIsLast,
  AnswersAreKept, Begun, Recording, EndGoes
<1>1. CASE ReadCapture(e)
  BY <1>1 DEF ReadCapture
<1>2. CASE SignalStop(e)
  <2>1. PICK at \in {"wait", "error"} : ender' = [ender EXCEPT ![e].at = at]
    BY <1>2 DEF SignalStop
  <2>2. /\ stop' \in BOOLEAN
        /\ UNCHANGED <<record, ready, done, result, begin, recorder, heard, misread>>
    BY <1>2 DEF SignalStop
  <2> QED
    BY <2>1, <2>2
<1>3. CASE SeesDone(e)
  <2>1. UNCHANGED <<record, stop, ready, done, result, begin, recorder, heard>>
    BY <1>3 DEF SeesDone
  <2>2. CASE done = "torn"
    <3>1. ender' = [ender EXCEPT ![e] = [at |-> "broken", saw |-> "failed"]] /\ misread'
      BY <1>3, <2>2 DEF SeesDone
    <3> QED
      BY <2>1, <2>2, <3>1
  <2>3. CASE done \in {"stopped", "failed"}
    <3>1. PICK at \in {"report", "broken"} :
            /\ ender' = [ender EXCEPT ![e] = [at |-> at, saw |-> done]]
            /\ at = "report" => done = "stopped"
      BY <1>3, <2>3 DEF SeesDone
    <3>2. misread' = misread
      BY <1>3, <2>3 DEF SeesDone
    <3> QED
      BY <2>1, <2>3, <3>1, <3>2
  <2> QED
    BY <1>3, <2>2, <2>3 DEF SeesDone
<1>4. CASE DoneTimesOut(e)
  BY <1>4 DEF DoneTimesOut
<1>5. CASE ReadResult(e)
  BY <1>5 DEF ReadResult
<1>6. CASE FinalizeCapture(e)
  <2>1. ender[e].at \in {"final", "broken"} /\ ender[e].saw \in {"stopped", "failed"}
    BY <1>6 DEF FinalizeCapture
  <2>2. PICK at \in {"ok", "error"} :
          ender' = [ender EXCEPT ![e].at = at] /\ (at = "ok" => ender[e].at = "final")
    BY <1>6 DEF FinalizeCapture
  <2>3. record' \in {record, ender[e].saw}
    BY <1>6 DEF FinalizeCapture
  <2>4. UNCHANGED <<stop, ready, done, result, begin, recorder, heard, misread>>
    BY <1>6 DEF FinalizeCapture
  <2> QED
    BY <2>1, <2>2, <2>3, <2>4
<1> QED
  BY <1>1, <1>2, <1>3, <1>4, <1>5, <1>6 DEF EndStep

\* The inductive invariant holds in every reachable state of a capture.
THEOREM CaptureInvariance == CaptureSpec => []CaptureInv
<1>1. CaptureInit => CaptureInv
  BY InitCaptureInv
<1>2. CaptureInv /\ [CaptureNext]_captureVars => CaptureInv'
  <2> SUFFICES ASSUME CaptureInv, [CaptureNext]_captureVars
               PROVE  CaptureInv'
    OBVIOUS
  <2>1. CASE CaptureNext
    BY <2>1, BeginInv, RecorderInv, EndInv DEF CaptureNext
  <2>2. CASE UNCHANGED captureVars
    BY <2>2 DEF captureVars, CaptureInv, CaptureTypeOK, FilesStartClean, ReadinessIsEarned,
      DoneIsLast, AnswersAreKept
  <2> QED
    BY <2>1, <2>2
<1> QED
  BY <1>1, <1>2, PTL DEF CaptureSpec

\* The state of a capture is well typed (the part of CommandsTypeOK about
\* captures).
THEOREM CaptureTypeCorrect == CaptureSpec => []CaptureTypeOK
<1>1. CaptureInv => CaptureTypeOK
  BY DEF CaptureInv
<1> QED
  BY <1>1, CaptureInvariance, PTL

\* What network-begin, network-end and the record report of a capture is true,
\* however many network-ends there are and whoever dies.
THEOREM ReportsAreTrue == CaptureSpec => []CaptureReportsAreTrue
<1>1. CaptureInv => CaptureReportsAreTrue
  BY DEF CaptureInv, CaptureReportsAreTrue, ReadinessIsEarned, DoneIsLast, AnswersAreKept
<1> QED
  BY <1>1, CaptureInvariance, PTL

-----------------------------------------------------------------------------
(* Lanes and sessions                                                       *)

\* the dispatcher's promise
LanesDiffer ==
  \A c, d \in Clients :
    c # d /\ stage[c] \in AtWork /\ stage[d] \in AtWork =>
      LaneKey(request[c]) # LaneKey(request[d])

\* a command that is to make a session makes its own
FreshIsOwn ==
  \A c \in Clients : Way(request[c]) = "fresh" => session[c] \in {"none", FreshId(c)}

\* a command that is about to write its session has found it
SaversHaveFound ==
  \A c \in Clients : stage[c] \in {"joins", "makes"} => session[c] \in SessionIds

\* What a command asks for never changes, so that its lane can be derived from
\* it at any time.
KeysInv == KeysTypeOK /\ LanesDiffer /\ FreshIsOwn /\ SaversHaveFound

LEMMA InitKeysInv ==
  ASSUME KeysInit
  PROVE  KeysInv
<1>1. stage \in [Clients -> AtWork \cup {"waiting", "done"}]
  BY DEF KeysInit
<1>2. session \in [Clients -> SessionIds \cup {"none"}]
  BY DEF KeysInit
<1>3. LanesDiffer /\ FreshIsOwn /\ SaversHaveFound
  BY DEF KeysInit, LanesDiffer, FreshIsOwn, SaversHaveFound, AtWork
<1> QED
  BY <1>1, <1>2, <1>3 DEF KeysInit, KeysInv, KeysTypeOK, SessionIds

\* a step that neither dispatches a command nor gives it a session
LEMMA Moves ==
  ASSUME KeysInv, NEW c \in Clients, stage[c] \in AtWork,
         NEW next \in {"working", "done"},
         stage' = [stage EXCEPT ![c] = next], UNCHANGED <<request, session, targetOf>>,
         sessions' \subseteq SessionIds, activeId' \in sessions' \cup {"none"}
  PROVE  KeysInv'
<1>1. stage' \in [Clients -> AtWork \cup {"waiting", "done"}]
  BY DEF KeysInv, KeysTypeOK, AtWork
<1>2. \A d \in Clients : stage'[d] \in AtWork => stage[d] \in AtWork
  BY DEF KeysInv, KeysTypeOK
<1>3. LanesDiffer'
  BY <1>2 DEF KeysInv, KeysTypeOK, LanesDiffer
<1>4. FreshIsOwn'
  BY DEF KeysInv, KeysTypeOK, FreshIsOwn
<1>5. SaversHaveFound'
  BY DEF KeysInv, KeysTypeOK, SaversHaveFound
<1> QED
  BY <1>1, <1>3, <1>4, <1>5 DEF KeysInv, KeysTypeOK

\* a command that finds its session
LEMMA FindsKeeps ==
  ASSUME KeysInv, NEW c \in Clients, stage[c] \in AtWork, NEW id \in SessionIds,
         NEW next \in AtWork, Finds(c, id, next),
         Way(request[c]) = "fresh" => id = FreshId(c)
  PROVE  KeysInv'
<1>1. stage' \in [Clients -> AtWork \cup {"waiting", "done"}]
  BY DEF KeysInv, KeysTypeOK, Finds
<1>2. session' \in [Clients -> SessionIds \cup {"none"}]
  BY DEF KeysInv, KeysTypeOK, Finds
<1>3. \A d \in Clients : stage'[d] \in AtWork => stage[d] \in AtWork
  BY DEF KeysInv, KeysTypeOK, Finds
<1>4. LanesDiffer'
  BY <1>3 DEF KeysInv, KeysTypeOK, LanesDiffer, Finds
<1>5. FreshIsOwn'
  BY DEF KeysInv, KeysTypeOK, FreshIsOwn, Finds
<1>6. SaversHaveFound'
  BY DEF KeysInv, KeysTypeOK, SaversHaveFound, Finds
<1> QED
  BY <1>1, <1>2, <1>4, <1>5, <1>6 DEF KeysInv, KeysTypeOK, Finds

\* The ways to a session.
LEMMA LeavesKeeps ==
  ASSUME KeysInv, NEW c \in Clients, stage[c] \in AtWork, Leaves(c)
  PROVE  KeysInv'
<1>1. /\ stage' = [stage EXCEPT ![c] = "done"] /\ UNCHANGED <<request, session, targetOf>>
      /\ sessions' \subseteq SessionIds /\ activeId' \in sessions' \cup {"none"}
  BY DEF Leaves, KeysInv, KeysTypeOK
<1> QED
  BY <1>1, Moves

LEMMA JoinsKeeps ==
  ASSUME KeysInv, NEW c \in Clients, stage[c] \in AtWork, NEW id, Joins(c, id),
         Way(request[c]) # "fresh"
  PROVE  KeysInv'
<1>1. CASE id \in sessions
  BY <1>1, FindsKeeps DEF Joins, KeysInv, KeysTypeOK, AtWork
<1>2. CASE id \notin sessions
  BY <1>2, LeavesKeeps DEF Joins
<1> QED
  BY <1>1, <1>2

LEMMA MakesKeeps ==
  ASSUME KeysInv, NEW c \in Clients, stage[c] \in AtWork, NEW id \in SessionIds,
         Makes(c, id), Way(request[c]) = "fresh" => id = FreshId(c)
  PROVE  KeysInv'
<1>1. CASE id \notin sessions
  BY <1>1, FindsKeeps DEF Makes, AtWork
<1>2. CASE id \in sessions
  BY <1>2, LeavesKeeps DEF Makes
<1> QED
  BY <1>1, <1>2

LEMMA JoinsSharedKeeps ==
  ASSUME KeysInv, NEW c \in Clients, stage[c] \in AtWork, JoinsShared(c),
         Way(request[c]) # "fresh"
  PROVE  KeysInv'
<1>1. CASE activeId # "none"
  BY <1>1, JoinsKeeps DEF JoinsShared
<1>2. CASE activeId = "none"
  <2>1. PICK next \in {"joins", "makes"} : Finds(c, Default, next)
    BY <1>2 DEF JoinsShared
  <2> QED
    BY <2>1, FindsKeeps DEF AtWork, SessionIds
<1> QED
  BY <1>1, <1>2

LEMMA ProfileKeeps ==
  ASSUME KeysInv, NEW c \in Clients, stage[c] \in AtWork, request[c].profile # "none",
         Finds(c, SessionOf(request[c].profile), "joins")
  PROVE  KeysInv'
<1>1. Way(request[c]) # "fresh"
  BY DEF Way
<1>2. SessionOf(request[c].profile) \in SessionIds
  BY DEF KeysInv, KeysTypeOK, Argvs, SessionIds, SessionOf
<1> QED
  BY <1>1, <1>2, FindsKeeps DEF AtWork

LEMMA FindsSessionKeeps ==
  ASSUME KeysInv, NEW c \in Clients, FindsSession(c)
  PROVE  KeysInv'
<1> DEFINE r == request[c]
<1>1. stage[c] \in AtWork
  BY DEF FindsSession, OpenFinds, RunFinds, TargetFinds, NewFinds, UseFinds, EnsureFinds, AtWork
<1>2. r.family \in Families /\ r.named \in NamedIds /\ r.shared \in BOOLEAN
  BY DEF KeysInv, KeysTypeOK, Argvs
<1>3. /\ r.family \notin {"open", "run"} => r.profile = "none" /\ ~r.shared
      /\ r.family = "use" => r.named # "none"
  BY DEF KeysInv, KeysTypeOK, Argvs
<1>4. FreshId(c) \in SessionIds /\ (r.named # "none" => r.named \in SessionIds)
  BY <1>2 DEF SessionIds, NamedIds
<1>5. CASE OpenFinds(c)
  <2>1. r.family = "open"
    BY <1>5 DEF OpenFinds
  <2>2. CASE r.profile # "none"
    BY <1>1, <1>5, <2>2, LeavesKeeps, ProfileKeeps DEF OpenFinds
  <2>3. CASE r.profile = "none" /\ r.ensure = "fresh"
    <3>1. PICK id \in SessionIds : Makes(c, id) /\ (r.named = "none" => id = FreshId(c))
      BY <1>4, <1>5, <2>3 DEF OpenFinds
    <3>2. Way(r) = "fresh" => r.named = "none"
      BY <2>1, <2>3 DEF Way
    <3> QED
      BY <1>1, <3>1, <3>2, MakesKeeps
  <2>4. CASE r.profile = "none" /\ r.ensure # "fresh" /\ r.named # "none"
    <3>1. Way(r) # "fresh"
      BY <2>1, <2>4 DEF Way
    <3> QED
      BY <1>1, <1>4, <1>5, <2>4, <3>1, MakesKeeps, JoinsKeeps DEF OpenFinds
  <2>5. CASE r.profile = "none" /\ r.ensure # "fresh" /\ r.named = "none"
    <3>1. r.shared => Way(r) # "fresh"
      BY <2>1, <2>5 DEF Way
    <3> QED
      BY <1>1, <1>4, <1>5, <2>5, <3>1, MakesKeeps, JoinsSharedKeeps DEF OpenFinds
  <2> QED
    BY <2>2, <2>3, <2>4, <2>5
<1>6. CASE RunFinds(c)
  <2>1. r.family = "run"
    BY <1>6 DEF RunFinds
  <2>2. CASE r.profile # "none"
    BY <1>1, <1>6, <2>2, LeavesKeeps, ProfileKeeps DEF RunFinds
  <2>3. CASE r.profile = "none" /\ (r.named # "none" \/ r.shared)
    <3>1. Way(r) # "fresh"
      BY <2>1, <2>3 DEF Way
    <3> QED
      BY <1>1, <1>6, <2>3, <3>1, JoinsKeeps, JoinsSharedKeeps DEF RunFinds
  <2>4. CASE r.profile = "none" /\ r.named = "none" /\ ~r.shared
    BY <1>1, <1>4, <1>6, <2>4, MakesKeeps DEF RunFinds
  <2> QED
    BY <2>2, <2>3, <2>4
<1>7. CASE TargetFinds(c)
  <2>1. Way(r) # "fresh"
    BY <1>3, <1>7 DEF TargetFinds, Way
  <2> QED
    BY <1>1, <1>7, <2>1, JoinsKeeps, LeavesKeeps DEF TargetFinds
<1>8. CASE NewFinds(c)
  <2>1. Way(r) = "fresh" => r.named = "none"
    BY <1>3, <1>8 DEF NewFinds, Way
  <2> QED
    BY <1>1, <1>4, <1>8, <2>1, MakesKeeps DEF NewFinds
<1>9. CASE UseFinds(c) \/ EnsureFinds(c)
  <2>1. Way(r) # "fresh"
    BY <1>3, <1>9 DEF UseFinds, EnsureFinds, Way
  <2> QED
    BY <1>1, <1>9, <2>1, JoinsKeeps, JoinsSharedKeeps DEF UseFinds, EnsureFinds
<1> QED
  BY <1>5, <1>6, <1>7, <1>8, <1>9 DEF FindsSession

LEMMA NextKeeps ==
  ASSUME KeysInv, [KeysNext]_keyVars
  PROVE  KeysInv'
<1>1. ASSUME NEW c \in Clients, Dispatch(c)
      PROVE  KeysInv'
  <2>1. KeysTypeOK'
    BY <1>1 DEF Dispatch, KeysInv, KeysTypeOK, AtWork
  <2>2. \A d \in Clients \ {c} : stage'[d] = stage[d]
    BY <1>1 DEF Dispatch, KeysInv, KeysTypeOK
  <2>3. LanesDiffer'
    BY <1>1, <2>2 DEF Dispatch, KeysInv, LanesDiffer
  <2>4. FreshIsOwn'
    BY <1>1 DEF Dispatch, KeysInv, FreshIsOwn
  <2>5. SaversHaveFound'
    BY <1>1, <2>2 DEF Dispatch, KeysInv, KeysTypeOK, SaversHaveFound
  <2> QED
    BY <2>1, <2>3, <2>4, <2>5 DEF KeysInv
<1>2. ASSUME NEW c \in Clients, SaveSession(c)
      PROVE  KeysInv'
  <2>1. stage[c] \in AtWork
    BY <1>2 DEF SaveSession, AtWork
  <2>2. CASE Leaves(c)
    BY <2>1, <2>2, LeavesKeeps
  <2>3. CASE ~Leaves(c)
    <3>1. session[c] \in SessionIds
      BY <1>2 DEF SaveSession, KeysInv, SaversHaveFound
    <3>2. /\ sessions' \subseteq SessionIds /\ activeId' \in sessions' \cup {"none"}
      BY <1>2, <2>3, <3>1 DEF SaveSession, KeysInv, KeysTypeOK
    <3> QED
      BY <1>2, <2>1, <2>3, <3>2, Moves DEF SaveSession, AtWork
  <2> QED
    BY <2>2, <2>3
<1>3. ASSUME NEW c \in Clients, Finish(c)
      PROVE  KeysInv'
  BY <1>3, LeavesKeeps DEF Finish, AtWork
<1>4. CASE UNCHANGED keyVars
  BY <1>4 DEF keyVars, KeysInv, KeysTypeOK, LanesDiffer, FreshIsOwn,
    SaversHaveFound
<1> QED
  BY <1>1, <1>2, <1>3, <1>4, FindsSessionKeeps DEF KeysNext

\* The inductive invariant holds in every reachable state.
THEOREM KeysInvariance == KeysSpec => []KeysInv
<1>1. KeysInit => KeysInv
  BY InitKeysInv
<1>2. KeysInv /\ [KeysNext]_keyVars => KeysInv'
  BY NextKeeps
<1> QED
  BY <1>1, <1>2, PTL DEF KeysSpec

\* What is asked for, found and recorded is well typed.
THEOREM KeysTypeCorrect == KeysSpec => []KeysTypeOK
<1>1. KeysInv => KeysTypeOK
  BY DEF KeysInv
<1> QED
  BY <1>1, KeysInvariance, PTL

\* Commands of the same way to the same session have one lane, unless they make
\* a session of their own, which no two of them share.
LEMMA OneWayOneLane ==
  ASSUME KeysInv, NEW c \in Clients, NEW d \in Clients, WorkTogether(c, d),
         Way(request[c]) = Way(request[d])
  PROVE  \/ Way(request[c]) = "records" /\ request[c].agent # request[d].agent
         \/ Way(request[c]) = "profile"
              /\ (request[c].named # "none" \/ request[d].named # "none")
<1> DEFINE r == request[c]
           q == request[d]
<1>1. r \in Argvs /\ q \in Argvs
  BY DEF KeysInv, KeysTypeOK
<1>2. LaneKey(r) # LaneKey(q)
  BY DEF WorkTogether, KeysInv, LanesDiffer
<1>3. CASE Way(r) = "profile" /\ r.named = "none" /\ q.named = "none"
  <2>1. r.profile = "p.work" /\ q.profile = "p.work" /\ r.family # "attach" /\ q.family # "attach"
    BY <1>1, <1>3 DEF Way, Argvs
  <2>2. LaneKey(r) = <<"profile", "p.work">> /\ LaneKey(q) = <<"profile", "p.work">>
    BY <1>3, <2>1 DEF LaneKey
  <2> QED
    BY <1>2, <2>2
<1>4. CASE Way(r) = "named"
  <2>1. r.named = "s-a" /\ q.named = "s-a" /\ r.family # "use" /\ q.family # "use"
    BY <1>1, <1>4 DEF Way, Argvs, NamedIds
  <2>2. LaneKey(r) = <<"session", "s-a">> /\ LaneKey(q) = <<"session", "s-a">>
    BY <2>1 DEF LaneKey
  <2> QED
    BY <1>2, <2>2
<1>5. CASE Way(r) = "shared"
  <2>1. /\ r.profile = "none" /\ r.named = "none" /\ r.shared /\ r.family # "attach"
        /\ q.profile = "none" /\ q.named = "none" /\ q.shared /\ q.family # "attach"
    BY <1>1, <1>5 DEF Way, Argvs
  <2>2. LaneKey(r) = <<"shared">> /\ LaneKey(q) = <<"shared">>
    BY <2>1 DEF LaneKey
  <2> QED
    BY <1>2, <2>2
<1>6. Way(r) # "fresh"
  BY KeysAssumption DEF WorkTogether, KeysInv, FreshIsOwn, FreshId
<1>7. CASE Way(r) = "records"
  <2>1. LaneKey(r) = ControlLane(r) /\ LaneKey(q) = ControlLane(q)
    BY <1>1, <1>7 DEF Way, LaneKey, Argvs, Families
  <2> QED
    BY <1>2, <1>7, <2>1 DEF ControlLane
<1>8. Way(r) \in {"profile", "named", "shared", "fresh", "records"}
  BY DEF Way
<1> QED
  BY <1>3, <1>4, <1>5, <1>6, <1>7, <1>8

\* However many clients there are, commands that come to their session the same
\* way never work on it at the same time.
THEOREM SessionsKeptApart == KeysSpec => []LanesKeepSessionsApart
<1>1. KeysInv => LanesKeepSessionsApart
  BY OneWayOneLane DEF LanesKeepSessionsApart
<1> QED
  BY <1>1, KeysInvariance, PTL

-----------------------------------------------------------------------------
(* Plans                                                                    *)

\* what runs has passed the linter
RunsLinted ==
  phase \notin {"load", "lint"} /\ verdict # "refused" =>
    \A n \in 1..Len(plan.steps) : LintAccepts(plan.steps[n].field)

\* the field of the step that runs is the one of the plan, its template resolved
FieldIsWritten ==
  /\ phase \in {"load", "lint", "template", "step", "act", "assert"} =>
       pos \in 1..Len(plan.steps)
  /\ phase \in {"step", "act", "assert"} =>
       /\ field.name = Here.field.name
       /\ Here.field.shape # "template" => field = Here.field
  /\ phase = "result" => pos = Len(plan.steps) + 1

\* A verdict is the end of a run.
PipelineInv ==
  /\ PipelineTypeOK /\ RunsLinted /\ FieldIsWritten /\ LintIsSound
  /\ phase # "done" => verdict = "none"

\* The tables of the linter and of the executor, side by side: a value the linter
\* has looked at and accepted is one the executor takes.
LEMMA LintedExecutes ==
  ASSUME NEW f, f.shape \in Shapes, f.shape # "template", LintAccepts(f),
         f.name \notin Unlinted, <<f.name, f.shape>> \notin Gaps
  PROVE  Executes(f)
<1> USE DEF LintAccepts, LintTables, Shapes, Strings, Written, Gaps, Unlinted
<1>1. f.name \in DOMAIN RunLoop => f.shape \in RunLoop[f.name]
  BY DEF RunLoop, LintCommon, LintAssertionSpec, OptionalString
<1>2. f.name \in DOMAIN ExecuteQuery => f.shape \in ExecuteQuery[f.name]
  BY DEF ExecuteQuery, LintQuery, LintExtract, OptionalString
<1>3. f.name \in DOMAIN ExecuteScrollPlan => f.shape \in ExecuteScrollPlan[f.name]
  BY DEF ExecuteScrollPlan, LintScrollPlan, OptionalString, OptionalInteger
<1>4. f.name \in DOMAIN ExecuteRepeatUntil => f.shape \in ExecuteRepeatUntil[f.name]
  BY DEF ExecuteRepeatUntil, LintRepeatUntil, OptionalInteger
<1>5. f.name \in DOMAIN ExecuteUpload => f.shape \in ExecuteUpload[f.name]
  BY DEF ExecuteUpload, LintUpload
<1> QED
  BY <1>1, <1>2, <1>3, <1>4, <1>5 DEF Executes, ExecutorTables

\* What a plan is made of.
LEMMA StepsAreSteps ==
  ASSUME plan \in Plans
  PROVE  /\ Len(plan.steps) \in Nat /\ Len(plan.steps) >= 1
         /\ \A n \in 1..Len(plan.steps) :
              /\ plan.steps[n].field.shape \in Shapes
              /\ plan.steps[n].field = [name |-> plan.steps[n].field.name,
                                        shape |-> plan.steps[n].field.shape]
<1> DEFINE S == UNION {StepsOf(k) : k \in StepKinds}
<1>1. plan.steps \in Seq(S) /\ plan.steps # <<>>
  BY DEF Plans
<1>2. \A st \in S : /\ st.field.shape \in Shapes
                    /\ st.field = [name |-> st.field.name, shape |-> st.field.shape]
  BY DEF StepsOf
<1> HIDE DEF S
<1>3. plan.steps = [n \in 1..Len(plan.steps) |-> plan.steps[n]] /\ Len(plan.steps) \in Nat
  BY <1>1
<1>4. Len(plan.steps) # 0
  BY <1>1
<1>5. \A n \in 1..Len(plan.steps) : plan.steps[n] \in S
  BY <1>1
<1> QED
  BY <1>2, <1>3, <1>4, <1>5

LEMMA InitPipelineInv == PipelineInit => PipelineInv
<1> SUFFICES ASSUME PipelineInit PROVE PipelineInv
  OBVIOUS
<1>1. plan \in Plans /\ pos = 1 /\ field = plan.steps[1].field
  BY DEF PipelineInit
<1>2. /\ Len(plan.steps) \in Nat /\ Len(plan.steps) >= 1
      /\ \A n \in 1..Len(plan.steps) : plan.steps[n].field.shape \in Shapes
  BY <1>1, StepsAreSteps
<1>3. pos \in 1..Len(plan.steps) /\ pos \in 1..Len(plan.steps) + 1 /\ field.shape \in Shapes
  BY <1>1, <1>2
<1>a. 0 \in 0..MaxAttempts - 1
  BY AttemptsAssumption
<1>4. PipelineTypeOK
  BY <1>1, <1>3, <1>a DEF PipelineInit, PipelineTypeOK
<1> QED
  BY <1>1, <1>3, <1>4 DEF PipelineInit, PipelineInv, RunsLinted, FieldIsWritten, LintIsSound

LEMMA PipelineKeeps == PipelineInv /\ [PipelineNext]_pipelineVars => PipelineInv'
<1> SUFFICES ASSUME PipelineInv, [PipelineNext]_pipelineVars PROVE PipelineInv'
  OBVIOUS
<1> DEFINE n == Len(plan.steps)
<1>0. /\ plan \in Plans /\ n \in Nat /\ n >= 1 /\ pos \in 1..n + 1 /\ field.shape \in Shapes
      /\ plan.result \in {"absent", "ok", "bad", "wrong"} /\ MaxAttempts \in Nat
      /\ attempt \in 0..MaxAttempts - 1 /\ target \in BOOLEAN
      /\ \A i \in 1..n : plan.steps[i].field.shape \in Shapes
      /\ \A i \in 1..n : plan.steps[i].field = [name |-> plan.steps[i].field.name,
                                                 shape |-> plan.steps[i].field.shape]
  BY StepsAreSteps, AttemptsAssumption DEF PipelineInv, PipelineTypeOK, Plans
<1>a. /\ phase \in {"load", "lint", "template", "step", "act", "assert", "result", "done"}
      /\ verdict \in {"none", "ok", "refused", "E_QUERY_INVALID", "E_ASSERT_FAILED", "command"}
      /\ RunsLinted /\ FieldIsWritten /\ LintIsSound /\ (phase # "done" => verdict = "none")
  BY DEF PipelineInv, PipelineTypeOK
<1> USE DEF Here
<1>1. ASSUME UNCHANGED <<plan, pos, field, target, attempt>>, phase # "done",
             \/ phase' = "done" /\ verdict' \in {"ok", "refused", "E_ASSERT_FAILED", "command"}
             \/ phase' = "done" /\ verdict' = "E_QUERY_INVALID" /\ LintIsSound',
             phase \in {"load", "lint"} => verdict' = "refused"
      PROVE  PipelineInv'
  BY <1>0, <1>a, <1>1 DEF PipelineInv, PipelineTypeOK, RunsLinted, FieldIsWritten, LintIsSound
<1>2. CASE LoadPlan
  <2>1. CASE Stops("refused")
    BY <1>1, <1>2, <2>1 DEF LoadPlan, Stops
  <2>2. CASE Goes("lint")
    BY <1>0, <1>a, <1>2, <2>2 DEF LoadPlan, Goes, PipelineInv, PipelineTypeOK, RunsLinted,
      FieldIsWritten, LintIsSound
  <2> QED
    BY <1>2, <2>1, <2>2 DEF LoadPlan
<1>3. CASE LintThePlan
  <2>1. CASE Stops("refused")
    BY <1>1, <1>3, <2>1 DEF LintThePlan, Stops
  <2>2. CASE LintPlan /\ Goes("template")
    BY <1>0, <1>a, <1>3, <2>2 DEF LintThePlan, LintPlan, Goes, PipelineInv, PipelineTypeOK,
      RunsLinted, FieldIsWritten, LintIsSound
  <2> QED
    BY <1>3, <2>1, <2>2 DEF LintThePlan
<1>4. CASE ResolveTemplates
  <2>0. /\ phase = "template" /\ UNCHANGED <<plan, pos, target, attempt>> /\ pos \in 1..n
        /\ Here.field.shape \in Shapes /\ verdict = "none"
        /\ Here.field = [name |-> Here.field.name, shape |-> Here.field.shape]
    BY <1>0, <1>a, <1>4 DEF ResolveTemplates, FieldIsWritten
  <2>1. ASSUME NEW s \in Shapes, Here.field.shape = "template" \/ s = Here.field.shape,
               field' = [Here.field EXCEPT !.shape = s], Goes("step")
        PROVE  PipelineInv'
    <3>1. field'.shape \in Shapes /\ field'.name = Here.field.name
          /\ (Here.field.shape # "template" => field' = Here.field)
      BY <2>0, <2>1
    <3> QED
      BY <1>0, <1>a, <2>0, <2>1, <3>1 DEF Goes, PipelineInv, PipelineTypeOK, RunsLinted,
        FieldIsWritten, LintIsSound
  <2>2. CASE Here.field.shape = "template" /\ Stops("E_QUERY_INVALID") /\ UNCHANGED field
    BY <1>1, <2>0, <2>2 DEF Stops, LintIsSound
  <2>3. CASE Here.field.shape # "template" /\ field' = Here.field /\ Goes("step")
    <3>1. field' = [Here.field EXCEPT !.shape = Here.field.shape]
      BY <2>0, <2>3
    <3> QED
      BY <2>0, <2>1, <2>3, <3>1
  <2> QED
    BY <1>4, <2>1, <2>2, <2>3 DEF ResolveTemplates
<1>5. CASE CheckStep
  <2>0. /\ phase = "step" /\ UNCHANGED <<plan, pos, field, target, attempt>> /\ pos \in 1..n
        /\ verdict = "none" /\ LintAccepts(Here.field) /\ Here.field.shape \in Shapes
        /\ field.name = Here.field.name /\ (Here.field.shape # "template" => field = Here.field)
    BY <1>0, <1>a, <1>5 DEF CheckStep, FieldIsWritten, RunsLinted
  <2>1. CASE ~Executes(field) /\ Stops("E_QUERY_INVALID")
    <3>1. \/ Here.field.shape = "template" \/ Here.field.name \in Unlinted
          \/ <<Here.field.name, Here.field.shape>> \in Gaps
      BY <2>0, <2>1, LintedExecutes
    <3>2. LintIsSound'
      BY <1>0, <2>0, <3>1 DEF LintIsSound
    <3> QED
      BY <1>1, <2>0, <2>1, <3>2 DEF Stops
  <2>2. CASE ~HasTarget(Here.kind) /\ Stops("E_QUERY_INVALID")
    <3>1. LintIsSound'
      BY <1>0, <2>0, <2>2 DEF LintIsSound, HasTarget
    <3> QED
      BY <1>1, <2>0, <2>2, <3>1 DEF Stops
  <2>3. CASE Goes("act")
    BY <1>0, <1>a, <2>0, <2>3 DEF Goes, PipelineInv, PipelineTypeOK, RunsLinted,
      FieldIsWritten, LintIsSound
  <2> QED
    BY <1>5, <2>1, <2>2, <2>3 DEF CheckStep
<1>6. CASE CommandSucceeds
  BY <1>0, <1>a, <1>6 DEF CommandSucceeds, Goes, PipelineInv, PipelineTypeOK, RunsLinted,
    FieldIsWritten, LintIsSound
<1>7. CASE CommandFails
  BY <1>1, <1>7 DEF CommandFails, Stops
<1>8. CASE RepeatAttempt
  BY <1>0, <1>a, <1>8 DEF RepeatAttempt, Goes, Stops, PipelineInv, PipelineTypeOK, RunsLinted,
    FieldIsWritten, LintIsSound
<1>9. CASE AssertStep
  BY <1>0, <1>a, <1>9 DEF AssertStep, Goes, Stops, PipelineInv, PipelineTypeOK, RunsLinted,
    FieldIsWritten, LintIsSound
<1>10. CASE FinishRun
  BY <1>0, <1>1, <1>a, <1>10 DEF FinishRun, Stops, LintIsSound, FieldIsWritten
<1>11. CASE UNCHANGED pipelineVars
  BY <1>11 DEF pipelineVars, PipelineInv, PipelineTypeOK, RunsLinted, FieldIsWritten, LintIsSound,
    HasTarget
<1> QED
  BY <1>2, <1>3, <1>4, <1>5, <1>6, <1>7, <1>8, <1>9, <1>10, <1>11 DEF PipelineNext

\* The inductive invariant of a run: its steps have passed the linter, and the
\* field of the step under way is the plan's.
THEOREM PipelineInvariance == PipelineSpec => []PipelineInv
BY InitPipelineInv, PipelineKeeps, PTL DEF PipelineSpec

\* The state of a run is well-formed.
THEOREM PipelineTypeCorrect == PipelineSpec => []PipelineTypeOK
<1>1. PipelineInv => PipelineTypeOK
  BY DEF PipelineInv
<1> QED
  BY <1>1, PipelineInvariance, PTL

\* A plan of any length that the linter accepts is stopped by the executor only for
\* a template, a target nobody named, a field the linter does not look at, one of
\* the shapes it is known to let through, or a result or requirement that cannot be
\* resolved at the end.
THEOREM LintedPlansRun == PipelineSpec => []LintIsSound
<1>1. PipelineInv => LintIsSound
  BY DEF PipelineInv
<1> QED
  BY <1>1, PipelineInvariance, PTL

-----------------------------------------------------------------------------
(* Pages                                                                    *)

\* the inputs a stage sends when it passes, at most
Gain(k, s) ==
  CASE s = "candidate" -> 2
    [] s \in {"act", "reload", "page", "submit"} \/ (s = "event" /\ k = "chooser") -> 1
    [] OTHER -> 0

Term(k, f, i, j) == IF j < i /\ j <= Len(f) THEN Gain(k, f[j]) ELSE 0

\* the inputs of the stages before i, at most; no flow is longer than 12
Upto(k, f, i) ==
  Term(k, f, i, 1) + Term(k, f, i, 2) + Term(k, f, i, 3) + Term(k, f, i, 4) + Term(k, f, i, 5)
  + Term(k, f, i, 6) + Term(k, f, i, 7) + Term(k, f, i, 8) + Term(k, f, i, 9) + Term(k, f, i, 10)
  + Term(k, f, i, 11) + Term(k, f, i, 12)

\* stages that refuse the input of a command before it has any effect
RefusesEarly(k, s) ==
  \/ s = "parse"
  \/ s = "resolve" /\ k \notin {"stickyCheck", "transitionAssert", "revealScan"}
  \/ s = "query" /\ k \notin {"dialog", "transitionAssert"}
  \/ s = "act" /\ k \in {"clickHandle", "fill", "spawn", "download", "selectOption"}
  \/ s = "read" /\ k \in {"attr", "read"}

ArmAt == [spawn |-> 4, dialog |-> 3, download |-> 4, chooser |-> 4]

Awaiting == {"spawn", "dialog", "download", "chooser"}

Quiet(f) == \A i \in 1..Len(f) : f[i] \notin {"act", "candidate"}

Budget(k, f) ==
  CASE Quiet(f) -> IF \E i \in 1..Len(f) : f[i] = "reload" THEN 1 ELSE 0
    [] k = "revealScan" -> 4
    [] k = "chooser" -> 3
    [] k \in {"formFill", "emulate", "scrollPlan", "dialog", "upload", "open",
                 "scrollSample", "scrollWatch", "stickyCheck", "transitionAssert"} -> 2
    [] OTHER -> 1

\* what the flow of a kind adds up to
FlowSums(k, f) ==
  \A i \in 1..Len(f) :
    /\ Upto(k, f, i) \in Nat /\ Upto(k, f, i) <= 4 /\ Gain(k, f[i]) \in 0..2
    /\ Upto(k, f, i + 1) = Upto(k, f, i) + Gain(k, f[i])
    /\ Upto(k, f, i) + Gain(k, f[i]) + (IF k = "dialog" THEN 1 ELSE 0) <= Budget(k, f)
    /\ RefusesEarly(k, f[i]) => Upto(k, f, i) = 0
    /\ f[i] = "act" => Gain(k, f[i]) = 1
    /\ (k = "click" /\ i > 4) \/ (k = "eval" /\ i > 3) => Gain(k, f[i]) = 0

\* where its stages are
FlowShape(k, f) ==
  /\ Len(f) \in 1..12
  /\ \A i \in 1..Len(f) :
       /\ f[i] = "candidate" => k = "revealScan"
       /\ f[i] = "arm" <=> k \in Awaiting /\ i = ArmAt[k]
       /\ f[i] = "event" <=> k \in Awaiting /\ i = 6
       /\ k \in Awaiting /\ i \in ArmAt[k] + 1..5 =>
            f[i] = "act" \/ (k = "dialog" /\ f[i] = "query")
       /\ k = "click" => (f[i] = "act" <=> i = 4)
       /\ k = "eval" => (f[i] = "act" <=> i = 3)
       /\ k \in {"click", "eval", "dialog"} /\ RefusesEarly(k, f[i]) =>
            i < 4 /\ (k = "eval" => i < 3)
  /\ k \in Awaiting => Len(f) > 6
  /\ f[Len(f)] = "act" => k = "cookieCopy"

FlowFacts(k, f) == FlowSums(k, f) /\ FlowShape(k, f)

LEMMA FlowsAreSound == \A k \in Kinds : FlowFacts(k, Flow[k])
<1> USE DEF FlowFacts, FlowSums, FlowShape, Upto, Term, Gain, RefusesEarly, ArmAt, Awaiting, Quiet,
      Budget
<1>1. /\ FlowFacts("click", ClickFlow)
      /\ FlowFacts("clickHandle", ClickHandleFlow)
      /\ FlowFacts("clickAt", ClickAtFlow)
      /\ FlowFacts("fill", FillFlow)
      /\ FlowFacts("formFill", FormFillFlow)
  BY DEF ClickFlow, ClickHandleFlow, ClickAtFlow, FillFlow, FormFillFlow
<1>2. /\ FlowFacts("keypress", KeypressFlow)
      /\ FlowFacts("selectOption", SelectOptionFlow)
      /\ FlowFacts("dragDrop", DragDropFlow)
      /\ FlowFacts("hover", HoverFlow)
      /\ FlowFacts("spawn", SpawnFlow)
  BY DEF KeypressFlow, SelectOptionFlow, DragDropFlow, HoverFlow, SpawnFlow
<1>3. /\ FlowFacts("dialog", DialogFlow)
      /\ FlowFacts("download", DownloadFlow)
      /\ FlowFacts("upload", UploadFlow)
      /\ FlowFacts("chooser", ChooserFlow)
      /\ FlowFacts("eval", EvalFlow)
  BY DEF DialogFlow, DownloadFlow, UploadFlow, ChooserFlow, EvalFlow
<1>4. /\ FlowFacts("emulate", EmulateFlow)
      /\ FlowFacts("scrollPlan", ScrollPlanFlow)
      /\ FlowFacts("transitionTrace", TransitionTraceFlow)
      /\ FlowFacts("close", CloseFlow)
      /\ FlowFacts("open", OpenFlow)
  BY DEF EmulateFlow, ScrollPlanFlow, TransitionTraceFlow, CloseFlow, OpenFlow
<1>5. /\ FlowFacts("openReused", OpenReusedFlow)
      /\ FlowFacts("cookieCopy", CookieCopyFlow)
      /\ FlowFacts("wait", WaitFlow)
      /\ FlowFacts("count", CountFlow)
      /\ FlowFacts("attr", AttrFlow)
  BY DEF OpenReusedFlow, CookieCopyFlow, WaitFlow, CountFlow, AttrFlow
<1>6. /\ FlowFacts("find", FindFlow)
      /\ FlowFacts("extract", ExtractFlow)
      /\ FlowFacts("read", ReadFlow)
      /\ FlowFacts("snapshot", SnapshotFlow)
      /\ FlowFacts("frames", FramesFlow)
  BY DEF FindFlow, ExtractFlow, ReadFlow, SnapshotFlow, FramesFlow
<1>7. /\ FlowFacts("list", ListFlow)
      /\ FlowFacts("urlAssert", UrlAssertFlow)
      /\ FlowFacts("health", HealthFlow)
      /\ FlowFacts("hud", HudFlow)
      /\ FlowFacts("style", StyleFlow)
  BY DEF ListFlow, UrlAssertFlow, HealthFlow, HudFlow, StyleFlow
<1>8. /\ FlowFacts("observe", ObserveFlow)
      /\ FlowFacts("motionDetect", MotionDetectFlow)
      /\ FlowFacts("screenshot", ScreenshotFlow)
      /\ FlowFacts("consoleTail", ConsoleTailFlow)
      /\ FlowFacts("consoleGet", ConsoleGetFlow)
  BY DEF ObserveFlow, MotionDetectFlow, ScreenshotFlow, ConsoleTailFlow, ConsoleGetFlow
<1>9. /\ FlowFacts("networkTail", NetworkTailFlow)
      /\ FlowFacts("network", NetworkFlow)
      /\ FlowFacts("networkExport", NetworkExportFlow)
      /\ FlowFacts("networkCheck", NetworkCheckFlow)
  BY DEF NetworkTailFlow, NetworkFlow, NetworkExportFlow, NetworkCheckFlow
<1>10. /\ FlowFacts("traceInsight", TraceInsightFlow)
      /\ FlowFacts("traceExport", TraceExportFlow)
      /\ FlowFacts("scrollSample", ScrollSampleFlow)
      /\ FlowFacts("scrollWatch", ScrollWatchFlow)
      /\ FlowFacts("stickyCheck", StickyCheckFlow)
      /\ FlowFacts("transitionAssert", TransitionAssertFlow)
  BY DEF TraceExportFlow, TraceInsightFlow, NetworkFlow, ScrollSampleFlow, ScrollWatchFlow, StickyCheckFlow,
    TransitionAssertFlow
<1>11. /\ FlowFacts("revealScan", RevealScanFlow)
  BY DEF RevealScanFlow
<1> HIDE DEF FlowFacts, FlowSums, FlowShape, Upto, Term, Gain, RefusesEarly, ArmAt, Awaiting, Quiet,
      Budget
<1> QED
  BY <1>1, <1>2, <1>3, <1>4, <1>5, <1>6, <1>7, <1>8, <1>9, <1>10, <1>11 DEF Kinds, Flow

\* The plan of a kind, with the test of TargetFlows.
LEMMA BudgetIsIntended ==
  ASSUME NEW k \in Kinds
  PROVE  /\ Intended(k) = Budget(k, Flow[k])
         /\ k \in Looking <=> Quiet(Flow[k])
<1>1. k \in Looking <=> Quiet(Flow[k])
  BY DEF Looking, Quiet, Stages
<1>2. "reload" \in Stages(k) <=> \E i \in 1..Len(Flow[k]) : Flow[k][i] = "reload"
  BY DEF Stages
<1> QED
  BY <1>1, <1>2 DEF Intended, Budget

-----------------------------------------------------------------------------
At(r) == Flow[r.kind][r.at]

InPlace(r) ==
  /\ r.at <= Len(Flow[r.kind])
  /\ r.code = "ok" => r.at = Len(Flow[r.kind])

\* no more inputs than the stages so far ask for
WithinPlan(r) ==
  ~r.repeated =>
    r.effects <= Upto(r.kind, Flow[r.kind], r.at)
                   + (IF r.code = "none" THEN 0 ELSE Gain(r.kind, At(r)))
                   + (IF r.kind = "dialog" /\ r.waiter = "answered" THEN 1 ELSE 0)

\* Only a click and an evaluation send an input again, and only once; what is
\* left behind in the page is an evaluation that has timed out.
RepeatsOnce(r) ==
  /\ r.repeated =>
       /\ r.effects <= 2
       /\ \/ r.kind = "click" /\ r.at > 4
          \/ r.kind = "eval" /\ r.at >= 3 /\ (r.code = "none" /\ r.at = 3 => r.effects <= 1)
  /\ r.pending => r.kind = "eval" /\ r.code = "E_EVAL_TIMEOUT" /\ r.at = 3 /\ ~r.repeated

\* a command past its act has acted
HasActed(r) ==
  \A j \in 1..r.at :
    /\ Flow[r.kind][j] = "act" /\ r.kind \notin {"dialog", "cookieCopy"}
    /\ j < r.at \/ r.code = "ok"
    => r.effects >= 1

\* who waits for an event has armed its waiter and is at most at the await
WaiterPart(r, w) ==
  /\ r.waiter # "none" => r.kind \in Awaiting /\ r.at > ArmAt[r.kind]
  /\ r.waiter = "armed" =>
       /\ r.at <= 6
       /\ r.at = 6 /\ r.code # "none" => r.place = "worker" /\ w = "dead"
  /\ r.kind = "dialog" /\ r.at > 6 => r.waiter = "answered"
  /\ r.kind = "dialog" /\ r.waiter = "answered" => r.effects >= 1

\* the stages ChecksLate names
Late(k, s) ==
  \/ s \in {"submit", "wait", "count", "results", "assert"}
  \/ s = "event" /\ k = "chooser"
  \/ s = "act" /\ k \in {"click", "formFill"}
  \/ s = "query" /\ k \in {"dialog", "transitionAssert"}
  \/ s = "resolve" /\ k \in {"stickyCheck", "transitionAssert", "revealScan"}

RefusalPart(r) ==
  r.code \in Refusals =>
    Late(r.kind, At(r)) \/ (r.effects = 0 /\ RefusesEarly(r.kind, At(r)))

Sound(r, w) ==
  /\ InPlace(r) /\ WithinPlan(r) /\ RepeatsOnce(r) /\ HasActed(r)
  /\ WaiterPart(r, w) /\ RefusalPart(r)

ActionsInv == ActionsTypeOK /\ \A c \in Commands : Sound(cmd[c], worker)

\* What a record is made of, one field at a time.
LEMMA RecordFacts ==
  ASSUME NEW r \in CommandState, NEW w, Sound(r, w)
  PROVE  /\ r.kind \in Kinds /\ r.at \in 1..Len(Flow[r.kind]) /\ Len(Flow[r.kind]) \in 1..12
         /\ r.effects \in Nat /\ FlowSums(r.kind, Flow[r.kind]) /\ FlowShape(r.kind, Flow[r.kind])
         /\ r.repeated \in BOOLEAN /\ r.pending \in BOOLEAN
<1>1. FlowFacts(r.kind, Flow[r.kind])
  BY FlowsAreSound DEF CommandState
<1> QED
  BY <1>1 DEF CommandState, Sound, InPlace, FlowFacts, FlowShape

\* A stage passes.
LEMMA PassSound ==
  ASSUME NEW w, NEW r \in CommandState, NEW q, NEW n \in 0..2, Sound(r, w), r.code = "none",
         n <= Gain(r.kind, At(r)),
         At(r) = "act" /\ r.kind \notin {"dialog", "cookieCopy"} => n >= 1,
         At(r) # "arm",
         At(r) = "event" => /\ r.waiter # "armed"
                            /\ r.kind = "dialog" => r.waiter = "answered",
         q.kind = r.kind, q.place = r.place, q.waiter = r.waiter, q.repeated = r.repeated,
         q.pending = r.pending, q.effects = r.effects + n,
         \/ r.at = Len(Flow[r.kind]) /\ q.at = r.at /\ q.code = "ok"
         \/ r.at # Len(Flow[r.kind]) /\ q.at = r.at + 1 /\ q.code = "none"
  PROVE  Sound(q, w)
<1> DEFINE k == r.kind
           f == Flow[r.kind]
<1>1. /\ k \in Kinds /\ r.at \in 1..Len(f) /\ Len(f) \in 1..12 /\ r.effects \in Nat
      /\ FlowSums(k, f) /\ FlowShape(k, f) /\ r.repeated \in BOOLEAN /\ r.pending \in BOOLEAN
  BY RecordFacts
<1>2. /\ Upto(k, f, r.at) \in Nat
      /\ Upto(k, f, r.at + 1) = Upto(k, f, r.at) + Gain(k, f[r.at]) /\ Gain(k, f[r.at]) \in 0..2
  BY <1>1 DEF FlowSums
<1>3. InPlace(q)
  BY <1>1 DEF InPlace
<1>4. WithinPlan(q)
  <2> SUFFICES ASSUME ~q.repeated PROVE WithinPlan(q)
    BY DEF WithinPlan
  <2> DEFINE x == IF k = "dialog" /\ r.waiter = "answered" THEN 1 ELSE 0
  <2>1. r.effects <= Upto(k, f, r.at) + x /\ x \in Nat
    BY <1>1, <1>2 DEF Sound, WithinPlan
  <2>2. n <= Gain(k, f[r.at])
    BY DEF At
  <2> HIDE DEF x
  <2>3. r.effects + n <= Upto(k, f, r.at) + Gain(k, f[r.at]) + x
    BY <1>1, <1>2, <2>1, <2>2
  <2>4. CASE r.at = Len(f) /\ q.at = r.at /\ q.code = "ok"
    BY <2>3, <2>4 DEF WithinPlan, At, x
  <2>5. CASE q.at = r.at + 1 /\ q.code = "none"
    <3>1. r.effects + n <= Upto(k, f, r.at + 1) + 0 + x
      BY <1>1, <1>2, <2>1, <2>3
    <3> QED
      BY <2>5, <3>1 DEF WithinPlan, x
  <2> QED
    BY <2>4, <2>5
<1>5. RepeatsOnce(q)
  <2>1. /\ k = "click" => (f[r.at] = "act" <=> r.at = 4)
        /\ k = "eval" => (f[r.at] = "act" <=> r.at = 3)
        /\ (k = "click" /\ r.at > 4) \/ (k = "eval" /\ r.at > 3) => Gain(k, f[r.at]) = 0
    BY <1>1 DEF FlowSums, FlowShape
  <2>2. f[r.at] = "act" => Gain(k, f[r.at]) = 1
    BY <1>1 DEF FlowSums
  <2> QED
    BY <1>1, <1>2, <2>1, <2>2 DEF Sound, RepeatsOnce, At
<1>6. HasActed(q)
  BY <1>1 DEF Sound, HasActed, At, FlowShape
<1>7. WaiterPart(q, w)
  BY <1>1 DEF Sound, WaiterPart, At, FlowShape, Awaiting, ArmAt
<1>8. RefusalPart(q)
  BY DEF RefusalPart, Refusals
<1> QED
  BY <1>3, <1>4, <1>5, <1>6, <1>7, <1>8 DEF Sound

\* A stage ends the command.
LEMMA EndSound ==
  ASSUME NEW w, NEW r \in CommandState, NEW q, NEW n \in 0..2, Sound(r, w), r.code = "none",
         n <= Gain(r.kind, At(r)), At(r) = "event" => r.waiter # "armed",
         q.kind = r.kind, q.place = r.place, q.waiter = r.waiter, q.repeated = r.repeated,
         q.pending = r.pending, q.effects = r.effects + n, q.at = r.at,
         q.code \notin {"none", "ok"},
         q.code \in Refusals =>
           Late(r.kind, At(r)) \/ (n = 0 /\ RefusesEarly(r.kind, At(r)))
  PROVE  Sound(q, w)
<1> DEFINE k == r.kind
           f == Flow[r.kind]
<1>1. /\ k \in Kinds /\ r.at \in 1..Len(f) /\ Len(f) \in 1..12 /\ r.effects \in Nat
      /\ FlowSums(k, f) /\ FlowShape(k, f) /\ r.repeated \in BOOLEAN /\ r.pending \in BOOLEAN
  BY RecordFacts
<1>2. Upto(k, f, r.at) \in Nat /\ Gain(k, f[r.at]) \in 0..2
  BY <1>1 DEF FlowSums
<1>3. InPlace(q)
  BY <1>1 DEF Sound, InPlace
<1>4. WithinPlan(q)
  BY <1>1, <1>2 DEF Sound, WithinPlan, At
<1>5. RepeatsOnce(q)
  <2>1. /\ k = "click" => (f[r.at] = "act" <=> r.at = 4)
        /\ k = "eval" => (f[r.at] = "act" <=> r.at = 3)
        /\ (k = "click" /\ r.at > 4) \/ (k = "eval" /\ r.at > 3) => Gain(k, f[r.at]) = 0
    BY <1>1 DEF FlowSums, FlowShape
  <2>2. f[r.at] = "act" => Gain(k, f[r.at]) = 1
    BY <1>1 DEF FlowSums
  <2> QED
    BY <1>1, <1>2, <2>1, <2>2 DEF Sound, RepeatsOnce, At
<1>6. HasActed(q)
  BY <1>1 DEF Sound, HasActed
<1>7. WaiterPart(q, w)
  BY <1>1 DEF Sound, WaiterPart, At, FlowShape, Awaiting, ArmAt
<1>8. RefusalPart(q)
  <2>1. CASE n = 0 /\ RefusesEarly(k, f[r.at])
    <3>1. Upto(k, f, r.at) = 0
      BY <1>1, <2>1 DEF FlowSums, At
    <3>2. ~r.repeated
      BY <1>1, <2>1 DEF Sound, RepeatsOnce, FlowShape
    <3>3. ~(k = "dialog" /\ r.waiter = "answered")
      BY <1>1, <2>1 DEF Sound, WaiterPart, FlowShape, Awaiting, ArmAt
    <3> QED
      BY <1>1, <2>1, <3>1, <3>2, <3>3 DEF Sound, WithinPlan, RefusalPart, At
  <2> QED
    BY <2>1 DEF RefusalPart, At
<1> QED
  BY <1>3, <1>4, <1>5, <1>6, <1>7, <1>8 DEF Sound

-----------------------------------------------------------------------------
\* A record with any number of inputs.
Loose ==
  [kind : Kinds, place : {"worker", "own"}, at : Nat \ {0}, code : Codes, effects : Nat,
   repeated : BOOLEAN, waiter : {"none", "armed", "answered", "rejected"}, pending : BOOLEAN]

\* Soundness bounds the inputs.
LEMMA SoundIsBounded ==
  ASSUME NEW r \in Loose, NEW w, Sound(r, w)
  PROVE  r \in CommandState
<1>1. FlowSums(r.kind, Flow[r.kind]) /\ r.at \in 1..Len(Flow[r.kind])
      /\ Len(Flow[r.kind]) \in 1..12
  BY FlowsAreSound DEF Loose, Sound, InPlace, FlowFacts, FlowShape
<1> DEFINE u == Upto(r.kind, Flow[r.kind], r.at)
           g == Gain(r.kind, At(r))
           b == Budget(r.kind, Flow[r.kind])
<1>2. /\ u \in Nat /\ g \in 0..2
      /\ u + g + (IF r.kind = "dialog" THEN 1 ELSE 0) <= b
  BY <1>1 DEF FlowSums, At
<1>3. b \in Nat /\ b <= 4
  BY DEF Budget
<1>4. r.effects <= 2 \/
        r.effects <= u + (IF r.code = "none" THEN 0 ELSE g)
                       + (IF r.kind = "dialog" /\ r.waiter = "answered" THEN 1 ELSE 0)
  BY DEF Sound, WithinPlan, RepeatsOnce, Loose
<1> HIDE DEF u, g, b
<1>5. r.effects \in Nat
  BY DEF Loose
<1>6. r.effects <= 4
  BY <1>2, <1>3, <1>4, <1>5
<1>7. r.effects \in 0..5
  BY <1>5, <1>6
<1> QED
  BY <1>7 DEF Loose, CommandState

\* One command moves.
LEMMA OneMoves ==
  ASSUME ActionsInv, NEW c \in Commands, UNCHANGED worker, NEW q \in Loose, Sound(q, worker),
         cmd' = [cmd EXCEPT ![c] = q]
  PROVE  ActionsInv'
<1>1. q \in CommandState
  BY SoundIsBounded
<1>2. cmd \in [Commands -> CommandState] /\ \A d \in Commands : Sound(cmd[d], worker)
  BY DEF ActionsInv, ActionsTypeOK
<1>3. cmd' \in [Commands -> CommandState] /\ \A d \in Commands : Sound(cmd'[d], worker')
  BY <1>1, <1>2
<1> QED
  BY <1>3 DEF ActionsInv, ActionsTypeOK, Sound, InPlace

LEMMA PassesKeeps ==
  ASSUME ActionsInv, NEW c \in Commands, NEW n \in 0..2, cmd[c].code = "none", Passes(c, n),
         n <= Gain(cmd[c].kind, Stage(c)),
         Stage(c) = "act" /\ cmd[c].kind \notin {"dialog", "cookieCopy"} => n >= 1,
         Stage(c) # "arm",
         Stage(c) = "event" => /\ cmd[c].waiter # "armed"
                               /\ cmd[c].kind = "dialog" => cmd[c].waiter = "answered"
  PROVE  ActionsInv'
<1> DEFINE r == cmd[c]
           q == IF r.at = Len(Flow[r.kind])
                THEN [r EXCEPT !.code = "ok", !.effects = r.effects + n]
                ELSE [r EXCEPT !.at = r.at + 1, !.effects = r.effects + n]
<1>1. r \in CommandState /\ Sound(r, worker) /\ cmd \in [Commands -> CommandState]
  BY DEF ActionsInv, ActionsTypeOK
<1>2. cmd' = [cmd EXCEPT ![c] = q] /\ UNCHANGED worker
  BY <1>1 DEF Passes
<1>3. /\ q.kind = r.kind /\ q.place = r.place /\ q.waiter = r.waiter /\ q.repeated = r.repeated
      /\ q.pending = r.pending /\ q.effects = r.effects + n
      /\ \/ r.at = Len(Flow[r.kind]) /\ q.at = r.at /\ q.code = "ok"
         \/ r.at # Len(Flow[r.kind]) /\ q.at = r.at + 1 /\ q.code = "none"
  BY <1>1 DEF CommandState
<1>4. q \in Loose
  <2>1. "ok" \in Codes /\ r.effects + n \in Nat /\ r.at + 1 \in Nat \ {0}
    BY <1>1 DEF CommandState, Codes
  <2> QED
    BY <1>1, <2>1 DEF CommandState, Loose
<1> HIDE DEF q
<1>5. Sound(q, worker)
  BY <1>1, <1>3, PassSound DEF Stage, At
<1> QED
  BY <1>2, <1>4, <1>5, OneMoves

LEMMA EndsKeeps ==
  ASSUME ActionsInv, NEW c \in Commands, NEW n \in 0..2, NEW codes \in SUBSET Codes,
         cmd[c].code = "none", Ends(c, codes, n), "none" \notin codes, "ok" \notin codes,
         n <= Gain(cmd[c].kind, Stage(c)), Stage(c) = "event" => cmd[c].waiter # "armed",
         codes \cap Refusals = {} \/ Late(cmd[c].kind, Stage(c))
           \/ (n = 0 /\ RefusesEarly(cmd[c].kind, Stage(c)))
  PROVE  ActionsInv'
<1> DEFINE r == cmd[c]
<1>1. r \in CommandState /\ Sound(r, worker) /\ cmd \in [Commands -> CommandState]
  BY DEF ActionsInv, ActionsTypeOK
<1>2. PICK code \in codes \cup {"crashed"} :
        cmd' = [cmd EXCEPT ![c].code = code, ![c].effects = @ + n]
  BY DEF Ends, Fails
<1> DEFINE q == [r EXCEPT !.code = code, !.effects = r.effects + n]
<1>3. cmd' = [cmd EXCEPT ![c] = q] /\ UNCHANGED worker
  BY <1>1, <1>2 DEF Ends, Fails
<1>4. /\ q.kind = r.kind /\ q.place = r.place /\ q.waiter = r.waiter /\ q.repeated = r.repeated
      /\ q.pending = r.pending /\ q.effects = r.effects + n /\ q.at = r.at /\ q.code = code
  BY <1>1 DEF CommandState
<1>5. code \in Codes /\ code \notin {"none", "ok"} /\ (code \in Refusals => code \in codes)
  BY <1>2 DEF Codes, Refusals
<1>6. q \in Loose
  <2>1. r.effects + n \in Nat
    BY <1>1 DEF CommandState
  <2> QED
    BY <1>1, <1>5, <2>1 DEF CommandState, Loose
<1> HIDE DEF q
<1>7. Sound(q, worker)
  BY <1>1, <1>4, <1>5, EndSound DEF Stage, At
<1> QED
  BY <1>3, <1>6, <1>7, OneMoves

\* Stages without an act or a wait.
LEMMA LooksKeep ==
  ASSUME ActionsInv, NEW c \in Commands,
         \/ Parse(c) \/ Resolve(c) \/ Query(c) \/ Read(c) \/ Reload(c) \/ WriteFile(c)
         \/ ScanCandidate(c) \/ ChoosePage(c) \/ Submit(c) \/ Wait(c) \/ Count(c) \/ Results(c)
         \/ CheckAssertions(c) \/ Title(c) \/ Save(c)
  PROVE  ActionsInv'
<1> USE PassesKeeps, EndsKeeps DEF Runs, Gain, Late, RefusesEarly, Codes, Refusals
<1>1. CASE Parse(c)
  BY <1>1 DEF Parse
<1>2. CASE Resolve(c)
  BY <1>2 DEF Resolve
<1>3. CASE Query(c)
  BY <1>3 DEF Query
<1>4. CASE Read(c)
  BY <1>4 DEF Read
<1>5. CASE Reload(c)
  BY <1>5 DEF Reload
<1>6. CASE WriteFile(c)
  BY <1>6 DEF WriteFile
<1>7. CASE ScanCandidate(c)
  BY <1>7 DEF ScanCandidate
<1>8. CASE ChoosePage(c)
  BY <1>8 DEF ChoosePage
<1>9. CASE Submit(c)
  BY <1>9 DEF Submit
<1>10. CASE Wait(c)
  BY <1>10 DEF Wait
<1>11. CASE Count(c)
  BY <1>11 DEF Count
<1>12. CASE Results(c)
  BY <1>12 DEF Results
<1>13. CASE CheckAssertions(c)
  BY <1>13 DEF CheckAssertions
<1>14. CASE Title(c)
  BY <1>14 DEF Title
<1>15. CASE Save(c)
  BY <1>15 DEF Save
<1> QED
  BY <1>1, <1>2, <1>3, <1>4, <1>5, <1>6, <1>7, <1>8, <1>9, <1>10, <1>11, <1>12, <1>13, <1>14,
    <1>15

\* The record a step of one command leaves behind.
LEMMA ActsKeep ==
  ASSUME ActionsInv, NEW c \in Commands, Act(c)
  PROVE  ActionsInv'
<1> DEFINE r == cmd[c]
           k == r.kind
           f == Flow[k]
<1>1. r \in CommandState /\ Sound(r, worker) /\ cmd \in [Commands -> CommandState]
  BY DEF ActionsInv, ActionsTypeOK
<1>2. /\ k \in Kinds /\ r.at \in 1..Len(f) /\ Len(f) \in 1..12 /\ r.effects \in Nat
      /\ FlowSums(k, f) /\ FlowShape(k, f) /\ r.repeated \in BOOLEAN /\ r.pending \in BOOLEAN
  BY <1>1, RecordFacts
<1>3. Upto(k, f, r.at) \in Nat
  BY <1>2 DEF FlowSums
<1>4. CASE \/ ActOnField(c) \/ ActOnElement(c) \/ ActOnLocator(c) \/ Navigate(c)
           \/ ActOnNothing(c)
  <2> USE PassesKeeps, EndsKeeps DEF Runs, Gain, Late, RefusesEarly, Codes, Refusals
  <2>1. CASE ActOnField(c)
    BY <2>1 DEF ActOnField
  <2>2. CASE ActOnElement(c)
    BY <2>2 DEF ActOnElement
  <2>3. CASE ActOnLocator(c)
    BY <2>3 DEF ActOnLocator
  <2>4. CASE Navigate(c)
    BY <2>4 DEF Navigate
  <2>5. CASE ActOnNothing(c)
    BY <2>5 DEF ActOnNothing
  <2> QED
    BY <1>4, <2>1, <2>2, <2>3, <2>4, <2>5
<1>5. CASE ClickAgain(c)
  <2>1. /\ k = "click" /\ f[r.at] = "act" /\ r.code = "none" /\ r.at = 4
        /\ r.repeated = FALSE /\ r.pending = FALSE /\ UNCHANGED worker
    BY <1>1, <1>2, <1>5 DEF ClickAgain, Runs, Stage, FlowShape, Sound, RepeatsOnce, Ends, Fails
  <2>2. r.effects = 0 /\ r.waiter = "none" /\ Len(f) > 4
    <3>1. Upto(k, f, 4) = 0 /\ Len(f) = 8
      BY <2>1 DEF Flow, ClickFlow, Upto, Term, Gain
    <3> QED
      BY <1>1, <1>2, <2>1, <3>1 DEF Sound, WithinPlan, WaiterPart, Awaiting
  <2>3. CASE Ends(c, {"E_QUERY_INVALID"}, 1)
    BY <2>1, <2>3, EndsKeeps DEF Gain, Late, Codes, Stage
  <2>4. CASE cmd' = [cmd EXCEPT ![c].at = @ + 1, ![c].effects = @ + 2, ![c].repeated = TRUE]
    <3> DEFINE q == [r EXCEPT !.at = r.at + 1, !.effects = r.effects + 2, !.repeated = TRUE]
    <3>1. cmd' = [cmd EXCEPT ![c] = q]
      BY <1>1, <2>4
    <3>2. /\ q.kind = "click" /\ q.place = r.place /\ q.at = 5 /\ q.code = "none" /\ q.effects = 2
          /\ q.repeated = TRUE /\ q.waiter = "none" /\ q.pending = FALSE
      BY <1>1, <2>1, <2>2 DEF CommandState
    <3>3. q \in Loose
      <4>1. r.effects + 2 \in Nat /\ r.at + 1 \in Nat \ {0}
        BY <1>2
      <4> QED
        BY <1>1, <4>1 DEF CommandState, Loose
    <3> HIDE DEF q
    <3>4. Sound(q, worker)
      BY <2>1, <2>2, <3>2 DEF Sound, InPlace, WithinPlan, RepeatsOnce, HasActed, WaiterPart,
        RefusalPart, Refusals
    <3> QED
      BY <2>1, <3>1, <3>3, <3>4, OneMoves
  <2> QED
    BY <1>5, <2>3, <2>4 DEF ClickAgain
<1>6. CASE Evaluate(c) \/ EvaluateTimesOut(c)
  <2>1. /\ k = "eval" /\ f[r.at] = "act" /\ r.code = "none" /\ r.at = 3 /\ r.pending = FALSE
        /\ r.waiter = "none" /\ r.effects <= 1 /\ (~r.repeated => r.effects = 0)
        /\ UNCHANGED worker
    <3>1. k = "eval" /\ f[r.at] = "act" /\ r.code = "none" /\ r.at = 3
      BY <1>2, <1>6 DEF Evaluate, EvaluateTimesOut, Runs, Stage, FlowShape
    <3>2. Upto(k, f, 3) = 0
      BY <3>1 DEF Flow, EvalFlow, Upto, Term, Gain
    <3> QED
      BY <1>1, <1>2, <1>6, <3>1, <3>2 DEF Sound, WithinPlan, RepeatsOnce, WaiterPart, Awaiting,
        Evaluate, EvaluateTimesOut, Passes, Ends, Fails
  <2>2. CASE Passes(c, 1) \/ \E n \in {0, 1} : Ends(c, {"E_EVAL_RUNTIME", "E_INTERNAL"}, n)
    BY <2>1, <2>2, PassesKeeps, EndsKeeps DEF Gain, Codes, Stage, Refusals
  <2>3. CASE cmd' = [cmd EXCEPT ![c].effects = @ + 1, ![c].repeated = TRUE] /\ ~r.repeated
    <3> DEFINE q == [r EXCEPT !.effects = r.effects + 1, !.repeated = TRUE]
    <3>1. cmd' = [cmd EXCEPT ![c] = q]
      BY <1>1, <2>3
    <3>2. /\ q.kind = "eval" /\ q.place = r.place /\ q.at = 3 /\ q.code = "none" /\ q.effects = 1
          /\ q.repeated = TRUE /\ q.waiter = "none" /\ q.pending = FALSE
      BY <1>1, <2>1, <2>3 DEF CommandState
    <3>3. q \in Loose
      <4>1. r.effects + 1 \in Nat
        BY <1>2
      <4> QED
        BY <1>1, <4>1 DEF CommandState, Loose
    <3> HIDE DEF q
    <3>4. Sound(q, worker)
      BY <1>2, <2>1, <3>2 DEF Sound, InPlace, WithinPlan, RepeatsOnce, HasActed, WaiterPart,
        RefusalPart, Refusals
    <3> QED
      BY <2>1, <3>1, <3>3, <3>4, OneMoves
  <2>4. ASSUME NEW n \in {0, 1},
               cmd' = [cmd EXCEPT ![c].code = "E_EVAL_TIMEOUT", ![c].effects = @ + n,
                          ![c].pending = cmd[c].place = "worker" /\ ~cmd[c].repeated]
        PROVE  ActionsInv'
    <3> DEFINE late == r.place = "worker" /\ ~r.repeated
               q == [r EXCEPT !.code = "E_EVAL_TIMEOUT", !.effects = r.effects + n,
                              !.pending = late]
    <3>1. cmd' = [cmd EXCEPT ![c] = q]
      BY <1>1, <2>4
    <3>2. /\ q.kind = "eval" /\ q.place = r.place /\ q.at = 3 /\ q.code = "E_EVAL_TIMEOUT"
          /\ q.effects = r.effects + n /\ q.repeated = r.repeated /\ q.waiter = "none"
          /\ q.pending = late
      BY <1>1, <2>1 DEF CommandState
    <3>3. q \in Loose
      <4>1. r.effects + n \in Nat /\ late \in BOOLEAN /\ "E_EVAL_TIMEOUT" \in Codes
        BY <1>2 DEF Codes
      <4> HIDE DEF late
      <4> QED
        BY <1>1, <4>1 DEF CommandState, Loose
    <3> HIDE DEF q
    <3>4. Sound(q, worker)
      <4>1. WithinPlan(q)
        <5>1. Gain("eval", f[3]) = 1
          BY <2>1 DEF Gain
        <5>2. ~q.repeated => q.effects <= 1 /\ q.kind = k
          BY <2>1, <3>2
        <5> QED
          BY <1>3, <2>1, <3>2, <5>1, <5>2 DEF WithinPlan, At
      <4>2. RepeatsOnce(q)
        BY <1>2, <2>1, <3>2 DEF RepeatsOnce
      <4>3. HasActed(q) /\ InPlace(q)
        BY <1>1, <1>2, <2>1, <3>2 DEF Sound, InPlace, HasActed
      <4> QED
        BY <2>1, <3>2, <4>1, <4>2, <4>3 DEF Sound, WaiterPart, RefusalPart, Refusals
    <3> QED
      BY <2>1, <3>1, <3>3, <3>4, OneMoves
  <2> QED
    BY <1>6, <2>2, <2>3, <2>4 DEF Evaluate, EvaluateTimesOut
<1> QED
  BY <1>4, <1>5, <1>6 DEF Act

\* page.waitForEvent, its event, its await and its rejection.
LEMMA WaitersKeep ==
  ASSUME ActionsInv, NEW c \in Commands,
         \/ Arm(c) \/ AwaitEvent(c) \/ EventArrives(c) \/ WaiterRejects(c) \/ EvaluateLate(c)
  PROVE  ActionsInv'
<1> DEFINE r == cmd[c]
           k == r.kind
           f == Flow[k]
<1>1. r \in CommandState /\ Sound(r, worker) /\ cmd \in [Commands -> CommandState]
  BY DEF ActionsInv, ActionsTypeOK
<1>2. /\ k \in Kinds /\ r.at \in 1..Len(f) /\ Len(f) \in 1..12 /\ r.effects \in Nat
      /\ FlowSums(k, f) /\ FlowShape(k, f) /\ r.repeated \in BOOLEAN /\ r.pending \in BOOLEAN
  BY <1>1, RecordFacts
<1>3. Upto(k, f, r.at) \in Nat /\ Upto(k, f, r.at + 1) = Upto(k, f, r.at) + Gain(k, f[r.at])
      /\ Gain(k, f[r.at]) \in 0..2
  BY <1>2 DEF FlowSums
<1>4. CASE Arm(c)
  <2>1. /\ f[r.at] = "arm" /\ r.code = "none" /\ UNCHANGED worker
        /\ cmd' = [cmd EXCEPT ![c].at = @ + 1, ![c].waiter = "armed"]
    BY <1>4 DEF Arm, Runs, Stage
  <2>2. k \in Awaiting /\ r.at = ArmAt[k] /\ r.at \in 3..4 /\ Len(f) > 6 /\ Gain(k, f[r.at]) = 0
    BY <1>2, <2>1 DEF FlowShape, ArmAt, Awaiting, Gain
  <2>3. r.waiter = "none" /\ r.repeated = FALSE /\ r.pending = FALSE
    BY <1>1, <1>2, <2>1, <2>2 DEF Sound, WaiterPart, RepeatsOnce, CommandState, Awaiting
  <2> DEFINE q == [r EXCEPT !.at = r.at + 1, !.waiter = "armed"]
  <2>4. cmd' = [cmd EXCEPT ![c] = q]
    BY <1>1, <2>1
  <2>5. /\ q.kind = k /\ q.place = r.place /\ q.at = r.at + 1 /\ q.code = "none"
        /\ q.effects = r.effects /\ q.repeated = FALSE /\ q.waiter = "armed" /\ q.pending = FALSE
    BY <1>1, <2>1, <2>3 DEF CommandState
  <2>6. q \in Loose
    <3>1. r.at + 1 \in Nat \ {0}
      BY <1>2
    <3>2. PICK x \in {"none", "armed", "answered", "rejected"} : x = "armed"
      OBVIOUS
    <3>3. q = [r EXCEPT !.at = r.at + 1, !.waiter = x]
      BY <3>2
    <3> HIDE DEF q
    <3> QED
      BY <1>1, <1>2, <3>1, <3>3 DEF CommandState, Loose
  <2> HIDE DEF q
  <2>7. Sound(q, worker)
    <3>1. WithinPlan(q)
      BY <1>1, <1>2, <1>3, <2>1, <2>2, <2>3, <2>5 DEF Sound, WithinPlan
    <3>2. HasActed(q)
      BY <1>1, <1>2, <2>1, <2>5 DEF Sound, HasActed
    <3>3. WaiterPart(q, worker)
      BY <1>2, <2>2, <2>5 DEF WaiterPart
    <3> QED
      BY <1>2, <2>2, <2>5, <3>1, <3>2, <3>3 DEF Sound, InPlace, RepeatsOnce, RefusalPart, Refusals
  <2> QED
    BY <2>1, <2>4, <2>6, <2>7, OneMoves
<1>5. CASE AwaitEvent(c)
  <2>1. f[r.at] = "event" /\ r.code = "none" /\ k \in Awaiting
    BY <1>2, <1>5 DEF AwaitEvent, Runs, Stage, FlowShape
  <2> USE PassesKeeps, EndsKeeps DEF Gain, Late, RefusesEarly, Codes, Refusals, Stage
  <2>2. CASE r.waiter = "answered" /\ k # "chooser" /\ Passes(c, 0)
    BY <2>1, <2>2
  <2>3. CASE r.waiter = "answered" /\ k = "chooser"
             /\ (Passes(c, 1) \/ \E n \in {0, 1} : Ends(c, {"E_INTERNAL"}, n))
    BY <2>1, <2>3
  <2>4. CASE r.waiter = "rejected" /\ EventIsMissing(c)
    <3>1. \/ k # "dialog" /\ Passes(c, 0)
          \/ Ends(c, {"E_WAIT_TIMEOUT"}, 0) \/ Ends(c, {"E_DOWNLOAD_TIMEOUT"}, 0)
          \/ k = "chooser" /\ Ends(c, {"E_QUERY_INVALID"}, 0)
      BY <2>1, <2>4 DEF EventIsMissing, Awaiting
    <3> QED
      BY <2>1, <2>4, <3>1
  <2> QED
    BY <1>5, <2>2, <2>3, <2>4 DEF AwaitEvent
<1>6. CASE EventArrives(c)
  <2> DEFINE n == IF k = "dialog" THEN 1 ELSE 0
             q == [r EXCEPT !.waiter = "answered", !.effects = r.effects + n]
  <2>1. /\ r.waiter = "armed" /\ UNCHANGED worker /\ cmd' = [cmd EXCEPT ![c] = q]
    BY <1>1, <1>6 DEF EventArrives, Listens
  <2>2. /\ q.kind = k /\ q.place = r.place /\ q.at = r.at /\ q.code = r.code
        /\ q.effects = r.effects + n /\ q.repeated = r.repeated /\ q.waiter = "answered"
        /\ q.pending = r.pending
    BY <1>1 DEF CommandState
  <2>3. q \in Loose
    <3>1. r.effects + n \in Nat
      BY <1>2
    <3> HIDE DEF n
    <3> QED
      BY <1>1, <3>1 DEF CommandState, Loose
  <2>4. k \in Awaiting /\ r.at > ArmAt[k] /\ ~r.repeated /\ r.at \in 4..6
    BY <1>1, <1>2, <2>1 DEF Sound, WaiterPart, RepeatsOnce, Awaiting, ArmAt
  <2> HIDE DEF q
  <2>5. Sound(q, worker)
    <3>1. WithinPlan(q)
      BY <1>1, <1>2, <1>3, <2>1, <2>2, <2>4 DEF Sound, WithinPlan, At
    <3>2. RepeatsOnce(q) /\ InPlace(q)
      BY <1>1, <2>2, <2>4 DEF Sound, RepeatsOnce, InPlace
    <3>3. HasActed(q)
      BY <1>1, <1>2, <2>2 DEF Sound, HasActed
    <3>4. WaiterPart(q, worker)
      BY <1>2, <2>2, <2>4 DEF WaiterPart
    <3>5. RefusalPart(q)
      <4>1. k = "dialog" => ~RefusesEarly(k, f[r.at])
        BY <1>2, <2>4 DEF FlowShape
      <4> QED
        BY <1>1, <1>2, <2>2, <4>1 DEF Sound, RefusalPart, At
    <3> QED
      BY <3>1, <3>2, <3>3, <3>4, <3>5 DEF Sound
  <2> QED
    BY <2>1, <2>3, <2>5, OneMoves
<1>7. CASE EvaluateLate(c)
  <2> DEFINE q == [r EXCEPT !.pending = FALSE, !.effects = r.effects + 1, !.repeated = TRUE]
  <2>1. /\ r.pending /\ UNCHANGED worker /\ cmd' = [cmd EXCEPT ![c] = q]
    BY <1>1, <1>7 DEF EvaluateLate
  <2>2. /\ q.kind = k /\ q.place = r.place /\ q.at = r.at /\ q.code = r.code
        /\ q.effects = r.effects + 1 /\ q.repeated = TRUE /\ q.waiter = r.waiter
        /\ q.pending = FALSE
    BY <1>1 DEF CommandState
  <2>3. q \in Loose
    <3>1. r.effects + 1 \in Nat
      BY <1>2
    <3> QED
      BY <1>1, <3>1 DEF CommandState, Loose
  <2>4. k = "eval" /\ r.code = "E_EVAL_TIMEOUT" /\ r.at = 3 /\ ~r.repeated
    BY <1>1, <2>1 DEF Sound, RepeatsOnce
  <2>5. r.effects <= 1
    <3>1. Upto(k, f, 3) = 0 /\ Gain(k, f[3]) = 1
      BY <2>4 DEF Flow, EvalFlow, Upto, Term, Gain
    <3> QED
      BY <1>1, <1>2, <2>4, <3>1 DEF Sound, WithinPlan, At
  <2> HIDE DEF q
  <2>6. Sound(q, worker)
    <3>1. HasActed(q) /\ InPlace(q)
      BY <1>1, <1>2, <2>2 DEF Sound, HasActed, InPlace
    <3>2. RepeatsOnce(q) /\ WithinPlan(q)
      BY <1>2, <2>2, <2>4, <2>5 DEF RepeatsOnce, WithinPlan
    <3>3. WaiterPart(q, worker)
      BY <1>1, <2>2, <2>4 DEF Sound, WaiterPart
    <3> QED
      BY <2>2, <2>4, <3>1, <3>2, <3>3 DEF Sound, RefusalPart, Refusals
  <2> QED
    BY <2>1, <2>3, <2>6, OneMoves
<1>8. CASE WaiterRejects(c) /\ Runs(c, "event")
  <2> DEFINE q == [r EXCEPT !.waiter = "rejected"]
  <2>1. /\ r.waiter = "armed" /\ r.code = "none" /\ f[r.at] = "event" /\ UNCHANGED worker
        /\ cmd' = [cmd EXCEPT ![c] = q]
    BY <1>1, <1>8 DEF WaiterRejects, Listens, Runs, Stage
  <2>2. /\ q.kind = k /\ q.place = r.place /\ q.at = r.at /\ q.code = "none"
        /\ q.effects = r.effects /\ q.repeated = r.repeated /\ q.waiter = "rejected"
        /\ q.pending = r.pending
    BY <1>1, <2>1 DEF CommandState
  <2>3. q \in Loose
    BY <1>1, <1>2 DEF CommandState, Loose
  <2> HIDE DEF q
  <2>4. Sound(q, worker)
    <3>1. HasActed(q) /\ InPlace(q) /\ RepeatsOnce(q)
      BY <1>1, <1>2, <2>1, <2>2 DEF Sound, HasActed, InPlace, RepeatsOnce
    <3>2. WithinPlan(q)
      BY <1>1, <1>2, <1>3, <2>1, <2>2 DEF Sound, WithinPlan
    <3>3. WaiterPart(q, worker)
      BY <1>1, <2>1, <2>2 DEF Sound, WaiterPart
    <3> QED
      BY <2>2, <3>1, <3>2, <3>3 DEF Sound, RefusalPart, Refusals
  <2> QED
    BY <2>1, <2>3, <2>4, OneMoves
<1>9. CASE WaiterRejects(c) /\ ~Runs(c, "event")
  <2> DEFINE gone(d) == d = c \/ (r.place = "worker" /\ cmd[d].place = "worker")
             code(d) == IF gone(d) /\ cmd[d].code = "none" THEN "crashed" ELSE cmd[d].code
             waiter(d) == IF d = c THEN "rejected" ELSE cmd[d].waiter
  <2>1. /\ r.waiter = "armed" /\ worker' = IF r.place = "worker" THEN "dead" ELSE worker
        /\ cmd' = [d \in Commands |-> [cmd[d] EXCEPT !.code = code(d), !.waiter = waiter(d)]]
    BY <1>9 DEF WaiterRejects, Listens
  <2>2. ASSUME NEW d \in Commands
        PROVE  cmd'[d] \in CommandState /\ Sound(cmd'[d], worker')
    <3> DEFINE s == cmd[d]
               q == [s EXCEPT !.code = code(d), !.waiter = waiter(d)]
    <3>1. s \in CommandState /\ Sound(s, worker)
      BY DEF ActionsInv, ActionsTypeOK
    <3>2. /\ s.at \in 1..Len(Flow[s.kind]) /\ FlowSums(s.kind, Flow[s.kind]) /\ s.effects \in Nat
          /\ s.repeated \in BOOLEAN /\ s.pending \in BOOLEAN
      BY <3>1, RecordFacts
    <3>3. cmd'[d] = q
      BY <2>1
    <3>4. code(d) \in Codes /\ waiter(d) \in {"none", "armed", "answered", "rejected"}
      BY <3>1 DEF CommandState, Codes
    <3>5. code(d) = s.code \/ (code(d) = "crashed" /\ s.code = "none")
      OBVIOUS
    <3>6. waiter(d) = s.waiter \/ (waiter(d) = "rejected" /\ s.waiter = "armed")
      BY <2>1
    <3>7. waiter(d) = "armed" =>
            /\ s.waiter = "armed"
            /\ code(d) # s.code => s.place = "worker" /\ worker' = "dead"
      BY <2>1
    <3>8. worker = "dead" => worker' = "dead"
      BY <2>1
    <3> HIDE DEF code, waiter
    <3>9. /\ q.kind = s.kind /\ q.place = s.place /\ q.at = s.at /\ q.code = code(d)
          /\ q.effects = s.effects /\ q.repeated = s.repeated /\ q.waiter = waiter(d)
          /\ q.pending = s.pending /\ q \in CommandState
      BY <3>1, <3>4 DEF CommandState
    <3> HIDE DEF q
    <3>10. InPlace(q) /\ HasActed(q)
      BY <3>1, <3>2, <3>5, <3>9 DEF Sound, InPlace, HasActed
    <3>11. WithinPlan(q)
      <4>1. Upto(s.kind, Flow[s.kind], s.at) \in Nat /\ Gain(s.kind, Flow[s.kind][s.at]) \in 0..2
        BY <3>2 DEF FlowSums
      <4> QED
        BY <3>1, <3>2, <3>5, <3>6, <3>9, <4>1 DEF Sound, WithinPlan, At
    <3>12. RepeatsOnce(q)
      BY <3>1, <3>2, <3>5, <3>9 DEF Sound, RepeatsOnce
    <3>13. WaiterPart(q, worker')
      BY <3>1, <3>2, <3>5, <3>6, <3>7, <3>8, <3>9 DEF Sound, WaiterPart
    <3>14. RefusalPart(q)
      BY <3>1, <3>5, <3>9 DEF Sound, RefusalPart, Refusals, At
    <3> QED
      BY <3>3, <3>9, <3>10, <3>11, <3>12, <3>13, <3>14 DEF Sound
  <2>3. cmd' = [d \in Commands |-> cmd'[d]]
    BY <2>1
  <2>4. cmd' \in [Commands -> CommandState] /\ worker' \in {"up", "dead"}
    BY <2>1, <2>2, <2>3 DEF ActionsInv, ActionsTypeOK
  <2> QED
    BY <2>2, <2>4 DEF ActionsInv, ActionsTypeOK, Sound, InPlace
<1> QED
  BY <1>4, <1>5, <1>6, <1>7, <1>8, <1>9

LEMMA InitActionsInv == ActionsInit => ActionsInv
<1> SUFFICES ASSUME ActionsInit PROVE ActionsInv
  OBVIOUS
<1>1. \A c \in Commands :
        /\ cmd[c].kind \in Kinds /\ cmd[c].at = 1 /\ cmd[c].code = "none" /\ cmd[c].effects = 0
        /\ cmd[c].repeated = FALSE /\ cmd[c].waiter = "none" /\ cmd[c].pending = FALSE
  BY DEF ActionsInit
<1>2. cmd \in [Commands -> CommandState]
  <2> DEFINE one == {1}
             none == {"none"}
             zero == {0}
             false == {FALSE}
  <2>1. one \subseteq Nat \ {0} /\ none \subseteq Codes /\ zero \subseteq 0..5 /\ false \subseteq BOOLEAN
        /\ none \subseteq {"none", "armed", "answered", "rejected"}
    BY DEF Codes
  <2>2. cmd \in [Commands -> [kind : Kinds, place : {"worker", "own"}, at : one, code : none,
                              effects : zero, repeated : false, waiter : none, pending : false]]
    BY DEF ActionsInit
  <2> HIDE DEF one, none, zero, false
  <2> QED
    BY <2>1, <2>2 DEF CommandState
<1>3. ASSUME NEW c \in Commands PROVE Sound(cmd[c], worker)
  <2> DEFINE r == cmd[c]
             k == r.kind
             f == Flow[k]
  <2>1. FlowShape(k, f) /\ FlowSums(k, f)
    BY <1>1, FlowsAreSound DEF FlowFacts
  <2>2. Len(f) \in 1..12
    BY <2>1 DEF FlowShape
  <2>3. 1 \in 1..Len(f)
    BY <2>2
  <2>4. Upto(k, f, 1) \in Nat
    BY <2>1, <2>3 DEF FlowSums
  <2>5. /\ r.at = 1 /\ r.code = "none" /\ r.effects = 0 /\ r.repeated = FALSE /\ r.waiter = "none"
        /\ r.pending = FALSE
    BY <1>1
  <2>6. InPlace(r)
    BY <2>3, <2>5 DEF InPlace
  <2> HIDE DEF r
  <2>7. WithinPlan(r)
    BY <2>4, <2>5 DEF WithinPlan
  <2>8. HasActed(r)
    BY <2>5 DEF HasActed
  <2>9. WaiterPart(r, worker) /\ RefusalPart(r) /\ RepeatsOnce(r)
    BY <2>5 DEF WaiterPart, RefusalPart, RepeatsOnce, Refusals
  <2> QED
    BY <2>6, <2>7, <2>8, <2>9 DEF Sound, r
<1> QED
  BY <1>2, <1>3 DEF ActionsInv, ActionsTypeOK, ActionsInit, Sound, InPlace

LEMMA ActionsKeep == ActionsInv /\ [ActionsNext]_actionVars => ActionsInv'
<1> SUFFICES ASSUME ActionsInv, [ActionsNext]_actionVars PROVE ActionsInv'
  OBVIOUS
<1>1. CASE UNCHANGED actionVars
  BY <1>1 DEF actionVars, ActionsInv, ActionsTypeOK
<1>2. ASSUME NEW c \in Commands, ActionsStep(c) PROVE ActionsInv'
  BY <1>2, LooksKeep, ActsKeep, WaitersKeep DEF ActionsStep
<1> QED
  BY <1>1, <1>2 DEF ActionsNext

\* The inductive invariant of the commands on pages: a command has sent no more
\* inputs than the stages it has passed ask for, and what it waits for is armed.
THEOREM ActionsInvariance == ActionsSpec => []ActionsInv
BY InitActionsInv, ActionsKeep, PTL DEF ActionsSpec

\* The records of the commands are well-formed; none has sent more than five inputs.
THEOREM ActionsTypeCorrect == ActionsSpec => []ActionsTypeOK
<1>1. ActionsInv => ActionsTypeOK
  BY DEF ActionsInv
<1> QED
  BY <1>1, ActionsInvariance, PTL

LEMMA SoundOutcomes == ActionsInv => OutcomesDescribeEffects
<1> SUFFICES ASSUME ActionsInv PROVE OutcomesDescribeEffects
  OBVIOUS
<1> SUFFICES ASSUME NEW c \in Commands
             PROVE  /\ cmd[c].code = "ok" =>
                         /\ cmd[c].kind \in Looking \cup {"cookieCopy", "revealScan"}
                              \/ cmd[c].effects >= 1
                         /\ cmd[c].kind = "dialog" => cmd[c].waiter = "answered"
                    /\ cmd[c].code \in Refusals /\ cmd[c].effects > 0 => ChecksLate(c)
                    /\ cmd[c].effects > Intended(cmd[c].kind) => cmd[c].repeated
  BY DEF OutcomesDescribeEffects
<1> DEFINE r == cmd[c]
           k == r.kind
           f == Flow[k]
<1>1. r \in CommandState /\ Sound(r, worker)
  BY DEF ActionsInv, ActionsTypeOK
<1>2. /\ k \in Kinds /\ r.at \in 1..Len(f) /\ Len(f) \in 1..12 /\ r.effects \in Nat
      /\ FlowSums(k, f) /\ FlowShape(k, f) /\ r.repeated \in BOOLEAN /\ r.pending \in BOOLEAN
  BY <1>1, RecordFacts
<1>3. ASSUME r.code = "ok", k \notin Looking \cup {"cookieCopy", "revealScan"}
      PROVE  r.effects >= 1
  <2>1. PICK j \in 1..Len(f) : f[j] \in {"act", "candidate"}
    BY <1>2, <1>3, BudgetIsIntended DEF Quiet
  <2>2. f[j] = "act"
    BY <1>2, <1>3, <2>1 DEF FlowShape
  <2>3. r.at = Len(f)
    BY <1>1, <1>3 DEF Sound, InPlace
  <2>4. CASE k # "dialog"
    BY <1>1, <1>3, <2>1, <2>2, <2>3, <2>4 DEF Sound, HasActed
  <2>5. CASE k = "dialog"
    <3>1. Len(f) > 6
      BY <1>2, <2>5 DEF FlowShape, Awaiting
    <3> QED
      BY <1>1, <2>3, <2>5, <3>1 DEF Sound, WaiterPart
  <2> QED
    BY <2>4, <2>5
<1>4. ASSUME r.code = "ok", k = "dialog" PROVE r.waiter = "answered"
  <2>1. Len(f) > 6
    BY <1>2, <1>4 DEF FlowShape, Awaiting
  <2> QED
    BY <1>1, <1>2, <1>4, <2>1 DEF Sound, InPlace, WaiterPart
<1>5. ASSUME r.code \in Refusals, r.effects > 0 PROVE ChecksLate(c)
  BY <1>1, <1>2, <1>5 DEF Sound, RefusalPart, Late, At, ChecksLate, Stage
<1>6. ASSUME ~r.repeated PROVE ~(r.effects > Intended(k))
  <2> DEFINE u == Upto(k, f, r.at)
             g == Gain(k, f[r.at])
             b == Budget(k, f)
  <2>1. /\ u \in Nat /\ g \in 0..2 /\ u + g + (IF k = "dialog" THEN 1 ELSE 0) <= b
    BY <1>2 DEF FlowSums
  <2>2. b \in Nat /\ Intended(k) = b
    BY <1>2, BudgetIsIntended DEF Budget
  <2>3. r.effects <= u + (IF r.code = "none" THEN 0 ELSE g)
                       + (IF k = "dialog" /\ r.waiter = "answered" THEN 1 ELSE 0)
    BY <1>1, <1>6 DEF Sound, WithinPlan, At
  <2> HIDE DEF u, g, b
  <2> QED
    BY <1>2, <2>1, <2>2, <2>3
<1> QED
  BY <1>2, <1>3, <1>4, <1>5, <1>6

\* Whatever commands run side by side, of all kinds and in the worker or not, the
\* code a command ends with says what happened to the page.
THEOREM OutcomesTellTheTruth == ActionsSpec => []OutcomesDescribeEffects
BY SoundOutcomes, ActionsInvariance, PTL

\* Who moves after the end of a command, and who takes the worker down.
LEMMA QuietStep ==
  ASSUME ActionsInv, NEW c \in Commands, ActionsStep(c)
  PROVE  QuietWhenEnded
<1>1. cmd \in [Commands -> CommandState] /\ \A d \in Commands : Sound(cmd[d], worker)
  BY DEF ActionsInv, ActionsTypeOK
<1>2. \A d \in Commands :
        /\ cmd[d].kind \in Kinds /\ cmd[d].at \in 1..Len(Flow[cmd[d].kind]) /\ cmd[d].effects \in Nat
        /\ FlowShape(cmd[d].kind, Flow[cmd[d].kind])
  BY <1>1, RecordFacts
<1>3. ASSUME UNCHANGED worker, \A d \in Commands \ {c} : cmd'[d] = cmd[d], cmd[c].code = "none"
      PROVE  QuietWhenEnded
  BY <1>2, <1>3 DEF QuietWhenEnded
\* a waiter that is heard by nobody
<1>4. ASSUME cmd[c].waiter = "armed", Alive(c), cmd[c].place = "own" => cmd[c].code = "none",
             cmd[c].code # "none" \/ Stage(c) # "event"
      PROVE  Unattended(c)
  <2> DEFINE k == cmd[c].kind
             f == Flow[k]
  <2>1. k \in Awaiting /\ cmd[c].at > ArmAt[k] /\ cmd[c].at <= 6 /\ cmd[c].at # 6
    <3>1. /\ k \in Awaiting /\ cmd[c].at > ArmAt[k] /\ cmd[c].at <= 6
          /\ cmd[c].at = 6 /\ cmd[c].code # "none" => cmd[c].place = "worker" /\ worker = "dead"
      BY <1>1, <1>4 DEF Sound, WaiterPart
    <3>2. cmd[c].at = 6 => f[cmd[c].at] = "event"
      BY <1>2, <3>1 DEF FlowShape
    <3> QED
      BY <1>4, <3>1, <3>2 DEF Alive, Stage
  <2>2. cmd[c].at \in ArmAt[k] + 1..5 /\ cmd[c].at \in 1..Len(f)
    BY <1>2, <2>1 DEF ArmAt, Awaiting
  <2>3. f[cmd[c].at] = "act" \/ (k = "dialog" /\ f[cmd[c].at] = "query")
    BY <1>2, <2>1, <2>2 DEF FlowShape
  <2> QED
    BY <1>4, <2>1, <2>3 DEF Unattended, Stage, Awaiting
<1>5. CASE EvaluateLate(c)
  <2>1. cmd[c].code = "E_EVAL_TIMEOUT"
    BY <1>1, <1>5 DEF EvaluateLate, Sound, RepeatsOnce
  <2> QED
    BY <1>1, <1>2, <1>5, <2>1 DEF EvaluateLate, QuietWhenEnded
<1>6. CASE EventArrives(c)
  <2>1. CASE cmd[c].code = "none"
    BY <1>1, <1>3, <1>6, <2>1 DEF EventArrives
  <2>2. CASE cmd[c].code # "none"
    BY <1>1, <1>2, <1>4, <1>6, <2>2 DEF EventArrives, Listens, QuietWhenEnded
  <2> QED
    BY <2>1, <2>2
<1>7. CASE WaiterRejects(c) /\ Runs(c, "event")
  BY <1>1, <1>3, <1>7 DEF WaiterRejects, Runs
<1>8. CASE WaiterRejects(c) /\ ~Runs(c, "event")
  <2>1. ASSUME NEW d \in Commands PROVE cmd'[d].effects = cmd[d].effects
    <3> DEFINE gone == d = c \/ (cmd[c].place = "worker" /\ cmd[d].place = "worker")
               code == IF gone /\ cmd[d].code = "none" THEN "crashed" ELSE cmd[d].code
               waiter == IF d = c THEN "rejected" ELSE cmd[d].waiter
    <3>1. cmd'[d] = [cmd[d] EXCEPT !.code = code, !.waiter = waiter]
      BY <1>8 DEF WaiterRejects
    <3> HIDE DEF code, waiter
    <3> QED
      BY <1>1, <3>1 DEF CommandState
  <2>2. worker' # worker => cmd[c].place = "worker" /\ Unattended(c)
    BY <1>4, <1>8 DEF WaiterRejects, Listens, Runs
  <2> QED
    BY <1>2, <2>1, <2>2 DEF QuietWhenEnded
<1>9. ASSUME Runs(c, Stage(c)), NEW n \in 0..2, NEW codes,
             Passes(c, n) \/ Ends(c, codes, n)
      PROVE  UNCHANGED worker /\ \A d \in Commands \ {c} : cmd'[d] = cmd[d]
  BY <1>1, <1>9 DEF Passes, Ends, Fails
<1>10. CASE \/ Parse(c) \/ Resolve(c) \/ Query(c) \/ Read(c) \/ Reload(c) \/ WriteFile(c)
            \/ ScanCandidate(c) \/ ChoosePage(c) \/ Submit(c) \/ Wait(c) \/ Count(c) \/ Results(c)
            \/ CheckAssertions(c) \/ Title(c) \/ Save(c)
  BY <1>3, <1>9, <1>10 DEF Parse, Resolve, Query, Read, Reload, WriteFile, ScanCandidate, ChoosePage,
    Submit, Wait, Count, Results, CheckAssertions, Title, Save, Runs
<1>11. CASE ActOnField(c) \/ ActOnElement(c) \/ ActOnLocator(c) \/ Navigate(c) \/ ActOnNothing(c)
  BY <1>3, <1>9, <1>11 DEF ActOnField, ActOnElement, ActOnLocator, Navigate, ActOnNothing, Runs
<1>12. CASE Arm(c) \/ ClickAgain(c) \/ Evaluate(c) \/ EvaluateTimesOut(c)
  BY <1>1, <1>3, <1>9, <1>12 DEF Arm, ClickAgain, Evaluate, EvaluateTimesOut, Runs
<1>13. CASE AwaitEvent(c)
  <2> DEFINE k == cmd[c].kind
  <2>a. FlowShape(k, Flow[k]) /\ cmd[c].at \in 1..Len(Flow[k])
    BY <1>2
  <2>b. Flow[k][cmd[c].at] = "event"
    BY <1>13 DEF AwaitEvent, Runs, Stage
  <2>1. k \in Awaiting
    BY <2>a, <2>b DEF FlowShape
  <2>2. EventIsMissing(c) =>
          \/ Passes(c, 0) \/ Ends(c, {"E_WAIT_TIMEOUT"}, 0) \/ Ends(c, {"E_DOWNLOAD_TIMEOUT"}, 0)
          \/ Ends(c, {"E_QUERY_INVALID"}, 0)
    BY <2>1 DEF EventIsMissing, Awaiting
  <2> QED
    BY <1>3, <1>9, <1>13, <2>2 DEF AwaitEvent, Runs
<1> QED
  BY <1>5, <1>6, <1>7, <1>8, <1>10, <1>11, <1>12, <1>13 DEF ActionsStep, Act

THEOREM EndedStaysQuiet == ActionsSpec => EndedCommandsAreQuiet
<1>1. ActionsInv /\ [ActionsNext]_actionVars => [QuietWhenEnded]_actionVars
  BY QuietStep DEF ActionsNext
<1> QED
  BY <1>1, ActionsInvariance, PTL DEF ActionsSpec, EndedCommandsAreQuiet

-----------------------------------------------------------------------------
(* The four systems side by side                                            *)

\* What TLC explores are behaviors of the four systems, each on its own: what
\* is proved of one of them holds there too.
THEOREM EachOnItsOwn == Spec => CaptureSpec /\ ActionsSpec /\ PipelineSpec /\ KeysSpec
<1>1. Init => CaptureInit /\ ActionsInit /\ PipelineInit /\ KeysInit
  BY DEF Init, KeysStart, ActionsStart, PipelineStart
<1>2. [Next]_vars => /\ [CaptureNext]_captureVars /\ [ActionsNext]_actionVars
                     /\ [PipelineNext]_pipelineVars /\ [KeysNext]_keyVars
  BY DEF Next, vars
<1> QED
  BY <1>1, <1>2, PTL DEF Spec, CaptureSpec, ActionsSpec, PipelineSpec, KeysSpec

\* The state of all four is well-formed.
THEOREM CommandsTypeCorrect == Spec => []CommandsTypeOK
<1>1. CaptureTypeOK /\ ActionsTypeOK /\ PipelineTypeOK /\ KeysTypeOK => CommandsTypeOK
  BY DEF CommandsTypeOK
<1> QED
  BY <1>1, EachOnItsOwn, CaptureTypeCorrect, ActionsTypeCorrect, PipelineTypeCorrect,
    KeysTypeCorrect, PTL
=============================================================================
