--------------------------- MODULE NetworkCapture ----------------------------
(****************************************************************************)
(* A network capture (core/target/infra/network/target-network-capture.ts,  *)
(* core/state/repo/network-capture-repo.ts): `network-begin` starts a       *)
(* detached recorder, `network-end` stops it.  They share a record in the   *)
(* state store and four files: ready, stop, done and result.                *)
(*                                                                          *)
(* One capture; ids are never used twice.  An action is one operation on    *)
(* the store or on a file; ordinary files are written in two steps, the     *)
(* first of which leaves them torn.  Commands have no fairness: a command   *)
(* that goes no further has been killed.  What the recorder does with the   *)
(* page is external, and so is the time that deadlines wait for.  The       *)
(* retention of old files in captures/ is left out.                         *)
(****************************************************************************)

CONSTANT Enders   \* runs of network-end

VARIABLES
  record,    \* the status in state.networkCaptures, or none
  stop, ready, done, result,   \* the files
  begin,     \* where the network-begin is
  recorder,  \* where the recorder is
  heard,     \* history: has the recorder attached its listeners?
  ender,     \* network-ends: [at, saw], saw what it read in the done file
  misread    \* history: has one read a done file that was being written?

captureVars ==
  <<record, stop, ready, done, result, begin, recorder, heard, ender, misread>>

Begun == {"off", "clean", "spawn", "poll", "ok", "timedout", "failed"}

Recording ==
  {"starting", "attached", "recording", "draining", "report", "answer", "fail", "excuse"}

CaptureTypeOK ==
  /\ record \in {"none", "recording", "stopped", "failed"}
  /\ stop \in BOOLEAN /\ ready \in BOOLEAN
  /\ done \in {"absent", "torn", "stopped", "failed"}
  /\ result \in {"absent", "torn", "whole"}
  /\ begin \in Begun
  /\ recorder \in {"none", "ended", "dead"} \cup Recording
  /\ heard \in BOOLEAN /\ misread \in BOOLEAN
  /\ ender \in [Enders -> [at : {"off", "signal", "wait", "report", "final", "broken",
                                 "ok", "error"},
                           saw : {"nothing", "stopped", "failed"}]]

CaptureInit ==
  /\ record = "none" /\ stop = FALSE /\ ready = FALSE /\ done = "absent"
  /\ result = "absent" /\ begin = "off" /\ recorder = "none" /\ heard = FALSE
  /\ ender = [e \in Enders |-> [at |-> "off", saw |-> "nothing"]]
  /\ misread = FALSE

-----------------------------------------------------------------------------
(* network-begin                                                            *)

CreateCapture ==
  /\ begin = "off"
  /\ record' = "recording"
  /\ begin' = "clean"
  /\ UNCHANGED <<stop, ready, done, result, recorder, heard, ender, misread>>

\* also removes the stop file of an early network-end
CleanFiles ==
  /\ begin = "clean"
  /\ stop' = FALSE /\ ready' = FALSE /\ done' = "absent" /\ result' = "absent"
  /\ begin' = "spawn"
  /\ UNCHANGED <<record, recorder, heard, ender, misread>>

SpawnRecorder ==
  /\ begin = "spawn"
  /\ recorder' = "starting"
  /\ begin' = "poll"
  /\ UNCHANGED <<record, stop, ready, done, result, heard, ender, misread>>

\* without a CLI script the record stays; without a process it is deleted
SpawnRecorderFails ==
  /\ begin = "spawn"
  /\ record' \in {record, "none"}
  /\ begin' = "failed"
  /\ UNCHANGED <<stop, ready, done, result, recorder, heard, ender, misread>>

SeesReady ==
  /\ begin = "poll" /\ ready
  /\ begin' = "ok"
  /\ UNCHANGED <<record, stop, ready, done, result, recorder, heard, ender, misread>>

\* E_WAIT_TIMEOUT; nobody tells the recorder
ReadyTimesOut ==
  /\ begin = "poll" /\ ~ready
  /\ record' = "none"
  /\ begin' = "timedout"
  /\ UNCHANGED <<stop, ready, done, result, recorder, heard, ender, misread>>

-----------------------------------------------------------------------------
(* The recorder                                                             *)

\* MUTANT: readiness is announced on the way to the page
AttachListeners_Late ==
  /\ recorder = "starting"
  /\ recorder' = "attached"
  /\ ready' = TRUE
  /\ UNCHANGED <<record, stop, done, result, begin, heard, ender, misread>>

\* session, connection, page, then page.on
AttachListeners ==
  /\ recorder = "starting"
  /\ recorder' = "attached"
  /\ heard' = TRUE
  /\ UNCHANGED <<record, stop, ready, done, result, begin, ender, misread>>

\* best effort
AnnounceReady ==
  /\ recorder = "attached"
  /\ ready' \in {TRUE, ready}
  /\ recorder' = "recording"
  /\ UNCHANGED <<record, stop, done, result, begin, heard, ender, misread>>

\* MUTANT: the recording has no deadline
WaitForCaptureEnd_Patient ==
  /\ recorder = "recording" /\ stop
  /\ recorder' = "draining"
  /\ UNCHANGED <<record, stop, ready, done, result, begin, heard, ender, misread>>

\* the stop file, or the deadline of the recording
WaitForCaptureEnd ==
  /\ recorder = "recording"
  /\ recorder' = "draining"
  /\ UNCHANGED <<record, stop, ready, done, result, begin, heard, ender, misread>>

WriteResult ==
  /\ \/ recorder = "draining" /\ recorder' = "report" /\ result' = "torn"
     \/ recorder = "report" /\ recorder' = "answer" /\ result' = "whole"
  /\ UNCHANGED <<record, stop, ready, done, begin, heard, ender, misread>>

WriteDone(at, status) ==
  /\ recorder = at
  /\ IF done = "torn" THEN recorder' = "ended" /\ done' = status
                      ELSE done' = "torn" /\ UNCHANGED recorder
  /\ UNCHANGED <<record, stop, ready, result, begin, heard, ender, misread>>

\* anything the recorder awaits or writes may throw; the catch block answers
RecorderFails ==
  /\ recorder \in Recording \ {"excuse"}
  /\ recorder' = "excuse"
  /\ UNCHANGED <<record, stop, ready, done, result, begin, heard, ender, misread>>

\* killed, or not able to write its excuse
RecorderDies ==
  /\ recorder \in Recording
  /\ recorder' = "dead"
  /\ UNCHANGED <<record, stop, ready, done, result, begin, heard, ender, misread>>

-----------------------------------------------------------------------------
(* network-end                                                              *)

EndGoes(e, at) == ender' = [ender EXCEPT ![e].at = at]

ReadCapture(e) ==
  /\ ender[e].at = "off"
  /\ EndGoes(e, IF record = "none" THEN "error" ELSE "signal")
  /\ UNCHANGED <<record, stop, ready, done, result, begin, recorder, heard, misread>>

SignalStop(e) ==
  /\ ender[e].at = "signal"
  /\ \/ stop' = TRUE /\ EndGoes(e, "wait")
     \/ EndGoes(e, "error") /\ UNCHANGED stop
  /\ UNCHANGED <<record, ready, done, result, begin, recorder, heard, misread>>

\* a done file that does not parse counts as a failure
SeesDone(e) ==
  /\ ender[e].at = "wait" /\ done # "absent"
  /\ ender' = [ender EXCEPT ![e] =
       [at |-> IF done = "stopped" THEN "report" ELSE "broken",
        saw |-> IF done = "torn" THEN "failed" ELSE done]]
  /\ misread' = (misread \/ done = "torn")
  /\ UNCHANGED <<record, stop, ready, done, result, begin, recorder, heard>>

DoneTimesOut(e) ==
  /\ ender[e].at = "wait"
  /\ EndGoes(e, "error")
  /\ UNCHANGED <<record, stop, ready, done, result, begin, recorder, heard, misread>>

ReadResult(e) ==
  /\ ender[e].at = "report"
  /\ EndGoes(e, IF result = "whole" THEN "final" ELSE "broken")
  /\ UNCHANGED <<record, stop, ready, done, result, begin, recorder, heard, misread>>

\* the finally block; an update of the store can fail as well
FinalizeCapture(e) ==
  /\ ender[e].at \in {"final", "broken"}
  /\ \/ /\ record' = IF record = "none" THEN record ELSE ender[e].saw
        /\ EndGoes(e, IF ender[e].at = "final" THEN "ok" ELSE "error")
     \/ EndGoes(e, "error") /\ UNCHANGED record
  /\ UNCHANGED <<stop, ready, done, result, begin, recorder, heard, misread>>

\* `session clear` drops the captures of its sessions
ClearSession ==
  /\ record # "none"
  /\ record' = "none"
  /\ UNCHANGED <<stop, ready, done, result, begin, recorder, heard, ender, misread>>

-----------------------------------------------------------------------------
BeginStep ==
  CreateCapture \/ CleanFiles \/ SpawnRecorder \/ SpawnRecorderFails \/ SeesReady
  \/ ReadyTimesOut

RecorderStep ==
  AttachListeners \/ AnnounceReady \/ WaitForCaptureEnd \/ WriteResult
  \/ WriteDone("answer", "stopped") \/ WriteDone("excuse", "failed")

EndStep(e) ==
  ReadCapture(e) \/ SignalStop(e) \/ SeesDone(e) \/ DoneTimesOut(e) \/ ReadResult(e)
  \/ FinalizeCapture(e)

CaptureNext ==
  \/ BeginStep
  \/ RecorderStep
  \/ RecorderFails
  \/ RecorderDies
  \/ \E e \in Enders : EndStep(e)
  \/ ClearSession

\* the recorder runs on its own, and its deadlines pass
CaptureFairness == WF_captureVars(RecorderStep)

CaptureSpec == CaptureInit /\ [][CaptureNext]_captureVars /\ CaptureFairness

-----------------------------------------------------------------------------
(* Properties                                                               *)

\* What the commands report of a capture is true.  A network-begin that
\* succeeded left a recorder that listens, so that no early request is missed
\* (the comment at target-network-capture.ts:217); a network-end that
\* succeeded, or a record that says stopped, has a whole result; and a record
\* that says failed has a recorder that failed, unless a network-end came
\* while the done file was being written.
CaptureReportsAreTrue ==
  /\ begin = "ok" => heard
  /\ (record = "stopped" \/ \E e \in Enders : ender[e].at = "ok") => result = "whole"
  /\ record = "failed" /\ ~misread => recorder = "ended" /\ done = "failed"

\* Every recorder answers and ends on its own unless it is killed: also one
\* whose network-begin gave up or died, whose record is gone, or whose stop file
\* was removed, which nobody can stop any more.
RecordersAnswer ==
  recorder = "starting" ~> recorder = "dead" \/ (recorder = "ended" /\ done # "torn")
=============================================================================
