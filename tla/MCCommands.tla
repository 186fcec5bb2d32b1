------------------------------ MODULE MCCommands ------------------------------
(****************************************************************************)
(* The commands beside the daemon and the state store, each system on its   *)
(* own: `system` says which one a behavior is about, the others stand       *)
(* still.  A network capture with two network-ends; two commands on pages,  *)
(* of which the second one is of the kinds that can disturb another; plans  *)
(* of one step of any shape, alone or after a step that succeeds; and the   *)
(* sessions two commands find, of which the first one has URL u1 and agent  *)
(* a1, and the second one any.                                              *)
(****************************************************************************)
EXTENDS NetworkCapture, TargetActions, PipelineRun, LaneKeys

CONSTANTS c1, c2

VARIABLE system

vars == <<system, captureVars, actionVars, pipelineVars, keyVars>>

Disturbing == {"click", "dialog", "download", "eval"}

FirstSteps ==
  {<<>>} \cup {<<[kind |-> k, field |-> [name |-> "as", shape |-> "ok"]]>> : k \in {"open", "list"}}

NoPlan ==
  [steps |-> <<[kind |-> "list", field |-> [name |-> "as", shape |-> "ok"]]>>,
   result |-> "absent", require |-> "absent"]

\* what the first client asks for, and one request for systems without any
FirstArgvs == {r \in Argvs : r.agent = "a1" /\ r.url # "u2"}

SecondArgvs == {r \in Argvs : r.family = "open" => r.agent = "a1"}

Ensure ==
  [family |-> "ensure", named |-> "none", profile |-> "none", shared |-> FALSE,
   ensure |-> "off", url |-> "none", agent |-> "a1"]

\* each system from the states that are of interest, or from one
Requests == {[c \in Clients |-> IF c = c1 THEN r ELSE q] : r \in FirstArgvs, q \in SecondArgvs}

KeysStart ==
  /\ IF system = "lanes" THEN request \in Requests
     ELSE request = [c \in Clients |-> Ensure] /\ sessions = {} /\ targetOf = "none"
  /\ KeysInit
  /\ targetOf = "none" \/ \E c \in Clients : request[c].family = "target"

Clicks ==
  [Commands -> [kind : {"click"}, place : {"own"}, at : {1}, code : {"none"}, effects : {0},
                repeated : {FALSE}, waiter : {"none"}, pending : {FALSE}]]

ActionsStart ==
  /\ IF system = "actions" THEN ActionsInit /\ cmd[c2].kind \in Disturbing
                            ELSE cmd \in Clicks /\ ActionsInit

ShortPlans ==
  UNION {[steps : {before \o <<step>> : step \in StepsOf(k)},
          result : {"absent", "ok", "bad", "wrong"},
          require : {"absent", "ok", "bad", "wrong", "template"}] :
           before \in FirstSteps, k \in StepKinds}

PipelineStart ==
  /\ IF system = "run" THEN plan \in ShortPlans ELSE plan = NoPlan
  /\ PipelineInit

Init ==
  /\ system \in {"capture", "actions", "run", "lanes"}
  /\ CaptureInit /\ KeysStart /\ ActionsStart /\ PipelineStart

Next ==
  /\ UNCHANGED system
  /\ \/ system = "capture" /\ CaptureNext /\ UNCHANGED <<actionVars, pipelineVars, keyVars>>
     \/ system = "actions" /\ ActionsNext /\ UNCHANGED <<captureVars, pipelineVars, keyVars>>
     \/ system = "run" /\ PipelineNext /\ UNCHANGED <<captureVars, actionVars, keyVars>>
     \/ system = "lanes" /\ KeysNext /\ UNCHANGED <<captureVars, actionVars, pipelineVars>>

Spec == Init /\ [][Next]_vars /\ CaptureFairness

\* The type invariants of the four systems.
CommandsTypeOK == CaptureTypeOK /\ ActionsTypeOK /\ PipelineTypeOK /\ KeysTypeOK
=============================================================================
