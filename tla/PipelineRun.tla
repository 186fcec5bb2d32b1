----------------------------- MODULE PipelineRun ------------------------------
(****************************************************************************)
(* `run`: a plan of steps is linted and then executed, step by step         *)
(* (core/pipeline, core/pipeline-support).  The linter looks at the values  *)
(* as they are written, the executor at what is left of them when the       *)
(* templates are resolved, just before the step acts on the page.           *)
(*                                                                          *)
(* A field of a step has one of a few shapes: absent; a string that is ok,  *)
(* empty, blank or bad (what the command behind the step refuses); mixed    *)
(* (two values of which one has the wrong type); wrong (another type); or a *)
(* template, which is resolved to any of the others or not at all.  For a   *)
(* number, bad is one the executor refuses.  A step is its kind and the one *)
(* field that is of interest, all others are ok.  The commands behind the   *)
(* steps are those of TargetActions and of the sessions: here, they succeed *)
(* or fail.  --doctor, the log, the artifact and aliases are left out.      *)
(****************************************************************************)
EXTENDS Naturals, Sequences

CONSTANT MaxAttempts   \* of a repeat-until that gives none

ASSUME AttemptsAssumption == MaxAttempts \in Nat \ {0}

VARIABLES
  plan,      \* [steps, result, require]
  phase,     \* where the run is
  pos,       \* the step
  field,     \* [name, shape] of the step, its templates resolved
  target,    \* does the run know a target?
  attempt,   \* of a repeat-until
  verdict    \* how the run ended

pipelineVars == <<plan, phase, pos, field, target, attempt, verdict>>

Strings == {"ok", "empty", "blank", "bad"}

Shapes == Strings \cup {"absent", "mixed", "wrong", "template"}

Written == Strings \cup {"template"}   \* a template is a string

-----------------------------------------------------------------------------
(* The linter: the shapes it accepts, field by field                        *)

LintAssertionSpec == {"absent", "ok", "template"}

\* fields of every step; timeoutMs, frameScope and the options are not looked at
LintCommon ==
  [id |-> {"ok"}, targetId |-> Written \cup {"absent"}, as |-> {"absent", "ok"},
   assert |-> LintAssertionSpec]

\* MUTANT: the value of a fill is only looked for
LintQuery_AnyValue ==
  [url |-> Written \ {"empty", "blank"}, query |-> (Written \ {"empty"}) \cup {"mixed"},
   value |-> Shapes \ {"absent"}]

\* text or selector of a click, fill, find or count; the value of a fill
LintQuery ==
  [url |-> Written \ {"empty", "blank"}, query |-> (Written \ {"empty"}) \cup {"mixed"},
   value |-> Written]

LintScrollPlan ==
  [scrollMode |-> {"absent", "ok", "template"},
   settleMs |-> {"absent", "ok", "bad", "template"}]

\* a bad body is one the nested command refuses; a bad condition is a negative
\* delta
LintRepeatUntil ==
  [body |-> {"ok", "bad"}, untilPath |-> Written \ {"empty", "blank"},
   until |-> {"ok", "bad", "template"}, maxAttempts |-> {"absent", "ok", "template"}]

\* mixed files are a list with something else than strings in it
LintUpload == [selector |-> Written, files |-> Written \cup {"mixed"}]

LintExtract == [kind |-> Written \cup {"absent"}]

LintTables ==
  {LintCommon, LintQuery, LintScrollPlan, LintRepeatUntil, LintUpload, LintExtract}

\* what is in no table is not looked at
LintAccepts(f) ==
  \A table \in LintTables : f.name \in DOMAIN table => f.shape \in table[f.name]

\* the keys of result and the shape of require
LintPlan ==
  /\ \A n \in 1..Len(plan.steps) : LintAccepts(plan.steps[n].field)
  /\ plan.result # "bad"
  /\ plan.require \in LintAssertionSpec

-----------------------------------------------------------------------------
(* The executor: the shapes it does not refuse                              *)

OptionalString == Strings \cup {"absent"}

OptionalInteger == {"absent", "ok"}

RunLoop ==
  [id |-> {"ok"}, as |-> {"absent", "ok"}, timeoutMs |-> OptionalInteger,
   targetId |-> OptionalString, frameScope |-> OptionalString, assert |-> Shapes]

ExecuteQuery ==
  [url |-> Strings \ {"empty"}, query |-> OptionalString, value |-> Strings,
   option |-> OptionalInteger, kind |-> OptionalString]

ExecuteScrollPlan == [scrollMode |-> OptionalString, settleMs |-> OptionalInteger]

ExecuteRepeatUntil ==
  [body |-> {"ok"}, untilPath |-> Strings \ {"empty", "blank"}, until |-> {"ok"},
   maxAttempts |-> OptionalInteger]

ExecuteUpload == [selector |-> Strings \ {"empty"}, files |-> Strings]

ExecutorTables ==
  {RunLoop, ExecuteQuery, ExecuteScrollPlan, ExecuteRepeatUntil, ExecuteUpload}

Executes(f) ==
  \A table \in ExecutorTables : f.name \in DOMAIN table => f.shape \in table[f.name]

\* open and list run without one; an empty id is none
HasTarget(kind) ==
  \/ kind \in {"open", "list"}
  \/ field.name = "targetId" /\ field.shape \in {"ok", "blank", "bad"}
  \/ target /\ ~(field.name = "targetId" /\ field.shape = "empty")

-----------------------------------------------------------------------------
FieldsOf ==
  [open |-> {"url", "option"}, list |-> {"targetId"},
   click |-> {"query", "option"}, fill |-> {"query", "value", "option"},
   scrollPlan |-> {"scrollMode", "settleMs"},
   repeatUntil |-> {"body", "untilPath", "until", "maxAttempts"},
   upload |-> {"selector", "files", "option"}, extract |-> {"kind", "option"},
   read |-> {"option"}]

StepKinds == DOMAIN FieldsOf

StepsOf(k) ==
  {[kind |-> k, field |-> [name |-> n, shape |-> s]] :
     n \in FieldsOf[k] \cup DOMAIN RunLoop, s \in Shapes}

\* one step at least
Plans ==
  [steps : Seq(UNION {StepsOf(k) : k \in StepKinds}) \ {<<>>},
   result : {"absent", "ok", "bad", "wrong"}, require : Shapes]

Here == plan.steps[pos]

PipelineTypeOK ==
  /\ plan \in Plans
  /\ phase \in {"load", "lint", "template", "step", "act", "assert", "result", "done"}
  /\ pos \in 1..Len(plan.steps) + 1
  /\ field.shape \in Shapes
  /\ target \in BOOLEAN
  /\ attempt \in 0..MaxAttempts - 1
  /\ verdict \in {"none", "ok", "refused", "E_QUERY_INVALID", "E_ASSERT_FAILED", "command"}

PipelineInit ==
  /\ plan \in Plans
  /\ phase = "load" /\ pos = 1 /\ field = plan.steps[1].field
  /\ target = FALSE /\ attempt = 0 /\ verdict = "none"

-----------------------------------------------------------------------------
Goes(there) == phase' = there /\ UNCHANGED verdict

Stops(how) == phase' = "done" /\ verdict' = how

\* resolvePlanSource
LoadPlan ==
  /\ phase = "load"
  /\ IF plan.result = "wrong" \/ plan.require = "wrong" THEN Stops("refused")
                                                       ELSE Goes("lint")
  /\ UNCHANGED <<plan, pos, field, target, attempt>>

LintThePlan ==
  /\ phase = "lint"
  /\ IF LintPlan THEN Goes("template") ELSE Stops("refused")
  /\ UNCHANGED <<plan, pos, field, target, attempt>>

\* a template alone can become anything
ResolveTemplates ==
  /\ phase = "template"
  /\ IF Here.field.shape = "template"
     THEN \/ \E s \in Shapes \ {"absent", "template"} :
               field' = [Here.field EXCEPT !.shape = s] /\ Goes("step")
          \/ Stops("E_QUERY_INVALID") /\ UNCHANGED field
     ELSE field' = Here.field /\ Goes("step")
  /\ UNCHANGED <<plan, pos, target, attempt>>

\* the checks of the loop and of the step's executor, before the command; the
\* nested command of a repeat-until may do without a target
CheckStep ==
  /\ phase = "step"
  /\ \/ ~Executes(field) /\ Stops("E_QUERY_INVALID")
     \/ ~HasTarget(Here.kind) /\ Stops("E_QUERY_INVALID")
     \/ /\ Executes(field)
        /\ HasTarget(Here.kind) \/ Here.kind = "repeatUntil"
        /\ Goes("act")
  /\ UNCHANGED <<plan, pos, field, target, attempt>>

\* its report may name the target the run goes on with
CommandSucceeds ==
  /\ phase = "act" /\ Here.kind # "repeatUntil"
  /\ field.shape = "bad" => field.name = "assert"
  /\ target' = (target \/ Here.kind # "list")
  /\ Goes("assert")
  /\ UNCHANGED <<plan, pos, field, attempt>>

\* with a code of its own
CommandFails ==
  /\ phase = "act"
  /\ Stops("command")
  /\ UNCHANGED <<plan, pos, field, target, attempt>>

\* MUTANT: the attempts are counted from zero
RepeatAttempt_OneMore ==
  /\ phase = "act" /\ Here.kind = "repeatUntil"
  /\ target' = TRUE
  /\ \/ attempt' = attempt + 1 /\ attempt' <= MaxAttempts /\ Goes("act")
     \/ attempt' = 0 /\ Goes("assert")
     \/ attempt' = 0 /\ Stops("E_ASSERT_FAILED")
  /\ UNCHANGED <<plan, pos, field>>

\* the nested command, until its condition holds or the attempts run out: both
\* end the step well; its own assertions can fail
RepeatAttempt ==
  /\ phase = "act" /\ Here.kind = "repeatUntil"
  /\ target' = TRUE
  /\ \/ attempt' = attempt + 1 /\ attempt' < MaxAttempts /\ Goes("act")
     \/ attempt' = 0 /\ Goes("assert")
     \/ attempt' = 0 /\ Stops("E_ASSERT_FAILED")
  /\ UNCHANGED <<plan, pos, field>>

\* a specification that is no object asserts nothing
AssertStep ==
  /\ phase = "assert"
  /\ \/ /\ pos' = pos + 1
        /\ Goes(IF pos < Len(plan.steps) THEN "template" ELSE "result")
     \/ /\ field.name = "assert" /\ field.shape \notin {"absent", "wrong"}
        /\ Stops("E_ASSERT_FAILED") /\ UNCHANGED pos
  /\ UNCHANGED <<plan, field, target, attempt>>

\* the paths of result and the templates of require, after everything has run
FinishRun ==
  /\ phase = "result"
  /\ \/ Stops("ok")
     \/ plan.result = "ok" /\ Stops("E_QUERY_INVALID")
     \/ plan.require = "template" /\ Stops("E_QUERY_INVALID")
     \/ plan.require # "absent" /\ Stops("E_ASSERT_FAILED")
  /\ UNCHANGED <<plan, pos, field, target, attempt>>

PipelineNext ==
  \/ LoadPlan \/ LintThePlan \/ ResolveTemplates \/ CheckStep \/ CommandSucceeds
  \/ CommandFails \/ RepeatAttempt \/ AssertStep \/ FinishRun

PipelineSpec == PipelineInit /\ [][PipelineNext]_pipelineVars

-----------------------------------------------------------------------------
(* Properties                                                               *)

\* what the linter leaves to the executor
Gaps ==
  {<<"query", "mixed">>, <<"settleMs", "bad">>, <<"body", "bad">>, <<"until", "bad">>,
   <<"selector", "empty">>, <<"files", "mixed">>}

Unlinted == {"timeoutMs", "frameScope", "option"}

\* A plan the linter accepts is executed: the executor stops it with
\* E_QUERY_INVALID, perhaps half executed, only for a template, a target nobody
\* named, a field the linter does not look at, a shape it is known to let
\* through, or a result or requirement that cannot be resolved at the end.
LintIsSound ==
  verdict = "E_QUERY_INVALID" =>
    IF pos > Len(plan.steps) THEN plan.result = "ok" \/ plan.require = "template"
    ELSE \/ Here.field.shape = "template"
         \/ ~HasTarget(Here.kind)
         \/ Here.field.name \in Unlinted
         \/ <<Here.field.name, Here.field.shape>> \in Gaps
=============================================================================
