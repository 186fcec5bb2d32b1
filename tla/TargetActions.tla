---------------------------- MODULE TargetActions -----------------------------
(****************************************************************************)
(* The commands on pages.  A handler is the sequence of its stages          *)
(* (TargetFlows); a stage either hands on to the next one or ends the       *)
(* command with an error code.  A command runs in the daemon worker, which  *)
(* it shares with others, or in a process of its own.                       *)
(*                                                                          *)
(* The page is external: it does what a stage asks for or not, opens        *)
(* dialogs, navigates.  An effect is one input the page has received.  What *)
(* a stage reads and what the report says beside its code are left out.     *)
(****************************************************************************)
EXTENDS TargetFlows

CONSTANT Commands

VARIABLES
  worker,   \* "up" or "dead"
  cmd       \* a record per command, see CommandState

actionVars == <<worker, cmd>>

Codes ==
  {"none", "ok", "crashed", "E_QUERY_INVALID", "E_SELECTOR_INVALID", "E_TARGET",
   "E_WAIT_TIMEOUT", "E_DOWNLOAD_TIMEOUT", "E_ASSERT_FAILED", "E_EVAL_TIMEOUT",
   "E_EVAL_RUNTIME", "E_STATE", "E_URL_INVALID", "E_INTERNAL"}

CommandState ==
  [kind : Kinds, place : {"worker", "own"}, at : Nat \ {0},
   code : Codes,         \* none while it runs
   effects : 0..5,
   repeated : BOOLEAN,   \* has an input been sent again?
   waiter : {"none", "armed", "answered", "rejected"},
   pending : BOOLEAN]    \* is an evaluation left behind?

ActionsTypeOK ==
  /\ worker \in {"up", "dead"}
  /\ cmd \in [Commands -> CommandState]
  /\ \A c \in Commands : cmd[c].at <= Len(Flow[cmd[c].kind])

ActionsInit ==
  /\ worker = "up"
  /\ cmd \in [Commands -> [kind : Kinds, place : {"worker", "own"}, at : {1},
                           code : {"none"}, effects : {0}, repeated : {FALSE},
                           waiter : {"none"}, pending : {FALSE}]]

-----------------------------------------------------------------------------
Stage(c) == Flow[cmd[c].kind][cmd[c].at]

Alive(c) == cmd[c].place = "own" \/ worker = "up"

Runs(c, stage) == Alive(c) /\ cmd[c].code = "none" /\ Stage(c) = stage

\* the stage is done, with n more effects
Passes(c, n) ==
  /\ cmd' = IF cmd[c].at = Len(Flow[cmd[c].kind])
            THEN [cmd EXCEPT ![c].code = "ok", ![c].effects = @ + n]
            ELSE [cmd EXCEPT ![c].at = @ + 1, ![c].effects = @ + n]
  /\ UNCHANGED worker

\* the command ends.  In the worker the finally block returns the lease; a
\* process of its own closes the connection, which rejects a waiter nobody
\* listens to: that can kill it before it reports.
Fails(c, codes, n) ==
  /\ \E code \in codes : cmd' = [cmd EXCEPT ![c].code = code, ![c].effects = @ + n]
  /\ UNCHANGED worker

Ends(c, codes, n) ==
  Fails(c, IF cmd[c].place = "own" /\ cmd[c].waiter = "armed"
           THEN codes \cup {"crashed"} ELSE codes, n)

Parse(c) ==
  /\ Runs(c, "parse")
  /\ \/ Passes(c, 0)
     \/ Ends(c, {"E_QUERY_INVALID"}, 0)
     \/ cmd[c].kind \in {"open", "openReused", "cookieCopy"} /\ Ends(c, {"E_URL_INVALID"}, 0)

\* session, connection, target
Resolve(c) ==
  /\ Runs(c, "resolve")
  /\ Passes(c, 0) \/ Ends(c, {"E_TARGET"}, 0)

Query(c) ==
  /\ Runs(c, "query")
  /\ \/ Passes(c, 0)
     \/ Ends(c, {"E_SELECTOR_INVALID", "E_QUERY_INVALID", "E_INTERNAL"}, 0)

\* page.waitForEvent; the result is awaited in the stage "event"
Arm(c) ==
  /\ Runs(c, "arm")
  /\ cmd' = [cmd EXCEPT ![c].at = @ + 1, ![c].waiter = "armed"]
  /\ UNCHANGED worker

-----------------------------------------------------------------------------
(* Looking at the page                                                      *)

\* what was found is checked against the index or chunk asked for
Read(c) ==
  /\ Runs(c, "read")
  /\ \/ Passes(c, 0)
     \/ Ends(c, {"E_INTERNAL"}, 0)
     \/ cmd[c].kind \in {"attr", "read"} /\ Ends(c, {"E_QUERY_INVALID"}, 0)

\* optional; the events that follow are collected for a while
Reload(c) ==
  /\ Runs(c, "reload")
  /\ \E n \in {0, 1} : Passes(c, n) \/ Ends(c, {"E_INTERNAL"}, n)

WriteFile(c) ==
  /\ Runs(c, "file")
  /\ Passes(c, 0) \/ Ends(c, {"E_INTERNAL"}, 0)

\* the two scrolls of a candidate; what fails becomes part of the report
ScanCandidate(c) ==
  /\ Runs(c, "candidate")
  /\ \E n \in 0..2 : Passes(c, n)

-----------------------------------------------------------------------------
(* Acting on the page                                                       *)

\* an open page of the URL's origin, or a new one
ChoosePage(c) ==
  /\ Runs(c, "page")
  /\ \/ \E n \in {0, 1} : Passes(c, n)
     \/ Ends(c, {"E_INTERNAL"}, 0)

\* the selector of a field is looked at when its turn comes
ActOnField(c) ==
  /\ Runs(c, "act") /\ cmd[c].kind = "formFill"
  /\ \/ Passes(c, 1)
     \/ Ends(c, {"E_SELECTOR_INVALID", "E_QUERY_INVALID", "E_INTERNAL"}, 0)
     \/ Ends(c, {"E_INTERNAL"}, 1)

\* a synchronous evaluation, or input through CDP, after a look at the element
ActOnElement(c) ==
  /\ Runs(c, "act")
  /\ cmd[c].kind \in {"click", "clickHandle", "fill", "spawn", "download", "selectOption"}
  /\ \/ Passes(c, 1)
     \/ Ends(c, {"E_QUERY_INVALID", "E_INTERNAL"}, 0)
     \/ Ends(c, {"E_INTERNAL"}, 1)

\* mouse.click threw, before or after its input; the DOM click is tried next
ClickAgain(c) ==
  /\ Runs(c, "act") /\ cmd[c].kind = "click"
  /\ \/ /\ cmd' = [cmd EXCEPT ![c].at = @ + 1, ![c].effects = @ + 2,
                              ![c].repeated = TRUE]
        /\ UNCHANGED worker
     \/ Ends(c, {"E_QUERY_INVALID"}, 1)

\* Playwright's locator, mouse and page calls
ActOnLocator(c) ==
  /\ Runs(c, "act")
  /\ cmd[c].kind \in {"clickAt", "keypress", "dragDrop", "hover", "dialog", "upload",
                      "chooser", "emulate", "scrollPlan", "transitionTrace", "close",
                      "cookieCopy", "scrollSample", "scrollWatch", "stickyCheck",
                      "transitionAssert"}
  /\ \/ Passes(c, 1)
     \/ \E n \in {0, 1} : Ends(c, {"E_INTERNAL"}, n)

\* page.goto, or the download it turns into; it may have failed only in part
Navigate(c) ==
  /\ Runs(c, "act") /\ cmd[c].kind = "open"
  /\ Passes(c, 1) \/ \E n \in {0, 1} : Ends(c, {"E_INTERNAL"}, n)

\* without a trigger, a dialog is only waited for; there may be no cookies
ActOnNothing(c) ==
  /\ Runs(c, "act") /\ cmd[c].kind \in {"dialog", "cookieCopy"}
  /\ Passes(c, 0)

\* the script may be run again when a navigation has taken its context
Evaluate(c) ==
  /\ Runs(c, "act") /\ cmd[c].kind = "eval"
  /\ \/ Passes(c, 1)
     \/ \E n \in {0, 1} : Ends(c, {"E_EVAL_RUNTIME", "E_INTERNAL"}, n)
     \/ /\ ~cmd[c].repeated
        /\ cmd' = [cmd EXCEPT ![c].effects = @ + 1, ![c].repeated = TRUE]
        /\ UNCHANGED worker

\* an evaluation that awaits survives Runtime.terminateExecution
EvaluateTimesOut(c) ==
  /\ Runs(c, "act") /\ cmd[c].kind = "eval"
  /\ \E n \in {0, 1} :
       cmd' = [cmd EXCEPT ![c].code = "E_EVAL_TIMEOUT", ![c].effects = @ + n,
                          ![c].pending = cmd[c].place = "worker" /\ ~cmd[c].repeated]
  /\ UNCHANGED worker

\* the page navigates: the evaluation of a command that has ended starts over
EvaluateLate(c) ==
  /\ worker = "up" /\ cmd[c].pending
  /\ cmd' = [cmd EXCEPT ![c].pending = FALSE, ![c].effects = @ + 1, ![c].repeated = TRUE]
  /\ UNCHANGED worker

-----------------------------------------------------------------------------
(* Waiting for the page's event                                             *)

Listens(c) ==
  cmd[c].waiter = "armed" /\ Alive(c) /\ (cmd[c].place = "own" => cmd[c].code = "none")

\* a dialog is accepted or dismissed whether or not the command still runs
EventArrives(c) ==
  /\ Listens(c)
  /\ cmd' = [cmd EXCEPT ![c].waiter = "answered",
                          ![c].effects = @ + IF cmd[c].kind = "dialog" THEN 1 ELSE 0]
  /\ UNCHANGED worker

\* The timeout, or the end of the page.  Nobody handles a rejection before the
\* stage "event": the process dies, and in the worker every command with it.
WaiterRejects(c) ==
  /\ Listens(c)
  /\ IF Runs(c, "event")
     THEN cmd' = [cmd EXCEPT ![c].waiter = "rejected"] /\ UNCHANGED worker
     ELSE LET gone(d) == d = c \/ (cmd[c].place = "worker" /\ cmd[d].place = "worker") IN
          /\ worker' = IF cmd[c].place = "worker" THEN "dead" ELSE worker
          /\ cmd' = [d \in Commands |-> [cmd[d] EXCEPT
               !.code = IF gone(d) /\ cmd[d].code = "none" THEN "crashed" ELSE cmd[d].code,
               !.waiter = IF d = c THEN "rejected" ELSE cmd[d].waiter]]

\* spawn looks for a new page itself; download may take the file by a request
\* of its own, or do without it
EventIsMissing(c) ==
  CASE cmd[c].kind = "spawn" -> Passes(c, 0) \/ Ends(c, {"E_WAIT_TIMEOUT"}, 0)
    [] cmd[c].kind = "download" -> Passes(c, 0) \/ Ends(c, {"E_DOWNLOAD_TIMEOUT"}, 0)
    [] cmd[c].kind = "dialog" -> Ends(c, {"E_WAIT_TIMEOUT"}, 0)
    [] cmd[c].kind = "chooser" -> Ends(c, {"E_QUERY_INVALID"}, 0)

\* a chooser is given the files
AwaitEvent(c) ==
  /\ Runs(c, "event")
  /\ \/ cmd[c].waiter = "answered" /\ cmd[c].kind # "chooser" /\ Passes(c, 0)
     \/ /\ cmd[c].waiter = "answered" /\ cmd[c].kind = "chooser"
        /\ Passes(c, 1) \/ \E n \in {0, 1} : Ends(c, {"E_INTERNAL"}, n)
     \/ cmd[c].waiter = "rejected" /\ EventIsMissing(c)

-----------------------------------------------------------------------------
(* After the effect                                                         *)

\* optional; the selector of the button is looked at now
Submit(c) ==
  /\ Runs(c, "submit")
  /\ \/ \E n \in {0, 1} : Passes(c, n) \/ Ends(c, {"E_INTERNAL"}, n)
     \/ Ends(c, {"E_SELECTOR_INVALID", "E_QUERY_INVALID"}, 0)

\* dialog and dragDrop hand a timeout of Playwright on as it is
Wait(c) ==
  /\ Runs(c, "wait")
  /\ \/ Passes(c, 0)
     \/ Ends(c, {"E_SELECTOR_INVALID", "E_INTERNAL"}, 0)
     \/ cmd[c].kind \notin {"dialog", "dragDrop"} /\ Ends(c, {"E_WAIT_TIMEOUT"}, 0)

\* --expect-count-after; with a text query it cannot be counted
Count(c) ==
  /\ Runs(c, "count")
  /\ Passes(c, 0) \/ Ends(c, {"E_QUERY_INVALID", "E_ASSERT_FAILED"}, 0)

\* what the page shows of the uploaded files
Results(c) ==
  /\ Runs(c, "results")
  /\ \/ Passes(c, 0)
     \/ Ends(c, {"E_SELECTOR_INVALID", "E_WAIT_TIMEOUT", "E_ASSERT_FAILED", "E_INTERNAL"}, 0)

CheckAssertions(c) ==
  /\ Runs(c, "assert")
  /\ \/ Passes(c, 0)
     \/ Ends(c, {"E_ASSERT_FAILED", "E_INTERNAL"}, 0)
     \/ cmd[c].kind # "urlAssert" /\ Ends(c, {"E_SELECTOR_INVALID"}, 0)

\* spawn can assert it
Title(c) ==
  /\ Runs(c, "title")
  /\ \/ Passes(c, 0)
     \/ Ends(c, {"E_INTERNAL"}, 0)
     \/ cmd[c].kind = "spawn" /\ Ends(c, {"E_ASSERT_FAILED"}, 0)

\* the target's record; optional
Save(c) ==
  /\ Runs(c, "save")
  /\ Passes(c, 0) \/ Ends(c, {"E_STATE", "E_INTERNAL"}, 0)

-----------------------------------------------------------------------------
Act(c) ==
  ActOnField(c) \/ ActOnElement(c) \/ ClickAgain(c) \/ ActOnLocator(c) \/ Navigate(c)
  \/ ActOnNothing(c) \/ Evaluate(c) \/ EvaluateTimesOut(c)

ActionsStep(c) ==
  \/ Parse(c) \/ Resolve(c) \/ Query(c) \/ Arm(c) \/ Act(c) \/ AwaitEvent(c)
  \/ Read(c) \/ Reload(c) \/ WriteFile(c) \/ ScanCandidate(c) \/ ChoosePage(c)
  \/ Submit(c) \/ Wait(c) \/ Count(c) \/ Results(c) \/ CheckAssertions(c) \/ Title(c) \/ Save(c)
  \/ EvaluateLate(c) \/ EventArrives(c) \/ WaiterRejects(c)

ActionsNext == \E c \in Commands : ActionsStep(c)

ActionsSpec == ActionsInit /\ [][ActionsNext]_actionVars

-----------------------------------------------------------------------------
(* Properties                                                               *)

Refusals == {"E_QUERY_INVALID", "E_SELECTOR_INVALID", "E_URL_INVALID", "E_TARGET"}

\* checks of the command's own input that come after its effect
ChecksLate(c) ==
  \/ Stage(c) \in {"submit", "wait", "count", "results", "assert"}
  \/ Stage(c) = "event" /\ cmd[c].kind = "chooser"
  \/ Stage(c) = "act" /\ cmd[c].kind \in {"click", "formFill"}
  \/ Stage(c) = "query" /\ cmd[c].kind \in {"dialog", "transitionAssert"}
  \/ Stage(c) = "resolve" /\ cmd[c].kind \in {"stickyCheck", "transitionAssert", "revealScan"}

\* The code of a command says what happened to the page.  A success has sent its
\* input, unless there was nothing to copy or a scan swallowed its errors, and a
\* dialog was handled; a refusal of the input (E_QUERY_INVALID,
\* E_SELECTOR_INVALID, E_URL_INVALID, no target) has left the page alone, unless
\* it comes from one of the checks the handlers make late, a later field of a
\* form, the DOM click after a mouse click that failed, the trigger of a dialog
\* when one was handled before it, or a later connection of a command that makes
\* several; no input is sent more often than asked for, and none at all by a
\* command that only looks, unless by that DOM click or by an evaluation that was
\* taken up again.
OutcomesDescribeEffects ==
  \A c \in Commands :
    /\ cmd[c].code = "ok" =>
         /\ cmd[c].kind \in Looking \cup {"cookieCopy", "revealScan"} \/ cmd[c].effects >= 1
         /\ cmd[c].kind = "dialog" => cmd[c].waiter = "answered"
    /\ cmd[c].code \in Refusals /\ cmd[c].effects > 0 => ChecksLate(c)
    /\ cmd[c].effects > Intended(cmd[c].kind) => cmd[c].repeated

\* armed, and nobody handles its rejection
Unattended(c) ==
  /\ cmd[c].waiter = "armed"
  /\ \/ cmd[c].kind = "dialog" /\ Stage(c) \in {"query", "act"}
     \/ cmd[c].kind \in {"spawn", "download", "chooser"} /\ Stage(c) = "act"

\* What may still happen once a command has ended.
QuietWhenEnded ==
  /\ \A c \in Commands :
       cmd[c].code # "none" /\ cmd'[c].effects > cmd[c].effects =>
         Unattended(c) \/ cmd[c].code = "E_EVAL_TIMEOUT"
  /\ worker' # worker => \E c \in Commands : cmd[c].place = "worker" /\ Unattended(c)

\* A command that has ended does nothing more: only one that failed between
\* page.waitForEvent and the await of its result can still handle a dialog or
\* take the worker and everybody's commands down, and only an evaluation that
\* timed out can still run its script.
EndedCommandsAreQuiet == [][QuietWhenEnded]_actionVars
=============================================================================
