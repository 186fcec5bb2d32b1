----------------------------- MODULE TargetFlows ------------------------------
(****************************************************************************)
(* The handlers of the commands on pages (core/target, and open of          *)
(* core/session), each as the sequence of its stages in the order of its    *)
(* code.  TargetActions says what a stage does.                             *)
(****************************************************************************)
EXTENDS Naturals, Sequences

-----------------------------------------------------------------------------
(* Commands that act on the page                                            *)

ClickFlow == <<"parse", "resolve", "query", "act", "wait", "assert", "count", "save">>

ClickHandleFlow == <<"parse", "resolve", "act", "wait", "assert", "save">>

ClickAtFlow == <<"parse", "resolve", "act", "title", "save">>

\* MUTANT: fills before it has counted the matches
FillFlow_Eager ==
  <<"parse", "resolve", "act", "query", "wait", "assert", "title", "save">>

FillFlow == <<"parse", "resolve", "query", "act", "wait", "assert", "title", "save">>

\* act once per field
FormFillFlow == <<"parse", "resolve", "act", "act", "title", "save">>

KeypressFlow ==
  <<"parse", "resolve", "query", "act", "wait", "assert", "title", "save">>

SelectOptionFlow == <<"parse", "resolve", "query", "act", "assert", "title", "save">>

DragDropFlow ==
  <<"parse", "resolve", "query", "act", "wait", "assert", "title", "save">>

HoverFlow == <<"parse", "resolve", "query", "act", "save">>

\* MUTANT: listens for the page before the query
SpawnFlow_Early ==
  <<"parse", "resolve", "arm", "query", "act", "event", "title", "save">>

SpawnFlow == <<"parse", "resolve", "query", "arm", "act", "event", "title", "save">>

\* the trigger is optional
DialogFlow ==
  <<"parse", "resolve", "arm", "query", "act", "event", "wait", "assert", "title", "save">>

DownloadFlow ==
  <<"parse", "resolve", "query", "arm", "act", "event", "assert", "title", "save">>

\* the selector is a file input
UploadFlow ==
  <<"parse", "resolve", "query", "act", "submit", "wait", "results", "assert", "title",
    "save">>

\* the selector opens a file chooser
ChooserFlow ==
  <<"parse", "resolve", "query", "arm", "act", "event", "submit", "wait", "results",
    "assert", "title", "save">>

EvalFlow == <<"parse", "resolve", "act", "save">>

EmulateFlow == <<"parse", "resolve", "act", "act", "save">>

ScrollPlanFlow == <<"parse", "resolve", "query", "act", "act", "save">>

\* with a click; installing the recorder is no input
TransitionTraceFlow == <<"parse", "resolve", "query", "act", "title", "save">>

CloseFlow == <<"parse", "resolve", "act", "save">>

\* a download's waiter has a handler for its rejection from the start
OpenFlow == <<"parse", "resolve", "page", "act", "assert", "save">>

\* a page with the URL is open already
OpenReusedFlow == <<"parse", "resolve", "title", "assert", "save">>

\* cookies of one session's browser for the other's
CookieCopyFlow == <<"parse", "resolve", "resolve", "act">>

-----------------------------------------------------------------------------
(* Commands that only look, apart from a reload that was asked for          *)

WaitFlow == <<"parse", "resolve", "wait", "assert", "title", "save">>

CountFlow == <<"parse", "resolve", "query", "read", "save">>

AttrFlow == <<"parse", "resolve", "query", "read", "save">>

FindFlow == <<"parse", "resolve", "query", "read", "save">>

\* once more with the help of a request, when the page yields nothing
ExtractFlow == <<"parse", "resolve", "query", "read", "title", "save">>

ReadFlow == <<"parse", "resolve", "query", "read", "title", "save">>

SnapshotFlow == <<"parse", "resolve", "query", "read", "title", "save">>

FramesFlow == <<"parse", "resolve", "read", "title", "save">>

ListFlow == <<"resolve", "title", "save">>

UrlAssertFlow == <<"parse", "resolve", "assert", "title", "save">>

HealthFlow == <<"parse", "resolve", "read", "title">>

HudFlow == HealthFlow

StyleFlow == <<"parse", "resolve", "query", "read", "save">>

ObserveFlow == <<"parse", "resolve", "query", "read", "save">>

\* an observe without its save, and a connection of its own for the save
MotionDetectFlow == <<"parse", "resolve", "query", "read", "resolve", "save">>

ScreenshotFlow == <<"parse", "resolve", "read", "file", "save">>

ConsoleTailFlow == <<"parse", "resolve", "reload">>

ConsoleGetFlow == ConsoleTailFlow

NetworkTailFlow == <<"parse", "resolve", "reload">>

NetworkFlow == <<"parse", "resolve", "reload", "title", "save">>

\* the record of the file is saved after the file is written
NetworkExportFlow == NetworkFlow \o <<"file", "save">>

NetworkCheckFlow == NetworkFlow

TraceExportFlow == NetworkFlow \o <<"file">>

TraceInsightFlow == NetworkFlow

-----------------------------------------------------------------------------
(* Commands that scroll or click in order to look                           *)

\* one scroll per step, each with a look at the element
ScrollSampleFlow == <<"parse", "resolve", "query", "act", "act", "save">>

\* installing the observer is no input
ScrollWatchFlow == <<"parse", "resolve", "query", "act", "act", "read", "save">>

\* a scroll watch without its save, and a connection of its own for the save
StickyCheckFlow == <<"parse", "resolve", "query", "act", "act", "read", "resolve", "save">>

\* a transition trace per cycle, each with a connection of its own
TransitionAssertFlow ==
  <<"parse", "resolve", "query", "act", "title", "resolve", "query", "act", "title",
    "resolve", "save">>

\* a scroll watch per candidate
RevealScanFlow ==
  <<"parse", "resolve", "query", "candidate", "candidate", "resolve", "save">>

-----------------------------------------------------------------------------
Flow ==
  [click |-> ClickFlow, clickHandle |-> ClickHandleFlow, clickAt |-> ClickAtFlow,
   fill |-> FillFlow, formFill |-> FormFillFlow, keypress |-> KeypressFlow,
   selectOption |-> SelectOptionFlow, dragDrop |-> DragDropFlow, hover |-> HoverFlow,
   spawn |-> SpawnFlow, dialog |-> DialogFlow, download |-> DownloadFlow,
   upload |-> UploadFlow, chooser |-> ChooserFlow, eval |-> EvalFlow,
   emulate |-> EmulateFlow, scrollPlan |-> ScrollPlanFlow,
   transitionTrace |-> TransitionTraceFlow, close |-> CloseFlow, open |-> OpenFlow,
   openReused |-> OpenReusedFlow, cookieCopy |-> CookieCopyFlow,
   wait |-> WaitFlow, count |-> CountFlow, attr |-> AttrFlow, find |-> FindFlow,
   extract |-> ExtractFlow, read |-> ReadFlow, snapshot |-> SnapshotFlow,
   frames |-> FramesFlow, list |-> ListFlow, urlAssert |-> UrlAssertFlow,
   health |-> HealthFlow, hud |-> HudFlow, style |-> StyleFlow, observe |-> ObserveFlow,
   motionDetect |-> MotionDetectFlow, screenshot |-> ScreenshotFlow,
   consoleTail |-> ConsoleTailFlow, consoleGet |-> ConsoleGetFlow,
   networkTail |-> NetworkTailFlow, network |-> NetworkFlow,
   networkExport |-> NetworkExportFlow, networkCheck |-> NetworkCheckFlow,
   traceExport |-> TraceExportFlow, traceInsight |-> TraceInsightFlow,
   scrollSample |-> ScrollSampleFlow, scrollWatch |-> ScrollWatchFlow,
   stickyCheck |-> StickyCheckFlow, transitionAssert |-> TransitionAssertFlow,
   revealScan |-> RevealScanFlow]

Kinds == DOMAIN Flow

Stages(kind) == {Flow[kind][i] : i \in 1..Len(Flow[kind])}

\* commands that send the page no input, but a reload they were asked for
Looking == {k \in Kinds : "act" \notin Stages(k) /\ "candidate" \notin Stages(k)}

\* the inputs a command of the kind sends when all goes well, at most
Intended(kind) ==
  CASE kind \in Looking -> IF "reload" \in Stages(kind) THEN 1 ELSE 0
    [] kind = "revealScan" -> 4
    [] kind = "chooser" -> 3
    [] kind \in {"formFill", "emulate", "scrollPlan", "dialog", "upload", "open",
                 "scrollSample", "scrollWatch", "stickyCheck", "transitionAssert"} -> 2
    [] OTHER -> 1
=============================================================================
