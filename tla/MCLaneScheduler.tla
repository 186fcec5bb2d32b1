--------------------------- MODULE MCLaneScheduler ---------------------------
(****************************************************************************)
(* Three lanes compete for two places, and the commands of one may stall.   *)
(* A lane can have one command running and two queued (its depth cap): a    *)
(* caller whose command has settled comes back before the `finally` of that *)
(* command, so that three callers are enough for a refusal.                 *)
(****************************************************************************)
EXTENDS LaneScheduler
=============================================================================
