------------------------------- MODULE MCDaemon -------------------------------
(****************************************************************************)
(* Safety (MCDaemon.cfg): three commands at once, so that two wait when the *)
(* third crashes with the start lock; one worker.  Liveness                 *)
(* (MCDaemonFair.cfg): two commands and two workers, the second spawned     *)
(* while the first may still run.                                           *)
(****************************************************************************)
EXTENDS DaemonLifecycle, TLC

Symmetry == Permutations(Clients)
=============================================================================
