------------------------------ MODULE MCSession ------------------------------
(****************************************************************************)
(* Two commands at a time, on two sessions, over a state file that holds    *)
(* none, one or both of them.                                               *)
(****************************************************************************)
EXTENDS SessionLifecycle, TLC

Symmetry == Permutations(Commands)
=============================================================================
