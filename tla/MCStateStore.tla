----------------------------- MODULE MCStateStore -----------------------------
(****************************************************************************)
(* Three processes with two attempts each: an attempt can be spoilt twice.  *)
(* One of them may crash, which leaves two to find its lock stale.          *)
(****************************************************************************)
EXTENDS StateStore, TLC

Symmetry == Permutations(Processes)
=============================================================================
