---------------------------- MODULE MCRuntimePool ----------------------------
(****************************************************************************)
(* A pool of two for four sessions, so that entries are evicted while       *)
(* others acquire, and an eviction can end after its victim's key is gone   *)
(* and the pool has filled up again.  One session is asked for at two       *)
(* origins, as after a restart of its browser on another port; timeouts are *)
(* reported for that session and one other.                                 *)
(****************************************************************************)
EXTENDS RuntimePool, TLC

CONSTANTS s1, s2, s3, s4, o1, o2, o3

OneOriginEach ==
  {[session |-> s1, origin |-> o1], [session |-> s2, origin |-> o3],
   [session |-> s3, origin |-> o3], [session |-> s4, origin |-> o3]}

MCRequests == OneOriginEach \cup {[session |-> s1, origin |-> o2]}

Referenced ==
  ({pool[k] : k \in Sessions} \cup {cmd[c].ref : c \in Commands}
     \cup {keeper[p].ref : p \in Keepers}) \ {None}

\* states that differ in objects nothing refers to, or in how a command that is
\* over ended, are the same to the program
MCView ==
  <<pool, keeper,
    [c \in Commands |-> IF cmd[c].at \in Ended THEN End("idle") ELSE cmd[c]],
    [e \in Referenced |-> entry[e]]>>

Symmetry == Permutations(Commands) \cup Permutations({s3, s4})
=============================================================================
