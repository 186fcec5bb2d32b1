----------------------------- MODULE MCSideFiles -----------------------------
(****************************************************************************)
(* The systems that live on files beside the state store, each on its own:  *)
(* `system` says which one a behavior is about, the others stand still.     *)
(* Three processes each, so that one may clear the lock a second one left   *)
(* to a third; two updates at once, in histories of up to three entries,    *)
(* and two installers of a skill.                                           *)
(****************************************************************************)
EXTENDS TLC, ProfileSession, ExtensionRegistry, UpdateManager, MaintenanceKick,
        DiskPrune, SkillInstall

CONSTANTS p1, p2, p3, u1, u2, x, y, name, s1, s2

VARIABLE system

MCNameOf == [e \in {x, y} |-> name]

Symmetry == Permutations({p1, p2, p3}) \cup Permutations({u1, u2})

vars == <<system, profileVars, registryVars, updateVars, kickVars, pruneVars, skillVars>>

Init ==
  /\ system \in {"profile", "registry", "update", "kick", "prune", "skill"}
  /\ ProfileInit /\ RegistryInit /\ UpdateInit /\ KickInit /\ PruneInit /\ SkillInit
  /\ system # "profile" => \A p \in Procs : user[p].mode = "headless"
  /\ system # "update" => installed = 1
  /\ system # "kick" => stamp = Never /\ \A k \in Kickers : kicker[k].interval = 1

Next ==
  /\ UNCHANGED system
  /\ \/ /\ system = "profile" /\ ProfileNext
        /\ UNCHANGED <<registryVars, updateVars, kickVars, pruneVars, skillVars>>
     \/ /\ system = "registry" /\ RegistryNext
        /\ UNCHANGED <<profileVars, updateVars, kickVars, pruneVars, skillVars>>
     \/ /\ system = "update" /\ UpdateNext
        /\ UNCHANGED <<profileVars, registryVars, kickVars, pruneVars, skillVars>>
     \/ /\ system = "kick" /\ KickNext
        /\ UNCHANGED <<profileVars, registryVars, updateVars, pruneVars, skillVars>>
     \/ /\ system = "prune" /\ PruneNext
        /\ UNCHANGED <<profileVars, registryVars, updateVars, kickVars, skillVars>>
     \/ /\ system = "skill" /\ SkillNext
        /\ UNCHANGED <<profileVars, registryVars, updateVars, kickVars, pruneVars>>

Spec == Init /\ [][Next]_vars

\* The type invariant of the system that moves; the others stay as they began.
SideTypeOK ==
  /\ system = "profile" => ProfileTypeOK
  /\ system = "registry" => RegistryTypeOK
  /\ system = "update" => UpdateTypeOK
  /\ system = "kick" => KickTypeOK
  /\ system = "prune" => PruneTypeOK
  /\ system = "skill" => SkillTypeOK
=============================================================================
