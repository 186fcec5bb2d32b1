---------------------------- MODULE SkillInstall ----------------------------
(****************************************************************************)
(* `skill install` and `skill update` (core/skills/infra/manager.ts): a     *)
(* copy of the source directory is swapped in for the installed one, which  *)
(* is kept beside it until the swap is done; a lock file then records the   *)
(* digest, which `skill doctor` compares with what is installed.            *)
(*                                                                          *)
(* A skill stands for the contents of a directory whose manifest suits the  *)
(* program (another one is refused at once), Scrap for what a removal that  *)
(* failed has left.  Nothing is locked: an installer is interrupted between *)
(* calls of the file system, each of which may fail, and the source (each   *)
(* names its own) may become another skill meanwhile.  The file             *)
(* .install-meta.json is not part of the digest and nothing reads it.       *)
(*                                                                          *)
(* The backup is named by the millisecond: that two installers share one    *)
(* and remove each other's is left out.                                     *)
(****************************************************************************)
CONSTANTS Installers, Skills, NoSkill, Scrap

ASSUME SkillAssumption ==
  NoSkill \notin Skills /\ Scrap \notin Skills \cup {NoSkill}

VARIABLES
  dest,       \* the installed directory
  skillLock,  \* the skill that surfwright.lock.json records
  installer,  \* commands: [at, digest, staged, backup, created, found]; staged and
              \* backup are directories beside the installed one, found (history)
              \* is what was installed when the swap began
  had,        \* history: was a skill ever installed?
  torn,       \* history: did an installer die or fail to put its backup back?
  drifted     \* history: did commands overlap, did a source change under one,
              \* or did one end between the swap and the lock?

skillVars == <<dest, skillLock, installer, had, torn, drifted>>

MaybeSkill == Skills \cup {NoSkill}
Directory == MaybeSkill \cup {Scrap}

Steps == {"off", "stage", "look", "away", "in", "tidy", "undo",
          "restore", "meta", "lock"}

Installer == [at : Steps, digest : MaybeSkill, staged : MaybeSkill,
              backup : Directory, found : Directory, created : BOOLEAN]

SkillTypeOK ==
  /\ dest \in Directory /\ skillLock \in MaybeSkill
  /\ installer \in [Installers -> Installer]
  /\ {had, torn, drifted} \subseteq BOOLEAN

Off == [at |-> "off", digest |-> NoSkill, staged |-> NoSkill,
        backup |-> NoSkill, found |-> NoSkill, created |-> FALSE]

SkillInit ==
  /\ dest = NoSkill /\ skillLock = NoSkill
  /\ installer = [i \in Installers |-> Off]
  /\ had = FALSE /\ torn = FALSE /\ drifted = FALSE

AllOff == \A i \in Installers : installer[i].at = "off"

Becomes(i, next) == installer' = [installer EXCEPT ![i] = next]

Goes(i, step) == Becomes(i, [installer[i] EXCEPT !.at = step])

\* The installer reports an error.  From the swap to the lock it leaves a
\* skill that the lock does not record.
Ends(i) ==
  /\ Becomes(i, Off)
  /\ drifted' = (drifted \/ installer[i].at \in {"tidy", "meta", "lock"})

\* nothing is installed, and this installer is still to do something about it
MovedAway(i) ==
  dest = NoSkill /\ installer[i].created /\ installer[i].at \in {"in", "undo", "restore"}

-----------------------------------------------------------------------------
(* Before the swap                                                          *)

\* resolveSource, readManifest, checkCompatibility and computeDigest
CheckSource(i, skill) ==
  /\ installer[i].at = "off"
  /\ Becomes(i, [installer[i] EXCEPT !.at = "stage", !.digest = skill])
  /\ drifted' = (drifted \/ ~AllOff)
  /\ UNCHANGED <<dest, skillLock, had, torn>>

\* the source is copied, as it is by now
Stage(i, skill) ==
  /\ installer[i].at = "stage"
  /\ Becomes(i, [installer[i] EXCEPT !.at = "look", !.staged = skill])
  /\ drifted' = (drifted \/ skill # installer[i].digest)
  /\ UNCHANGED <<dest, skillLock, had, torn>>

\* the copy fails; what it left has a name of its own
StageFails(i) ==
  /\ installer[i].at = "stage"
  /\ Ends(i)
  /\ UNCHANGED <<dest, skillLock, had, torn>>

-----------------------------------------------------------------------------
(* The swap: atomicInstall, from the existsSync of the destination on       *)

DestinationExists(i) ==
  /\ installer[i].at = "look"
  /\ Becomes(i, [installer[i] EXCEPT !.at = IF dest # NoSkill THEN "away" ELSE "in",
                                     !.found = dest])
  /\ UNCHANGED <<dest, skillLock, had, torn, drifted>>

\* nothing has the backup's name; a directory is not renamed onto one with files
MoveAway(i) ==
  /\ installer[i].at = "away"
  /\ dest # NoSkill
  /\ dest' = NoSkill
  /\ Becomes(i, [installer[i] EXCEPT !.at = "in", !.backup = dest, !.created = TRUE])
  /\ UNCHANGED <<skillLock, had, torn, drifted>>

MoveIn(i) ==
  /\ installer[i].at = "in"
  /\ dest = NoSkill
  /\ dest' = installer[i].staged /\ had' = TRUE
  /\ Becomes(i, [installer[i] EXCEPT !.at = IF installer[i].created THEN "tidy" ELSE "meta",
                                     !.staged = NoSkill])
  /\ UNCHANGED <<skillLock, torn, drifted>>

Tidy(i) ==
  /\ installer[i].at = "tidy"
  /\ Becomes(i, [installer[i] EXCEPT !.at = "meta", !.backup = NoSkill, !.found = NoSkill])
  /\ UNCHANGED <<dest, skillLock, had, torn, drifted>>

\* Any call of the swap fails, because of what another installer did or for
\* a reason of the file system.  A removal that stops halfway leaves a directory
\* with fewer files, or all of them, or none.
SwapFails(i) ==
  /\ installer[i].at \in {"away", "in", "tidy"}
  /\ \E rest \in {installer[i].backup, Scrap, NoSkill} :
       /\ rest # installer[i].backup => installer[i].at = "tidy"
       /\ Becomes(i, [installer[i] EXCEPT !.at = "undo", !.backup = rest])
  /\ drifted' = (drifted \/ installer[i].at = "tidy")
  /\ UNCHANGED <<dest, skillLock, had, torn>>

\* MUTANT: the catch block only cleans up
Undo_CleansOnly(i) ==
  /\ installer[i].at = "undo"
  /\ Ends(i)
  /\ UNCHANGED <<dest, skillLock, had, torn>>

\* the catch block looks for the backup and for the destination ...
Undo(i) ==
  /\ installer[i].at = "undo"
  /\ IF installer[i].created /\ installer[i].backup # NoSkill /\ dest = NoSkill
     THEN Goes(i, "restore") /\ UNCHANGED drifted
     ELSE Ends(i)
  /\ UNCHANGED <<dest, skillLock, had, torn>>

\* ... and puts it back, unless another installer's skill is there by now
Restore(i) ==
  /\ installer[i].at = "restore"
  /\ dest' = IF dest = NoSkill THEN installer[i].backup ELSE dest
  /\ Ends(i)
  /\ UNCHANGED <<skillLock, had, torn>>

\* removing the copy fails before the backup is back, or renaming it does
RestoreFails(i) ==
  /\ installer[i].at \in {"undo", "restore"}
  /\ Ends(i)
  /\ torn' = (torn \/ MovedAway(i))
  /\ UNCHANGED <<dest, skillLock, had>>

-----------------------------------------------------------------------------
(* After the swap                                                           *)

\* into the directory that is there by now, if there is one
WriteInstallMeta(i) ==
  /\ installer[i].at = "meta"
  /\ dest # NoSkill
  /\ Goes(i, "lock")
  /\ UNCHANGED <<dest, skillLock, had, torn, drifted>>

WriteSkillLock(i) ==
  /\ installer[i].at = "lock"
  /\ skillLock' = installer[i].digest
  /\ Becomes(i, Off)
  /\ UNCHANGED <<dest, had, torn, drifted>>

WriteFails(i) ==
  /\ installer[i].at \in {"meta", "lock"}
  /\ Ends(i)
  /\ UNCHANGED <<dest, skillLock, had, torn>>

-----------------------------------------------------------------------------
(* Around the installers                                                    *)

InstallerDies(i) ==
  /\ installer[i].at # "off"
  /\ Ends(i)
  /\ torn' = (torn \/ MovedAway(i))
  /\ UNCHANGED <<dest, skillLock, had>>

InstallerStep(i) ==
  \/ \E skill \in Skills : CheckSource(i, skill) \/ Stage(i, skill)
  \/ StageFails(i) \/ DestinationExists(i) \/ MoveAway(i) \/ MoveIn(i) \/ Tidy(i)
  \/ SwapFails(i) \/ Undo(i) \/ Restore(i) \/ RestoreFails(i) \/ WriteInstallMeta(i)
  \/ WriteSkillLock(i) \/ WriteFails(i) \/ InstallerDies(i)

SkillNext == \E i \in Installers : InstallerStep(i)

SkillSpec == SkillInit /\ [][SkillNext]_skillVars

-----------------------------------------------------------------------------
(* skill doctor, and properties                                             *)

SkillDoctor ==
  IF skillLock = NoSkill THEN "missing"
  ELSE IF dest = skillLock THEN "match" ELSE "drift"

\* Once a skill is installed there is one, whatever installers overlap and
\* whatever call of theirs fails: it is gone only while some installer that
\* moved it away is still at work, or for good if such an installer died or could
\* not put it back.  As long as commands ran one at a time and none ended between
\* the swap and the lock, a complete skill is installed and `skill doctor` finds
\* it as recorded.
SkillIsKept ==
  /\ had /\ dest = NoSkill =>
       torn \/ \E i \in Installers : MovedAway(i)
  /\ AllOff /\ ~drifted /\ ~torn =>
       IF had THEN dest \in Skills /\ SkillDoctor = "match" ELSE SkillDoctor = "missing"

\* docs/skills-lifecycle.md:36: "If atomic swap fails, previous install state is
\* restored."  A command that reports a failed swap (and could do its clean-up)
\* leaves what it found.
FailedSwapsAreUndone ==
  [][\A i \in Installers :
       (Undo(i) \/ Restore(i)) /\ installer'[i].at = "off" => dest' = installer[i].found]_skillVars
=============================================================================
