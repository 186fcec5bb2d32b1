---------------------------- MODULE SideFileProofs -----------------------------
(****************************************************************************)
(* Theorems about the systems on files of their own, for any set of         *)
(* processes and every bound: the maintenance kick, the install of the      *)
(* skill, updates and their history, the registry of extensions and the     *)
(* prune of profiles; those about profiles are ProfileSessionProofs.        *)
(****************************************************************************)
EXTENDS MCSideFiles, ProfileSessionProofs, FiniteSetTheorems, WellFoundedInduction, TLAPS

-----------------------------------------------------------------------------
(* The kick                                                                 *)

Critical == {"check", "stamp", "keep", "give"}

Kicking ==
  [at : {"off", "create", "stat", "unlink", "check", "stamp", "keep", "give",
         "spawn", "idle", "ended"},
   attempt : 0..2, interval : Intervals]

\* Unless a lock was stolen, whoever is between the creation and the removal of
\* the lock file created it, and whoever goes on to write the stamp has seen the
\* slot before long enough ago: nobody else can have written it since.
LockIsHeld ==
  ~stolen => \A k \in Kickers : kicker[k].at \in Critical => kickLock = k

SlotIsFree ==
  ~stolen => \A k \in Kickers :
    kicker[k].at = "stamp" /\ stamp # Never => time - stamp >= kicker[k].interval

KickInv == KickTypeOK /\ LockIsHeld /\ SlotIsFree

LEMMA InitKickInv ==
  ASSUME KickInit
  PROVE  KickInv
<1>1. PICK i \in Intervals :
        kicker = [k \in Kickers |-> [at |-> "off", attempt |-> 0, interval |-> i]]
  BY DEF KickInit
<1>2. KickTypeOK
  <2>1. kicker \in [Kickers -> Kicking]
    BY <1>1 DEF Kicking
  <2>2. time \in 0..MaxTime /\ stamp \in 0..MaxTime \cup {Never}
    BY KickAssumption DEF KickInit
  <2>3. kickLock \in Kickers \cup {NoKicker} /\ aged \in BOOLEAN /\ stolen \in BOOLEAN
    BY DEF KickInit
  <2> QED
    BY <2>1, <2>2, <2>3 DEF KickTypeOK, Kicking
<1>3. LockIsHeld /\ SlotIsFree
  BY <1>1 DEF LockIsHeld, SlotIsFree, Critical
<1> QED
  BY <1>2, <1>3 DEF KickInv

\* Every step keeps the types.
LEMMA KickTypes ==
  ASSUME KickTypeOK, KickNext
  PROVE  KickTypeOK'
<1> USE KickAssumption DEF KickTypeOK, KickerGoes, Never
<1>1. ASSUME NEW k \in Kickers, Kick(k)
      PROVE  KickTypeOK'
  BY <1>1 DEF Kick
<1>2. ASSUME NEW k \in Kickers, CreateKickLock(k)
      PROVE  KickTypeOK'
  <2>1. PICK at \in {"check", "stat"} : kicker' = [kicker EXCEPT ![k].at = at]
    BY <1>2 DEF CreateKickLock
  <2>2. kicker' \in [Kickers -> Kicking]
    BY <2>1 DEF Kicking
  <2>3. kickLock' \in Kickers \cup {NoKicker}
    BY <1>2 DEF CreateKickLock
  <2>4. aged' \in BOOLEAN
    BY <1>2 DEF CreateKickLock
  <2> QED
    BY <1>2, <2>2, <2>3, <2>4 DEF CreateKickLock, Kicking
<1>3. ASSUME NEW k \in Kickers, StatKickLock(k)
      PROVE  KickTypeOK'
  BY <1>3 DEF StatKickLock
<1>4. ASSUME NEW k \in Kickers, UnlinkKickLock(k)
      PROVE  KickTypeOK'
  <2>1. PICK at \in {"create", "idle"} :
          kicker' = [kicker EXCEPT ![k].at = at, ![k].attempt = 2]
    BY <1>4 DEF UnlinkKickLock
  <2>2. stolen' \in BOOLEAN
    BY <1>4 DEF UnlinkKickLock, Running
  <2>3. kicker' \in [Kickers -> Kicking]
    <3>1. kicker \in [Kickers -> Kicking]
      BY DEF Kicking
    <3>2. [kicker[k] EXCEPT !.at = at] \in Kicking
      BY <3>1 DEF Kicking
    <3> DEFINE moved == [kicker EXCEPT ![k].at = at]
    <3>3. moved \in [Kickers -> Kicking]
      BY <3>1, <3>2
    <3>4. kicker' = [moved EXCEPT ![k].attempt = 2]
      BY <2>1
    <3> HIDE DEF moved
    <3>5. [moved[k] EXCEPT !.attempt = 2] \in Kicking
      BY <3>3 DEF Kicking
    <3> QED
      BY <3>3, <3>4, <3>5
  <2>4. kickLock' \in Kickers \cup {NoKicker} /\ aged' \in BOOLEAN
    BY <1>4 DEF UnlinkKickLock
  <2>5. time' \in 0..MaxTime /\ stamp' \in 0..MaxTime \cup {Never}
    BY <1>4 DEF UnlinkKickLock
  <2> QED
    BY <2>2, <2>3, <2>4, <2>5 DEF Kicking
<1>5. ASSUME NEW k \in Kickers, ReleaseKickLock(k)
      PROVE  KickTypeOK'
  BY <1>5 DEF ReleaseKickLock
<1>6. ASSUME NEW k \in Kickers, CheckStamp(k) \/ WriteStamp(k) \/ SpawnMaintenance(k)
      PROVE  KickTypeOK'
  BY <1>6 DEF CheckStamp, WriteStamp, SpawnMaintenance
<1>7. ASSUME NEW k \in Kickers, KickerDies(k)
      PROVE  KickTypeOK'
  BY <1>7 DEF KickerDies
<1>8. CASE KickLockAges
  BY <1>8 DEF KickLockAges
<1>9. CASE TimePasses
  <2>1. time' \in 0..MaxTime
    BY <1>9 DEF TimePasses
  <2> QED
    BY <1>9, <2>1 DEF TimePasses
<1> QED
  BY <1>1, <1>2, <1>3, <1>4, <1>5, <1>6, <1>7, <1>8, <1>9 DEF KickNext

\* Every step keeps the rest of the invariant.
LEMMA KickSteps ==
  ASSUME KickInv, KickNext, KickTypeOK'
  PROVE  LockIsHeld' /\ SlotIsFree'
<1> USE KickAssumption DEF KickInv, KickTypeOK, KickerGoes, Never, Critical, LockIsHeld, SlotIsFree
<1>1. ASSUME NEW k \in Kickers, Kick(k)
      PROVE  LockIsHeld' /\ SlotIsFree'
  BY <1>1 DEF Kick
<1>2. ASSUME NEW k \in Kickers, CreateKickLock(k)
      PROVE  LockIsHeld' /\ SlotIsFree'
  BY <1>2 DEF CreateKickLock
<1>3. ASSUME NEW k \in Kickers, StatKickLock(k)
      PROVE  LockIsHeld' /\ SlotIsFree'
  BY <1>3 DEF StatKickLock
<1>4. ASSUME NEW k \in Kickers, UnlinkKickLock(k)
      PROVE  LockIsHeld' /\ SlotIsFree'
  \* nobody critical runs: the lock would have been its own, and stolen now
  BY <1>4 DEF UnlinkKickLock, Running
<1>5. ASSUME NEW k \in Kickers, ReleaseKickLock(k)
      PROVE  LockIsHeld' /\ SlotIsFree'
  BY <1>5 DEF ReleaseKickLock
<1>6. ASSUME NEW k \in Kickers, CheckStamp(k)
      PROVE  LockIsHeld' /\ SlotIsFree'
  BY <1>6 DEF CheckStamp
<1>7. ASSUME NEW k \in Kickers, WriteStamp(k)
      PROVE  LockIsHeld' /\ SlotIsFree'
  \* nobody else is critical
  BY <1>7 DEF WriteStamp
<1>8. ASSUME NEW k \in Kickers, SpawnMaintenance(k) \/ KickerDies(k)
      PROVE  LockIsHeld' /\ SlotIsFree'
  BY <1>8 DEF SpawnMaintenance, KickerDies
<1>9. CASE KickLockAges
  BY <1>9 DEF KickLockAges
<1>10. CASE TimePasses
  <2>1. LockIsHeld'
    BY <1>10 DEF TimePasses
  <2>2. SlotIsFree'
    <3>1. stamp # Never => stamp \in Nat
      OBVIOUS
    <3>2. time \in Nat /\ time' = time + 1
      BY <1>10 DEF TimePasses
    <3>3. \A k \in Kickers : kicker[k].interval \in Nat
      OBVIOUS
    <3> QED
      BY <1>10, <3>1, <3>2, <3>3 DEF TimePasses
  <2> QED
    BY <2>1, <2>2
<1> QED
  BY <1>1, <1>2, <1>3, <1>4, <1>5, <1>6, <1>7, <1>8, <1>9, <1>10 DEF KickNext

\* The inductive invariant holds in every reachable state.
THEOREM KickInvariance == KickSpec => []KickInv
<1>1. KickInit => KickInv
  BY InitKickInv
<1>2. KickInv /\ [KickNext]_kickVars => KickInv'
  <2>1. KickInv /\ KickNext => KickInv'
    BY KickTypes, KickSteps DEF KickInv
  <2>2. KickInv /\ UNCHANGED kickVars => KickInv'
    BY DEF kickVars, KickInv, KickTypeOK, LockIsHeld, SlotIsFree
  <2> QED
    BY <2>1, <2>2
<1> QED
  BY <1>1, <1>2, PTL DEF KickSpec

\* The state of the kick is well typed: nobody tries more often than twice.
THEOREM KickTypeCorrect == KickSpec => []KickTypeOK
<1>1. KickInv => KickTypeOK
  BY DEF KickInv
<1> QED
  BY <1>1, KickInvariance, PTL

\* A process that stamps a slot leaves its interval to the one before, unless the
\* lock of a live process was stolen.
THEOREM Spaced == KickSpec => KicksAreSpaced
<1> DEFINE A == \A k \in Kickers :
       kicker[k].at = "stamp" /\ kicker'[k].at = "keep" /\ stamp # Never /\ ~stolen
         => stamp' - stamp >= kicker[k].interval
<1>1. KickInv /\ [KickNext]_kickVars => [A]_kickVars
  <2> SUFFICES ASSUME KickInv, KickNext, NEW k \in Kickers,
                      kicker[k].at = "stamp", kicker'[k].at = "keep", stamp # Never, ~stolen
               PROVE  stamp' - stamp >= kicker[k].interval
    OBVIOUS
  <2>1. WriteStamp(k)
    BY DEF KickNext, Kick, CreateKickLock, StatKickLock, UnlinkKickLock, ReleaseKickLock,
      CheckStamp, WriteStamp, SpawnMaintenance, KickerDies, KickLockAges, TimePasses,
      KickerGoes, KickInv, KickTypeOK
  <2> QED
    BY <2>1 DEF WriteStamp, KickInv, SlotIsFree
<1> QED
  BY <1>1, KickInvariance, PTL DEF KickSpec, KicksAreSpaced
-----------------------------------------------------------------------------
(* The skill                                                                *)

\* the installer moved the installed skill away and nothing in its place
Holds(i) ==
  /\ installer[i].created /\ installer[i].staged # NoSkill
  /\ installer[i].at \in {"in", "undo", "restore"}

\* What an installer has beside the destination when it needs it.
Copies(i) ==
  /\ installer[i].at # "off" => installer[i].digest \in Skills
  /\ installer[i].at \in {"look", "away", "in"} => installer[i].staged \in Skills
  /\ installer[i].at \in {"off", "stage", "look", "away"} => ~installer[i].created
  /\ installer[i].at \in {"tidy", "meta", "lock"} => installer[i].staged = NoSkill
  /\ Holds(i) \/ installer[i].at = "restore" => installer[i].backup # NoSkill

CopiesPart == \A i \in Installers : Copies(i)

\* If the skill is gone, somebody has it and will put it back, or could not.
KeptPart ==
  had /\ dest = NoSkill => torn \/ \E i \in Installers : Holds(i)

Recorded ==
  /\ had => dest \in Skills /\ dest = skillLock
  /\ ~had => dest = NoSkill /\ skillLock = NoSkill

\* Where a command that runs alone has got to.
Alone(i) ==
  /\ \A j \in Installers : installer[j].at # "off" => j = i
  /\ installer[i].at \in {"stage", "look", "away"} => Recorded
  /\ installer[i].at \in {"look", "away", "in"} => installer[i].staged = installer[i].digest
  /\ installer[i].at \in {"in", "undo"} /\ ~installer[i].created => Recorded
  /\ installer[i].at \in {"in", "undo", "restore"} /\ installer[i].created =>
       had /\ dest = NoSkill /\ installer[i].backup = skillLock /\ skillLock \in Skills
  /\ installer[i].at = "restore" => installer[i].created
  /\ installer[i].at \in {"tidy", "meta", "lock"} =>
       had /\ dest \in Skills /\ dest = installer[i].digest

SerialPart ==
  ~drifted /\ ~torn =>
    /\ AllOff => Recorded
    /\ \A i \in Installers : installer[i].at # "off" => Alone(i)

SkillInv == SkillTypeOK /\ CopiesPart /\ KeptPart /\ SerialPart
LEMMA BecomesTyped ==
  ASSUME installer \in [Installers -> Installer], NEW i \in Installers,
         NEW next \in Installer, Becomes(i, next)
  PROVE  /\ installer' \in [Installers -> Installer]
         /\ installer'[i] = next
         /\ \A j \in Installers : j # i => installer'[j] = installer[j]
BY DEF Becomes

\* Every step keeps the types and is of one installer.
LEMMA SkillTypes ==
  ASSUME SkillTypeOK, NEW i \in Installers, InstallerStep(i)
  PROVE  /\ SkillTypeOK'
         /\ \A j \in Installers : j # i => installer'[j] = installer[j]
<1> USE SkillAssumption DEF SkillTypeOK, Directory, MaybeSkill
<1>1. PICK next \in Installer : Becomes(i, next)
  <2> USE DEF Installer, Steps, Goes, Off, Ends
  <2>1. installer[i] \in Installer
    OBVIOUS
  <2>2. ASSUME NEW skill \in Skills, CheckSource(i, skill) \/ Stage(i, skill)
        PROVE  \E next \in Installer : Becomes(i, next)
    BY <2>1, <2>2 DEF CheckSource, Stage
  <2>3. CASE StageFails(i) \/ WriteFails(i) \/ InstallerDies(i) \/ RestoreFails(i)
             \/ WriteSkillLock(i) \/ Restore(i)
    BY <2>3 DEF StageFails, WriteFails, InstallerDies, RestoreFails, WriteSkillLock, Restore
  <2>4. CASE DestinationExists(i) \/ MoveAway(i)
    BY <2>1, <2>4 DEF DestinationExists, MoveAway
  <2>5. CASE MoveIn(i) \/ Tidy(i) \/ WriteInstallMeta(i)
    BY <2>1, <2>5 DEF MoveIn, Tidy, WriteInstallMeta
  <2>6. CASE SwapFails(i) \/ Undo(i)
    BY <2>1, <2>6 DEF SwapFails, Undo
  <2> QED
    BY <2>2, <2>3, <2>4, <2>5, <2>6 DEF InstallerStep
<1>2. /\ installer' \in [Installers -> Installer]
      /\ \A j \in Installers : j # i => installer'[j] = installer[j]
  BY <1>1, BecomesTyped
<1>3. dest' \in Directory
  BY DEF InstallerStep, CheckSource, Stage, StageFails, DestinationExists, MoveAway, MoveIn,
         Tidy, SwapFails, Undo, Restore, RestoreFails, WriteInstallMeta, WriteSkillLock,
         WriteFails, InstallerDies, Installer
<1>4. skillLock' \in MaybeSkill
  BY DEF InstallerStep, CheckSource, Stage, StageFails, DestinationExists, MoveAway, MoveIn,
         Tidy, SwapFails, Undo, Restore, RestoreFails, WriteInstallMeta, WriteSkillLock,
         WriteFails, InstallerDies, Installer
<1>5. had' \in BOOLEAN /\ torn' \in BOOLEAN /\ drifted' \in BOOLEAN
  BY DEF InstallerStep, CheckSource, Stage, StageFails, DestinationExists, MoveAway, MoveIn,
         Tidy, SwapFails, Undo, Restore, RestoreFails, WriteInstallMeta, WriteSkillLock,
         WriteFails, InstallerDies, Ends
<1> QED
  BY <1>2, <1>3, <1>4, <1>5

\* Of what concerns several installers it is enough to look at the one that moves.
LEMMA OthersKeep ==
  ASSUME NEW i \in Installers, CopiesPart, KeptPart, Copies(i)',
         \A j \in Installers : j # i => installer'[j] = installer[j],
         had' /\ dest' = NoSkill /\ ~torn' =>
           Holds(i)' \/ (had /\ dest = NoSkill /\ ~torn /\ ~Holds(i))
  PROVE  CopiesPart' /\ KeptPart'
<1>1. ASSUME NEW j \in Installers, j # i
      PROVE  Copies(j)' /\ (Holds(j) => Holds(j)')
  BY <1>1 DEF CopiesPart, Copies, Holds
<1>2. CopiesPart'
  BY <1>1 DEF CopiesPart
<1>3. KeptPart'
  BY <1>1 DEF KeptPart
<1> QED
  BY <1>2, <1>3

\* A step other than the end of a command keeps the rest of the invariant ...
LEMMA SkillSteps ==
  ASSUME SkillInv, NEW i \in Installers, InstallerStep(i), installer'[i].at # "off"
  PROVE  CopiesPart' /\ KeptPart' /\ SerialPart'
<1> USE SkillAssumption
<1>1. \A j \in Installers : j # i => installer'[j] = installer[j]
  BY SkillTypes DEF SkillInv
<1>2. /\ installer \in [Installers -> Installer] /\ installer[i] \in Installer
      /\ Copies(i) /\ CopiesPart /\ KeptPart /\ SerialPart /\ dest \in Directory
  BY DEF SkillInv, SkillTypeOK, CopiesPart
<1>3. ASSUME NEW skill \in Skills, CheckSource(i, skill)
      PROVE  CopiesPart' /\ KeptPart' /\ SerialPart'
  <2>1. /\ installer'[i].at = "stage" /\ installer'[i].digest = skill
        /\ installer'[i].staged = installer[i].staged /\ installer'[i].backup = installer[i].backup
        /\ installer'[i].created = installer[i].created
    BY <1>2, <1>3 DEF CheckSource, Becomes, Installer
  <2>2. Copies(i)'
    BY <1>2, <1>3, <2>1 DEF CheckSource, Copies, Holds
  <2>3. had' /\ dest' = NoSkill /\ ~torn' =>
          Holds(i)' \/ (had /\ dest = NoSkill /\ ~torn /\ ~Holds(i))
    BY <1>2, <1>3, <2>1 DEF CheckSource, Copies, Holds
  <2>4. SerialPart'
    BY <1>1, <1>2, <1>3, <2>1 DEF CheckSource, SerialPart, Alone, AllOff, Recorded, Copies
  <2> QED
    BY <1>1, <1>2, <2>2, <2>3, <2>4, OthersKeep
<1>4. ASSUME NEW skill \in Skills, Stage(i, skill)
      PROVE  CopiesPart' /\ KeptPart' /\ SerialPart'
  <2>1. /\ installer'[i].at = "look" /\ installer'[i].digest = installer[i].digest
        /\ installer'[i].staged = skill /\ installer'[i].backup = installer[i].backup
        /\ installer'[i].created = installer[i].created
    BY <1>2, <1>4 DEF Stage, Becomes, Installer
  <2>2. Copies(i)'
    BY <1>2, <1>4, <2>1 DEF Stage, Copies, Holds
  <2>3. had' /\ dest' = NoSkill /\ ~torn' =>
          Holds(i)' \/ (had /\ dest = NoSkill /\ ~torn /\ ~Holds(i))
    BY <1>2, <1>4, <2>1 DEF Stage, Copies, Holds
  <2>4. SerialPart'
    BY <1>1, <1>2, <1>4, <2>1 DEF Stage, SerialPart, Alone, AllOff, Recorded, Copies
  <2> QED
    BY <1>1, <1>2, <2>2, <2>3, <2>4, OthersKeep
<1>5. CASE DestinationExists(i)
  <2>1. /\ installer'[i].at = (IF dest # NoSkill THEN "away" ELSE "in") /\ installer'[i].digest = installer[i].digest
        /\ installer'[i].staged = installer[i].staged /\ installer'[i].backup = installer[i].backup
        /\ installer'[i].created = installer[i].created
    BY <1>2, <1>5 DEF DestinationExists, Becomes, Installer
  <2>2. Copies(i)'
    BY <1>2, <1>5, <2>1 DEF DestinationExists, Copies, Holds
  <2>3. had' /\ dest' = NoSkill /\ ~torn' =>
          Holds(i)' \/ (had /\ dest = NoSkill /\ ~torn /\ ~Holds(i))
    BY <1>2, <1>5, <2>1 DEF DestinationExists, Copies, Holds
  <2>4. SerialPart'
    BY <1>1, <1>2, <1>5, <2>1 DEF DestinationExists, SerialPart, Alone, AllOff, Recorded, Copies
  <2> QED
    BY <1>1, <1>2, <2>2, <2>3, <2>4, OthersKeep
<1>6. CASE MoveAway(i)
  <2>1. /\ installer'[i].at = "in" /\ installer'[i].digest = installer[i].digest
        /\ installer'[i].staged = installer[i].staged /\ installer'[i].backup = dest
        /\ installer'[i].created = TRUE
    BY <1>2, <1>6 DEF MoveAway, Becomes, Installer
  <2>2. Copies(i)'
    BY <1>2, <1>6, <2>1 DEF MoveAway, Copies, Holds
  <2>3. had' /\ dest' = NoSkill /\ ~torn' =>
          Holds(i)' \/ (had /\ dest = NoSkill /\ ~torn /\ ~Holds(i))
    BY <1>2, <1>6, <2>1 DEF MoveAway, Copies, Holds
  <2>4. SerialPart'
    BY <1>1, <1>2, <1>6, <2>1 DEF MoveAway, SerialPart, Alone, AllOff, Recorded, Copies
  <2> QED
    BY <1>1, <1>2, <2>2, <2>3, <2>4, OthersKeep
<1>7. CASE MoveIn(i)
  <2>1. /\ installer'[i].at = (IF installer[i].created THEN "tidy" ELSE "meta") /\ installer'[i].digest = installer[i].digest
        /\ installer'[i].staged = NoSkill /\ installer'[i].backup = installer[i].backup
        /\ installer'[i].created = installer[i].created
    BY <1>2, <1>7 DEF MoveIn, Becomes, Installer
  <2>2. Copies(i)'
    BY <1>2, <1>7, <2>1 DEF MoveIn, Copies, Holds
  <2>3. had' /\ dest' = NoSkill /\ ~torn' =>
          Holds(i)' \/ (had /\ dest = NoSkill /\ ~torn /\ ~Holds(i))
    BY <1>2, <1>7, <2>1 DEF MoveIn, Copies, Holds
  <2>4. SerialPart'
    BY <1>1, <1>2, <1>7, <2>1 DEF MoveIn, SerialPart, Alone, AllOff, Recorded, Copies
  <2> QED
    BY <1>1, <1>2, <2>2, <2>3, <2>4, OthersKeep
<1>8. CASE Tidy(i)
  <2>1. /\ installer'[i].at = "meta" /\ installer'[i].digest = installer[i].digest
        /\ installer'[i].staged = installer[i].staged /\ installer'[i].backup = NoSkill
        /\ installer'[i].created = installer[i].created
    BY <1>2, <1>8 DEF Tidy, Becomes, Installer
  <2>2. Copies(i)'
    BY <1>2, <1>8, <2>1 DEF Tidy, Copies, Holds
  <2>3. had' /\ dest' = NoSkill /\ ~torn' =>
          Holds(i)' \/ (had /\ dest = NoSkill /\ ~torn /\ ~Holds(i))
    BY <1>2, <1>8, <2>1 DEF Tidy, Copies, Holds
  <2>4. SerialPart'
    BY <1>1, <1>2, <1>8, <2>1 DEF Tidy, SerialPart, Alone, AllOff, Recorded, Copies
  <2> QED
    BY <1>1, <1>2, <2>2, <2>3, <2>4, OthersKeep
<1>9. CASE SwapFails(i)
  <2>1. /\ installer'[i].at = "undo" /\ installer'[i].digest = installer[i].digest
        /\ installer'[i].staged = installer[i].staged /\ installer'[i].created = installer[i].created
        /\ installer'[i].backup # installer[i].backup => installer[i].at = "tidy"
    BY <1>2, <1>9 DEF SwapFails, Becomes, Installer
  <2>2. Copies(i)'
    BY <1>2, <1>9, <2>1 DEF SwapFails, Copies, Holds
  <2>3. had' /\ dest' = NoSkill /\ ~torn' =>
          Holds(i)' \/ (had /\ dest = NoSkill /\ ~torn /\ ~Holds(i))
    BY <1>2, <1>9, <2>1 DEF SwapFails, Copies, Holds
  <2>4. SerialPart'
    <3>1. CASE installer[i].at = "tidy"
      BY <1>9, <3>1 DEF SwapFails, SerialPart
    <3>2. CASE installer[i].at # "tidy"
      <4>1. installer[i].at \in {"away", "in"} /\ installer'[i].backup = installer[i].backup
            /\ drifted' = drifted /\ dest' = dest /\ skillLock' = skillLock
            /\ had' = had /\ torn' = torn
        BY <1>2, <1>9, <2>1, <3>2 DEF SwapFails, SkillInv, SkillTypeOK
      <4> QED
        BY <1>1, <1>2, <2>1, <4>1 DEF SerialPart, Alone, AllOff, Recorded, Copies
    <3> QED
      BY <3>1, <3>2
  <2> QED
    BY <1>1, <1>2, <2>2, <2>3, <2>4, OthersKeep
<1>10. CASE Undo(i)
  <2>1. /\ installer'[i].at = "restore" /\ installer'[i].digest = installer[i].digest
        /\ installer'[i].staged = installer[i].staged /\ installer'[i].backup = installer[i].backup
        /\ installer'[i].created = installer[i].created /\ drifted' = drifted
        /\ installer[i].created /\ installer[i].backup # NoSkill /\ dest = NoSkill
    BY <1>2, <1>10 DEF Undo, Becomes, Installer, Goes, Ends, Off
  <2>2. Copies(i)'
    BY <1>2, <1>10, <2>1 DEF Undo, Copies, Holds
  <2>3. had' /\ dest' = NoSkill /\ ~torn' =>
          Holds(i)' \/ (had /\ dest = NoSkill /\ ~torn /\ ~Holds(i))
    BY <1>2, <1>10, <2>1 DEF Undo, Copies, Holds
  <2>4. SerialPart'
    BY <1>1, <1>2, <1>10, <2>1 DEF Undo, SerialPart, Alone, AllOff, Recorded, Copies
  <2> QED
    BY <1>1, <1>2, <2>2, <2>3, <2>4, OthersKeep
<1>11. CASE WriteInstallMeta(i)
  <2>1. /\ installer'[i].at = "lock" /\ installer'[i].digest = installer[i].digest
        /\ installer'[i].staged = installer[i].staged /\ installer'[i].backup = installer[i].backup
        /\ installer'[i].created = installer[i].created
    BY <1>2, <1>11 DEF WriteInstallMeta, Becomes, Installer, Goes
  <2>2. Copies(i)'
    BY <1>2, <1>11, <2>1 DEF WriteInstallMeta, Copies, Holds
  <2>3. had' /\ dest' = NoSkill /\ ~torn' =>
          Holds(i)' \/ (had /\ dest = NoSkill /\ ~torn /\ ~Holds(i))
    BY <1>2, <1>11, <2>1 DEF WriteInstallMeta, Copies, Holds
  <2>4. SerialPart'
    BY <1>1, <1>2, <1>11, <2>1 DEF WriteInstallMeta, SerialPart, Alone, AllOff, Recorded, Copies
  <2> QED
    BY <1>1, <1>2, <2>2, <2>3, <2>4, OthersKeep
<1>12. ~(\/ StageFails(i) \/ Restore(i) \/ RestoreFails(i) \/ WriteSkillLock(i)
        \/ WriteFails(i) \/ InstallerDies(i))
  BY <1>2 DEF StageFails, Restore, RestoreFails, WriteSkillLock, WriteFails, InstallerDies,
              Ends, Becomes, Off
<1> QED
  BY <1>3, <1>4, <1>5, <1>6, <1>7, <1>8, <1>9, <1>10, <1>11, <1>12 DEF InstallerStep

\* ... and so does the end of one: it leaves what it found, unless it was to
\* leave something else, put the backup back, or counts as torn or drifted.
LEMMA SkillEnds ==
  ASSUME SkillInv, NEW i \in Installers, InstallerStep(i), installer'[i].at = "off"
  PROVE  CopiesPart' /\ KeptPart' /\ SerialPart'
<1> USE SkillAssumption
<1>1. \A j \in Installers : j # i => installer'[j] = installer[j]
  BY SkillTypes DEF SkillInv
<1>2. /\ installer \in [Installers -> Installer] /\ installer[i] \in Installer
      /\ Copies(i) /\ CopiesPart /\ KeptPart /\ SerialPart /\ dest \in Directory
      /\ drifted \in BOOLEAN /\ torn \in BOOLEAN
  BY DEF SkillInv, SkillTypeOK, CopiesPart
<1>3. Becomes(i, Off)
  BY <1>2 DEF InstallerStep, CheckSource, Stage, StageFails, DestinationExists, MoveAway,
              MoveIn, Tidy, SwapFails, Undo, Restore, RestoreFails, WriteInstallMeta,
              WriteSkillLock, WriteFails, InstallerDies, Ends, Goes, Becomes, Installer
<1>4. installer'[i] = Off
  BY <1>2, <1>3 DEF Becomes
<1>5. Copies(i)'
  BY <1>4 DEF Copies, Holds, Off
<1>6. ~(\/ \E skill \in Skills : CheckSource(i, skill) \/ Stage(i, skill)
        \/ DestinationExists(i) \/ MoveAway(i) \/ MoveIn(i) \/ Tidy(i) \/ SwapFails(i)
        \/ WriteInstallMeta(i))
  <2>1. ASSUME NEW skill \in Skills, CheckSource(i, skill) \/ Stage(i, skill)
        PROVE  FALSE
    <3>1. CASE CheckSource(i, skill)
      BY <1>2, <3>1 DEF CheckSource, Becomes, Installer
    <3>2. CASE Stage(i, skill)
      BY <1>2, <3>2 DEF Stage, Becomes, Installer
    <3> QED
      BY <2>1, <3>1, <3>2
  <2>2. ~DestinationExists(i) /\ ~MoveAway(i) /\ ~MoveIn(i)
    <3>1. ASSUME DestinationExists(i)
          PROVE  FALSE
      <4>1. PICK at \in {"away", "in"} :
              installer'[i] = [installer[i] EXCEPT !.at = at, !.found = dest]
        BY <1>2, <3>1 DEF DestinationExists, Becomes
      <4> QED
        BY <1>2, <4>1 DEF Installer
    <3>2. ASSUME MoveAway(i)
          PROVE  FALSE
      BY <1>2, <3>2 DEF MoveAway, Becomes, Installer
    <3>3. ASSUME MoveIn(i)
          PROVE  FALSE
      BY <1>2, <3>3 DEF MoveIn, Becomes, Installer
    <3> QED
      BY <3>1, <3>2, <3>3
  <2>3. ~Tidy(i) /\ ~SwapFails(i) /\ ~WriteInstallMeta(i)
    BY <1>2 DEF Tidy, SwapFails, WriteInstallMeta, Goes, Becomes, Installer
  <2> QED
    BY <2>1, <2>2, <2>3
<1>7. CASE StageFails(i)
  <2>1. had' /\ dest' = NoSkill /\ ~torn' => had /\ dest = NoSkill /\ ~torn /\ ~Holds(i)
    BY <1>2, <1>7 DEF StageFails, Copies, Holds, MovedAway
  <2>2. SerialPart'
    BY <1>1, <1>2, <1>4, <1>7 DEF StageFails, SerialPart, Alone, AllOff, Recorded, Copies, Off, Ends,
                                MovedAway, Installer, Steps
  <2> QED
    BY <1>1, <1>2, <1>5, <2>1, <2>2, OthersKeep
<1>8. CASE Undo(i)
  <2>1. /\ ~(installer[i].created /\ installer[i].backup # NoSkill /\ dest = NoSkill)
        /\ installer[i].at = "undo" /\ dest' = dest /\ skillLock' = skillLock
        /\ had' = had /\ torn' = torn
    BY <1>2, <1>4, <1>8 DEF Undo, Goes, Becomes, Off, Installer
  <2>2. drifted' = drifted
    BY <1>2, <1>4, <1>8 DEF Undo, Goes, Becomes, Off, Installer, Ends
  <2>3. had' /\ dest' = NoSkill /\ ~torn' => had /\ dest = NoSkill /\ ~torn /\ ~Holds(i)
    BY <1>2, <2>1 DEF Copies, Holds
  <2>4. SerialPart'
    BY <1>1, <1>2, <1>4, <2>1, <2>2 DEF SerialPart, Alone, AllOff, Recorded, Copies, Off
  <2> QED
    BY <1>1, <1>2, <1>5, <2>3, <2>4, OthersKeep
<1>9. CASE Restore(i)
  <2>1. had' /\ dest' = NoSkill /\ ~torn' => had /\ dest = NoSkill /\ ~torn /\ ~Holds(i)
    BY <1>2, <1>9 DEF Restore, Copies, Holds, MovedAway
  <2>2. SerialPart'
    BY <1>1, <1>2, <1>4, <1>9 DEF Restore, SerialPart, Alone, AllOff, Recorded, Copies, Off, Ends,
                                MovedAway, Installer, Steps
  <2> QED
    BY <1>1, <1>2, <1>5, <2>1, <2>2, OthersKeep
<1>10. CASE RestoreFails(i)
  <2>1. had' /\ dest' = NoSkill /\ ~torn' => had /\ dest = NoSkill /\ ~torn /\ ~Holds(i)
    BY <1>2, <1>10 DEF RestoreFails, Copies, Holds, MovedAway
  <2>2. SerialPart'
    BY <1>1, <1>2, <1>4, <1>10 DEF RestoreFails, SerialPart, Alone, AllOff, Recorded, Copies, Off, Ends,
                                MovedAway, Installer, Steps
  <2> QED
    BY <1>1, <1>2, <1>5, <2>1, <2>2, OthersKeep
<1>11. CASE WriteSkillLock(i)
  <2>1. had' /\ dest' = NoSkill /\ ~torn' => had /\ dest = NoSkill /\ ~torn /\ ~Holds(i)
    BY <1>2, <1>11 DEF WriteSkillLock, Copies, Holds, MovedAway
  <2>2. SerialPart'
    BY <1>1, <1>2, <1>4, <1>11 DEF WriteSkillLock, SerialPart, Alone, AllOff, Recorded, Copies, Off, Ends,
                                MovedAway, Installer, Steps
  <2> QED
    BY <1>1, <1>2, <1>5, <2>1, <2>2, OthersKeep
<1>12. CASE WriteFails(i)
  <2>1. had' /\ dest' = NoSkill /\ ~torn' => had /\ dest = NoSkill /\ ~torn /\ ~Holds(i)
    BY <1>2, <1>12 DEF WriteFails, Copies, Holds, MovedAway
  <2>2. SerialPart'
    BY <1>1, <1>2, <1>4, <1>12 DEF WriteFails, SerialPart, Alone, AllOff, Recorded, Copies, Off, Ends,
                                MovedAway, Installer, Steps
  <2> QED
    BY <1>1, <1>2, <1>5, <2>1, <2>2, OthersKeep
<1>13. CASE InstallerDies(i)
  <2>1. had' /\ dest' = NoSkill /\ ~torn' => had /\ dest = NoSkill /\ ~torn /\ ~Holds(i)
    BY <1>2, <1>13 DEF InstallerDies, Copies, Holds, MovedAway
  <2>2. SerialPart'
    BY <1>1, <1>2, <1>4, <1>13 DEF InstallerDies, SerialPart, Alone, AllOff, Recorded, Copies, Off, Ends,
                                MovedAway, Installer, Steps
  <2> QED
    BY <1>1, <1>2, <1>5, <2>1, <2>2, OthersKeep
<1> QED
  BY <1>6, <1>7, <1>8, <1>9, <1>10, <1>11, <1>12, <1>13 DEF InstallerStep

LEMMA InitSkillInv ==
  ASSUME SkillInit
  PROVE  SkillInv
<1>1. SkillTypeOK
  BY DEF SkillInit, SkillTypeOK, Installer, Steps, Directory, MaybeSkill, Off
<1>2. CopiesPart /\ KeptPart /\ SerialPart
  BY DEF SkillInit, CopiesPart, Copies, Holds, KeptPart, SerialPart, Recorded, AllOff, Off
<1> QED
  BY <1>1, <1>2 DEF SkillInv

\* The inductive invariant of installs holds in every reachable state.
THEOREM SkillInvariance == SkillSpec => []SkillInv
<1>1. SkillInv /\ [SkillNext]_skillVars => SkillInv'
  <2> SUFFICES ASSUME SkillInv, [SkillNext]_skillVars
               PROVE  SkillInv'
    OBVIOUS
  <2>1. ASSUME NEW i \in Installers, InstallerStep(i)
        PROVE  SkillInv'
    <3>1. SkillTypeOK'
      BY <2>1, SkillTypes DEF SkillInv
    <3> QED
      BY <2>1, <3>1, SkillSteps, SkillEnds DEF SkillInv
  <2>2. CASE UNCHANGED skillVars
    BY <2>2 DEF skillVars, SkillInv, SkillTypeOK, CopiesPart, Copies, Holds, KeptPart,
                SerialPart, Alone, AllOff, Recorded
  <2> QED
    BY <2>1, <2>2 DEF SkillNext
<1> QED
  BY <1>1, InitSkillInv, PTL DEF SkillSpec

\* The state of installs and of the directories they swap is well typed.
THEOREM SkillTypeCorrect == SkillSpec => []SkillTypeOK
<1>1. SkillInv => SkillTypeOK
  BY DEF SkillInv
<1> QED
  BY <1>1, SkillInvariance, PTL

\* Once a skill is installed there is one, unless an installer that moved it away is
\* at work, died or could not put it back; and installs that run one at a time leave
\* a skill that `skill doctor` finds as recorded.
THEOREM SkillStays == SkillSpec => []SkillIsKept
<1>1. SkillInv => SkillIsKept
  <2> SUFFICES ASSUME SkillInv
               PROVE  SkillIsKept
    OBVIOUS
  <2>1. had /\ dest = NoSkill => torn \/ \E i \in Installers : MovedAway(i)
    BY DEF SkillInv, KeptPart, Holds, MovedAway
  <2>2. AllOff /\ ~drifted /\ ~torn =>
          IF had THEN dest \in Skills /\ SkillDoctor = "match" ELSE SkillDoctor = "missing"
    BY SkillAssumption DEF SkillInv, SerialPart, Recorded, SkillDoctor
  <2> QED
    BY <2>1, <2>2 DEF SkillIsKept
<1> QED
  BY <1>1, SkillInvariance, PTL

-----------------------------------------------------------------------------
(* Updates                                                                  *)

\* Each entry starts where the one before ended, but for those that undo a version
\* that did not pass `doctor`; what an update replaced did pass.
Chained(entries) ==
  \A k \in 1..(Len(entries) - 1) :
    entries[k + 1].old \in Sound => entries[k + 1].old = entries[k].new

ReplacedSound(entries) ==
  \A k \in DOMAIN entries : entries[k].status = "updated" => entries[k].old \in Sound

EndsAt(entries, version) == entries # <<>> => entries[Len(entries)].new = version

\* The entries that the command's own is to follow.
Precede(entries, u) ==
  /\ Chained(entries) /\ ReplacedSound(entries)
  /\ updater[u].from \in Sound => EndsAt(entries, updater[u].from)

\* What is installed and recorded at each step of a command that runs alone.
Installing(u) ==
  updater[u].at = "install" =>
    /\ installed \in Sound /\ updater[u].from = installed /\ Precede(history, u)
    /\ updater[u].status = "rolled-back" => updater[u].to \in Sound

Judging(u) ==
  updater[u].at = "doctor" =>
    /\ updater[u].status = "updated" /\ updater[u].from \in Sound
    /\ installed = updater[u].to /\ Precede(history, u)

Reverting(u) ==
  updater[u].at = "revert" =>
    /\ updater[u].status = "rolled-back" /\ updater[u].from \notin Sound
    /\ updater[u].to \in Sound /\ Precede(history, u)

Appending(u) ==
  updater[u].at \in {"append", "truncate", "fill"} =>
    /\ installed \in Sound /\ installed = updater[u].to
    /\ updater[u].status = "updated" => updater[u].from \in Sound
    /\ Precede(IF updater[u].at = "append" THEN history ELSE updater[u].got, u)
    /\ updater[u].at = "fill" => history = <<>>

InItsPlace(u) == Installing(u) /\ Judging(u) /\ Reverting(u) /\ Appending(u)

AtRest ==
  /\ installed \in Sound /\ EndsAt(history, installed)
  /\ Chained(history) /\ ReplacedSound(history)

OneUpdater ==
  \A u, v \in Updaters : updater[u].at # "off" /\ updater[v].at # "off" => u = v

\* As long as commands ran to their end and one at a time.
UpdateInv ==
  /\ UpdateTypeOK
  /\ ~mixed =>
       /\ OneUpdater
       /\ Quiet => AtRest
       /\ \A u \in Updaters : InItsPlace(u)

Steady ==
  ~mixed =>
    /\ OneUpdater
    /\ Quiet => AtRest
    /\ \A u \in Updaters : InItsPlace(u)

LEMMA LeastNumber ==
  ASSUME NEW T, T \subseteq Nat, T # {}
  PROVE  \E n \in T : \A m \in T : n <= m
<1> DEFINE R == {pair \in Nat \X Nat : pair[1] < pair[2]}
<1>1. IsWellFoundedOn(R, Nat)
  BY NatLessThanWellFounded DEF OpToRel
<1>2. \E n \in T : \A m \in T : ~(<<m, n>> \in R)
  <2> HIDE DEF R
  <2> QED
    BY <1>1, WFMin
<1>3. PICK n \in T : \A m \in T : ~(<<m, n>> \in R)
  BY <1>2
<1>4. ASSUME NEW m \in T
      PROVE  n <= m
  <2>1. m \in Nat /\ n \in Nat
    OBVIOUS
  <2>2. <<m, n>> \in Nat \X Nat /\ ~(<<m, n>> \in R)
    BY <1>3, <2>1
  <2> QED
    BY <2>1, <2>2
<1> QED
  BY <1>4

\* If there is an entry of an update there is a last one, which LastUpdated finds.
LEMMA LastUpdatedFound ==
  ASSUME NEW entries \in Seq(Entry), \E k \in DOMAIN entries : entries[k].status = "updated"
  PROVE  \E k \in DOMAIN entries :
           entries[k].status = "updated" /\ LastUpdated(entries) = entries[k]
<1> DEFINE Distances == {Len(entries) - k : k \in {m \in DOMAIN entries : entries[m].status = "updated"}}
           IsLast(k) == /\ entries[k].status = "updated"
                        /\ \A m \in DOMAIN entries : entries[m].status = "updated" => m <= k
<1>1. Distances \subseteq Nat /\ Distances # {}
  <2>1. DOMAIN entries = 1..Len(entries) /\ Len(entries) \in Nat
    OBVIOUS
  <2> QED
    BY <2>1
<1>2. PICK d \in Distances : \A e \in Distances : d <= e
  <2> HIDE DEF Distances
  <2> QED
    BY <1>1, LeastNumber
<1>3. PICK k \in DOMAIN entries : entries[k].status = "updated" /\ d = Len(entries) - k
  BY <1>2
<1>4. IsLast(k)
  <2> SUFFICES ASSUME NEW m \in DOMAIN entries, entries[m].status = "updated"
               PROVE  m <= k
    BY <1>3
  <2>1. d <= Len(entries) - m
    BY <1>2
  <2>2. k \in Nat /\ m \in Nat /\ Len(entries) \in Nat
    OBVIOUS
  <2> QED
    BY <1>3, <2>1, <2>2
<1> DEFINE n == CHOOSE j \in DOMAIN entries : IsLast(j)
<1>5. n \in DOMAIN entries /\ IsLast(n)
  <2> HIDE DEF IsLast
  <2> QED
    BY <1>4
<1>6. LastUpdated(entries) = entries[n]
  BY DEF LastUpdated
<1> HIDE DEF n
<1> QED
  BY <1>5, <1>6

LEMMA IdleIsTyped == Idle \in Updater /\ Idle.at = "off"
<1>1. PICK v \in Versions : v = CHOOSE w \in Versions : TRUE
  BY UpdateAssumption
<1>2. Idle = [at |-> "off", from |-> v, to |-> v, status |-> "updated", got |-> <<>>]
  BY <1>1 DEF Idle
<1>3. <<>> \in Seq(Entry)
  OBVIOUS
<1> QED
  BY <1>2, <1>3 DEF Updater

LEMMA InitUpdateInv ==
  ASSUME UpdateInit
  PROVE  UpdateInv
<1>1. UpdateTypeOK
  <2>1. updater \in [Updaters -> Updater]
    BY IdleIsTyped DEF UpdateInit
  <2>2. <<>> \in Seq(Entry)
    OBVIOUS
  <2>3. history \in Seq(Entry) /\ mixed \in BOOLEAN /\ installed \in Versions
    BY <2>2, UpdateAssumption DEF UpdateInit
  <2> QED
    BY <2>1, <2>3 DEF UpdateTypeOK
<1>2. \A u \in Updaters : updater[u].at = "off"
  BY IdleIsTyped DEF UpdateInit
<1>3. AtRest
  BY DEF UpdateInit, AtRest, EndsAt, Chained, ReplacedSound
<1> QED
  BY <1>1, <1>2, <1>3 DEF UpdateInv, OneUpdater, InItsPlace, Installing, Judging, Reverting,
                          Appending

\* A step of one command leaves the others where they were.
LEMMA BeginTypes ==
  ASSUME UpdateTypeOK, NEW u \in Updaters, NEW from \in Versions, NEW to \in Versions,
         NEW status \in {"updated", "rolled-back"}, Begin(u, from, to, status)
  PROVE  /\ UpdateTypeOK'
         /\ updater'[u].at = "install" /\ updater'[u].from = from /\ updater'[u].to = to
         /\ updater'[u].status = status
         /\ \A v \in Updaters \ {u} : updater'[v] = updater[v]
<1> DEFINE q == [at |-> "install", from |-> from, to |-> to, status |-> status, got |-> <<>>]
<1>1. q \in Updater
  <2>1. <<>> \in Seq(Entry)
    OBVIOUS
  <2> QED
    BY <2>1 DEF Updater
<1>2. updater' = [updater EXCEPT ![u] = q]
  BY DEF Begin
<1>3. mixed' \in BOOLEAN /\ installed' = installed /\ history' = history
  BY DEF Begin, UpdateTypeOK
<1>q. q.at = "install" /\ q.from = from /\ q.to = to /\ q.status = status
  OBVIOUS
<1> HIDE DEF q
<1>4. /\ updater' \in [Updaters -> Updater] /\ updater'[u] = q
      /\ \A v \in Updaters \ {u} : updater'[v] = updater[v]
  BY <1>1, <1>2 DEF UpdateTypeOK
<1> QED
  BY <1>3, <1>4, <1>q DEF UpdateTypeOK

\* ... and moves along.
LEMMA UpdaterTypes ==
  ASSUME UpdateTypeOK, NEW u \in Updaters,
         \/ RunNpmInstallGlobal(u) \/ DoctorPasses(u) \/ DoctorFails(u)
         \/ AppendReads(u) \/ AppendTruncates(u) \/ AppendFills(u) \/ Breaks(u)
  PROVE  /\ UpdateTypeOK'
         /\ \A v \in Updaters \ {u} : updater'[v] = updater[v]
<1> USE DEF UpdateTypeOK
<1>1. updater \in [Updaters -> Updater] /\ updater[u] \in Updater
  OBVIOUS
<1>2. CASE RunNpmInstallGlobal(u)
  <2>1. PICK at \in {"doctor", "append"} : updater' = [updater EXCEPT ![u].at = at]
    BY <1>2 DEF RunNpmInstallGlobal
  <2>2. updater' \in [Updaters -> Updater]
    BY <1>1, <2>1 DEF Updater
  <2>3. updater[u].to \in Versions
    BY <1>1 DEF Updater
  <2> QED
    BY <1>2, <2>1, <2>2, <2>3 DEF RunNpmInstallGlobal
<1>3. CASE DoctorPasses(u)
  <2>1. updater' \in [Updaters -> Updater]
    BY <1>1, <1>3 DEF DoctorPasses, Updater
  <2> QED
    BY <1>3, <2>1 DEF DoctorPasses
<1>4. CASE DoctorFails(u)
  <2> DEFINE q == [updater[u] EXCEPT !.at = "revert", !.status = "rolled-back",
                                     !.from = updater[u].to, !.to = updater[u].from]
  <2>1. updater' = [updater EXCEPT ![u] = q]
    BY <1>1, <1>4 DEF DoctorFails
  <2>2. q \in Updater
    BY <1>1 DEF Updater
  <2> HIDE DEF q
  <2>3. updater' \in [Updaters -> Updater]
    BY <1>1, <2>1, <2>2
  <2> QED
    BY <1>4, <2>1, <2>3 DEF DoctorFails
<1>5. CASE AppendReads(u)
  <2> DEFINE q == [updater[u] EXCEPT !.at = "truncate", !.got = history]
  <2>1. updater' = [updater EXCEPT ![u] = q]
    BY <1>1, <1>5 DEF AppendReads
  <2>2. q \in Updater
    BY <1>1 DEF Updater
  <2> HIDE DEF q
  <2>3. updater' \in [Updaters -> Updater]
    BY <1>1, <2>1, <2>2
  <2> QED
    BY <1>5, <2>1, <2>3 DEF AppendReads
<1>6. CASE AppendTruncates(u)
  <2>1. updater' \in [Updaters -> Updater]
    BY <1>1, <1>6 DEF AppendTruncates, Updater
  <2>2. history' \in Seq(Entry)
    BY <1>6 DEF AppendTruncates
  <2> QED
    BY <1>6, <2>1, <2>2 DEF AppendTruncates
<1>7. CASE AppendFills(u)
  <2> DEFINE entry == [old |-> updater[u].from, new |-> updater[u].to,
                       status |-> updater[u].status]
  <2>1. entry \in Entry /\ updater[u].got \in Seq(Entry)
    BY <1>1 DEF Updater, Entry
  <2>2. history' \in {Append(updater[u].got, entry), <<>>}
    BY <1>7 DEF AppendFills
  <2>3. Append(updater[u].got, entry) \in Seq(Entry) /\ <<>> \in Seq(Entry)
    BY <2>1
  <2>4. updater' = [updater EXCEPT ![u] = Idle]
    BY <1>7 DEF AppendFills
  <2>5. updater' \in [Updaters -> Updater]
    BY <1>1, <2>4, IdleIsTyped
  <2> QED
    BY <1>7, <2>2, <2>3, <2>4, <2>5 DEF AppendFills
<1>8. CASE Breaks(u)
  <2>1. updater' \in [Updaters -> Updater]
    BY <1>1, <1>8, IdleIsTyped DEF Breaks
  <2> QED
    BY <1>8, <2>1 DEF Breaks
<1> QED
  BY <1>2, <1>3, <1>4, <1>5, <1>6, <1>7, <1>8

\* Of commands that run one at a time only the one that moves has to be looked at.
LEMMA OnlyTheMover ==
  ASSUME NEW u \in Updaters, updater[u].at # "off", Steady, mixed' = mixed,
         \A v \in Updaters \ {u} : updater'[v] = updater[v],
         ~mixed => InItsPlace(u)',
         ~mixed /\ updater'[u].at = "off" => AtRest'
  PROVE  Steady'
<1> SUFFICES ASSUME ~mixed'
             PROVE  OneUpdater' /\ (Quiet' => AtRest') /\ \A v \in Updaters : InItsPlace(v)'
  BY DEF Steady
<1>1. \A v \in Updaters \ {u} : updater'[v].at = "off"
  BY DEF Steady, OneUpdater
<1>2. OneUpdater' /\ (Quiet' => AtRest')
  BY <1>1 DEF OneUpdater, Quiet
<1>3. \A v \in Updaters \ {u} : InItsPlace(v)'
  BY <1>1 DEF InItsPlace, Installing, Judging, Reverting, Appending
<1> QED
  BY <1>2, <1>3

\* The entry that a command adds follows those that precede it.
LEMMA EntryFollows ==
  ASSUME NEW entries \in Seq(Entry), NEW entry \in Entry,
         Chained(entries), ReplacedSound(entries),
         entry.old \in Sound => EndsAt(entries, entry.old),
         entry.status = "updated" => entry.old \in Sound
  PROVE  /\ Chained(Append(entries, entry)) /\ ReplacedSound(Append(entries, entry))
         /\ EndsAt(Append(entries, entry), entry.new)
<1> DEFINE longer == Append(entries, entry)
           n == Len(entries)
<1>1. /\ n \in Nat /\ Len(longer) = n + 1 /\ DOMAIN longer = 1..(n + 1)
      /\ longer[n + 1] = entry /\ \A k \in 1..n : longer[k] = entries[k]
      /\ longer \in Seq(Entry) /\ DOMAIN entries = 1..n
  OBVIOUS
<1>2. n > 0 => entries # <<>>
  OBVIOUS
<1> HIDE DEF longer, n
<1>3. Chained(longer)
  <2> SUFFICES ASSUME NEW k \in 1..n, longer[k + 1].old \in Sound
               PROVE  longer[k + 1].old = longer[k].new
    BY <1>1 DEF Chained
  <2>1. CASE k = n
    <3>1. entries # <<>> /\ entries[n].new = entry.old
      BY <1>1, <1>2, <2>1 DEF EndsAt, n
    <3> QED
      BY <1>1, <2>1, <3>1
  <2>2. CASE k # n
    <3>1. k \in 1..(n - 1) /\ k + 1 \in 1..n
      BY <1>1, <2>2
    <3>2. entries[k + 1].old \in Sound => entries[k + 1].old = entries[k].new
      BY <3>1 DEF Chained, n
    <3> QED
      BY <1>1, <3>1, <3>2
  <2> QED
    BY <2>1, <2>2
<1>4. ReplacedSound(longer)
  <2> SUFFICES ASSUME NEW k \in 1..(n + 1), longer[k].status = "updated"
               PROVE  longer[k].old \in Sound
    BY <1>1 DEF ReplacedSound
  <2>1. CASE k = n + 1
    BY <1>1, <2>1
  <2>2. CASE k # n + 1
    BY <1>1, <2>2 DEF ReplacedSound
  <2> QED
    BY <2>1, <2>2
<1>5. EndsAt(longer, entry.new)
  BY <1>1 DEF EndsAt
<1> QED
  BY <1>3, <1>4, <1>5 DEF longer

LEMMA UpdateSteps ==
  ASSUME UpdateInv, UpdateNext
  PROVE  UpdateInv'
<1>a. UpdateTypeOK /\ Steady /\ mixed \in BOOLEAN /\ history \in Seq(Entry)
      /\ updater \in [Updaters -> Updater]
  BY DEF UpdateInv, Steady, UpdateTypeOK
<1>b. UpdateTypeOK' /\ Steady' => UpdateInv'
  BY DEF UpdateInv, Steady
<1>1. ASSUME NEW u \in Updaters, NEW from \in Versions, NEW to \in Versions,
             NEW status \in {"updated", "rolled-back"}, Begin(u, from, to, status),
             from = installed, ~mixed /\ Quiet /\ status = "rolled-back" => to \in Sound
      PROVE  UpdateInv'
  <2>1. /\ UpdateTypeOK' /\ \A v \in Updaters \ {u} : updater'[v] = updater[v]
        /\ updater'[u].at = "install" /\ updater'[u].from = from /\ updater'[u].to = to
        /\ updater'[u].status = status
    BY <1>a, <1>1, BeginTypes
  <2>2. /\ mixed' = (mixed \/ ~Quiet) /\ installed' = installed /\ history' = history
    BY <1>1 DEF Begin
  <2>3. Steady'
    <3> SUFFICES ASSUME ~mixed'
                 PROVE  OneUpdater' /\ ~Quiet' /\ \A v \in Updaters : InItsPlace(v)'
      BY DEF Steady
    <3>1. ~mixed /\ Quiet /\ AtRest
      BY <1>a, <2>2 DEF Steady
    <3>2. \A v \in Updaters \ {u} : updater'[v].at = "off"
      BY <2>1, <3>1 DEF Quiet
    <3>3. OneUpdater' /\ ~Quiet'
      BY <2>1, <3>2 DEF OneUpdater, Quiet
    <3>4. \A v \in Updaters \ {u} : InItsPlace(v)'
      BY <3>2 DEF InItsPlace, Installing, Judging, Reverting, Appending
    <3>5. Installing(u)'
      BY <1>1, <2>1, <2>2, <3>1 DEF Installing, AtRest, Precede, Chained, ReplacedSound, EndsAt
    <3>6. InItsPlace(u)'
      BY <2>1, <3>5 DEF InItsPlace, Judging, Reverting, Appending
    <3> QED
      BY <3>3, <3>4, <3>6
  <2> QED
    BY <1>b, <2>1, <2>3
<1>2. ASSUME NEW u \in Updaters, NEW latest \in Versions, UpdateRun(u, latest)
      PROVE  UpdateInv'
  <2>1. installed \in Versions /\ Begin(u, installed, latest, "updated")
    BY <1>2, <1>a DEF UpdateRun, UpdateTypeOK
  <2> QED
    BY <1>1, <2>1
<1>3. ASSUME NEW u \in Updaters, UpdateRollback(u)
      PROVE  UpdateInv'
  <2>1. PICK k \in DOMAIN history :
          history[k].status = "updated" /\ LastUpdated(history) = history[k]
    BY <1>3, <1>a, LastUpdatedFound DEF UpdateRollback
  <2>2. history[k] \in Entry
    BY <1>a
  <2>3. history[k].old \in Versions
    BY <2>2 DEF Entry
  <2>4. ~mixed /\ Quiet => history[k].old \in Sound
    BY <1>a, <2>1 DEF Steady, AtRest, ReplacedSound
  <2>5. installed \in Versions /\ Begin(u, installed, history[k].old, "rolled-back")
    BY <1>3, <1>a, <2>1 DEF UpdateRollback, UpdateTypeOK
  <2> QED
    BY <1>1, <2>3, <2>4, <2>5
<1>4. ASSUME NEW u \in Updaters, RunNpmInstallGlobal(u)
      PROVE  UpdateInv'
  <2>1. UpdateTypeOK' /\ \A v \in Updaters \ {u} : updater'[v] = updater[v]
    BY <1>4, <1>a, UpdaterTypes
  <2>2. /\ updater[u].at \in {"install", "revert"} /\ installed' = updater[u].to
        /\ history' = history /\ mixed' = mixed
    BY <1>4 DEF RunNpmInstallGlobal
  <2>3. /\ updater'[u].at = (IF updater[u].status = "updated" THEN "doctor" ELSE "append")
        /\ updater'[u].from = updater[u].from /\ updater'[u].to = updater[u].to
        /\ updater'[u].status = updater[u].status
    BY <1>4, <1>a DEF RunNpmInstallGlobal, Updater
  <2>4. updater[u].status \in {"updated", "rolled-back"}
    BY <1>a DEF Updater
  <2>5. ASSUME ~mixed
        PROVE  InItsPlace(u)'
    <3>1. Installing(u) /\ Reverting(u)
      BY <1>a, <2>5 DEF Steady, InItsPlace
    <3>2. Precede(history, u)
      BY <2>2, <3>1 DEF Installing, Reverting
    <3>3. Precede(history, u)'
      BY <2>2, <2>3, <3>2 DEF Precede, Chained, ReplacedSound, EndsAt
    <3>4. CASE updater[u].status = "updated"
      BY <2>2, <2>3, <3>1, <3>3, <3>4 DEF InItsPlace, Installing, Judging, Reverting, Appending
    <3>5. CASE updater[u].status = "rolled-back"
      BY <2>2, <2>3, <3>1, <3>3, <3>5 DEF InItsPlace, Installing, Judging, Reverting, Appending
    <3> QED
      BY <2>4, <3>4, <3>5
  <2>6. Steady'
    BY <1>a, <2>1, <2>2, <2>3, <2>5, OnlyTheMover
  <2> QED
    BY <1>b, <2>1, <2>6
<1>5. ASSUME NEW u \in Updaters, DoctorPasses(u)
      PROVE  UpdateInv'
  <2>1. UpdateTypeOK' /\ \A v \in Updaters \ {u} : updater'[v] = updater[v]
    BY <1>5, <1>a, UpdaterTypes
  <2>2. /\ updater[u].at = "doctor" /\ installed' = installed /\ installed \in Sound
        /\ history' = history /\ mixed' = mixed
    BY <1>5 DEF DoctorPasses
  <2>3. /\ updater'[u].at = "append" /\ updater'[u].from = updater[u].from
        /\ updater'[u].to = updater[u].to /\ updater'[u].status = updater[u].status
    BY <1>5, <1>a DEF DoctorPasses, Updater
  <2>4. ASSUME ~mixed
        PROVE  InItsPlace(u)'
    <3>1. Judging(u)
      BY <1>a, <2>4 DEF Steady, InItsPlace
    <3>2. Precede(history, u)'
      BY <2>2, <2>3, <3>1 DEF Judging, Precede, Chained, ReplacedSound, EndsAt
    <3> QED
      BY <2>2, <2>3, <3>1, <3>2 DEF InItsPlace, Installing, Judging, Reverting, Appending
  <2>5. Steady'
    BY <1>a, <2>1, <2>2, <2>3, <2>4, OnlyTheMover
  <2> QED
    BY <1>b, <2>1, <2>5
<1>6. ASSUME NEW u \in Updaters, DoctorFails(u)
      PROVE  UpdateInv'
  <2>1. UpdateTypeOK' /\ \A v \in Updaters \ {u} : updater'[v] = updater[v]
    BY <1>6, <1>a, UpdaterTypes
  <2>2. /\ updater[u].at = "doctor" /\ installed' = installed /\ installed \notin Sound
        /\ history' = history /\ mixed' = mixed
    BY <1>6 DEF DoctorFails
  <2>3. /\ updater'[u].at = "revert" /\ updater'[u].from = updater[u].to
        /\ updater'[u].to = updater[u].from /\ updater'[u].status = "rolled-back"
    BY <1>6, <1>a DEF DoctorFails, Updater
  <2>4. ASSUME ~mixed
        PROVE  InItsPlace(u)'
    <3>1. Judging(u)
      BY <1>a, <2>4 DEF Steady, InItsPlace
    <3>2. Precede(history, u)'
      BY <2>2, <2>3, <3>1 DEF Judging, Precede, Chained, ReplacedSound, EndsAt
    <3> QED
      BY <2>2, <2>3, <3>1, <3>2 DEF InItsPlace, Installing, Judging, Reverting, Appending
  <2>5. Steady'
    BY <1>a, <2>1, <2>2, <2>3, <2>4, OnlyTheMover
  <2> QED
    BY <1>b, <2>1, <2>5
<1>7. ASSUME NEW u \in Updaters, AppendReads(u)
      PROVE  UpdateInv'
  <2>1. UpdateTypeOK' /\ \A v \in Updaters \ {u} : updater'[v] = updater[v]
    BY <1>7, <1>a, UpdaterTypes
  <2>2. /\ updater[u].at = "append" /\ installed' = installed /\ history' = history
        /\ mixed' = mixed
    BY <1>7 DEF AppendReads
  <2>3. /\ updater'[u].at = "truncate" /\ updater'[u].from = updater[u].from
        /\ updater'[u].to = updater[u].to /\ updater'[u].status = updater[u].status
        /\ updater'[u].got = history
    BY <1>7, <1>a DEF AppendReads, Updater
  <2>4. ASSUME ~mixed
        PROVE  InItsPlace(u)'
    <3>1. Appending(u)
      BY <1>a, <2>4 DEF Steady, InItsPlace
    <3>2. Precede(history, u)
      BY <2>2, <3>1 DEF Appending
    <3>3. Precede(updater[u].got, u)'
      BY <2>2, <2>3, <3>2 DEF Precede, Chained, ReplacedSound, EndsAt
    <3> QED
      BY <2>2, <2>3, <3>1, <3>3 DEF InItsPlace, Installing, Judging, Reverting, Appending
  <2>5. Steady'
    BY <1>a, <2>1, <2>2, <2>3, <2>4, OnlyTheMover
  <2> QED
    BY <1>b, <2>1, <2>5
<1>8. ASSUME NEW u \in Updaters, AppendTruncates(u)
      PROVE  UpdateInv'
  <2>1. UpdateTypeOK' /\ \A v \in Updaters \ {u} : updater'[v] = updater[v]
    BY <1>8, <1>a, UpdaterTypes
  <2>2. /\ updater[u].at = "truncate" /\ installed' = installed /\ history' = <<>>
        /\ mixed' = mixed
    BY <1>8 DEF AppendTruncates
  <2>3. /\ updater'[u].at = "fill" /\ updater'[u].from = updater[u].from
        /\ updater'[u].to = updater[u].to /\ updater'[u].status = updater[u].status
        /\ updater'[u].got = updater[u].got
    BY <1>8, <1>a DEF AppendTruncates, Updater
  <2>4. ASSUME ~mixed
        PROVE  InItsPlace(u)'
    <3>1. Appending(u)
      BY <1>a, <2>4 DEF Steady, InItsPlace
    <3>2. Precede(updater[u].got, u)
      BY <2>2, <3>1 DEF Appending
    <3>3. Precede(updater[u].got, u)'
      BY <2>3, <3>2 DEF Precede, Chained, ReplacedSound, EndsAt
    <3> QED
      BY <2>2, <2>3, <3>1, <3>3 DEF InItsPlace, Installing, Judging, Reverting, Appending
  <2>5. Steady'
    BY <1>a, <2>1, <2>2, <2>3, <2>4, OnlyTheMover
  <2> QED
    BY <1>b, <2>1, <2>5
<1>9. ASSUME NEW u \in Updaters, AppendFills(u)
      PROVE  UpdateInv'
  <2> DEFINE entry == [old |-> updater[u].from, new |-> updater[u].to,
                       status |-> updater[u].status]
  <2>1. UpdateTypeOK' /\ \A v \in Updaters \ {u} : updater'[v] = updater[v]
    BY <1>9, <1>a, UpdaterTypes
  <2>2. /\ updater[u].at = "fill" /\ installed' = installed /\ mixed' = mixed
        /\ updater'[u] = Idle
    BY <1>9, <1>a DEF AppendFills
  <2>3. entry \in Entry /\ updater[u].got \in Seq(Entry)
    BY <1>a DEF Updater, Entry
  <2>4. ASSUME ~mixed
        PROVE  AtRest'
    <3>1. Appending(u)
      BY <1>a, <2>4 DEF Steady, InItsPlace
    <3>2. history = <<>> /\ Precede(updater[u].got, u)
      BY <2>2, <3>1 DEF Appending
    <3>3. history' = Append(updater[u].got, entry)
      BY <1>9, <3>2 DEF AppendFills
    <3>4. /\ entry.old = updater[u].from /\ entry.status = updater[u].status
          /\ entry.new = updater[u].to
      OBVIOUS
    <3> HIDE DEF entry
    <3>5. /\ Chained(updater[u].got) /\ ReplacedSound(updater[u].got)
          /\ entry.old \in Sound => EndsAt(updater[u].got, entry.old)
          /\ entry.status = "updated" => entry.old \in Sound
      BY <2>2, <3>1, <3>2, <3>4 DEF Appending, Precede
    <3>6. /\ Chained(history') /\ ReplacedSound(history') /\ EndsAt(history', entry.new)
      BY <2>3, <3>3, <3>5, EntryFollows
    <3>7. installed \in Sound /\ installed = entry.new
      BY <2>2, <3>1, <3>4 DEF Appending
    <3> QED
      BY <2>2, <3>6, <3>7 DEF AtRest, Chained, ReplacedSound, EndsAt
  <2>5. InItsPlace(u)'
    BY <2>2, IdleIsTyped DEF InItsPlace, Installing, Judging, Reverting, Appending
  <2>6. Steady'
    BY <1>a, <2>1, <2>2, <2>4, <2>5, OnlyTheMover
  <2> QED
    BY <1>b, <2>1, <2>6
<1>10. ASSUME NEW u \in Updaters, Breaks(u)
       PROVE  UpdateInv'
  <2>1. UpdateTypeOK' /\ \A v \in Updaters \ {u} : updater'[v] = updater[v]
    BY <1>10, <1>a, UpdaterTypes
  <2>2. /\ updater[u].at # "off" /\ installed' = installed /\ history' = history
        /\ mixed' = (mixed \/ updater[u].at # "install") /\ updater'[u] = Idle
    BY <1>10, <1>a DEF Breaks
  <2>3. CASE mixed'
    BY <1>b, <2>1, <2>3 DEF Steady
  <2>4. CASE ~mixed'
    <3>1. ~mixed /\ updater[u].at = "install" /\ mixed' = mixed
      BY <1>a, <2>2, <2>4
    <3>2. Installing(u)
      BY <1>a, <3>1 DEF Steady, InItsPlace
    <3>3. AtRest'
      BY <2>2, <3>1, <3>2 DEF Installing, Precede, AtRest, Chained, ReplacedSound, EndsAt
    <3>4. InItsPlace(u)'
      BY <2>2, IdleIsTyped DEF InItsPlace, Installing, Judging, Reverting, Appending
    <3>5. Steady'
      BY <1>a, <2>1, <2>2, <3>1, <3>3, <3>4, OnlyTheMover
    <3> QED
      BY <1>b, <2>1, <3>5
  <2> QED
    BY <2>3, <2>4
<1> QED
  BY <1>2, <1>3, <1>4, <1>5, <1>6, <1>7, <1>8, <1>9, <1>10 DEF UpdateNext

\* The inductive invariant of updates holds in every reachable state.
THEOREM UpdateInvariance == UpdateSpec => []UpdateInv
<1>1. UpdateInv /\ [UpdateNext]_updateVars => UpdateInv'
  <2>1. ASSUME UpdateInv, UNCHANGED updateVars
        PROVE  UpdateInv'
    BY <2>1 DEF updateVars, UpdateInv, UpdateTypeOK, OneUpdater, Quiet, AtRest, InItsPlace,
      Installing, Judging, Reverting, Appending, Precede, Chained, ReplacedSound, EndsAt
  <2> QED
    BY <2>1, UpdateSteps
<1> QED
  BY <1>1, InitUpdateInv, PTL DEF UpdateSpec

\* What is installed, the history and the commands on it are well typed.
THEOREM UpdateTypeCorrect == UpdateSpec => []UpdateTypeOK
<1>1. UpdateInv => UpdateTypeOK
  BY DEF UpdateInv
<1> QED
  BY <1>1, UpdateInvariance, PTL

\* Whatever sequence of updates, failed checks and rollbacks ran, one at a time and to
\* their ends: the history leads to what is installed, which passes `doctor`.
THEOREM HistoryStaysTrue == UpdateSpec => []HistoryIsTrue
<1>1. UpdateInv => HistoryIsTrue
  BY DEF UpdateInv, HistoryIsTrue, AtRest, EndsAt, Chained
<1> QED
  BY <1>1, UpdateInvariance, PTL

-----------------------------------------------------------------------------
(* The registry of extensions                                               *)

\* A file that parses holds what was last written whole, and so does what a command
\* goes by that read it so and that no other command has overtaken.
WholeIsRead ==
  /\ registry # Torn => registry = whole
  /\ \A l \in Loaders : Writing(l) /\ l \notin behind => loader[l].got = whole

\* A reload has found its record before it looks at the directory.
ReloadsAnExtension(command) ==
  command.at = "inspect" /\ command.op = "reload" => command.ext \in Exts

RegistryInv ==
  /\ RegistryTypeOK /\ WholeIsRead
  /\ \A l \in Loaders : ReloadsAnExtension(loader[l])

LEMMA ReadsAreTyped ==
  ASSUME RegistryTypeOK
  PROVE  ReadRegistry \in Registry
BY DEF RegistryTypeOK, ReadRegistry, Empty, Registry

LEMMA RefsMeanExtensions ==
  ASSUME NEW recs, NEW ref
  PROVE  FindRecordByRef(recs, ref) \subseteq Exts
BY DEF FindRecordByRef

LEMMA InitRegistryInv ==
  ASSUME RegistryInit
  PROVE  RegistryInv
<1>1. Empty \in Registry
  BY DEF Empty, Registry
<1>2. build \in Registry
  BY DEF RegistryInit, Registry
<1>3. \A l \in Loaders : loader[l] \in Loader /\ loader[l].at = "off"
  BY <1>1 DEF RegistryInit, Loader
<1>4. loader \in [Loaders -> Loader]
  <2>1. loader = [l \in Loaders |-> loader[l]]
    BY DEF RegistryInit
  <2> QED
    BY <1>3, <2>1
<1> QED
  BY <1>1, <1>2, <1>3, <1>4 DEF RegistryInit, RegistryInv, RegistryTypeOK, WholeIsRead, Writing,
    ReloadsAnExtension

\* What a step of command l makes of it; the other commands stay where they are.
LoaderMoves(l, next) ==
  /\ next \in Loader /\ loader'[l] = next /\ ReloadsAnExtension(next)
  /\ loader' \in [Loaders -> Loader]
  /\ \A m \in Loaders \ {l} : loader'[m] = loader[m]

LEMMA MovesOf ==
  ASSUME RegistryTypeOK, NEW l \in Loaders, NEW next \in Loader,
         ReloadsAnExtension(next), loader' = [loader EXCEPT ![l] = next]
  PROVE  LoaderMoves(l, next)
BY DEF RegistryTypeOK, LoaderMoves

\* A command that reads the file learns what is whole or counts as behind.
LEMMA ReaderKeeps ==
  ASSUME RegistryInv, NEW l \in Loaders, NEW next \in Loader, LoaderMoves(l, next),
         next.got = ReadRegistry, Remember(l), UNCHANGED <<registry, build, whole>>
  PROVE  RegistryInv'
<1>1. behind' \in SUBSET Loaders
  BY DEF Remember, RegistryInv, RegistryTypeOK
<1>2. \A m \in Loaders \ {l} : m \in behind' <=> m \in behind
  BY DEF Remember
<1>3. l \notin behind' => next.got = whole
  BY DEF Remember, ReadRegistry, RegistryInv, WholeIsRead
<1>4. WholeIsRead'
  BY <1>2, <1>3 DEF RegistryInv, WholeIsRead, Writing, LoaderMoves
<1> QED
  BY <1>1, <1>4 DEF RegistryInv, RegistryTypeOK, LoaderMoves

\* A command that ends, fails or goes on with what it read disturbs nothing.
LEMMA OthersGoOn ==
  ASSUME RegistryInv, NEW l \in Loaders, NEW next \in Loader, LoaderMoves(l, next),
         \/ next.at \notin {"inspect", "truncate", "fill"}
         \/ Writing(l) /\ next.got = loader[l].got /\ (l \in behind => l \in behind'),
         \A m \in Loaders \ {l} : m \in behind => m \in behind',
         behind' \in SUBSET Loaders, UNCHANGED <<registry, build, whole>>
  PROVE  RegistryInv'
<1>1. WholeIsRead'
  BY DEF RegistryInv, WholeIsRead, Writing, LoaderMoves
<1> QED
  BY <1>1 DEF RegistryInv, RegistryTypeOK, LoaderMoves

\* A command that writes overtakes the others.
LEMMA WriterKeeps ==
  ASSUME RegistryInv, NEW l \in Loaders, NEW next \in Loader, LoaderMoves(l, next),
         next.at = "done" \/ (Writing(l) /\ next.got = loader[l].got /\ whole' = whole),
         registry' \in Registry \cup {Torn}, registry' # Torn => whole' = registry',
         registry' = Torn => whole' = whole,
         behind' = behind \cup {m \in Loaders \ {l} : Writing(m)}, UNCHANGED build
  PROVE  RegistryInv'
<1>1. behind' \in SUBSET Loaders /\ whole' \in Registry
  BY DEF RegistryInv, RegistryTypeOK
<1>2. \A m \in Loaders \ {l} : Writing(m)' => m \in behind'
  BY DEF Writing, LoaderMoves
<1>3. Writing(l)' /\ l \notin behind' => loader'[l].got = whole'
  BY DEF RegistryInv, WholeIsRead, Writing, LoaderMoves
<1>4. WholeIsRead'
  BY <1>2, <1>3 DEF WholeIsRead
<1> QED
  BY <1>1, <1>4 DEF RegistryInv, RegistryTypeOK, LoaderMoves

LoaderStep(l) ==
  \/ \E e \in Exts : ExtensionLoad(l, e)
  \/ \E ref \in Exts \cup Names :
       \/ ExtensionReload(l, ref) \/ ExtensionUninstall(l, ref)
       \/ \E op \in {"reload", "uninstall"} : RefMissing(l, op, ref)
  \/ LoadReads(l) \/ ReloadInspects(l)
  \/ ProjectionReads(l) \/ MaterializeForLaunch(l)
  \/ Truncate(l) \/ Fill(l) \/ LoaderDies(l)

LEMMA LoaderSteps ==
  ASSUME RegistryInv, NEW l \in Loaders, LoaderStep(l)
  PROVE  RegistryInv' /\ \A m \in Loaders \ {l} : loader'[m] = loader[m]
<1>a. /\ ReloadsAnExtension(loader[l]) /\ RegistryTypeOK /\ loader \in [Loaders -> Loader] /\ loader[l] \in Loader
      /\ ReadRegistry \in Registry /\ behind \in SUBSET Loaders /\ build \in Registry
  BY ReadsAreTyped DEF RegistryInv, RegistryTypeOK
<1>1. ASSUME NEW e \in Exts, ExtensionLoad(l, e)
      PROVE  RegistryInv' /\ \A m \in Loaders \ {l} : loader'[m] = loader[m]
  <2> DEFINE next == [loader[l] EXCEPT !.at = "read", !.op = "load", !.ext = e,
                                       !.new = build[e]]
  <2>1. loader' = [loader EXCEPT ![l] = next]
    BY <1>a, <1>1 DEF ExtensionLoad
  <2>2. next \in Loader /\ next.at = "read" /\ ReloadsAnExtension(next)
    BY <1>a, <1>1 DEF Loader, ReloadsAnExtension, Registry
  <2> HIDE DEF next
  <2>3. LoaderMoves(l, next)
    BY <1>a, <2>1, <2>2, MovesOf
  <2>4. UNCHANGED <<registry, build, whole, behind>>
    BY <1>1 DEF ExtensionLoad
  <2> QED
    BY <1>a, <2>2, <2>3, <2>4, OthersGoOn DEF LoaderMoves
<1>2. ASSUME NEW ref, ExtensionReload(l, ref)
      PROVE  RegistryInv' /\ \A m \in Loaders \ {l} : loader'[m] = loader[m]
  <2>1. PICK e \in FindRecordByRef(ReadRegistry, ref) :
          loader' = [loader EXCEPT ![l].at = "inspect", ![l].op = "reload", ![l].ext = e,
                                   ![l].got = ReadRegistry]
    BY <1>2 DEF ExtensionReload
  <2>2. e \in Exts
    BY RefsMeanExtensions
  <2> DEFINE next == [loader[l] EXCEPT !.at = "inspect", !.op = "reload", !.ext = e,
                                       !.got = ReadRegistry]
  <2>3. loader' = [loader EXCEPT ![l] = next]
    BY <1>a, <2>1
  <2>4. next \in Loader /\ next.got = ReadRegistry /\ ReloadsAnExtension(next)
    BY <1>a, <2>2 DEF Loader, ReloadsAnExtension
  <2> HIDE DEF next
  <2>5. LoaderMoves(l, next)
    BY <1>a, <2>3, <2>4, MovesOf
  <2>6. Remember(l) /\ UNCHANGED <<registry, build, whole>>
    BY <1>2 DEF ExtensionReload
  <2> QED
    BY <2>4, <2>5, <2>6, ReaderKeeps DEF LoaderMoves
<1>3. ASSUME NEW ref, ExtensionUninstall(l, ref)
      PROVE  RegistryInv' /\ \A m \in Loaders \ {l} : loader'[m] = loader[m]
  <2>1. PICK e \in FindRecordByRef(ReadRegistry, ref) :
          loader' = [loader EXCEPT ![l].at = "truncate", ![l].op = "uninstall",
                                ![l].ext = e, ![l].got = ReadRegistry, ![l].new = Gone]
    BY <1>3 DEF ExtensionUninstall
  <2>2. e \in Exts
    BY RefsMeanExtensions
  <2> DEFINE next == [loader[l] EXCEPT !.at = "truncate", !.op = "uninstall", !.ext = e,
                                       !.got = ReadRegistry, !.new = Gone]
  <2>3. loader' = [loader EXCEPT ![l] = next]
    BY <1>a, <2>1
  <2>4. next \in Loader /\ next.got = ReadRegistry /\ ReloadsAnExtension(next)
    BY <1>a, <2>2 DEF Loader, ReloadsAnExtension
  <2> HIDE DEF next
  <2>5. LoaderMoves(l, next)
    BY <1>a, <2>3, <2>4, MovesOf
  <2>6. Remember(l) /\ UNCHANGED <<registry, build, whole>>
    BY <1>3 DEF ExtensionUninstall
  <2> QED
    BY <2>4, <2>5, <2>6, ReaderKeeps DEF LoaderMoves
<1>4. ASSUME NEW op \in {"reload", "uninstall"}, NEW ref, RefMissing(l, op, ref)
      PROVE  RegistryInv' /\ \A m \in Loaders \ {l} : loader'[m] = loader[m]
  <2> DEFINE next == [loader[l] EXCEPT !.at = "failed", !.op = op]
  <2>1. loader' = [loader EXCEPT ![l] = next]
    BY <1>a, <1>4 DEF RefMissing
  <2>2. next \in Loader /\ next.at = "failed" /\ ReloadsAnExtension(next)
    BY <1>a DEF Loader, ReloadsAnExtension
  <2> HIDE DEF next
  <2>3. LoaderMoves(l, next)
    BY <1>a, <2>1, <2>2, MovesOf
  <2>4. UNCHANGED <<registry, build, whole, behind>>
    BY <1>4 DEF RefMissing
  <2> QED
    BY <1>a, <2>2, <2>3, <2>4, OthersGoOn DEF LoaderMoves
<1>5. CASE LoadReads(l)
  <2> DEFINE next == [loader[l] EXCEPT !.at = "truncate", !.got = ReadRegistry]
  <2>1. loader' = [loader EXCEPT ![l] = next]
    BY <1>a, <1>5 DEF LoadReads
  <2>2. next \in Loader /\ next.got = ReadRegistry /\ ReloadsAnExtension(next)
    BY <1>a DEF Loader, ReloadsAnExtension
  <2> HIDE DEF next
  <2>3. LoaderMoves(l, next)
    BY <1>a, <2>1, <2>2, MovesOf
  <2>4. Remember(l) /\ UNCHANGED <<registry, build, whole>> /\ loader[l].at = "read"
    BY <1>5 DEF LoadReads
  <2> QED
    BY <2>2, <2>3, <2>4, ReaderKeeps DEF LoaderMoves
<1>6. CASE ReloadInspects(l)
  <2>1. PICK at \in {"failed", "truncate"} :
          loader' = [loader EXCEPT ![l].at = at, ![l].new = build[loader[l].ext]]
    BY <1>6 DEF ReloadInspects
  <2>2. loader[l].at = "inspect" /\ UNCHANGED <<registry, build, whole, behind>>
    BY <1>6 DEF ReloadInspects
  <2>r. build[loader[l].ext] \in Builds \cup {Gone}
    BY <1>a, <1>6 DEF ReloadInspects, ReloadsAnExtension, Registry
  <2> DEFINE next == [loader[l] EXCEPT !.at = at, !.new = build[loader[l].ext]]
  <2>3. loader' = [loader EXCEPT ![l] = next]
    BY <1>a, <2>1
  <2>4. next \in Loader /\ next.got = loader[l].got /\ ReloadsAnExtension(next)
    BY <1>a, <2>r DEF Loader, ReloadsAnExtension
  <2> HIDE DEF next
  <2>5. LoaderMoves(l, next)
    BY <1>a, <2>3, <2>4, MovesOf
  <2> QED
    BY <1>a, <2>2, <2>4, <2>5, OthersGoOn DEF LoaderMoves, Writing
<1>7. CASE ProjectionReads(l)
  <2> DEFINE next == [loader[l] EXCEPT !.at = "inspect", !.op = "launch",
                                       !.got = ReadRegistry]
  <2>1. loader' = [loader EXCEPT ![l] = next]
    BY <1>a, <1>7 DEF ProjectionReads
  <2>2. next \in Loader /\ next.got = ReadRegistry /\ ReloadsAnExtension(next)
    BY <1>a DEF Loader, ReloadsAnExtension
  <2> HIDE DEF next
  <2>3. LoaderMoves(l, next)
    BY <1>a, <2>1, <2>2, MovesOf
  <2>4. Remember(l) /\ UNCHANGED <<registry, build, whole>>
    BY <1>7 DEF ProjectionReads
  <2> QED
    BY <2>2, <2>3, <2>4, ReaderKeeps DEF LoaderMoves
<1>8. CASE MaterializeForLaunch(l)
  <2> DEFINE recorded == {e \in Exts : loader[l].got[e] # Gone}
             got == [e \in Exts |-> IF e \in recorded THEN build[e] ELSE Gone]
  <2>1. PICK at \in {"failed", "done"} :
          loader' = [loader EXCEPT ![l].at = at, ![l].got = got]
    BY <1>8 DEF MaterializeForLaunch
  <2>2. got \in Registry
    BY <1>a DEF Registry
  <2>3. behind' = behind \ {l} /\ UNCHANGED <<registry, build, whole>>
    BY <1>8 DEF MaterializeForLaunch
  <2> HIDE DEF got
  <2> DEFINE next == [loader[l] EXCEPT !.at = at, !.got = got]
  <2>4. loader' = [loader EXCEPT ![l] = next]
    BY <1>a, <2>1
  <2>5. next \in Loader /\ next.at \in {"failed", "done"} /\ ReloadsAnExtension(next)
    BY <1>a, <2>2 DEF Loader, ReloadsAnExtension
  <2> HIDE DEF next
  <2>6. LoaderMoves(l, next)
    BY <1>a, <2>4, <2>5, MovesOf
  <2> QED
    BY <1>a, <2>3, <2>5, <2>6, OthersGoOn DEF LoaderMoves
<1>9. CASE Truncate(l)
  <2> DEFINE next == [loader[l] EXCEPT !.at = "fill"]
  <2>1. loader' = [loader EXCEPT ![l] = next]
    BY <1>a, <1>9 DEF Truncate
  <2>2. next \in Loader /\ next.got = loader[l].got /\ ReloadsAnExtension(next)
    BY <1>a DEF Loader, ReloadsAnExtension
  <2> HIDE DEF next
  <2>3. LoaderMoves(l, next)
    BY <1>a, <2>1, <2>2, MovesOf
  <2>4. /\ loader[l].at = "truncate" /\ registry' = Torn /\ UNCHANGED <<build, whole>>
        /\ behind' = behind \cup {m \in Loaders \ {l} : Writing(m)}
    BY <1>9 DEF Truncate
  <2> QED
    BY <2>2, <2>3, <2>4, WriterKeeps DEF LoaderMoves, Writing
<1>10. CASE Fill(l)
  <2> DEFINE next == [loader[l] EXCEPT !.at = "done"]
  <2>1. loader' = [loader EXCEPT ![l] = next]
    BY <1>a, <1>10 DEF Fill
  <2>2. next \in Loader /\ next.at = "done" /\ ReloadsAnExtension(next)
    BY <1>a DEF Loader, ReloadsAnExtension
  <2> HIDE DEF next
  <2>3. LoaderMoves(l, next)
    BY <1>a, <2>1, <2>2, MovesOf
  <2>4. Updated(l) \in Registry
    BY <1>a DEF Updated, Loader, Registry
  <2>5. /\ registry' \in Registry \cup {Torn} /\ UNCHANGED build
        /\ whole' = (IF registry' = Torn THEN whole ELSE registry')
        /\ behind' = behind \cup {m \in Loaders \ {l} : Writing(m)}
    BY <1>10, <2>4 DEF Fill
  <2> QED
    BY <2>2, <2>3, <2>5, WriterKeeps DEF LoaderMoves
<1>11. CASE LoaderDies(l)
  <2> DEFINE next == [loader[l] EXCEPT !.at = "dead"]
  <2>1. loader' = [loader EXCEPT ![l] = next]
    BY <1>a, <1>11 DEF LoaderDies
  <2>2. next \in Loader /\ next.at = "dead" /\ ReloadsAnExtension(next)
    BY <1>a DEF Loader, ReloadsAnExtension
  <2> HIDE DEF next
  <2>3. LoaderMoves(l, next)
    BY <1>a, <2>1, <2>2, MovesOf
  <2>4. UNCHANGED <<registry, build, whole, behind>>
    BY <1>11 DEF LoaderDies
  <2> QED
    BY <1>a, <2>2, <2>3, <2>4, OthersGoOn DEF LoaderMoves
<1> QED
  BY <1>1, <1>2, <1>3, <1>4, <1>5, <1>6, <1>7, <1>8, <1>9, <1>10, <1>11 DEF LoaderStep

\* Only a command's own write completes it.
LEMMA FillsItself ==
  ASSUME RegistryInv, NEW l \in Loaders, RegistryNext,
         loader[l].at = "fill", loader'[l].at = "done"
  PROVE  Fill(l)
<1>a. loader \in [Loaders -> Loader] /\ loader[l] \in Loader
  BY DEF RegistryInv, RegistryTypeOK
<1>1. PICK m \in Loaders : LoaderStep(m)
  BY DEF RegistryNext, LoaderStep, DirectoryChanges
<1>2. m = l
  BY <1>1, LoaderSteps
<1> QED
  BY <1>a, <1>1, <1>2 DEF LoaderStep, ExtensionLoad, ExtensionReload, ExtensionUninstall,
    RefMissing, LoadReads, ReloadInspects, ProjectionReads, MaterializeForLaunch, Truncate,
    LoaderDies, Loader

LEMMA DirectorySteps ==
  ASSUME RegistryInv, NEW e \in Exts, DirectoryChanges(e)
  PROVE  RegistryInv' /\ loader' = loader
<1>1. PICK b \in Builds \cup {Gone} : build' = [build EXCEPT ![e] = b]
  BY DEF DirectoryChanges
<1>2. UNCHANGED <<registry, loader, whole, behind>>
  BY DEF DirectoryChanges
<1>3. build' \in Registry
  BY <1>1 DEF RegistryInv, RegistryTypeOK, Registry
<1> QED
  BY <1>2, <1>3 DEF RegistryInv, RegistryTypeOK, WholeIsRead, Writing, ReloadsAnExtension

\* The inductive invariant of the registry holds in every reachable state.
THEOREM RegistryInvariance == RegistrySpec => []RegistryInv
<1>1. RegistryInv /\ [RegistryNext]_registryVars => RegistryInv'
  <2>1. ASSUME RegistryInv, UNCHANGED registryVars
        PROVE  RegistryInv'
    BY <2>1 DEF registryVars, RegistryInv, RegistryTypeOK, WholeIsRead, Writing,
      ReloadsAnExtension
  <2>2. ASSUME RegistryInv, RegistryNext
        PROVE  RegistryInv'
    BY <2>2, LoaderSteps, DirectorySteps DEF RegistryNext, LoaderStep
  <2> QED
    BY <2>1, <2>2
<1> QED
  BY <1>1, InitRegistryInv, PTL DEF RegistrySpec

\* The registry, the directories and the commands on them are well typed.
THEOREM RegistryTypeCorrect == RegistrySpec => []RegistryTypeOK
<1>1. RegistryInv => RegistryTypeOK
  BY DEF RegistryInv
<1> QED
  BY <1>1, RegistryInvariance, PTL

\* A record is lost or revived only by a command that was behind: neither a directory
\* that went away nor a name that two extensions share does it.
THEOREM PurposeOnly == RegistrySpec => RecordsChangeOnPurpose
<1> DEFINE A == \A l \in Loaders :
       loader[l].at = "fill" /\ loader'[l].at = "done" /\ registry' # Torn
         => \/ l \in behind
            \/ \A e \in Exts \ {loader[l].ext} : registry'[e] = whole[e]
<1>1. RegistryInv /\ [RegistryNext]_registryVars => [A]_registryVars
  <2> SUFFICES ASSUME RegistryInv, RegistryNext, NEW l \in Loaders,
                      loader[l].at = "fill", loader'[l].at = "done", registry' # Torn,
                      l \notin behind
               PROVE  \A e \in Exts \ {loader[l].ext} : registry'[e] = whole[e]
    OBVIOUS
  <2>1. Fill(l)
    BY FillsItself
  <2>2. registry' = Updated(l) /\ loader[l].got = whole
    BY <2>1 DEF Fill, RegistryInv, WholeIsRead, Writing
  <2>3. loader[l].got \in Registry
    BY DEF RegistryInv, RegistryTypeOK, Loader
  <2> QED
    BY <2>2, <2>3 DEF Updated, Registry
<1> QED
  BY <1>1, RegistryInvariance, PTL DEF RegistrySpec, RecordsChangeOnPurpose

-----------------------------------------------------------------------------
(* Sums of sizes                                                            *)

\* Among the sets of a collection of finite sets there is a smallest one.
LEMMA SmallestSet ==
  ASSUME NEW S, IsFiniteSet(S), NEW P, P \subseteq SUBSET S, P # {}
  PROVE  \E U \in P : \A V \in P : V \subseteq U => V = U
<1> DEFINE Cards == {Cardinality(U) : U \in P}
<1>1. \A U \in P : IsFiniteSet(U) /\ Cardinality(U) \in Nat
  BY FS_Subset, FS_CardinalityType
<1>2. \E n \in Cards : \A m \in Cards : n <= m
  <2>1. Cards \subseteq Nat /\ Cards # {}
    BY <1>1
  <2> HIDE DEF Cards
  <2> QED
    BY <2>1, LeastNumber
<1>3. PICK U \in P : \A V \in P : Cardinality(U) <= Cardinality(V)
  BY <1>2
<1>4. ASSUME NEW V \in P, V \subseteq U, V # U
      PROVE  FALSE
  <2>1. Cardinality(V) < Cardinality(U)
    BY <1>1, <1>4, FS_Subset, FS_CardinalityType
  <2> QED
    BY <2>1, <1>1, <1>3
<1> QED
  BY <1>4

\* The sum as the library takes it: an element is chosen, the others are summed up first.
Picked(s) == CHOOSE e \in s : TRUE
SumOver(f, S) ==
  [s \in SUBSET S |-> IF s = {} THEN 0 ELSE Picked(s).bytes + f[s \ {Picked(s)}]]
IsSum(f, S) == f = SumOver(f, S)

LEMMA SumUnfolds ==
  ASSUME NEW S
  PROVE  BytesOf(S) = (CHOOSE f : IsSum(f, S))[S]
BY DEF BytesOf, MapThenSumSet, MapThenFoldSet, IsSum, SumOver, Picked

LEMMA PickedFrom ==
  ASSUME NEW s, s # {}
  PROVE  Picked(s) \in s
BY DEF Picked

LEMMA SumStep ==
  ASSUME NEW f, NEW S, IsSum(f, S), NEW s \in SUBSET S
  PROVE  f[s] = IF s = {} THEN 0 ELSE Picked(s).bytes + f[s \ {Picked(s)}]
BY DEF IsSum, SumOver

\* Two sums agree on every set for which both are defined.
LEMMA SumsAgree ==
  ASSUME NEW f, NEW S, IsFiniteSet(S), IsSum(f, S),
         NEW g, NEW R, IsSum(g, R),
         NEW s \in SUBSET (S \cap R)
  PROVE  f[s] = g[s]
<1> SUFFICES ASSUME f[s] # g[s]
             PROVE  FALSE
  OBVIOUS
<1> DEFINE P == {u \in SUBSET (S \cap R) : f[u] # g[u]}
<1>1. PICK u \in P : \A v \in P : v \subseteq u => v = u
  <2>1. P \subseteq SUBSET S /\ P # {}
    OBVIOUS
  <2> HIDE DEF P
  <2> QED
    BY <2>1, SmallestSet
<1>2. u # {}
  BY SumStep
<1>3. Picked(u) \in u
  BY <1>2, PickedFrom
<1>4. f[u \ {Picked(u)}] = g[u \ {Picked(u)}]
  BY <1>1, <1>3
<1>5. f[u] = Picked(u).bytes + f[u \ {Picked(u)}] /\ g[u] = Picked(u).bytes + g[u \ {Picked(u)}]
  BY <1>2, SumStep
<1> QED
  BY <1>1, <1>4, <1>5

\* The recursion defines a function: were there none for a smallest set, those for the
\* sets below it would make one.
LEMMA SumExists ==
  ASSUME NEW S, IsFiniteSet(S)
  PROVE  \E f : IsSum(f, S)
<1> SUFFICES ASSUME ~ \E f : IsSum(f, S)
             PROVE  FALSE
  OBVIOUS
<1> DEFINE P == {U \in SUBSET S : ~ \E f : IsSum(f, U)}
<1>1. PICK U \in P : \A V \in P : V \subseteq U => V = U
  <2>1. P \subseteq SUBSET S /\ P # {}
    OBVIOUS
  <2> HIDE DEF P
  <2> QED
    BY <2>1, SmallestSet
<1> DEFINE sum(V) == CHOOSE f : IsSum(f, V)
<1>2. ASSUME NEW V \in SUBSET U, V # U
      PROVE  IsFiniteSet(V) /\ IsSum(sum(V), V)
  <2>1. V \notin P /\ V \in SUBSET S
    BY <1>1, <1>2
  <2>2. \E f : IsSum(f, V)
    BY <2>1
  <2> QED
    BY <2>1, <2>2, FS_Subset
<1> DEFINE last(s) == IF s = {} THEN 0 ELSE Picked(s).bytes + sum(s \ {Picked(s)})[s \ {Picked(s)}]
           all == [s \in SUBSET U |-> last(s)]
<1>3. ASSUME NEW s \in SUBSET U, s # U
      PROVE  sum(s)[s] = last(s)
  <2>1. CASE s = {}
    BY <2>1, <1>2, <1>3, SumStep
  <2>2. CASE s # {}
    <3>1. Picked(s) \in s /\ s \ {Picked(s)} \in SUBSET U /\ s \ {Picked(s)} # U
      BY <2>2, <1>3, PickedFrom
    <3>2. sum(s)[s] = Picked(s).bytes + sum(s)[s \ {Picked(s)}]
      BY <2>2, <1>2, <1>3, SumStep
    <3>3. sum(s)[s \ {Picked(s)}] = sum(s \ {Picked(s)})[s \ {Picked(s)}]
      <4>1. IsFiniteSet(s) /\ IsSum(sum(s), s) /\ IsSum(sum(s \ {Picked(s)}), s \ {Picked(s)})
        BY <1>2, <1>3, <3>1
      <4>2. s \ {Picked(s)} \in SUBSET (s \cap (s \ {Picked(s)}))
        OBVIOUS
      <4> HIDE DEF sum
      <4> QED
        BY <4>1, <4>2, SumsAgree
    <3> QED
      BY <2>2, <3>2, <3>3
  <2> QED
    BY <2>1, <2>2
<1>4. IsSum(all, U)
  <2>1. ASSUME NEW s \in SUBSET U, s # {}
        PROVE  all[s] = Picked(s).bytes + all[s \ {Picked(s)}]
    <3>1. s \ {Picked(s)} \in SUBSET U /\ s \ {Picked(s)} # U
      BY <2>1, PickedFrom
    <3>2. all[s \ {Picked(s)}] = sum(s \ {Picked(s)})[s \ {Picked(s)}]
      <4> HIDE DEF sum
      <4> QED
        BY <1>3, <3>1
    <3> HIDE DEF sum
    <3> QED
      BY <2>1, <3>2
  <2>2. \A s \in SUBSET U : s = {} => all[s] = 0
    OBVIOUS
  <2>3. \A s \in SUBSET U :
          all[s] = IF s = {} THEN 0 ELSE Picked(s).bytes + all[s \ {Picked(s)}]
    <3> HIDE DEF all
    <3> QED
      BY <2>1, <2>2
  <2>4. all = [s \in SUBSET U |-> all[s]]
    BY DEF all
  <2> HIDE DEF all
  <2> QED
    BY <2>3, <2>4 DEF IsSum, SumOver
<1> QED
  BY <1>1, <1>4

\* What the recursive definition of the sum computes, one step of it at a time.
LEMMA BytesUnfold ==
  ASSUME NEW S, IsFiniteSet(S)
  PROVE  BytesOf(S) = IF S = {} THEN 0 ELSE Picked(S).bytes + BytesOf(S \ {Picked(S)})
<1> DEFINE sum(V) == CHOOSE f : IsSum(f, V)
           rest == S \ {Picked(S)}
<1>1. IsSum(sum(S), S) /\ IsFiniteSet(rest) /\ IsSum(sum(rest), rest)
  BY SumExists, FS_Subset
<1>2. sum(S)[rest] = sum(rest)[rest]
  <2>1. rest \in SUBSET (S \cap rest)
    OBVIOUS
  <2> HIDE DEF sum, rest
  <2> QED
    BY <1>1, <2>1, SumsAgree
<1>3. BytesOf(S) = sum(S)[S] /\ BytesOf(rest) = sum(rest)[rest]
  BY SumUnfolds
<1>4. sum(S)[S] = IF S = {} THEN 0 ELSE Picked(S).bytes + sum(S)[rest]
  <2> HIDE DEF sum
  <2> QED
    BY <1>1, SumStep
<1> HIDE DEF sum
<1> QED
  BY <1>2, <1>3, <1>4

LEMMA BytesOfNone == BytesOf({}) = 0
<1>1. IsFiniteSet({})
  BY FS_EmptySet
<1> QED
  BY <1>1, BytesUnfold

LEMMA BytesOfOne == \A e \in Entries : e.mtime \in 1..MaxEntries /\ e.bytes \in Nat
  BY PruneAssumption DEF Entries

LEMMA BytesAreANumber ==
  ASSUME NEW S \in SUBSET Entries, IsFiniteSet(S)
  PROVE  BytesOf(S) \in Nat
<1> SUFFICES ASSUME BytesOf(S) \notin Nat
             PROVE  FALSE
  OBVIOUS
<1> DEFINE P == {U \in SUBSET S : BytesOf(U) \notin Nat}
<1>1. PICK U \in P : \A V \in P : V \subseteq U => V = U
  <2>1. P \subseteq SUBSET S /\ P # {}
    OBVIOUS
  <2> HIDE DEF P
  <2> QED
    BY <2>1, SmallestSet
<1>2. IsFiniteSet(U) /\ U # {}
  <2>1. U \in SUBSET S /\ BytesOf(U) \notin Nat
    OBVIOUS
  <2>2. 0 \in Nat
    OBVIOUS
  <2> HIDE DEF P
  <2> QED
    BY <2>1, <2>2, BytesOfNone, FS_Subset
<1>3. Picked(U) \in U
  BY <1>2, PickedFrom
<1>4. BytesOf(U \ {Picked(U)}) \in Nat
  BY <1>1, <1>3
<1>5. Picked(U).bytes \in Nat
  BY <1>3, BytesOfOne
<1> QED
  BY <1>1, <1>2, <1>4, <1>5, BytesUnfold

\* The sum does not depend on the order in which the entries are taken.
LEMMA BytesWithout ==
  ASSUME NEW S \in SUBSET Entries, IsFiniteSet(S), NEW e \in S
  PROVE  BytesOf(S) = e.bytes + BytesOf(S \ {e})
<1> SUFFICES ASSUME BytesOf(S) # e.bytes + BytesOf(S \ {e})
             PROVE  FALSE
  OBVIOUS
<1> DEFINE P == {U \in SUBSET S : \E d \in U : BytesOf(U) # d.bytes + BytesOf(U \ {d})}
<1>1. PICK U \in P : \A V \in P : V \subseteq U => V = U
  <2>1. P \subseteq SUBSET S /\ P # {}
    OBVIOUS
  <2> HIDE DEF P
  <2> QED
    BY <2>1, SmallestSet
<1>2. PICK d \in U : BytesOf(U) # d.bytes + BytesOf(U \ {d})
  BY <1>1
<1> DEFINE a == Picked(U)
<1>3. IsFiniteSet(U) /\ a \in U /\ a # d
  BY <1>2, BytesUnfold, FS_Subset, PickedFrom
<1>4. BytesOf(U) = a.bytes + BytesOf(U \ {a})
  BY <1>3, BytesUnfold
<1> HIDE DEF a
<1>5. U \ {a} \notin P /\ U \ {d} \notin P
  BY <1>1, <1>3
<1>6. BytesOf(U \ {a}) = d.bytes + BytesOf((U \ {a}) \ {d})
  BY <1>3, <1>5
<1>7. BytesOf(U \ {d}) = a.bytes + BytesOf((U \ {d}) \ {a})
  BY <1>3, <1>5
<1>8. (U \ {a}) \ {d} = (U \ {d}) \ {a}
  OBVIOUS
<1>9. a.bytes \in Nat /\ d.bytes \in Nat /\ BytesOf((U \ {d}) \ {a}) \in Nat
  <2>1. (U \ {d}) \ {a} \in SUBSET Entries /\ IsFiniteSet((U \ {d}) \ {a})
    BY <1>3, FS_Subset
  <2> QED
    BY <1>3, <2>1, BytesOfOne, BytesAreANumber
<1>10. BytesOf(U) = a.bytes + (d.bytes + BytesOf((U \ {d}) \ {a}))
  BY <1>4, <1>6, <1>8
<1> DEFINE rest == BytesOf((U \ {d}) \ {a})
           ab == a.bytes
           db == d.bytes
<1>11. ab \in Nat /\ db \in Nat /\ rest \in Nat
  BY <1>9
<1>12. BytesOf(U) = ab + (db + rest) /\ BytesOf(U \ {d}) = ab + rest /\ BytesOf(U) # db + BytesOf(U \ {d})
  BY <1>2, <1>7, <1>10
<1> HIDE DEF rest, ab, db, P
<1> QED
  BY <1>11, <1>12
-----------------------------------------------------------------------------
(* What the prune keeps of the artifacts                                    *)

\* An entry is modified at a tick of its own: a later one is written later.
ArtifactsAreOrdered ==
  /\ IsFiniteSet(artifacts)
  /\ \A d, e \in artifacts : d.mtime = e.mtime => d = e

Ticks == 1..(MaxEntries + 1)

KeptFrom(f, m) ==
  IF m > MaxEntries THEN 0 ELSE f[m + 1] + BytesOf(Fitting(m, f[m + 1]))

\* The recursion defines a function: from the last tick down, tick by tick.
LEMMA KeptBytesUnfold ==
  ASSUME NEW m \in Ticks
  PROVE  KeptBytes[m] = KeptFrom(KeptBytes, m)
<1> DEFINE last == MaxEntries + 1
           Solves(f, n) == f = [k \in (last - n)..last |-> KeptFrom(f, k)]
           Unsolved == {n \in 0..MaxEntries : ~ \E f : Solves(f, n)}
<1>a. MaxEntries \in Nat
  BY PruneAssumption
<1>1. Unsolved = {}
  <2> SUFFICES ASSUME Unsolved # {}
               PROVE  FALSE
    OBVIOUS
  <2>1. PICK n \in Unsolved : \A k \in Unsolved : n <= k
    <3>1. Unsolved \subseteq Nat
      BY <1>a
    <3> HIDE DEF Unsolved
    <3> QED
      BY <3>1, LeastNumber
  <2>2. CASE n = 0
    <3> DEFINE f == [k \in (last - 0)..last |-> 0]
    <3>1. \A k \in (last - 0)..last : k > MaxEntries
      BY <1>a
    <3>2. \A k \in (last - 0)..last : KeptFrom(f, k) = 0
      BY <3>1 DEF KeptFrom
    <3>3. Solves(f, 0)
      <4> DEFINE g == f
      <4>1. g = [k \in (last - 0)..last |-> KeptFrom(g, k)]
        <5>1. g = [k \in (last - 0)..last |-> 0]
          OBVIOUS
        <5>2. \A k \in (last - 0)..last : KeptFrom(g, k) = 0
          BY <3>2
        <5> HIDE DEF g, f, last
        <5> QED
          BY <5>1, <5>2
      <4> QED
        BY <4>1
    <3> QED
      BY <2>2, <3>3
  <2>3. CASE n # 0
    <3>1. n - 1 \in 0..MaxEntries /\ n - 1 \notin Unsolved
      BY <1>a, <2>1, <2>3
    <3>2. PICK f : Solves(f, n - 1)
      BY <3>1
    <3> DEFINE first == last - n
               g == [k \in first..last |-> IF k = first THEN KeptFrom(f, k) ELSE f[k]]
    <3>3. /\ first \in Nat /\ last \in Nat /\ first < last /\ last - (n - 1) = first + 1
          /\ first <= MaxEntries
      BY <1>a, <2>3
    <3>4. \A k \in (first + 1)..last : g[k] = f[k]
      BY <3>3
    <3>5. \A k \in first..last : KeptFrom(g, k) = KeptFrom(f, k)
      <4> SUFFICES ASSUME NEW k \in first..last
                   PROVE  KeptFrom(g, k) = KeptFrom(f, k)
        OBVIOUS
      <4>1. CASE k > MaxEntries
        BY <4>1 DEF KeptFrom
      <4>2. CASE ~ k > MaxEntries
        <5>1. k + 1 \in (first + 1)..last
          BY <1>a, <3>3, <4>2
        <5>2. g[k + 1] = f[k + 1]
          BY <3>4, <5>1
        <5> HIDE DEF g
        <5> QED
          BY <5>2 DEF KeptFrom
      <4> QED
        BY <4>1, <4>2
    <3>6. f = [k \in (first + 1)..last |-> KeptFrom(f, k)]
      BY <3>2, <3>3
    <3>7. \A k \in first..last : g[k] = KeptFrom(f, k)
      <4> SUFFICES ASSUME NEW k \in first..last
                   PROVE  g[k] = KeptFrom(f, k)
        OBVIOUS
      <4>1. CASE k = first
        BY <4>1
      <4>2. CASE k # first
        <5>1. k \in (first + 1)..last
          BY <3>3, <4>2
        <5> HIDE DEF g, first, last
        <5> QED
          BY <3>4, <3>6, <5>1
      <4> QED
        BY <4>1, <4>2
    <3>8. g = [k \in first..last |-> g[k]]
      OBVIOUS
    <3>9. g = [k \in first..last |-> KeptFrom(g, k)]
      <4> HIDE DEF g, first, last
      <4> QED
        BY <3>5, <3>7, <3>8
    <3>10. Solves(g, n)
      BY <3>9
    <3> QED
      BY <3>10
  <2> QED
    BY <2>2, <2>3
<1>2. \E f : Solves(f, MaxEntries)
  <2>1. MaxEntries \in 0..MaxEntries
    BY <1>a
  <2> HIDE DEF Solves
  <2> QED
    BY <1>1, <2>1
<1>3. last - MaxEntries = 1
  BY <1>a
<1>4. \E f : f = [k \in Ticks |-> KeptFrom(f, k)]
  BY <1>2, <1>3 DEF Ticks
<1>5. KeptBytes = CHOOSE f : f = [k \in Ticks |-> KeptFrom(f, k)]
  BY DEF KeptBytes, Ticks, KeptFrom
<1>6. KeptBytes = [k \in Ticks |-> KeptFrom(KeptBytes, k)]
  BY <1>4, <1>5
<1> QED
  BY <1>6

KeptSince(m) == {d \in artifacts \ PickEntriesToRemove : d.mtime >= m}

\* A tick keeps its entry if it is young and fits.
LEMMA KeptAtTick ==
  ASSUME PruneTypeOK, NEW m \in 1..MaxEntries, KeptBytes[m + 1] \in Nat
  PROVE  KeptSince(m) = KeptSince(m + 1) \cup Fitting(m, KeptBytes[m + 1])
<1>1. \A e \in artifacts : e.mtime \in 1..MaxEntries /\ e.bytes \in Nat
  BY BytesOfOne DEF PruneTypeOK
<1>2. cutoff \in Int /\ MaxTotalBytes \in Nat /\ m \in Int
  BY PruneAssumption DEF PruneTypeOK
<1>3. \A e \in artifacts : e.mtime = m =>
        (e \notin PickEntriesToRemove <=> e \in Fitting(m, KeptBytes[m + 1]))
  BY <1>1, <1>2 DEF Fitting, PickEntriesToRemove
<1>4. \A e \in artifacts : e.mtime >= m <=> (e.mtime = m \/ e.mtime >= m + 1)
  BY <1>1, <1>2
<1>5. \A e \in Fitting(m, KeptBytes[m + 1]) : e \in artifacts /\ e.mtime = m
  BY DEF Fitting
<1> HIDE DEF Fitting, PickEntriesToRemove
<1> QED
  BY <1>3, <1>4, <1>5 DEF KeptSince

\* The running total is the size of what stays of the entries seen so far, and within
\* the limit.
LEMMA KeptBytesAreKept ==
  ASSUME PruneTypeOK, ArtifactsAreOrdered, NEW m \in Ticks
  PROVE  KeptBytes[m] = BytesOf(KeptSince(m)) /\ KeptBytes[m] <= MaxTotalBytes
<1> DEFINE Right(k) == KeptBytes[k] = BytesOf(KeptSince(k)) /\ KeptBytes[k] <= MaxTotalBytes
           Distance == {MaxEntries + 1 - k : k \in {j \in Ticks : ~Right(j)}}
<1>a. MaxEntries \in Nat /\ MaxTotalBytes \in Nat
  BY PruneAssumption
<1>b. \A e \in artifacts : e.mtime \in 1..MaxEntries /\ e.bytes \in Nat
  BY BytesOfOne DEF PruneTypeOK
<1>1. ASSUME NEW k \in Ticks, k > MaxEntries
      PROVE  Right(k)
  <2>1. KeptSince(k) = {}
    BY <1>a, <1>b, <1>1 DEF KeptSince, Ticks
  <2>2. KeptBytes[k] = 0
    BY <1>1, KeptBytesUnfold DEF KeptFrom
  <2> QED
    BY <1>a, <2>1, <2>2, BytesOfNone
<1>2. ASSUME NEW k \in Ticks, ~(k > MaxEntries), Right(k + 1)
      PROVE  Right(k)
  <2> DEFINE later == KeptSince(k + 1)
             here == Fitting(k, KeptBytes[k + 1])
  <2>1. k \in 1..MaxEntries /\ k + 1 \in Ticks
    BY <1>a, <1>2 DEF Ticks
  <2>2. \A S \in SUBSET artifacts : S \in SUBSET Entries /\ IsFiniteSet(S)
    BY FS_Subset DEF PruneTypeOK, ArtifactsAreOrdered
  <2>3. /\ later \in SUBSET artifacts /\ here \in SUBSET artifacts
        /\ \A e \in here : e \notin later
    BY <1>a, <2>1 DEF KeptSince, Fitting
  <2>4. /\ later \in SUBSET Entries /\ IsFiniteSet(later)
        /\ here \in SUBSET Entries /\ IsFiniteSet(here)
    <3> HIDE DEF later, here
    <3> QED
      BY <2>2, <2>3
  <2>5. KeptBytes[k + 1] = BytesOf(later) /\ KeptBytes[k + 1] <= MaxTotalBytes
    BY <1>2
  <2>6. BytesOf(later) \in Nat
    <3> HIDE DEF later
    <3> QED
      BY <2>4, BytesAreANumber
  <2>sum. KeptBytes[k] = KeptBytes[k + 1] + BytesOf(here)
    BY <1>2, KeptBytesUnfold DEF KeptFrom
  <2>cup. KeptSince(k) = later \cup here
    BY <2>1, <2>5, <2>6, KeptAtTick
  <2>7. CASE here = {}
    <3>1. KeptSince(k) = later /\ BytesOf(here) = 0
      BY <2>cup, <2>7, BytesOfNone
    <3> HIDE DEF later, here
    <3> QED
      BY <2>sum, <2>5, <2>6, <3>1
  <2>8. ASSUME NEW e \in here
        PROVE  Right(k)
    <3>1. here = {e}
      BY DEF ArtifactsAreOrdered, Fitting
    <3>2. e.bytes \in Nat /\ KeptBytes[k + 1] + e.bytes <= MaxTotalBytes
      BY <1>b DEF Fitting
    <3>3. (later \cup {e}) \ {e} = later /\ {e} \ {e} = {}
      BY <2>3
    <3>4. IsFiniteSet(later \cup {e}) /\ later \cup {e} \in SUBSET Entries
      <4> HIDE DEF later, here
      <4> QED
        BY <2>4, FS_AddElement
    <3>5. BytesOf(later \cup {e}) = e.bytes + BytesOf(later)
      <4> HIDE DEF later, here
      <4> QED
        BY <3>3, <3>4, BytesWithout
    <3>6. BytesOf({e}) = e.bytes
      <4>1. {e} \in SUBSET Entries /\ IsFiniteSet({e})
        BY <2>4, <3>1
      <4>2. BytesOf({e}) = e.bytes + BytesOf({})
        BY <3>3, <4>1, BytesWithout
      <4> QED
        BY <3>2, <4>2, BytesOfNone
    <3>7. KeptSince(k) = later \cup {e}
      BY <2>cup, <3>1
    <3>8. KeptBytes[k] = KeptBytes[k + 1] + e.bytes
      BY <2>sum, <3>1, <3>6
    <3> HIDE DEF later, here
    <3> QED
      BY <2>5, <2>6, <3>2, <3>5, <3>7, <3>8
  <2> QED
    BY <2>7, <2>8
<1> HIDE DEF Right
<1>3. Distance = {}
  <2> SUFFICES ASSUME Distance # {}
               PROVE  FALSE
    OBVIOUS
  <2>1. Distance \subseteq Nat
    BY <1>a DEF Ticks
  <2>2. PICK n \in Distance : \A j \in Distance : n <= j
    <3> HIDE DEF Distance
    <3> QED
      BY <2>1, LeastNumber
  <2>3. PICK k \in Ticks : ~Right(k) /\ n = MaxEntries + 1 - k
    BY <2>2
  <2>4. ~(k > MaxEntries)
    BY <1>1, <2>3
  <2>5. k + 1 \in Ticks
    BY <1>a, <2>4 DEF Ticks
  <2>6. ~Right(k + 1)
    BY <1>2, <2>3, <2>4
  <2>7. MaxEntries + 1 - (k + 1) \in Distance
    BY <2>5, <2>6
  <2>8. n <= MaxEntries + 1 - (k + 1)
    BY <2>2, <2>7
  <2> QED
    BY <1>a, <2>3, <2>8 DEF Ticks
<1>4. Right(m)
  BY <1>3
<1> QED
  BY <1>4 DEF Right

-----------------------------------------------------------------------------
(* The prune of profiles                                                    *)

\* While a Chrome starts its directory is no older than the limit, and while the prune
\* has not listed the directories neither is one of a session it does not know of.
InUseIsYoung ==
  /\ \A s \in starting : profiles[s] # "aged"
  /\ pruner.at \in {"artifacts", "list"} =>
       \A s \in managed \ pruner.sessions : profiles[s] # "aged"

\* What is to go is in use only if it came into use since, but for workspace profiles.
DoomedIsUnused ==
  pruner.at = "remove" =>
    \A s \in pruner.doomed \ WorkspaceIds : s \in managed \cup starting => s \in launched

PruneInv == PruneTypeOK /\ InUseIsYoung /\ DoomedIsUnused /\ ArtifactsAreOrdered

PrunerRecords ==
  [at : {"off", "artifacts", "list", "remove"},
   sessions : SUBSET SessionIds, doomed : SUBSET SessionIds]

LEMMA InitPruneInv ==
  ASSUME PruneInit
  PROVE  PruneInv
<1>1. cutoff \in 1..(MaxEntries + 1) /\ artifacts \subseteq Entries
  BY PruneAssumption DEF PruneInit
<1>2. /\ profiles \in [SessionIds -> {"absent", "fresh", "aged"}]
      /\ managed \subseteq SessionIds /\ starting \subseteq SessionIds
      /\ launched \subseteq SessionIds /\ pruner \in PrunerRecords
  BY DEF PruneInit, PrunerRecords
<1>3. PruneTypeOK
  BY <1>1, <1>2 DEF PruneTypeOK, PrunerRecords
<1>4. InUseIsYoung /\ DoomedIsUnused
  BY DEF PruneInit, InUseIsYoung, DoomedIsUnused
<1>5. ArtifactsAreOrdered
  BY FS_EmptySet DEF PruneInit, ArtifactsAreOrdered
<1> QED
  BY <1>3, <1>4, <1>5 DEF PruneInv

LEMMA PruneTypes ==
  ASSUME PruneTypeOK, PruneNext
  PROVE  PruneTypeOK'
<1>a. /\ artifacts \subseteq Entries /\ cutoff \in 1..(MaxEntries + 1)
      /\ profiles \in [SessionIds -> {"absent", "fresh", "aged"}]
      /\ managed \subseteq SessionIds /\ starting \subseteq SessionIds
      /\ launched \subseteq SessionIds /\ pruner \in PrunerRecords
  BY DEF PruneTypeOK, PrunerRecords
<1>b. \A at \in {"off", "artifacts", "list", "remove"}, S, T \in SUBSET SessionIds :
        [at |-> at, sessions |-> S, doomed |-> T] \in PrunerRecords
  BY DEF PrunerRecords
<1>c. ASSUME UNCHANGED <<artifacts, cutoff>>, pruner' \in PrunerRecords,
             profiles' \in [SessionIds -> {"absent", "fresh", "aged"}],
             managed' \subseteq SessionIds, starting' \subseteq SessionIds,
             launched' \subseteq SessionIds
      PROVE  PruneTypeOK'
  BY <1>a, <1>c DEF PruneTypeOK, PrunerRecords
<1>1. CASE StateDiskPrune
  <2>1. pruner' = [at |-> "artifacts", sessions |-> managed, doomed |-> {}]
    BY <1>1 DEF StateDiskPrune
  <2>2. pruner' \in PrunerRecords
    BY <1>a, <1>b, <2>1
  <2> QED
    BY <1>1, <1>a, <1>c, <2>2 DEF StateDiskPrune
<1>2. CASE PruneDirectoryByAgeAndSize
  <2>1. pruner' \in PrunerRecords
    BY <1>2, <1>a DEF PruneDirectoryByAgeAndSize, PrunerRecords
  <2>2. artifacts' \subseteq Entries
    BY <1>2, <1>a DEF PruneDirectoryByAgeAndSize
  <2> QED
    BY <1>2, <1>a, <2>1, <2>2 DEF PruneDirectoryByAgeAndSize, PruneTypeOK, PrunerRecords
<1>3. CASE PruneOrphanProfiles
  <2> DEFINE doomed == {s \in WorkspaceIds \cup (SessionIds \ pruner.sessions) :
                          profiles[s] = "aged"}
  <2>1. doomed \in SUBSET SessionIds
    BY PruneAssumption
  <2>2. pruner' = [pruner EXCEPT !.at = "remove", !.doomed = doomed]
    BY <1>3 DEF PruneOrphanProfiles
  <2> HIDE DEF doomed
  <2>3. pruner' \in PrunerRecords
    BY <1>a, <2>1, <2>2 DEF PrunerRecords
  <2> QED
    BY <1>3, <1>a, <1>c, <2>3 DEF PruneOrphanProfiles
<1>4. ASSUME NEW s \in SessionIds, RemovePath(s)
      PROVE  PruneTypeOK'
  <2>1. pruner' = [pruner EXCEPT !.doomed = pruner.doomed \ {s}]
    BY <1>4 DEF RemovePath
  <2>2. pruner.doomed \ {s} \in SUBSET SessionIds
    BY <1>a DEF PrunerRecords
  <2>3. pruner' \in PrunerRecords
    BY <1>a, <2>1, <2>2 DEF PrunerRecords
  <2> QED
    BY <1>4, <1>a, <1>c, <2>3 DEF RemovePath
<1>5. ASSUME NEW s \in SessionIds, Launch(s) \/ Record(s) \/ Forget(s) \/ Ages(s)
      PROVE  PruneTypeOK'
  BY <1>5, <1>a, <1>c DEF Launch, Record, Forget, Ages
<1>6. CASE PruneEnds
  <2>1. pruner' = [at |-> "off", sessions |-> {}, doomed |-> {}]
    BY <1>6 DEF PruneEnds
  <2>2. pruner' \in PrunerRecords
    BY <1>b, <2>1
  <2> QED
    BY <1>6, <1>a, <1>c, <2>2 DEF PruneEnds
<1>7. CASE ArtifactIsWritten
  <2>1. PICK m \in cutoff..MaxEntries, b \in Sizes :
          artifacts' = artifacts \cup {[mtime |-> m, bytes |-> b]}
    BY <1>7 DEF ArtifactIsWritten
  <2>2. m \in 1..MaxEntries
    BY <1>a, PruneAssumption
  <2>3. artifacts' \subseteq Entries
    BY <1>a, <2>1, <2>2 DEF Entries
  <2> QED
    BY <1>7, <1>a, <2>3 DEF ArtifactIsWritten, PruneTypeOK, PrunerRecords
<1>8. CASE ArtifactsAge
  <2>1. cutoff' \in 1..(MaxEntries + 1)
    BY <1>8, <1>a, PruneAssumption DEF ArtifactsAge
  <2> QED
    BY <1>8, <1>a, <2>1 DEF ArtifactsAge, PruneTypeOK, PrunerRecords
<1> QED
  BY <1>1, <1>2, <1>3, <1>4, <1>5, <1>6, <1>7, <1>8 DEF PruneNext

LEMMA PruneSteps ==
  ASSUME PruneInv, PruneNext
  PROVE  InUseIsYoung' /\ DoomedIsUnused'
<1> USE DEF InUseIsYoung, DoomedIsUnused
<1>a. /\ PruneTypeOK /\ InUseIsYoung /\ DoomedIsUnused
      /\ profiles \in [SessionIds -> {"absent", "fresh", "aged"}]
      /\ managed \subseteq SessionIds /\ starting \subseteq SessionIds
      /\ pruner \in PrunerRecords
  BY DEF PruneInv, PruneTypeOK, PrunerRecords
<1>1. CASE StateDiskPrune
  BY <1>1, <1>a DEF StateDiskPrune
<1>2. CASE PruneDirectoryByAgeAndSize
  BY <1>2, <1>a DEF PruneDirectoryByAgeAndSize, PrunerRecords
<1>3. CASE PruneOrphanProfiles
  BY <1>3, <1>a DEF PruneOrphanProfiles, PrunerRecords
<1>4. ASSUME NEW s \in SessionIds, RemovePath(s)
      PROVE  InUseIsYoung' /\ DoomedIsUnused'
  BY <1>4, <1>a DEF RemovePath, PrunerRecords
<1>5. ASSUME NEW s \in SessionIds, Launch(s) \/ Record(s) \/ Forget(s) \/ Ages(s)
      PROVE  InUseIsYoung' /\ DoomedIsUnused'
  <2>1. CASE Launch(s)
    BY <2>1, <1>a DEF Launch
  <2>2. CASE Record(s)
    BY <2>2, <1>a DEF Record
  <2>3. CASE Forget(s)
    BY <2>3, <1>a DEF Forget
  <2>4. CASE Ages(s)
    BY <2>4, <1>a DEF Ages
  <2> QED
    BY <1>5, <2>1, <2>2, <2>3, <2>4
<1>6. CASE PruneEnds \/ ArtifactIsWritten \/ ArtifactsAge
  BY <1>6, <1>a DEF PruneEnds, ArtifactIsWritten, ArtifactsAge
<1> QED
  BY <1>1, <1>2, <1>3, <1>4, <1>5, <1>6 DEF PruneNext

LEMMA ArtifactsStayOrdered ==
  ASSUME PruneInv, PruneNext
  PROVE  ArtifactsAreOrdered'
<1>1. CASE PruneDirectoryByAgeAndSize
  <2>1. artifacts' \subseteq artifacts
    BY <1>1 DEF PruneDirectoryByAgeAndSize
  <2> QED
    BY <2>1, FS_Subset DEF PruneInv, ArtifactsAreOrdered
<1>2. CASE ArtifactIsWritten
  <2>1. PICK m \in cutoff..MaxEntries, b \in Sizes :
          /\ \A e \in artifacts : e.mtime < m
          /\ artifacts' = artifacts \cup {[mtime |-> m, bytes |-> b]}
    BY <1>2 DEF ArtifactIsWritten
  <2>2. IsFiniteSet(artifacts')
    BY <2>1, FS_AddElement DEF PruneInv, ArtifactsAreOrdered
  <2>3. \A e \in artifacts : e.mtime \in 1..MaxEntries
    BY BytesOfOne DEF PruneInv, PruneTypeOK
  <2>4. \A e \in artifacts : e.mtime # m
    BY <2>1, <2>3, PruneAssumption DEF PruneInv, PruneTypeOK
  <2>5. \A d, e \in artifacts' : d.mtime = e.mtime => d = e
    BY <2>1, <2>4 DEF PruneInv, ArtifactsAreOrdered
  <2> QED
    BY <2>2, <2>5 DEF ArtifactsAreOrdered
<1>3. CASE artifacts' = artifacts
  BY <1>3 DEF PruneInv, ArtifactsAreOrdered
<1> QED
  BY <1>1, <1>2, <1>3 DEF PruneNext, StateDiskPrune, PruneOrphanProfiles, RemovePath, PruneEnds,
    Launch, Record, Forget, Ages, ArtifactsAge

\* The inductive invariant of the prune holds in every reachable state.
THEOREM PruneInvariance == PruneSpec => []PruneInv
<1>1. PruneInv /\ [PruneNext]_pruneVars => PruneInv'
  <2>1. ASSUME PruneInv, UNCHANGED pruneVars
        PROVE  PruneInv'
    BY <2>1 DEF pruneVars, PruneInv, PruneTypeOK, InUseIsYoung, DoomedIsUnused,
      ArtifactsAreOrdered
  <2>2. ASSUME PruneInv, PruneNext
        PROVE  PruneInv'
    BY <2>2, PruneTypes, PruneSteps, ArtifactsStayOrdered DEF PruneInv
  <2> QED
    BY <2>1, <2>2
<1> QED
  BY <1>1, InitPruneInv, PTL DEF PruneSpec

\* The artifacts, the directories, the sessions and the prune are well typed.
THEOREM PruneTypeCorrect == PruneSpec => []PruneTypeOK
<1>1. PruneInv => PruneTypeOK
  BY DEF PruneInv
<1> QED
  BY <1>1, PruneInvariance, PTL

\* What a prune of the artifacts removes is too old or does not fit, and what it leaves
\* is within the limit.
LEMMA ArtifactsFit ==
  ASSUME PruneTypeOK, ArtifactsAreOrdered, PruneDirectoryByAgeAndSize
  PROVE  /\ \A e \in artifacts \ artifacts' :
              \/ e.mtime < cutoff
              \/ BytesOf({d \in artifacts' : d.mtime > e.mtime}) + e.bytes > MaxTotalBytes
         /\ BytesOf(artifacts') <= MaxTotalBytes
<1>a. MaxEntries \in Nat
  BY PruneAssumption
<1>b. \A e \in artifacts : e.mtime \in 1..MaxEntries
  BY BytesOfOne DEF PruneTypeOK
<1>c. artifacts' = artifacts \ PickEntriesToRemove
  BY DEF PruneDirectoryByAgeAndSize
<1>1. ASSUME NEW e \in artifacts \ artifacts'
      PROVE  \/ e.mtime < cutoff
             \/ BytesOf({d \in artifacts' : d.mtime > e.mtime}) + e.bytes > MaxTotalBytes
  <2>1. e.mtime < cutoff \/ KeptBytes[e.mtime + 1] + e.bytes > MaxTotalBytes
    BY <1>c DEF PickEntriesToRemove
  <2>2. e.mtime + 1 \in Ticks
    BY <1>a, <1>b DEF Ticks
  <2>3. KeptBytes[e.mtime + 1] = BytesOf(KeptSince(e.mtime + 1))
    BY <2>2, KeptBytesAreKept
  <2>4. KeptSince(e.mtime + 1) = {d \in artifacts' : d.mtime > e.mtime}
    BY <1>a, <1>b, <1>c DEF KeptSince
  <2> QED
    BY <2>1, <2>3, <2>4
<1>2. BytesOf(artifacts') <= MaxTotalBytes
  <2>1. 1 \in Ticks
    BY <1>a DEF Ticks
  <2>2. KeptSince(1) = artifacts'
    BY <1>a, <1>b, <1>c DEF KeptSince
  <2> QED
    BY <2>1, <2>2, KeptBytesAreKept
<1> QED
  BY <1>1, <1>2

\* Whatever starts, is recorded and is forgotten beside a prune, it takes the directory
\* of no session but one launched after the listing or one of a workspace profile, no
\* artifact that is young and would fit, and it leaves no more of them than the limit.
THEOREM OnlyGarbageGoes == PruneSpec => PruneRemovesGarbage
<1> DEFINE Aged == \A e \in artifacts \ artifacts' :
                     \/ e.mtime < cutoff
                     \/ BytesOf({d \in artifacts' : d.mtime > e.mtime}) + e.bytes > MaxTotalBytes
           Fit == pruner.at = "artifacts" /\ pruner'.at = "list" =>
                    BytesOf(artifacts') <= MaxTotalBytes
           Unused == \A s \in managed \cup starting :
                       profiles[s] # "absent" /\ profiles'[s] = "absent" =>
                         s \in launched \cup WorkspaceIds
<1>1. PruneInv /\ [PruneNext]_pruneVars => [Aged /\ Fit /\ Unused]_pruneVars
  <2> SUFFICES ASSUME PruneInv, PruneNext
               PROVE  Aged /\ Fit /\ Unused
    OBVIOUS
  <2>1. CASE PruneDirectoryByAgeAndSize
    <3>1. Aged /\ Fit
      BY <2>1, ArtifactsFit DEF PruneInv
    <3>2. Unused
      BY <2>1 DEF PruneDirectoryByAgeAndSize
    <3> QED
      BY <3>1, <3>2
  <2>2. ASSUME NEW s \in SessionIds, RemovePath(s)
        PROVE  Aged /\ Fit /\ Unused
    <3>1. Aged /\ Fit
      BY <2>2 DEF RemovePath
    <3>2. \A r \in managed \cup starting :
            profiles[r] # "absent" /\ profiles'[r] = "absent" => r = s
      BY <2>2 DEF RemovePath, PruneInv, PruneTypeOK
    <3>3. s \in managed \cup starting => s \in launched \cup WorkspaceIds
      BY <2>2 DEF RemovePath, PruneInv, DoomedIsUnused
    <3> QED
      BY <3>1, <3>2, <3>3
  <2>3. CASE StateDiskPrune \/ PruneOrphanProfiles \/ PruneEnds \/ ArtifactsAge
    BY <2>3 DEF StateDiskPrune, PruneOrphanProfiles, PruneEnds, ArtifactsAge
  <2>4. CASE ArtifactIsWritten
    BY <2>4 DEF ArtifactIsWritten
  <2>5. ASSUME NEW s \in SessionIds, Launch(s) \/ Record(s) \/ Forget(s) \/ Ages(s)
        PROVE  Aged /\ Fit /\ Unused
    <3>1. Aged /\ Fit
      BY <2>5 DEF Launch, Record, Forget, Ages
    <3>2. Unused
      BY <2>5 DEF Launch, Record, Forget, Ages, PruneInv, PruneTypeOK
    <3> QED
      BY <3>1, <3>2
  <2> QED
    BY <2>1, <2>2, <2>3, <2>4, <2>5 DEF PruneNext
<1> QED
  BY <1>1, PruneInvariance, PTL DEF PruneSpec, PruneRemovesGarbage

-----------------------------------------------------------------------------
(* The systems side by side                                                 *)

\* What TLC explores are behaviors of the six systems, each on its own: what is proved
\* of one of them holds there too.
THEOREM SideBySide ==
  Spec => /\ ProfileSpec /\ RegistrySpec /\ UpdateSpec
          /\ KickSpec /\ PruneSpec /\ SkillSpec
<1>1. Init => /\ ProfileInit /\ RegistryInit /\ UpdateInit
              /\ KickInit /\ PruneInit /\ SkillInit
  BY DEF Init
<1>2. [Next]_vars => /\ [ProfileNext]_profileVars /\ [RegistryNext]_registryVars
                     /\ [UpdateNext]_updateVars /\ [KickNext]_kickVars
                     /\ [PruneNext]_pruneVars /\ [SkillNext]_skillVars
  BY DEF Next, vars
<1> QED
  BY <1>1, <1>2, PTL DEF Spec, ProfileSpec, RegistrySpec, UpdateSpec, KickSpec, PruneSpec,
    SkillSpec

\* The state of all six is well typed.
THEOREM SideTypeCorrect == Spec => []SideTypeOK
<1>1. ProfileTypeOK /\ RegistryTypeOK /\ UpdateTypeOK /\ KickTypeOK /\ PruneTypeOK
      /\ SkillTypeOK => SideTypeOK
  BY DEF SideTypeOK
<1> QED
  BY <1>1, SideBySide, ProfileTypeCorrect, RegistryTypeCorrect, UpdateTypeCorrect,
    KickTypeCorrect, PruneTypeCorrect, SkillTypeCorrect, PTL
=============================================================================
