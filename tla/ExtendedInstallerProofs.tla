----------------------- MODULE ExtendedInstallerProofs -----------------------
(***************************************************************************)
(* Proofs about the extended installation (module ExtendedInstaller): the *)
(* results of InstallerProofs carry over to the registry of 21 steps,      *)
(* because every extended step only installs packages, runs commands or    *)
(* pip, and ends with the Ok or Err of its run.  None of them touches the  *)
(* configuration file, ctx.config, the venv or its activate script.        *)
(***************************************************************************)
EXTENDS ExtendedInstaller, InstallerProofs

ReqsStates == {"none", "plain", "precommit"}

(* The inductive invariant: the installer's, and the two extended files. *)
XInv ==
  /\ InstInv
  /\ reqs \in ReqsStates
  /\ precommit \in BOOLEAN

(* The eleven steps of extended_steps.rs. *)
XStep ==
  \/ LibvirtRun \/ LibvirtPythonRun \/ StorageRequirementsRun \/ WheelRun
  \/ PythonRequirementsRun \/ PreCommitRun \/ PostgresqlSupportRun
  \/ OpenVSwitchRun \/ MultipathRun \/ ChangeOwnerRun \/ ArchDetectionRun

LEMMA InitXInv == XInit => XInv
  BY InitInstInv DEF XInit, XInv, ReqsStates

(***************************************************************************)
(* What every extended step does to the installer's state: it ends with    *)
(* Succeed or Fail, keeps the configuration, the venv, the activate script *)
(* and requirements.txt, and leaves packages and faults typed.             *)
(***************************************************************************)
XStepShape ==
  /\ proc = "registry"
  /\ Succeed \/ Fail
  /\ UNCHANGED <<disk, cfg, venv, ppLines, reqs>>
  /\ pkgs' \in [Pkgs -> PkgStates]
  /\ faults' \in 0..MaxFaults
  /\ precommit' \in BOOLEAN

LEMMA InstallThenCommandsShape ==
  ASSUME XInv, NEW kind, NEW ps, InstallThenCommands(kind, ps)
  PROVE  XStepShape
<1>1. pkgs \in [Pkgs -> PkgStates] /\ faults \in 0..MaxFaults
  BY DEF XInv, InstInv, HostOK
<1>2. CASE InstallAll(ps, FALSE) /\ Fail
  BY <1>1, <1>2, InstallAllType DEF InstallThenCommands, KeepRest, xvars,
                                     Running, XStepShape, XInv
<1>3. CASE InstallAll(ps, TRUE) /\ Fault /\ Fail
  BY <1>1, <1>3, InstallAllType, FaultType
     DEF InstallThenCommands, KeepRest, xvars, Running, XStepShape, XInv
<1>4. CASE InstallAll(ps, TRUE) /\ UNCHANGED faults /\ Succeed
  BY <1>1, <1>4, InstallAllType DEF InstallThenCommands, KeepRest, xvars,
                                     Running, XStepShape, XInv
<1>5. QED
  BY <1>2, <1>3, <1>4 DEF InstallThenCommands

LEMMA CommandOnlyShape ==
  ASSUME XInv, NEW kind, CommandOnly(kind)
  PROVE  XStepShape
  BY FaultType DEF CommandOnly, KeepRest, xvars, Running, XStepShape, XInv,
                   InstInv, HostOK

LEMMA PipInstallShape ==
  ASSUME XInv, NEW kind, PipInstall(kind)
  PROVE  XStepShape
  BY FaultType DEF PipInstall, KeepRest, xvars, Running, XStepShape, XInv,
                   InstInv, HostOK

LEMMA StorageRequirementsShape ==
  ASSUME XInv, StorageRequirementsRun
  PROVE  XStepShape
<1>1. pkgs \in [Pkgs -> PkgStates] /\ faults \in 0..MaxFaults
  BY DEF XInv, InstInv, HostOK
<1>2. QED
  BY <1>1, InstallAllType DEF StorageRequirementsRun, KeepRest, xvars,
                              Running, XStepShape, XInv

LEMMA PythonRequirementsShape ==
  ASSUME XInv, PythonRequirementsRun
  PROVE  XStepShape
  BY FaultType DEF PythonRequirementsRun, Running, XStepShape, XInv,
                   InstInv, HostOK

LEMMA PreCommitShape ==
  ASSUME XInv, PreCommitRun
  PROVE  XStepShape
  BY FaultType DEF PreCommitRun, KeepRest, xvars, Running, XStepShape, XInv,
                   InstInv, HostOK

LEMMA XStepIsShaped == XInv /\ XStep => XStepShape
  BY InstallThenCommandsShape, CommandOnlyShape, PipInstallShape,
     StorageRequirementsShape, PythonRequirementsShape, PreCommitShape
  DEF XStep, LibvirtRun, LibvirtPythonRun, WheelRun, PostgresqlSupportRun,
      OpenVSwitchRun, MultipathRun, ChangeOwnerRun, ArchDetectionRun

LEMMA XStepXInv == XInv /\ XStep => XInv'
<1> SUFFICES ASSUME XInv, XStep PROVE XInv'
  OBVIOUS
<1>1. XStepShape
  BY XStepIsShaped
<1>2. IInv' /\ proc' \in {"loading", "registry", "exited"} /\ tty' \in BOOLEAN
  BY <1>1, RegistryStep, ResultType DEF XStepShape, XInv, InstInv
<1>3. QED
  BY <1>1, <1>2 DEF XStepShape, XInv, InstInv, HostOK

LEMMA XNextXInv == XInv /\ [XNext]_xallvars => XInv'
<1> SUFFICES ASSUME XInv, [XNext]_xallvars PROVE XInv'
  OBVIOUS
<1>1. CASE INext /\ UNCHANGED xvars
  BY <1>1, INextInstInv DEF XInv, xvars
<1>2. CASE XStep
  BY <1>2, XStepXInv
<1>3. CASE UNCHANGED xallvars
  BY <1>3, StutterInstInv DEF XInv, xallvars, xvars
<1>4. QED
  BY <1>1, <1>2, <1>3 DEF XNext, XStep

THEOREM XInvariant == XSpec => []XInv
  BY InitXInv, XNextXInv, PTL DEF XSpec

-----------------------------------------------------------------------------

(* The extended installation keeps the process, the host, the            *)
(* configuration and requirements.txt / venv/bin/pre-commit well typed   *)
(* through failed operations and re-runs, for every registry.             *)
THEOREM XTypeCorrect == XSpec => []XTypeOK
<1>1. XInv => XTypeOK
  BY DEF XInv, InstInv, IInv, HostOK, XTypeOK, ITypeOK, ReqsStates
<1>2. QED
  BY <1>1, XInvariant, PTL

(* No extended step appends to the activate script: the PYTHONPATH line  *)
(* stays single in the extended installation too.                        *)
THEOREM XPythonPathOnceThm == XSpec => []PythonPathOnce
<1>1. XInv => PythonPathOnce
  BY DEF XInv, InstInv, HostOK, PythonPathOnce
<1>2. QED
  BY <1>1, XInvariant, PTL

(* execute_all stays fail-fast with the 21 steps of the extended         *)
(* registry, whatever the extended steps do to the host.                 *)
THEOREM XFailFastThm == XSpec => []FailFast
<1>1. XInv => FailFast
  BY IInvFailFast DEF XInv, InstInv
<1>2. QED
  BY <1>1, XInvariant, PTL

(* The printed positions of the extended registry are correct when no  *)
(* step type is added twice, as in run_extended_installation.            *)
THEOREM XPositionCorrectThm == IsInjective(Steps) => (XSpec => []PositionCorrect)
<1> SUFFICES ASSUME IsInjective(Steps) PROVE XSpec => []PositionCorrect
  OBVIOUS
<1>1. XInv => PositionCorrect
  BY IInvPosition DEF XInv, InstInv
<1>2. QED
  BY <1>1, XInvariant, PTL

-----------------------------------------------------------------------------
(***************************************************************************)
(* The configuration a successful extended run leaves.  The registry of    *)
(* run_extended_installation (21 distinct step types) starts with the ten  *)
(* of run_first_ten_steps, so the facts CfgFacts of InstallerProofs hold   *)
(* for its first ten steps; the eleven after them leave file and           *)
(* ctx.config alone.                                                       *)
(***************************************************************************)
ExtendedRegistry == Steps = ExtendedTwentyOne /\ IsInjective(ExtendedTwentyOne)

LEMMA ExtendedLen ==
  /\ Len(ExtendedTwentyOne) = 21
  /\ \A k \in 1..10 : ExtendedTwentyOne[k] = FirstTen[k]
  /\ ExtendedTwentyOne[11] = Libvirt /\ ExtendedTwentyOne[12] = LibvirtPython
  /\ ExtendedTwentyOne[13] = StorageRequirements /\ ExtendedTwentyOne[14] = Wheel
  /\ ExtendedTwentyOne[15] = PythonRequirements /\ ExtendedTwentyOne[16] = PreCommit
  /\ ExtendedTwentyOne[17] = PostgresqlSupport /\ ExtendedTwentyOne[18] = OpenVSwitch
  /\ ExtendedTwentyOne[19] = Multipath /\ ExtendedTwentyOne[20] = ChangeOwner
  /\ ExtendedTwentyOne[21] = ArchDetection
  BY FirstTenLen DEF ExtendedTwentyOne, FirstTen

LEMMA ExtendedStarts == ExtendedRegistry => StartsWithFirstTen
<1> SUFFICES ASSUME ExtendedRegistry PROVE StartsWithFirstTen
  OBVIOUS
<1>1. Steps = ExtendedTwentyOne /\ IsInjective(Steps)
  BY DEF ExtendedRegistry
<1>2. N = 21
  BY <1>1, ExtendedLen DEF N
<1>3. QED
  BY <1>1, <1>2, ExtendedLen DEF StartsWithFirstTen

(* An extended step runs at one of the positions 11..21. *)
LEMMA XStepAt ==
  ASSUME ExtendedRegistry, IInv, XStep
  PROVE  pc \in 11..21
<1>1. Steps = ExtendedTwentyOne /\ IsInjective(Steps) /\ N = 21
  BY ExtendedLen DEF ExtendedRegistry, N
<1>2. PICK kind \in {Libvirt, LibvirtPython, StorageRequirements, Wheel,
                     PythonRequirements, PreCommit, PostgresqlSupport,
                     OpenVSwitch, Multipath, ChangeOwner, ArchDetection} :
        Running(kind)
  BY DEF XStep, LibvirtRun, LibvirtPythonRun, StorageRequirementsRun, WheelRun,
         PythonRequirementsRun, PreCommitRun, PostgresqlSupportRun,
         OpenVSwitchRun, MultipathRun, ChangeOwnerRun, ArchDetectionRun,
         InstallThenCommands, CommandOnly, PipInstall
<1>5. PICK k \in 11..21 : kind = ExtendedTwentyOne[k]
  BY ExtendedLen
<1>3. pc = k
  BY <1>1, <1>2, <1>5, RunningIndex
<1>4. QED
  BY <1>3

XCInv == XInv /\ CfgFacts

LEMMA InitXCInv == XInit => XCInv
  BY InitXInv, InitCInv DEF XInit, XCInv, CInv

(* An extended step keeps the configuration facts: it is past step 4 and *)
(* leaves file and ctx.config alone, or it fails and ends the run.        *)
LEMMA XStepC ==
  ASSUME ExtendedRegistry, XCInv, XStep
  PROVE  CfgFacts'
<1>1. XStepShape
  BY XStepIsShaped DEF XCInv
<1>2. pc \in 11..21
  BY XStepAt DEF XCInv, XInv, InstInv
<1>3. CASE Fail
  BY <1>3, FailFacts
<1>4. CASE Succeed
  <2>1. CfgFacts /\ proc = "registry" /\ phase = "running"
    <3>1. CfgFacts
      BY DEF XCInv
    <3>2. proc = "registry"
      BY <1>1 DEF XStepShape
    <3>3. phase = "running"
      BY <1>4 DEF Succeed, StepOk
    <3>4. QED
      BY <3>1, <3>2, <3>3
  <2>2. pc \in Nat /\ pc \notin {2, 3, 4}
    BY <1>2
  <2>3. QED
    BY <1>1, <1>4, <2>1, <2>2, NeutralSucceed DEF XStepShape
<1>5. QED
  BY <1>1, <1>3, <1>4 DEF XStepShape

LEMMA XNextXCInv ==
  ASSUME ExtendedRegistry, XCInv, [XNext]_xallvars
  PROVE  XCInv'
<1>1. XInv'
  BY XNextXInv DEF XCInv
<1>2. CASE INext /\ UNCHANGED xvars
  <2>1. StartsWithFirstTen /\ CInv
    BY ExtendedStarts DEF XCInv, XInv, CInv
  <2>2. CfgFacts'
    BY <1>2, <2>1, INextCInv DEF CInv
  <2>3. QED
    BY <1>1, <2>2 DEF XCInv
<1>3. CASE XStep
  BY <1>1, <1>3, XStepC DEF XCInv
<1>4. CASE UNCHANGED xallvars
  BY <1>1, <1>4 DEF XCInv, CfgFacts, Done, xallvars, allvars, vars, ivars
<1>5. QED
  BY <1>2, <1>3, <1>4 DEF XNext, XStep

(***************************************************************************)
(* For the registry of run_extended_installation and any fault bound: when *)
(* execute_all returns Ok after all 21 steps, the configuration file holds *)
(* exactly ctx.config and validate-config accepts it, with a JWT secret    *)
(* and the OS type, however earlier runs and saves failed.                 *)
(***************************************************************************)
THEOREM XInstalledConfigPersistedThm ==
  ExtendedRegistry => (XSpec => []InstalledConfigPersisted)
<1> SUFFICES ASSUME ExtendedRegistry PROVE XSpec => []InstalledConfigPersisted
  OBVIOUS
<1>1. XCInv /\ [XNext]_xallvars => XCInv'
  BY XNextXCInv
<1>2. XCInv => InstalledConfigPersisted
  BY ExtendedStarts, CInvPersisted DEF XCInv, XInv, CInv
<1>3. QED
  BY InitXCInv, <1>1, <1>2, PTL DEF XSpec

-----------------------------------------------------------------------------
(***************************************************************************)
(* Refinement: an extended step is a step of execute_all, so it maps to a  *)
(* step of StepSequence just as a step of the first ten does.              *)
(***************************************************************************)
XRInv == XInv /\ RInv

LEMMA InitXRInv == XInit => XRInv
  BY InitXInv, InitRInv DEF XInit, XRInv

LEMMA XNextXRInv == XRInv /\ [XNext]_xallvars => XRInv'
<1> SUFFICES ASSUME XRInv, [XNext]_xallvars PROVE XRInv'
  OBVIOUS
<1>1. XInv'
  BY XNextXInv DEF XRInv
<1>2. CASE INext /\ UNCHANGED xvars
  BY <1>1, <1>2, INextRInv DEF XRInv
<1>3. CASE XStep
  <2>1. XStepShape
    BY <1>3, XStepIsShaped DEF XRInv
  <2>2. QED
    BY <1>1, <2>1 DEF XRInv, RInv, XInv, XStepShape, Succeed, Fail, StepOk, StepErr
<1>4. CASE UNCHANGED xallvars
  <2>1. UNCHANGED <<proc, pc, phase>>
    BY <1>4 DEF xallvars, allvars, vars, ivars
  <2>2. InstInv'
    BY <1>1 DEF XInv
  <2>3. QED
    BY <1>1, <2>1, <2>2 DEF XRInv, RInv
<1>5. QED
  BY <1>2, <1>3, <1>4 DEF XNext, XStep

LEMMA XNextRefines ==
  ASSUME IsInjective(Steps), XRInv, [XNext]_xallvars
  PROVE  [Abstract!SNext \/ Abstract!Restart]_Abstract!seqVars
<1>1. CASE INext /\ UNCHANGED xvars
  BY <1>1, INextRefines DEF XRInv
<1>2. CASE XStep
  <2>1. Succeed \/ Fail
    BY <1>2, XStepIsShaped DEF XRInv, XStepShape
  <2>2. QED
    BY <2>1, ResultRefines DEF XRInv, XInv, InstInv
<1>3. CASE UNCHANGED xallvars
  BY <1>3 DEF xallvars, allvars, vars, SeqStatus, Abstract!seqVars
<1>4. QED
  BY <1>1, <1>2, <1>3 DEF XNext, XStep

(***************************************************************************)
(* The extended installation, re-run by the operator after each failure,   *)
(* implements StepSequence's contract run after run for every registry    *)
(* without a repeated step type: the eleven extended steps are announced,  *)
(* run and failed like the first ten.                                      *)
(***************************************************************************)
THEOREM XRerunRefinementThm ==
  IsInjective(Steps) => (XSpec => ImplementsRerunSequence)
<1> SUFFICES ASSUME IsInjective(Steps) PROVE XSpec => Abstract!RerunSpec
  BY DEF ImplementsRerunSequence
<1>1. XInit => Abstract!SInit
  BY DEF XInit, IInit, Init, Abstract!SInit, SeqStatus
<1>2. XRInv /\ [XNext]_xallvars => [Abstract!SNext \/ Abstract!Restart]_Abstract!seqVars
  BY XNextRefines
<1>3. QED
  BY <1>1, <1>2, InitXRInv, XNextXRInv, PTL DEF XSpec, Abstract!RerunSpec


(* No extended step touches ctx.config. *)
LEMMA XNextSaved == XInv /\ [XNext]_xallvars => [SavedStep]_allvars
<1> SUFFICES ASSUME XInv, [XNext]_xallvars PROVE [SavedStep]_allvars
  OBVIOUS
<1>1. CASE INext /\ UNCHANGED xvars
  BY <1>1, INextSaved
<1>2. CASE XStep
  <2>1. UNCHANGED cfg
    BY <1>2, XStepIsShaped DEF XStepShape
  <2>2. QED
    BY <2>1, CfgKeptSaved
<1>3. CASE UNCHANGED xallvars
  BY <1>3 DEF xallvars
<1>4. QED
  BY <1>1, <1>2, <1>3 DEF XNext, XStep

(***************************************************************************)
(* ConfigChangesSaved for the extended installation: the eleven later      *)
(* steps never write ctx.config, so it still never runs ahead of the file. *)
(***************************************************************************)
THEOREM XConfigChangesSavedThm == XSpec => ConfigChangesSaved
<1>1. XInv /\ [XNext]_xallvars => [SavedStep]_allvars
  BY XNextSaved
<1>2. QED
  BY <1>1, XInvariant, PTL DEF XSpec, ConfigChangesSaved, SavedStep

=============================================================================
