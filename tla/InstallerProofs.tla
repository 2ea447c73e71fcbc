--------------------------- MODULE InstallerProofs ---------------------------
(***************************************************************************)
(* Proofs about the console installation (module Installer) for every      *)
(* registry and every fault bound: the state of the process, the host and  *)
(* the configuration stays well typed, and the PYTHONPATH line is never    *)
(* written twice, however the runs fail and are re-run.                    *)
(***************************************************************************)
EXTENDS Installer, RegistryProofs

(***************************************************************************)
(* The inductive invariant: the registry's own (IInv, which pins pc and    *)
(* the histories to each other) with the type of the installer's state.   *)
(* PythonPathOnce is inductive by itself once ppLines is typed: no action  *)
(* raises it but PythonPathRun, and that one only from 0.                  *)
(***************************************************************************)
HostOK ==
  /\ proc \in {"loading", "registry", "exited"}
  /\ disk \in ConfigRec \cup {Corrupt}
  /\ cfg \in ConfigRec
  /\ pkgs \in [Pkgs -> PkgStates]
  /\ venv \in {"absent", "partial", "complete"}
  /\ ppLines \in 0..1
  /\ faults \in 0..MaxFaults
  /\ tty \in BOOLEAN

InstInv == IInv /\ HostOK

LEMMA InitInstInv == IInit => InstInv
<1> SUFFICES ASSUME IInit PROVE InstInv
  OBVIOUS
<1>1. IInv
  BY InitIInv DEF IInit
<1>2. pkgs \in [Pkgs -> PkgStates]
  BY DEF IInit, PkgStates
<1>3. HostOK
  BY <1>2, FaultsAssumption, TtyAssumption DEF IInit, HostOK
<1>4. QED
  BY <1>1, <1>3 DEF InstInv

(* An unparsable file is no configuration: its record has other fields. *)
LEMMA CorruptNotConfig == Corrupt \notin ConfigRec
<1>1. DOMAIN Corrupt = {"corrupt"}
  BY DEF Corrupt
<1>2. \A c \in ConfigRec : "login" \in DOMAIN c
  BY DEF ConfigRec
<1>3. QED
  BY <1>1, <1>2

(***************************************************************************)
(* The operations the steps call keep the host typed.                      *)
(***************************************************************************)
LEMMA FaultType ==
  ASSUME faults \in 0..MaxFaults, Fault
  PROVE  faults' \in 0..MaxFaults
  BY FaultsAssumption DEF Fault

LEMMA UpgradeType ==
  ASSUME pkgs \in [Pkgs -> PkgStates], NEW S
  PROVE  Upgrade(S) \in [Pkgs -> PkgStates]
  BY DEF Upgrade, PkgStates

LEMMA InstallAllType ==
  ASSUME pkgs \in [Pkgs -> PkgStates], faults \in 0..MaxFaults,
         NEW ps, NEW ok, InstallAll(ps, ok)
  PROVE  /\ pkgs' \in [Pkgs -> PkgStates]
         /\ ~ok => faults' \in 0..MaxFaults
<1>1. PICK k \in 0..Len(ps) :
        /\ ok = (k = Len(ps))
        /\ \/ ok /\ pkgs' = Upgrade({ps[i] : i \in 1..k})
           \/ /\ ~ok /\ pkgs[ps[k + 1]] = "absent" /\ Fault
              /\ \E s \in {"absent", "unpacked"} :
                   pkgs' = [Upgrade({ps[i] : i \in 1..k}) EXCEPT ![ps[k + 1]] = s]
  BY DEF InstallAll
<1>2. Upgrade({ps[i] : i \in 1..k}) \in [Pkgs -> PkgStates]
  BY UpgradeType
<1>3. CASE ok
  BY <1>1, <1>2, <1>3
<1>4. CASE ~ok
  <2>1. Fault
    BY <1>1, <1>4
  <2>2. PICK s \in {"absent", "unpacked"} :
          pkgs' = [Upgrade({ps[i] : i \in 1..k}) EXCEPT ![ps[k + 1]] = s]
    BY <1>1, <1>4
  <2>3. pkgs' \in [Pkgs -> PkgStates]
    BY <1>2, <2>2 DEF PkgStates
  <2>4. QED
    BY <2>1, <2>3, FaultType
<1>5. QED
  BY <1>3, <1>4

(* Succeed and Fail move the registry the way StepOk and StepErr do. *)
LEMMA RegistryStep == IInv /\ (Succeed \/ Fail) => IInv'
  BY StepOkIInv, StepErrIInv DEF Succeed, Fail

(* A failed save leaves the old file or a corrupt one. *)
LEMMA SaveType ==
  ASSUME HostOK, NEW c \in ConfigRec, SaveOk(c) \/ SaveFails
  PROVE  disk' \in ConfigRec \cup {Corrupt} /\ faults' \in 0..MaxFaults
  BY FaultType DEF HostOK, SaveOk, SaveFails

(* Succeed and Fail keep the process within its states and its terminal. *)
LEMMA ResultType ==
  ASSUME HostOK, Succeed \/ Fail
  PROVE  proc' \in {"loading", "registry", "exited"} /\ tty' \in BOOLEAN
  BY DEF HostOK, Succeed, Fail

-----------------------------------------------------------------------------
(* One lemma per action of INext: each preserves InstInv. *)

LEMMA LoadConfigInv == InstInv /\ LoadConfig => InstInv'
<1> SUFFICES ASSUME InstInv, LoadConfig PROVE InstInv'
  OBVIOUS
<1>1. IInv'
  BY StutterIInv DEF InstInv, LoadConfig
<1>2. CASE disk \in ConfigRec /\ (tty \/ ~NeedsPrompt(disk))
  <2>1. \A c \in Prompted(disk) : c \in ConfigRec
    BY <1>2 DEF Prompted, ConfigRec, Hosts, LenClasses
  <2>2. PICK c \in Prompted(disk) :
          /\ cfg' = c
          /\ \/ SaveOk(c) /\ proc' = "registry"
             \/ SaveFails /\ proc' = "exited"
    <3>1. disk # Corrupt
      BY <1>2, CorruptNotConfig
    <3>2. QED
      BY <1>2, <3>1 DEF LoadConfig
  <2>3. disk' \in ConfigRec \cup {Corrupt} /\ faults' \in 0..MaxFaults
    <3>1. c \in ConfigRec /\ HostOK /\ (SaveOk(c) \/ SaveFails)
      BY <2>1, <2>2 DEF InstInv
    <3>2. QED
      BY <3>1, SaveType
  <2>4. QED
    BY <1>1, <2>1, <2>2, <2>3 DEF LoadConfig, InstInv, HostOK
<1>3. CASE ~(disk \in ConfigRec /\ (tty \/ ~NeedsPrompt(disk)))
  <2>1. proc' = "exited" /\ UNCHANGED <<disk, cfg, faults>>
    BY <1>3 DEF LoadConfig
  <2>2. QED
    BY <1>1, <2>1 DEF LoadConfig, InstInv, HostOK
<1>4. QED
  BY <1>2, <1>3

LEMMA IAnnounceInv == InstInv /\ IAnnounce => InstInv'
  BY AnnounceIInv DEF IAnnounce, InstInv, HostOK, ivars

LEMMA IFinishInv == InstInv /\ IFinish => InstInv'
  BY FinishIInv DEF IFinish, InstInv, HostOK

LEMMA RerunInv == InstInv /\ Rerun => InstInv'
<1> SUFFICES ASSUME InstInv, Rerun PROVE InstInv'
  OBVIOUS
<1>1. IInv'
  BY NType DEF Rerun, IInv, TypeOK, Phases
<1>2. QED
  BY <1>1, TtyAssumption DEF Rerun, InstInv, HostOK

LEMMA TmuxInstallRunInv == InstInv /\ TmuxInstallRun => InstInv'
<1> SUFFICES ASSUME InstInv, TmuxInstallRun PROVE InstInv'
  OBVIOUS
<1>1. IInv' /\ proc' \in {"loading", "registry", "exited"} /\ tty' \in BOOLEAN
  BY RegistryStep, ResultType DEF InstInv, TmuxInstallRun
<1>2. pkgs' \in [Pkgs -> PkgStates] /\ faults' \in 0..MaxFaults
  BY InstallAllType, FaultType DEF InstInv, HostOK, TmuxInstallRun
<1>3. QED
  BY <1>1, <1>2 DEF InstInv, HostOK, TmuxInstallRun

LEMMA PythonToolsRunInv == InstInv /\ PythonToolsRun => InstInv'
<1> SUFFICES ASSUME InstInv, PythonToolsRun PROVE InstInv'
  OBVIOUS
<1>1. IInv' /\ proc' \in {"loading", "registry", "exited"} /\ tty' \in BOOLEAN
  BY RegistryStep, ResultType DEF InstInv, PythonToolsRun
<1>2. pkgs' \in [Pkgs -> PkgStates] /\ faults' \in 0..MaxFaults
  BY InstallAllType DEF InstInv, HostOK, PythonToolsRun
<1>3. QED
  BY <1>1, <1>2 DEF InstInv, HostOK, PythonToolsRun

LEMMA LibpqDevRunInv == InstInv /\ LibpqDevRun => InstInv'
<1> SUFFICES ASSUME InstInv, LibpqDevRun PROVE InstInv'
  OBVIOUS
<1>1. IInv' /\ proc' \in {"loading", "registry", "exited"} /\ tty' \in BOOLEAN
  BY RegistryStep, ResultType DEF InstInv, LibpqDevRun
<1>2. pkgs' \in [Pkgs -> PkgStates] /\ faults' \in 0..MaxFaults
  BY InstallAllType DEF InstInv, HostOK, LibpqDevRun
<1>3. QED
  BY <1>1, <1>2 DEF InstInv, HostOK, LibpqDevRun

LEMMA WebsockifyRunInv == InstInv /\ WebsockifyRun => InstInv'
<1> SUFFICES ASSUME InstInv, WebsockifyRun PROVE InstInv'
  OBVIOUS
<1>1. IInv' /\ proc' \in {"loading", "registry", "exited"} /\ tty' \in BOOLEAN
  BY RegistryStep, ResultType DEF InstInv, WebsockifyRun
<1>2. pkgs' \in [Pkgs -> PkgStates] /\ faults' \in 0..MaxFaults
  BY InstallAllType DEF InstInv, HostOK, WebsockifyRun
<1>3. QED
  BY <1>1, <1>2 DEF InstInv, HostOK, WebsockifyRun

LEMMA HomeDirSetupRunInv == InstInv /\ HomeDirSetupRun => InstInv'
<1> SUFFICES ASSUME InstInv, HomeDirSetupRun PROVE InstInv'
  OBVIOUS
<1>1. IInv' /\ proc' \in {"loading", "registry", "exited"} /\ tty' \in BOOLEAN
  BY RegistryStep, ResultType DEF InstInv, HomeDirSetupRun
<1>2. faults' \in 0..MaxFaults
  BY FaultType DEF InstInv, HostOK, HomeDirSetupRun
<1>3. QED
  BY <1>1, <1>2 DEF InstInv, HostOK, HomeDirSetupRun

LEMMA VenvCreationRunInv == InstInv /\ VenvCreationRun => InstInv'
<1> SUFFICES ASSUME InstInv, VenvCreationRun PROVE InstInv'
  OBVIOUS
<1>1. IInv' /\ proc' \in {"loading", "registry", "exited"} /\ tty' \in BOOLEAN
  BY RegistryStep, ResultType DEF InstInv, VenvCreationRun
<1>2. venv' \in {"absent", "partial", "complete"} /\ faults' \in 0..MaxFaults
  BY FaultType DEF InstInv, HostOK, VenvCreationRun
<1>3. QED
  BY <1>1, <1>2 DEF InstInv, HostOK, VenvCreationRun

(* The step that could break PythonPathOnce: it appends only from 0. *)
LEMMA PythonPathRunInv == InstInv /\ PythonPathRun => InstInv'
<1> SUFFICES ASSUME InstInv, PythonPathRun PROVE InstInv'
  OBVIOUS
<1>1. IInv' /\ proc' \in {"loading", "registry", "exited"} /\ tty' \in BOOLEAN
  BY RegistryStep, ResultType DEF InstInv, PythonPathRun
<1>2. ppLines' \in 0..1
  BY DEF InstInv, HostOK, PythonPathRun
<1>3. faults' \in 0..MaxFaults
  BY FaultType DEF InstInv, HostOK, PythonPathRun
<1>4. QED
  BY <1>1, <1>2, <1>3 DEF InstInv, HostOK, PythonPathRun

LEMMA UserDataVerificationRunInv == InstInv /\ UserDataVerificationRun => InstInv'
<1> SUFFICES ASSUME InstInv, UserDataVerificationRun PROVE InstInv'
  OBVIOUS
<1>1. IInv' /\ proc' \in {"loading", "registry", "exited"} /\ tty' \in BOOLEAN
  BY RegistryStep, ResultType DEF InstInv, UserDataVerificationRun
<1>2. disk' \in ConfigRec \cup {Corrupt} /\ faults' \in 0..MaxFaults
  <2>1. CASE LoginOk(cfg) /\ PasswordOk(cfg)
    <3>1. cfg \in ConfigRec /\ HostOK /\ (SaveOk(cfg) \/ SaveFails)
      BY <2>1 DEF InstInv, HostOK, UserDataVerificationRun
    <3>2. QED
      BY <3>1, SaveType
  <2>2. CASE ~(LoginOk(cfg) /\ PasswordOk(cfg))
    BY <2>2 DEF InstInv, HostOK, UserDataVerificationRun
  <2>3. QED
    BY <2>1, <2>2
<1>3. QED
  BY <1>1, <1>2 DEF InstInv, HostOK, UserDataVerificationRun

LEMMA JwtSecretRunInv == InstInv /\ JwtSecretRun => InstInv'
<1> SUFFICES ASSUME InstInv, JwtSecretRun PROVE InstInv'
  OBVIOUS
<1>1. IInv' /\ proc' \in {"loading", "registry", "exited"} /\ tty' \in BOOLEAN
  BY RegistryStep, ResultType DEF InstInv, JwtSecretRun
<1>2. PICK s \in Secrets \ {cfg.jwt} :
        /\ cfg' = [cfg EXCEPT !.jwt = s]
        /\ \/ SaveOk([cfg EXCEPT !.jwt = s]) /\ Succeed
           \/ SaveFails /\ Fail
  BY DEF JwtSecretRun
<1>3. [cfg EXCEPT !.jwt = s] \in ConfigRec
  BY <1>2 DEF InstInv, HostOK, ConfigRec
<1>4. disk' \in ConfigRec \cup {Corrupt} /\ faults' \in 0..MaxFaults
  <2>1. HostOK /\ (SaveOk([cfg EXCEPT !.jwt = s]) \/ SaveFails)
    BY <1>2 DEF InstInv
  <2>2. QED
    BY <1>3, <2>1, SaveType
<1>5. QED
  BY <1>1, <1>2, <1>3, <1>4 DEF InstInv, HostOK, JwtSecretRun

LEMMA OsTypeDetectionRunInv == InstInv /\ OsTypeDetectionRun => InstInv'
<1> SUFFICES ASSUME InstInv, OsTypeDetectionRun PROVE InstInv'
  OBVIOUS
<1>1. IInv' /\ proc' \in {"loading", "registry", "exited"} /\ tty' \in BOOLEAN
  BY RegistryStep, ResultType DEF InstInv, OsTypeDetectionRun
<1>2. [cfg EXCEPT !.os = "detected"] \in ConfigRec
  BY DEF InstInv, HostOK, ConfigRec
<1>3. CASE Fault /\ Fail /\ UNCHANGED <<disk, cfg>>
  BY <1>1, <1>3, FaultType DEF InstInv, HostOK, OsTypeDetectionRun
<1>4. CASE /\ cfg' = [cfg EXCEPT !.os = "detected"]
           /\ \/ SaveOk([cfg EXCEPT !.os = "detected"]) /\ Succeed
              \/ SaveFails /\ Fail
  <2>1. HostOK /\ (SaveOk([cfg EXCEPT !.os = "detected"]) \/ SaveFails)
    BY <1>4 DEF InstInv
  <2>2. disk' \in ConfigRec \cup {Corrupt} /\ faults' \in 0..MaxFaults
    BY <1>2, <2>1, SaveType
  <2>3. QED
    BY <1>1, <1>2, <1>4, <2>2 DEF InstInv, HostOK, OsTypeDetectionRun
<1>5. QED
  BY <1>3, <1>4 DEF OsTypeDetectionRun

LEMMA StutterInstInv == InstInv /\ UNCHANGED allvars => InstInv'
  BY StutterIInv DEF InstInv, HostOK, allvars, ivars

LEMMA INextInstInv == InstInv /\ [INext]_allvars => InstInv'
  BY LoadConfigInv, IAnnounceInv, TmuxInstallRunInv,
     UserDataVerificationRunInv, JwtSecretRunInv, OsTypeDetectionRunInv,
     HomeDirSetupRunInv, PythonToolsRunInv, VenvCreationRunInv,
     PythonPathRunInv, LibpqDevRunInv, WebsockifyRunInv, IFinishInv,
     RerunInv, StutterInstInv
  DEF INext

THEOREM InstInvariant == ISpec => []InstInv
  BY InitInstInv, INextInstInv, PTL DEF ISpec

-----------------------------------------------------------------------------

(* The installer's process, host and configuration state stays well typed *)
(* through failed operations and re-runs, for every registry.             *)
THEOREM ITypeCorrect == ISpec => []ITypeOK
<1>1. InstInv => ITypeOK
  BY DEF InstInv, IInv, HostOK, ITypeOK
<1>2. QED
  BY <1>1, InstInvariant, PTL

(***************************************************************************)
(* PythonPathStep's check of the activate script before it appends the    *)
(* PYTHONPATH line keeps the line single for every registry and every     *)
(* number of failed operations and re-runs.                               *)
(***************************************************************************)
THEOREM PythonPathOnceThm == ISpec => []PythonPathOnce
<1>1. InstInv => PythonPathOnce
  BY DEF InstInv, HostOK, PythonPathOnce
<1>2. QED
  BY <1>1, InstInvariant, PTL

-----------------------------------------------------------------------------
(***************************************************************************)
(* The configuration a successful run leaves, for the registry that        *)
(* run_first_ten_steps builds (ten distinct step types).  Step k is done   *)
(* in the current run when the loop is past it and has not failed; each   *)
(* of steps 2, 3 and 4 leaves a fact about ctx.config that the later steps *)
(* keep, and a successful step leaves the file equal to ctx.config.        *)
(***************************************************************************)
FirstTenRegistry == Steps = FirstTen /\ IsInjective(FirstTen)

(* What the proofs below use of the registry: it starts with the ten     *)
(* steps of run_first_ten_steps, and adds no step type twice.  The        *)
(* registry of run_extended_installation has this form as well.           *)
StartsWithFirstTen ==
  /\ 10 <= N
  /\ \A k \in 1..10 : Steps[k] = FirstTen[k]
  /\ IsInjective(Steps)

Done(k) == pc > k /\ phase \in {"announce", "running", "ok"}

CfgFacts ==
  /\ proc = "loading" => pc = 1 /\ phase = "announce"
  /\ (proc = "registry" \/ phase = "ok") => cfg.host # "empty"
  /\ Done(2) => LoginOk(cfg) /\ PasswordOk(cfg) /\ disk = cfg
  /\ Done(3) => cfg.jwt \in Secrets
  /\ Done(4) => cfg.os = "detected"

CInv == InstInv /\ CfgFacts

LEMMA FirstTenLen == Len(FirstTen) = 10 /\ DOMAIN FirstTen = 1..10
  BY DEF FirstTen

LEMMA FirstTenStarts == FirstTenRegistry => StartsWithFirstTen
<1> SUFFICES ASSUME FirstTenRegistry PROVE StartsWithFirstTen
  OBVIOUS
<1>1. Steps = FirstTen /\ IsInjective(FirstTen)
  BY DEF FirstTenRegistry
<1>2. N = 10
  BY <1>1, FirstTenLen DEF N
<1>3. QED
  BY <1>1, <1>2 DEF StartsWithFirstTen

(* With distinct step types, the step running is found by its type. *)
LEMMA RunningIndex ==
  ASSUME IsInjective(Steps), IInv, NEW k \in 1..N, Running(Steps[k])
  PROVE  pc = k /\ phase = "running" /\ proc = "registry"
<1>1. pc \in 1..N /\ phase = "running" /\ proc = "registry"
  BY DEF Running, IInv, TypeOK
<1>2. Steps[pc] = Steps[k]
  BY DEF Running
<1>3. DOMAIN Steps = 1..N
  BY StepsAssumption DEF N
<1>4. QED
  BY <1>1, <1>2, <1>3 DEF IsInjective

LEMMA RunningAt ==
  ASSUME StartsWithFirstTen, IInv, NEW k \in 1..10, Running(FirstTen[k])
  PROVE  pc = k /\ phase = "running" /\ proc = "registry"
<1>1. k \in 1..N /\ Running(Steps[k]) /\ IsInjective(Steps)
  BY NType DEF StartsWithFirstTen
<1>2. QED
  BY <1>1, RunningIndex

(* The answers to the prompts never leave the web host blank. *)
LEMMA PromptedHost ==
  ASSUME disk \in ConfigRec, NEW c \in Prompted(disk)
  PROVE  c.host # "empty"
  BY DEF Prompted, ConfigRec, Hosts

(* A failed step ends the run: nothing is done in it any more. *)
LEMMA FailFacts == Fail => CfgFacts'
  BY DEF Fail, StepErr, CfgFacts, Done

(* A step that leaves file and ctx.config alone, other than steps 2-4. *)
LEMMA NeutralSucceed ==
  ASSUME CfgFacts, proc = "registry", phase = "running", pc \in Nat,
         pc \notin {2, 3, 4}, UNCHANGED <<disk, cfg>>, Succeed
  PROVE  CfgFacts'
  BY DEF Succeed, StepOk, CfgFacts, Done

LEMMA LoadConfigC == CInv /\ LoadConfig => CfgFacts'
<1> SUFFICES ASSUME CInv, LoadConfig PROVE CfgFacts'
  OBVIOUS
<1>1. pc = 1 /\ phase = "announce" /\ UNCHANGED <<pc, phase>>
  BY DEF CInv, CfgFacts, LoadConfig, vars
<1>2. proc' = "registry" => disk \in ConfigRec /\ cfg' \in Prompted(disk)
  BY DEF LoadConfig
<1>3. proc' = "registry" => cfg'.host # "empty"
  BY <1>2, PromptedHost
<1>4. QED
  BY <1>1, <1>3 DEF CfgFacts, Done

LEMMA IAnnounceC == CInv /\ IAnnounce => CfgFacts'
  BY DEF CInv, CfgFacts, Done, IAnnounce, Announce, ivars

LEMMA IFinishC == CInv /\ IFinish => CfgFacts'
  BY DEF CInv, CfgFacts, Done, IFinish, Finish

LEMMA RerunC == CInv /\ Rerun => CfgFacts'
  BY DEF CfgFacts, Done, Rerun

(* The steps that leave the file and ctx.config alone. *)
LEMMA TmuxInstallRunC ==
  ASSUME StartsWithFirstTen, CInv, TmuxInstallRun PROVE CfgFacts'
<1>1. Running(FirstTen[1])
  BY DEF TmuxInstallRun, FirstTen
<1>2. pc = 1 /\ phase = "running" /\ proc = "registry"
  BY <1>1, RunningAt DEF CInv, InstInv
<1>3. (Succeed \/ Fail) /\ UNCHANGED <<disk, cfg>>
  BY DEF TmuxInstallRun
<1>4. QED
  BY <1>2, <1>3, NeutralSucceed, FailFacts DEF CInv

LEMMA HomeDirSetupRunC ==
  ASSUME StartsWithFirstTen, CInv, HomeDirSetupRun PROVE CfgFacts'
<1>1. Running(FirstTen[5])
  BY DEF HomeDirSetupRun, FirstTen
<1>2. pc = 5 /\ phase = "running" /\ proc = "registry"
  BY <1>1, RunningAt DEF CInv, InstInv
<1>3. (Succeed \/ Fail) /\ UNCHANGED <<disk, cfg>>
  BY DEF HomeDirSetupRun
<1>4. QED
  BY <1>2, <1>3, NeutralSucceed, FailFacts DEF CInv

LEMMA PythonToolsRunC ==
  ASSUME StartsWithFirstTen, CInv, PythonToolsRun PROVE CfgFacts'
<1>1. Running(FirstTen[6])
  BY DEF PythonToolsRun, FirstTen
<1>2. pc = 6 /\ phase = "running" /\ proc = "registry"
  BY <1>1, RunningAt DEF CInv, InstInv
<1>3. (Succeed \/ Fail) /\ UNCHANGED <<disk, cfg>>
  BY DEF PythonToolsRun
<1>4. QED
  BY <1>2, <1>3, NeutralSucceed, FailFacts DEF CInv

LEMMA VenvCreationRunC ==
  ASSUME StartsWithFirstTen, CInv, VenvCreationRun PROVE CfgFacts'
<1>1. Running(FirstTen[7])
  BY DEF VenvCreationRun, FirstTen
<1>2. pc = 7 /\ phase = "running" /\ proc = "registry"
  BY <1>1, RunningAt DEF CInv, InstInv
<1>3. (Succeed \/ Fail) /\ UNCHANGED <<disk, cfg>>
  BY DEF VenvCreationRun
<1>4. QED
  BY <1>2, <1>3, NeutralSucceed, FailFacts DEF CInv

LEMMA PythonPathRunC ==
  ASSUME StartsWithFirstTen, CInv, PythonPathRun PROVE CfgFacts'
<1>1. Running(FirstTen[8])
  BY DEF PythonPathRun, FirstTen
<1>2. pc = 8 /\ phase = "running" /\ proc = "registry"
  BY <1>1, RunningAt DEF CInv, InstInv
<1>3. (Succeed \/ Fail) /\ UNCHANGED <<disk, cfg>>
  BY DEF PythonPathRun
<1>4. QED
  BY <1>2, <1>3, NeutralSucceed, FailFacts DEF CInv

LEMMA LibpqDevRunC ==
  ASSUME StartsWithFirstTen, CInv, LibpqDevRun PROVE CfgFacts'
<1>1. Running(FirstTen[9])
  BY DEF LibpqDevRun, FirstTen
<1>2. pc = 9 /\ phase = "running" /\ proc = "registry"
  BY <1>1, RunningAt DEF CInv, InstInv
<1>3. (Succeed \/ Fail) /\ UNCHANGED <<disk, cfg>>
  BY DEF LibpqDevRun
<1>4. QED
  BY <1>2, <1>3, NeutralSucceed, FailFacts DEF CInv

LEMMA WebsockifyRunC ==
  ASSUME StartsWithFirstTen, CInv, WebsockifyRun PROVE CfgFacts'
<1>1. Running(FirstTen[10])
  BY DEF WebsockifyRun, FirstTen
<1>2. pc = 10 /\ phase = "running" /\ proc = "registry"
  BY <1>1, RunningAt DEF CInv, InstInv
<1>3. (Succeed \/ Fail) /\ UNCHANGED <<disk, cfg>>
  BY DEF WebsockifyRun
<1>4. QED
  BY <1>2, <1>3, NeutralSucceed, FailFacts DEF CInv

(* Step 2 saves ctx.config only once its credentials have been checked. *)
LEMMA UserDataVerificationRunC ==
  ASSUME StartsWithFirstTen, CInv, UserDataVerificationRun PROVE CfgFacts'
<1>1. Running(FirstTen[2])
  BY DEF UserDataVerificationRun, FirstTen
<1>2. pc = 2 /\ phase = "running" /\ proc = "registry"
  BY <1>1, RunningAt DEF CInv, InstInv
<1>3. CASE Fail
  BY <1>3, FailFacts
<1>4. CASE ~Fail
  <2>1. LoginOk(cfg) /\ PasswordOk(cfg) /\ SaveOk(cfg) /\ Succeed /\ UNCHANGED cfg
    BY <1>4 DEF UserDataVerificationRun
  <2>2. pc' = 3 /\ phase' = "announce" /\ proc' = "registry" /\ disk' = cfg'
    BY <1>2, <2>1 DEF Succeed, StepOk, SaveOk
  <2>3. cfg.host # "empty"
    BY <1>2 DEF CInv, CfgFacts
  <2>4. QED
    BY <2>1, <2>2, <2>3 DEF CfgFacts, Done
<1>5. QED
  BY <1>3, <1>4

(* Step 3 stores a secret and saves; the credentials are left as they were. *)
LEMMA JwtSecretRunC ==
  ASSUME StartsWithFirstTen, CInv, JwtSecretRun PROVE CfgFacts'
<1>1. Running(FirstTen[3])
  BY DEF JwtSecretRun, FirstTen
<1>2. pc = 3 /\ phase = "running" /\ proc = "registry"
  BY <1>1, RunningAt DEF CInv, InstInv
<1>3. CASE Fail
  BY <1>3, FailFacts
<1>4. CASE ~Fail
  <2>1. PICK s \in Secrets \ {cfg.jwt} :
          /\ cfg' = [cfg EXCEPT !.jwt = s]
          /\ SaveOk([cfg EXCEPT !.jwt = s]) /\ Succeed
    BY <1>4 DEF JwtSecretRun
  <2>2. pc' = 4 /\ phase' = "announce" /\ proc' = "registry" /\ disk' = cfg'
    BY <1>2, <2>1 DEF Succeed, StepOk, SaveOk
  <2>3. cfg.host # "empty" /\ LoginOk(cfg) /\ PasswordOk(cfg) /\ cfg \in ConfigRec
    BY <1>2 DEF CInv, CfgFacts, Done, InstInv, HostOK
  <2>4. /\ cfg'.host = cfg.host /\ cfg'.login = cfg.login
        /\ cfg'.password = cfg.password /\ cfg'.jwt = s
    BY <2>1, <2>3 DEF ConfigRec
  <2>5. QED
    BY <2>2, <2>3, <2>4 DEF CfgFacts, Done, LoginOk, PasswordOk
<1>5. QED
  BY <1>3, <1>4

(* Step 4 stores the OS type and saves; the earlier facts are kept. *)
LEMMA OsTypeDetectionRunC ==
  ASSUME StartsWithFirstTen, CInv, OsTypeDetectionRun PROVE CfgFacts'
<1>1. Running(FirstTen[4])
  BY DEF OsTypeDetectionRun, FirstTen
<1>2. pc = 4 /\ phase = "running" /\ proc = "registry"
  BY <1>1, RunningAt DEF CInv, InstInv
<1>3. CASE Fail
  BY <1>3, FailFacts
<1>4. CASE ~Fail
  <2>1. /\ cfg' = [cfg EXCEPT !.os = "detected"]
        /\ SaveOk([cfg EXCEPT !.os = "detected"]) /\ Succeed
    BY <1>4 DEF OsTypeDetectionRun
  <2>2. pc' = 5 /\ phase' = "announce" /\ proc' = "registry" /\ disk' = cfg'
    BY <1>2, <2>1 DEF Succeed, StepOk, SaveOk
  <2>3. /\ cfg.host # "empty" /\ LoginOk(cfg) /\ PasswordOk(cfg)
        /\ cfg.jwt \in Secrets /\ cfg \in ConfigRec
    BY <1>2 DEF CInv, CfgFacts, Done, InstInv, HostOK
  <2>4. /\ cfg'.host = cfg.host /\ cfg'.login = cfg.login
        /\ cfg'.password = cfg.password /\ cfg'.jwt = cfg.jwt
        /\ cfg'.os = "detected"
    BY <2>1, <2>3 DEF ConfigRec
  <2>5. QED
    BY <2>2, <2>3, <2>4 DEF CfgFacts, Done, LoginOk, PasswordOk
<1>5. QED
  BY <1>3, <1>4

LEMMA InitCInv == IInit => CInv
  BY InitInstInv DEF IInit, Init, CInv, CfgFacts, Done

LEMMA INextCInv ==
  ASSUME StartsWithFirstTen, CInv, [INext]_allvars
  PROVE  CInv'
<1>1. InstInv'
  BY INextInstInv DEF CInv
<1>2. CASE UNCHANGED allvars
  <2>1. CfgFacts'
    BY <1>2 DEF CInv, CfgFacts, Done, allvars, vars, ivars
  <2>2. QED
    BY <1>1, <2>1 DEF CInv
<1>3. CASE INext
  <2>1. CASE LoadConfig
    <3>1. CfgFacts'
      BY <2>1, LoadConfigC
    <3>2. QED
      BY <1>1, <3>1 DEF CInv
  <2>2. CASE IAnnounce
    <3>1. CfgFacts'
      BY <2>2, IAnnounceC
    <3>2. QED
      BY <1>1, <3>1 DEF CInv
  <2>3. CASE TmuxInstallRun
    <3>1. CfgFacts'
      BY <2>3, TmuxInstallRunC
    <3>2. QED
      BY <1>1, <3>1 DEF CInv
  <2>4. CASE UserDataVerificationRun
    <3>1. CfgFacts'
      BY <2>4, UserDataVerificationRunC
    <3>2. QED
      BY <1>1, <3>1 DEF CInv
  <2>5. CASE JwtSecretRun
    <3>1. CfgFacts'
      BY <2>5, JwtSecretRunC
    <3>2. QED
      BY <1>1, <3>1 DEF CInv
  <2>6. CASE OsTypeDetectionRun
    <3>1. CfgFacts'
      BY <2>6, OsTypeDetectionRunC
    <3>2. QED
      BY <1>1, <3>1 DEF CInv
  <2>7. CASE HomeDirSetupRun
    <3>1. CfgFacts'
      BY <2>7, HomeDirSetupRunC
    <3>2. QED
      BY <1>1, <3>1 DEF CInv
  <2>8. CASE PythonToolsRun
    <3>1. CfgFacts'
      BY <2>8, PythonToolsRunC
    <3>2. QED
      BY <1>1, <3>1 DEF CInv
  <2>9. CASE VenvCreationRun
    <3>1. CfgFacts'
      BY <2>9, VenvCreationRunC
    <3>2. QED
      BY <1>1, <3>1 DEF CInv
  <2>10. CASE PythonPathRun
    <3>1. CfgFacts'
      BY <2>10, PythonPathRunC
    <3>2. QED
      BY <1>1, <3>1 DEF CInv
  <2>11. CASE LibpqDevRun
    <3>1. CfgFacts'
      BY <2>11, LibpqDevRunC
    <3>2. QED
      BY <1>1, <3>1 DEF CInv
  <2>12. CASE WebsockifyRun
    <3>1. CfgFacts'
      BY <2>12, WebsockifyRunC
    <3>2. QED
      BY <1>1, <3>1 DEF CInv
  <2>13. CASE IFinish
    <3>1. CfgFacts'
      BY <2>13, IFinishC
    <3>2. QED
      BY <1>1, <3>1 DEF CInv
  <2>14. CASE Rerun
    <3>1. CfgFacts'
      BY <2>14, RerunC
    <3>2. QED
      BY <1>1, <3>1 DEF CInv
  <2>15. QED
    BY <1>3, <2>1, <2>2, <2>3, <2>4, <2>5, <2>6, <2>7, <2>8, <2>9, <2>10, <2>11, <2>12, <2>13, <2>14 DEF INext
<1>4. QED
  BY <1>2, <1>3

(* A successful run is past the first ten steps, so every fact holds. *)
LEMMA CInvPersisted ==
  ASSUME StartsWithFirstTen, CInv
  PROVE  InstalledConfigPersisted
<1> SUFFICES ASSUME phase = "ok" PROVE InstalledConfigPersisted
  BY DEF InstalledConfigPersisted
<1>1. pc \in Nat /\ pc > 4
  BY NType DEF CInv, InstInv, IInv, TypeOK, StartsWithFirstTen
<1>2. Done(2) /\ Done(3) /\ Done(4)
  BY <1>1 DEF Done
<1>3. QED
  BY <1>2 DEF CInv, CfgFacts, InstalledConfigPersisted, Validate, LoginOk, PasswordOk

(***************************************************************************)
(* For the registry of run_first_ten_steps and any fault bound: when       *)
(* execute_all returns Ok, the configuration file holds exactly ctx.config *)
(* and validate-config accepts it, with a JWT secret and the OS type; a    *)
(* failed save (fs::write) in any earlier run never survives into it.      *)
(***************************************************************************)
THEOREM InstalledConfigPersistedThm ==
  FirstTenRegistry => (ISpec => []InstalledConfigPersisted)
<1> SUFFICES ASSUME FirstTenRegistry PROVE ISpec => []InstalledConfigPersisted
  OBVIOUS
<1>0. StartsWithFirstTen
  BY FirstTenStarts
<1>1. CInv /\ [INext]_allvars => CInv'
  BY <1>0, INextCInv
<1>2. CInv => InstalledConfigPersisted
  BY <1>0, CInvPersisted
<1>3. QED
  BY InitCInv, <1>1, <1>2, PTL DEF ISpec

-----------------------------------------------------------------------------
(***************************************************************************)
(* Refinement across re-runs.  Outside execute_all the loop has either     *)
(* returned, or not started: a process that exits while loading leaves     *)
(* the registry as Init made it, so its re-run is a stutter of the         *)
(* abstract sequence, and only a re-run after Err is a Restart.            *)
(***************************************************************************)
RInv ==
  /\ InstInv
  /\ (proc # "registry" /\ phase \notin {"ok", "err"}) => pc = 1 /\ phase = "announce"

LEMMA InitRInv == IInit => RInv
  BY InitInstInv DEF IInit, Init, RInv

LEMMA INextRInv == RInv /\ [INext]_allvars => RInv'
<1> SUFFICES ASSUME RInv, [INext]_allvars PROVE RInv'
  OBVIOUS
<1>1. InstInv'
  BY INextInstInv DEF RInv
<1>2. CASE UNCHANGED allvars
  BY <1>1, <1>2 DEF RInv, allvars, vars, ivars
<1>3. CASE LoadConfig \/ IAnnounce \/ IFinish \/ Rerun
  BY <1>1, <1>3 DEF RInv, LoadConfig, vars, IAnnounce, Announce, ivars,
                   IFinish, Finish, Rerun
<1>4. CASE TmuxInstallRun \/ UserDataVerificationRun \/ JwtSecretRun \/ OsTypeDetectionRun \/ HomeDirSetupRun \/ PythonToolsRun \/ VenvCreationRun \/ PythonPathRun \/ LibpqDevRun \/ WebsockifyRun
  <2>1. (Succeed \/ Fail) /\ proc = "registry"
    BY <1>4 DEF TmuxInstallRun, UserDataVerificationRun, JwtSecretRun, OsTypeDetectionRun, HomeDirSetupRun, PythonToolsRun, VenvCreationRun, PythonPathRun, LibpqDevRun, WebsockifyRun, Running
  <2>2. QED
    BY <1>1, <2>1 DEF RInv, Succeed, Fail, StepOk, StepErr
<1>5. QED
  BY <1>2, <1>3, <1>4 DEF INext

(* A step's result is a step of execute_all, hence of StepSequence. *)
LEMMA ResultRefines ==
  ASSUME IsInjective(Steps), IInv, Succeed \/ Fail
  PROVE  [Abstract!SNext]_Abstract!seqVars
<1>1. [Next]_vars
  BY DEF Succeed, Fail, Next
<1>2. QED
  BY <1>1, NextRefines

LEMMA INextRefines ==
  ASSUME IsInjective(Steps), RInv, [INext]_allvars
  PROVE  [Abstract!SNext \/ Abstract!Restart]_Abstract!seqVars
<1>1. CASE UNCHANGED allvars \/ LoadConfig
  BY <1>1 DEF allvars, vars, LoadConfig, SeqStatus, Abstract!seqVars
<1>2. CASE IAnnounce \/ IFinish
  <2>1. [Next]_vars
    BY <1>2 DEF IAnnounce, IFinish, Next
  <2>2. QED
    BY <2>1, NextRefines DEF RInv, InstInv
<1>3. CASE TmuxInstallRun \/ UserDataVerificationRun \/ JwtSecretRun \/ OsTypeDetectionRun \/ HomeDirSetupRun \/ PythonToolsRun \/ VenvCreationRun \/ PythonPathRun \/ LibpqDevRun \/ WebsockifyRun
  <2>1. Succeed \/ Fail
    BY <1>3 DEF TmuxInstallRun, UserDataVerificationRun, JwtSecretRun, OsTypeDetectionRun, HomeDirSetupRun, PythonToolsRun, VenvCreationRun, PythonPathRun, LibpqDevRun, WebsockifyRun
  <2>2. QED
    BY <2>1, ResultRefines DEF RInv, InstInv
<1>4. CASE Rerun /\ phase = "err"
  <2>1. Abstract!Restart
    BY <1>4 DEF Rerun, SeqStatus, Abstract!Restart, Abstract!SInit
  <2>2. QED
    BY <2>1
<1>5. CASE Rerun /\ phase # "err"
  <2>1. pc = 1 /\ phase = "announce"
    BY <1>5 DEF Rerun, RInv
  <2>2. reported = << >> /\ outcomes = << >>
    BY <2>1 DEF RInv, InstInv, IInv, TypeOK
  <2>3. QED
    BY <1>5, <2>1, <2>2 DEF Rerun, SeqStatus, Abstract!seqVars
<1>6. QED
  BY <1>1, <1>2, <1>3, <1>4, <1>5 DEF INext

(***************************************************************************)
(* The installer as the operator uses it, re-run after every failure,      *)
(* implements StepSequence's contract run after run, for every registry    *)
(* without a repeated step type: positions 1, 2, ... in build order, the   *)
(* first Err ends the run, and a new run starts only after an Err or       *)
(* before any step was announced.                                          *)
(***************************************************************************)
THEOREM RerunRefinementThm ==
  IsInjective(Steps) => (ISpec => ImplementsRerunSequence)
<1> SUFFICES ASSUME IsInjective(Steps) PROVE ISpec => Abstract!RerunSpec
  BY DEF ImplementsRerunSequence
<1>1. IInit => Abstract!SInit
  BY DEF IInit, Init, Abstract!SInit, SeqStatus
<1>2. RInv /\ [INext]_allvars => [Abstract!SNext \/ Abstract!Restart]_Abstract!seqVars
  BY INextRefines
<1>3. QED
  BY <1>1, <1>2, InitRInv, INextRInv, PTL DEF ISpec, Abstract!RerunSpec


(***************************************************************************)
(* The step ConfigChangesSaved constrains: a change of ctx.config that the *)
(* process survives has been written to the file.                          *)
(***************************************************************************)
SavedStep == (cfg' # cfg /\ proc' # "exited") => disk' = cfg'

(* A step that leaves ctx.config as it is constrains nothing. *)
LEMMA CfgKeptSaved == UNCHANGED cfg => SavedStep
  BY DEF SavedStep

(* A step that ends the process constrains nothing either. *)
LEMMA FailSaved == Fail => SavedStep
  BY DEF Fail, SavedStep

(* The three writers of ctx.config: the saved value is the new one. *)
LEMMA LoadConfigSaved == LoadConfig => SavedStep
  BY DEF LoadConfig, SaveOk, SaveFails, SavedStep

LEMMA JwtSecretRunSaved == JwtSecretRun => SavedStep
<1> SUFFICES ASSUME JwtSecretRun PROVE SavedStep
  OBVIOUS
<1>1. PICK s \in Secrets \ {cfg.jwt} :
        /\ cfg' = [cfg EXCEPT !.jwt = s]
        /\ \/ SaveOk([cfg EXCEPT !.jwt = s]) /\ Succeed
           \/ SaveFails /\ Fail
  BY DEF JwtSecretRun
<1>2. CASE SaveOk([cfg EXCEPT !.jwt = s])
  BY <1>1, <1>2 DEF SaveOk, SavedStep
<1>3. CASE SaveFails /\ Fail
  BY <1>3, FailSaved
<1>4. QED
  BY <1>1, <1>2, <1>3

LEMMA OsTypeDetectionRunSaved == OsTypeDetectionRun => SavedStep
<1> SUFFICES ASSUME OsTypeDetectionRun PROVE SavedStep
  OBVIOUS
<1>1. CASE Fault /\ Fail
  BY <1>1, FailSaved
<1>2. CASE cfg' = [cfg EXCEPT !.os = "detected"] /\ SaveOk([cfg EXCEPT !.os = "detected"])
  BY <1>2 DEF SaveOk, SavedStep
<1>3. CASE cfg' = [cfg EXCEPT !.os = "detected"] /\ SaveFails /\ Fail
  BY <1>3, FailSaved
<1>4. QED
  BY <1>1, <1>2, <1>3 DEF OsTypeDetectionRun

LEMMA INextSaved == [INext]_allvars => [SavedStep]_allvars
<1> SUFFICES ASSUME [INext]_allvars PROVE SavedStep \/ UNCHANGED allvars
  OBVIOUS
<1>1. CASE UNCHANGED allvars
  BY <1>1
<1>2. CASE LoadConfig
  BY <1>2, LoadConfigSaved
<1>3. CASE JwtSecretRun
  BY <1>3, JwtSecretRunSaved
<1>4. CASE OsTypeDetectionRun
  BY <1>4, OsTypeDetectionRunSaved
<1>5. CASE IAnnounce \/ IFinish \/ Rerun \/ TmuxInstallRun \/ UserDataVerificationRun \/ HomeDirSetupRun \/ PythonToolsRun \/ VenvCreationRun \/ PythonPathRun \/ LibpqDevRun \/ WebsockifyRun
  <2>1. UNCHANGED cfg
    BY <1>5 DEF IAnnounce, ivars, IFinish, Rerun, TmuxInstallRun, UserDataVerificationRun, HomeDirSetupRun, PythonToolsRun, VenvCreationRun, PythonPathRun, LibpqDevRun, WebsockifyRun
  <2>2. QED
    BY <2>1, CfgKeptSaved
<1>6. QED
  BY <1>1, <1>2, <1>3, <1>4, <1>5 DEF INext

(***************************************************************************)
(* For every registry and fault bound, ctx.config never runs ahead of the  *)
(* configuration file while the process goes on: load_or_create_interactive *)
(* and update_jwt_secret / update_os_type save the very value they put in  *)
(* ctx.config, and a failed save ends the process.                         *)
(***************************************************************************)
THEOREM ConfigChangesSavedThm == ISpec => ConfigChangesSaved
<1>1. [INext]_allvars => [SavedStep]_allvars
  BY INextSaved
<1>2. QED
  BY <1>1, PTL DEF ISpec, ConfigChangesSaved, SavedStep

=============================================================================
