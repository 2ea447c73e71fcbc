-------------------------- MODULE ExtendedInstaller --------------------------
(***************************************************************************)
(* The extended console installation (main.rs run_extended_installation ->*)
(* installer.rs run_extended_installation): the same configuration load   *)
(* and the same StepRegistry, with the eleven steps of extended_steps.rs   *)
(* after the first ten.  They install packages, enable services, and pip-  *)
(* install into the project venv.                                          *)
(*                                                                         *)
(* Two more pieces of the host matter: the project's requirements.txt     *)
(* (absent, or present with or without pre-commit in it) and whether     *)
(* venv/bin/pre-commit exists.  Services, groups, ownership and the       *)
(* Python packages of the venv are read by no later step: only the result *)
(* of the commands that change them is kept.                               *)
(***************************************************************************)
EXTENDS Installer

CONSTANTS
  Libvirt, LibvirtPython, StorageRequirements, Wheel, PythonRequirements,
  PreCommit, PostgresqlSupport, OpenVSwitch, Multipath, ChangeOwner,
  ArchDetection,
  LibvirtPkgs,     \* the packages LibvirtStep installs, in order
  StoragePkgs,     \* the packages StorageRequirementsStep installs, in order
  OvsPkg,          \* openvswitch-switch
  MultipathPkg     \* multipath-tools

VARIABLES
  reqs,            \* requirements.txt: "none", "plain" (without pre-commit)
                   \* or "precommit" (lists pre-commit)
  precommit        \* venv/bin/pre-commit exists

xvars == <<reqs, precommit>>
xallvars == <<allvars, xvars>>

(* run_extended_installation builds its registry with these add_step calls. *)
ExtendedTwentyOne ==
  FirstTen \o
  << Libvirt, LibvirtPython, StorageRequirements, Wheel, PythonRequirements,
     PreCommit, PostgresqlSupport, OpenVSwitch, Multipath, ChangeOwner,
     ArchDetection >>

(* The host, the configuration and the venv are left alone. *)
KeepRest == UNCHANGED <<disk, cfg, venv, ppLines, xvars>>

(* A step of install_package calls, then commands that may each fail. *)
InstallThenCommands(kind, ps) ==
  /\ Running(kind)
  /\ \/ InstallAll(ps, FALSE) /\ Fail
     \/ InstallAll(ps, TRUE) /\ Fault /\ Fail
     \/ InstallAll(ps, TRUE) /\ UNCHANGED faults /\ Succeed
  /\ KeepRest

(* A command with no effect that a later step reads: it succeeds or fails. *)
CommandOnly(kind) ==
  /\ Running(kind)
  /\ \/ Succeed /\ UNCHANGED faults
     \/ Fault /\ Fail
  /\ UNCHANGED pkgs
  /\ KeepRest

(* `<project>/venv/bin/pip install ...` through sh -c: without a complete *)
(* venv the shell cannot find pip and exits non-zero.                      *)
PipInstall(kind) ==
  /\ Running(kind)
  /\ \/ venv # "complete" /\ Fail /\ UNCHANGED faults
     \/ venv = "complete" /\ Succeed /\ UNCHANGED faults
     \/ venv = "complete" /\ Fault /\ Fail
  /\ UNCHANGED pkgs
  /\ KeepRest

-----------------------------------------------------------------------------
(* The steps of extended_steps.rs. *)

(* Seven packages, systemctl enable --now libvirtd, two usermod -aG. *)
LibvirtRun == InstallThenCommands(Libvirt, LibvirtPkgs)

LibvirtPythonRun == PipInstall(LibvirtPython)

StorageRequirementsRun ==
  /\ Running(StorageRequirements)
  /\ \/ InstallAll(StoragePkgs, FALSE) /\ Fail
     \/ InstallAll(StoragePkgs, TRUE) /\ UNCHANGED faults /\ Succeed
  /\ KeepRest

WheelRun == PipInstall(Wheel)

(* A missing requirements.txt is skipped.  pip install -r may fail after  *)
(* having installed some of the requirements, pre-commit among them.      *)
PythonRequirementsRun ==
  /\ Running(PythonRequirements)
  /\ \/ reqs = "none" /\ Succeed /\ UNCHANGED <<faults, precommit>>
     \/ reqs # "none" /\ venv # "complete" /\ Fail
        /\ UNCHANGED <<faults, precommit>>
     \/ /\ reqs # "none" /\ venv = "complete" /\ Succeed
        /\ precommit' = (precommit \/ reqs = "precommit")
        /\ UNCHANGED faults
     \/ /\ reqs # "none" /\ venv = "complete" /\ Fault /\ Fail
        /\ precommit' \in {precommit, precommit \/ reqs = "precommit"}
  /\ UNCHANGED <<pkgs, disk, cfg, venv, ppLines, reqs>>

(* cd <project> && venv/bin/pre-commit install. *)
PreCommitRun ==
  /\ Running(PreCommit)
  /\ \/ ~precommit /\ Fail /\ UNCHANGED faults
     \/ precommit /\ Succeed /\ UNCHANGED faults
     \/ precommit /\ Fault /\ Fail
  /\ UNCHANGED pkgs
  /\ KeepRest

PostgresqlSupportRun == PipInstall(PostgresqlSupport)

(* The package, systemctl enable --now, ovs-vsctl show. *)
OpenVSwitchRun == InstallThenCommands(OpenVSwitch, << OvsPkg >>)

(* The package, systemctl enable --now multipathd. *)
MultipathRun == InstallThenCommands(Multipath, << MultipathPkg >>)

(* sudo chown -R user:user <project>. *)
ChangeOwnerRun == CommandOnly(ChangeOwner)

(* uname -m through run_shell_output; any output maps to an arch. *)
ArchDetectionRun == CommandOnly(ArchDetection)

-----------------------------------------------------------------------------

(* Any host Installer starts from, the extended packages absent, and     *)
(* requirements.txt in any of its forms.                                  *)
XInit ==
  /\ IInit
  /\ reqs \in {"none", "plain", "precommit"}
  /\ precommit = FALSE

XNext ==
  \/ INext /\ UNCHANGED xvars
  \/ LibvirtRun \/ LibvirtPythonRun \/ StorageRequirementsRun \/ WheelRun
  \/ PythonRequirementsRun \/ PreCommitRun \/ PostgresqlSupportRun
  \/ OpenVSwitchRun \/ MultipathRun \/ ChangeOwnerRun \/ ArchDetectionRun

XSpec == XInit /\ [][XNext]_xallvars

(* As IFairSpec: the process runs and the operator keeps re-running it. *)
XFairSpec == XSpec /\ WF_xallvars(XNext)

-----------------------------------------------------------------------------

XTypeOK ==
  /\ ITypeOK
  /\ reqs \in {"none", "plain", "precommit"}
  /\ precommit \in BOOLEAN

(***************************************************************************)
(* Spec section 7 (c): an optional artifact that is absent is logged and  *)
(* skipped and the run continues; re-running after a fix is safe.  So when *)
(* no external operation fails, the extended installation succeeds on     *)
(* every host, with or without requirements.txt.                          *)
(***************************************************************************)
ExtendedSucceeds == <>(phase = "ok")

=============================================================================
