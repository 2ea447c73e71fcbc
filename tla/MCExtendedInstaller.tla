------------------------- MODULE MCExtendedInstaller -------------------------
(***************************************************************************)
(* The registry of run_extended_installation.  LibvirtStep's seven and    *)
(* StorageRequirementsStep's two packages become two each: install_package *)
(* stops at the first failure and skips listed ones whatever the length,  *)
(* and two are enough for a failure after a success.                      *)
(***************************************************************************)
EXTENDS ExtendedInstaller

CONSTANTS QemuKvm, BuildEssential, NfsCommon, Xfsprogs, OvsSwitch, MultipathTools

MCLibvirtPkgs == << QemuKvm, BuildEssential >>
MCStoragePkgs == << NfsCommon, Xfsprogs >>
MCExtPkgs == {QemuKvm, BuildEssential, NfsCommon, Xfsprogs, OvsSwitch, MultipathTools}
MCStepKinds == { ExtendedTwentyOne[i] : i \in 1..Len(ExtendedTwentyOne) }

(* Each run is started from a terminal or not (cron, CI, a pipe). *)
MCTtyAny == BOOLEAN
MCTtyAlways == {TRUE}

=============================================================================
