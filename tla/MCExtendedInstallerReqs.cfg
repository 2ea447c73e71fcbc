CONSTANTS
  TmuxInstall = TmuxInstall
  UserDataVerification = UserDataVerification
  JwtSecret = JwtSecret
  OsTypeDetection = OsTypeDetection
  HomeDirSetup = HomeDirSetup
  PythonTools = PythonTools
  VenvCreation = VenvCreation
  PythonPath = PythonPath
  LibpqDev = LibpqDev
  Websockify = Websockify
  Libvirt = Libvirt
  LibvirtPython = LibvirtPython
  StorageRequirements = StorageRequirements
  Wheel = Wheel
  PythonRequirements = PythonRequirements
  PreCommit = PreCommit
  PostgresqlSupport = PostgresqlSupport
  OpenVSwitch = OpenVSwitch
  Multipath = Multipath
  ChangeOwner = ChangeOwner
  ArchDetection = ArchDetection
  Tmux = Tmux
  Python3Venv = Python3Venv
  Python3Pip = Python3Pip
  LibpqDevPkg = LibpqDevPkg
  Python3Websockify = Python3Websockify
  QemuKvm = QemuKvm
  BuildEssential = BuildEssential
  NfsCommon = NfsCommon
  Xfsprogs = Xfsprogs
  OvsSwitch = OvsSwitch
  MultipathTools = MultipathTools
  OvsPkg <- OvsSwitch
  MultipathPkg <- MultipathTools
  LibvirtPkgs <- MCLibvirtPkgs
  StoragePkgs <- MCStoragePkgs
  ExtPkgs <- MCExtPkgs
  StepKinds <- MCStepKinds
  Steps <- ExtendedTwentyOne
  MaxFaults = 0
  TtyChoices <- MCTtyAlways
SPECIFICATION XFairSpec
PROPERTY ExtendedSucceeds
CHECK_DEADLOCK FALSE
