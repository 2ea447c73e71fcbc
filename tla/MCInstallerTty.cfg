CONSTANTS
  TmuxInstall = TmuxInstall
  UserDataVerification = UserDataVerification
  JwtSecret = JwtSecret
  OsTypeDetection = OsTypeDetection
  HomeDirSetup = HomeDirSetup
  PythonTools = PythonTools
  VenvCreation = VenvCreation
  PythonPath = PythonPath
  LibpqDev = LibpqDev
  Websockify = Websockify
  Tmux = Tmux
  Python3Venv = Python3Venv
  Python3Pip = Python3Pip
  LibpqDevPkg = LibpqDevPkg
  Python3Websockify = Python3Websockify
  MaxFaults = 2
  ExtPkgs = {}
  StepKinds <- MCStepKinds
  Steps <- FirstTen
  TtyChoices <- MCTtyNever
SPECIFICATION ISpec
PROPERTY ValidatedConfigLoadsUnattended
CHECK_DEADLOCK FALSE
