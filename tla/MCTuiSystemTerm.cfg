CONSTANT NRows <- MCNRows
CONSTANT SimSteps <- MCSimSteps
SPECIFICATION TSpec
INVARIANT TerminalRestored
CHECK_DEADLOCK FALSE
