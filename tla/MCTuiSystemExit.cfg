CONSTANT NRows <- MCNRows
CONSTANT SimSteps <- MCSimSteps
SPECIFICATION TSpec
INVARIANT ExitStatusReflectsFailure
CHECK_DEADLOCK FALSE
