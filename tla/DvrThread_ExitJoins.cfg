\* The recording worker, checked for ExitJoins alone.
CONSTANTS
  ErrCodes <- MCErrCodes
  SkipCommercials = TRUE
  HasPostProc = TRUE
  MaxMsgs = 5
  MaxGen = 2

SPECIFICATION Spec

PROPERTY ExitJoins

CHECK_DEADLOCK FALSE
