\* The recording worker, checked for PostProcOncePerFile alone.
CONSTANTS
  ErrCodes <- MCErrCodes
  SkipCommercials = TRUE
  HasPostProc = TRUE
  MaxMsgs = 5
  MaxGen = 2

SPECIFICATION Spec

INVARIANT PostProcOncePerFile

CHECK_DEADLOCK FALSE
