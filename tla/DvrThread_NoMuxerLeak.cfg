\* The recording worker, checked for NoMuxerLeak alone.
CONSTANTS
  ErrCodes <- MCErrCodes
  SkipCommercials = TRUE
  HasPostProc = TRUE
  MaxMsgs = 5
  MaxGen = 2

SPECIFICATION Spec

INVARIANT NoMuxerLeak

CHECK_DEADLOCK FALSE
