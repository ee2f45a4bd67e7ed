\* The recording worker: muxer life cycle, source swaps, exit.
CONSTANTS
  ErrCodes <- MCErrCodes
  SkipCommercials = TRUE
  HasPostProc = TRUE
  MaxMsgs = 5
  MaxGen = 2

SPECIFICATION Spec

INVARIANT TypeOK
INVARIANT StartedImpliesReady
PROPERTY WritesMatchConfig
 
PROPERTY NoInputReported

\* The thread ends after EXIT and the entry is done: that final state has
\* no successor by design.  The thread blocked on global_lock by the
\* unsubscribing join is a hang too; ExitJoins checks it in its own run.
CHECK_DEADLOCK FALSE
