\* A queue of two: the third message is the "log buffer full" marker, and
\* seven calls are enough to fill it, drop, drain below half and fill again.
CONSTANTS
  QMax = 2
  MaxLogs = 7
  Subsys <- MCSubsys
  All = "all"
  LogLevel = 8
  Configs <- MCConfigs
  MaxSets = 0
  NoMsg = NoMsg
SPECIFICATION Spec
\* The program stops: after tvhlog_end and the bounded calls nothing is left.
CHECK_DEADLOCK FALSE
INVARIANT ShutdownDrains
