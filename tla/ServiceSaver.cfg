\* Two services, four save requests: enough for a request to coalesce with
\* a queued one, for a restart upgrade, and for a destroy while queued.
CONSTANTS
  s1 = s1
  s2 = s2
  Svcs <- MCSvcs
  MaxReq = 4
  NoSvc = NoSvc
SYMMETRY MCSymmetry
SPECIFICATION Spec
INVARIANT TypeOK
INVARIANT NoUseAfterFree
INVARIANT QueueMatchesFlag
INVARIANT RestartNotLost
PROPERTY SaveEventually
\* The program stops: after the bounded requests and the join nothing is
\* left to do.
CHECK_DEADLOCK FALSE
