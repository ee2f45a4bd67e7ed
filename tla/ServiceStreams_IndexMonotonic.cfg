\* Stream churn on one service, checked for IndexMonotonic alone.
CONSTANTS
  s1 = s1
  s2 = s2
  u1 = u1
  u2 = u2
  p1 = p1
  p2 = p2
  AUDIO = AUDIO
  CA = CA
  ANY = ANY
  c1 = c1
  NoSvc = NoSvc
  ChannelSvcs <- MCChannelSvcs
  Subs <- MCSubs
  Prio <- MCPrio
  Weight <- MCWeight
  BusyWeight = 200
  LoadedSvcs <- MCLoadedSvcs
  StreamSvcs <- MCStreamSvcs
  Pids <- MCPids
  Kinds <- MCKinds
  Rules <- MCRules
  Classes <- MCClasses
  MaxIds = 2
SPECIFICATION Spec
PROPERTY IndexMonotonic
