\* A broadcast that meets a connection that is gone.
CONSTANTS
  f1 = f1  f2 = f2  f3 = f3  n1 = n1  n2 = n2  n3 = n3
  Fds = {f1, f2}
  Names = {n1, n2}
  PeerPackets <- ClientPackets
  MutexBlocks = TRUE
  MAX_EXENTS = 3
  MaxConns = 2
  MaxPackets = 5
  MaxInbox = 1
SPECIFICATION FairSpec
PROPERTY FailedSendSurvived
CHECK_DEADLOCK FALSE
