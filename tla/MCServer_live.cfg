\* Liveness under FairSpec, so no symmetry; more connections than descriptors.
CONSTANTS
  f1 = f1  f2 = f2  f3 = f3  n1 = n1  n2 = n2  n3 = n3
  Fds = {f1, f2}
  Names = {n1, n2}
  PeerPackets <- ClientPackets
  MutexBlocks = FALSE
  MAX_EXENTS = 3
  MaxConns = 3
  MaxPackets = 4
  MaxInbox = 1
SPECIFICATION FairSpec
PROPERTIES DepartedRemoved ConnectionsServed
CHECK_DEADLOCK FALSE
