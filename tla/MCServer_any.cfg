\* Peers that send anything, more connections than descriptors, full batches.
CONSTANTS
  f1 = f1  f2 = f2  f3 = f3  n1 = n1  n2 = n2  n3 = n3
  Fds = {f1, f2}
  Names = {n1, n2}
  PeerPackets <- AnyPackets
  MutexBlocks = FALSE
  MAX_EXENTS = 2
  MaxConns = 3
  MaxPackets = 4
  MaxInbox = 1
SPECIFICATION Spec
SYMMETRY MCSymmetry2
INVARIANTS TypeOK DescriptorsOwned NamesOwned HandlerRefLive ServesWhenSetUp
CHECK_DEADLOCK FALSE
