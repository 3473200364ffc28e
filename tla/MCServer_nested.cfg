\* Three clients, so that broadcasts nest and fail half way.
CONSTANTS
  f1 = f1  f2 = f2  f3 = f3  n1 = n1  n2 = n2  n3 = n3
  Fds = {f1, f2, f3}
  Names = {n1, n2, n3}
  PeerPackets <- ClientPackets
  MutexBlocks = TRUE
  MAX_EXENTS = 4
  MaxConns = 3
  MaxPackets = 6
  MaxInbox = 1
SPECIFICATION Spec
SYMMETRY MCSymmetry3
INVARIANTS IterationSafe NestingBounded
CHECK_DEADLOCK FALSE
