\* The server implements ChatRoom.
CONSTANTS
  f1 = f1  f2 = f2  f3 = f3  n1 = n1  n2 = n2  n3 = n3
  Fds = {f1, f2}
  Names = {n1, n2}
  PeerPackets <- ClientPackets
  MutexBlocks = TRUE
  MAX_EXENTS = 3
  MaxConns = 3
  MaxPackets = 6
  MaxInbox = 1
SPECIFICATION Spec
SYMMETRY MCSymmetry2
INVARIANTS MembersAgree NoGhostMembers
PROPERTY ImplementsRoom
CHECK_DEADLOCK FALSE
