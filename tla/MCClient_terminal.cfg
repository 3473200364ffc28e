\* Signals and the terminal.
CONSTANTS
  RoomPackets <- FairRoomPackets
  MaxServed = 1
  MaxInbox = 1
SPECIFICATION Spec
INVARIANT UiClosedOnExit
CHECK_DEADLOCK FALSE
