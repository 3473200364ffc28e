\* All interleavings of the threads with any packets, under their fairness.
CONSTANTS
  RoomPackets <- AnyRoomPackets
  MaxServed = 2
  MaxInbox = 2
SPECIFICATION FairSpec
INVARIANTS TypeOK LogOnlyOnError JoinedIsStopped WindowsOutliveThreads
PROPERTIES StopEnds ServerGoneEnds
CHECK_DEADLOCK FALSE
