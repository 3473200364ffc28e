\* Two members, three lines, connections shorter than a packet.
CONSTANTS
  HeaderSize = 2
  Base = 2
  Texts <- MCTexts
  Size <- MCSize
  Clients <- MCClients
  Script <- MCScript
  Farewell <- MCFarewell
  BufSize = 2
SPECIFICATION FairSpec
INVARIANTS TypeOK SameLines EndsOnlyByCut ToldOnce LinesAsTyped
PROPERTIES ImplementsChannels Delivered
CHECK_DEADLOCK FALSE
