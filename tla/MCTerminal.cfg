\* Three messages, and a log shorter than what is logged.
CONSTANTS
  MaxReceived = 3
  MAX_LOG_ENTRIES = 4
SPECIFICATION Spec
INVARIANTS TypeOK MessagesInOrder LogKeepsNewest DumpIsComplete
CHECK_DEADLOCK FALSE
