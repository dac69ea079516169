SPECIFICATION FairQueueSpec
CONSTANTS
  Setups <- MCSetups
  MaxMessages = 2
  MaxEndings = 1
  MaxPings = 1
  MaxFaults = 1
INVARIANTS
  EventsInOrder
  ToldWhy
  LittleAfterTheEnd
PROPERTIES
  ListenEnds
CHECK_DEADLOCK FALSE
