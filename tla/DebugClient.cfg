\* Two requests of any kind, in any pieces, from a client that may go away at any byte.
SPECIFICATION FairSpec
CONSTANTS
  MaxRequests = 2
  MayLeave = TRUE
  MayFail = TRUE
INVARIANTS
  TypeOK
  StreamsIntact
PROPERTIES
  DisconnectLosesNothing
  EveryRequestIsHandled
  DisconnectEnds
CHECK_DEADLOCK FALSE
