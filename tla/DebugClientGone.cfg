\* A client that goes away between or within its requests.
SPECIFICATION FairSpec
CONSTANTS
  MaxRequests = 1
  MayLeave = TRUE
  MayFail = FALSE
PROPERTIES
  RecvReturns
CHECK_DEADLOCK FALSE
