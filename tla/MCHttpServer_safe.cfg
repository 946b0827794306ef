CONSTANTS
  Request <- MCRequest
  MaxRequests = 3
  INIT_REQUEST_HEADER_SIZE = 1
  MAX_QUERY_PARAMS = 1
  MAX_COOKIES = 1
SPECIFICATION FairSpec
INVARIANTS TypeOK RequestsAreSeenWhole EndsOnlyForCause ClosesAsAsked
 
CHECK_DEADLOCK FALSE
