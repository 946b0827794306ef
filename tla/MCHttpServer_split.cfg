CONSTANTS
  Request <- MCPlain
  MaxRequests = 1
  INIT_REQUEST_HEADER_SIZE = 2
  MAX_QUERY_PARAMS = 1
  MAX_COOKIES = 1
SPECIFICATION FairSpec
PROPERTY RequestsAreHandled
CHECK_DEADLOCK FALSE
