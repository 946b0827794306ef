CONSTANTS
  Content <- MCContent
  Zero = "zero"
  Request <- MCRequest
  INIT_RESPONSE_HEADER_SIZE = 3
  MaxCalls = 3
SPECIFICATION Spec
INVARIANTS TypeOK PointsToItsOwn FreesItsOwn LeaksAreKnown KeptReplyHasItsLength ServedWhole
CHECK_DEADLOCK FALSE
