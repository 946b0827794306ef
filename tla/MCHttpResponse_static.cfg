CONSTANTS
  Content <- MCContent
  Zero = "zero"
  Request <- MCRooted
  INIT_RESPONSE_HEADER_SIZE = 3
  MaxCalls = 1
SPECIFICATION Spec
INVARIANTS FilesAreServed
CHECK_DEADLOCK FALSE
