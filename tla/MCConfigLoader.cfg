CONSTANTS
  Text <- MCText
  File <- MCFile
  Environment <- MCEnvironment
  MaxCalls = 3
  AllocMayFail = TRUE
SPECIFICATION Spec
INVARIANTS TypeOK StringsOwnedOnce LatestWins AcceptedIsComplete
