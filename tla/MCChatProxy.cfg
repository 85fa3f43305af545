SPECIFICATION ChatSpec
CONSTANTS
  Requests <- MCRequests
  Words <- MCWords
INVARIANTS
    RouteInv
    ListedAreDescribed
    ShownAsWritten
    EndsWithDone
    PlainTextKept
CHECK_DEADLOCK FALSE
