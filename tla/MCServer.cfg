\* Two requests and both workers on a pool of one connection.
CONSTANTS
  Requests = {r1, r2}
  MaxConns = 1
SPECIFICATION FairSpec
INVARIANTS
  CleanExitOwesNothing GrpcCallsFinish
PROPERTIES
  ReturnLeavesNoTransaction ShutdownEnds
CHECK_DEADLOCK FALSE
