\* Two gRPC requests with one key.
CONSTANTS
  Requests = {r1, r2}
  Keys = {k1}
  Bodies = {b1}
SYMMETRY MCSymmetry
SPECIFICATION Spec
INVARIANTS
  GrpcClaimedOnce
CHECK_DEADLOCK FALSE
