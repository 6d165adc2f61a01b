\* Three requests that may share a key: over gRPC, or over HTTP under its plain
\* name or under the name gRPC gives it.
CONSTANTS
  Requests = {r1, r2, r3}
  Keys = {k1}
  Bodies = {b1, b2}
SYMMETRY MCSymmetry
SPECIFICATION Spec
INVARIANTS
  AnswersTraced SettledNotRepeated HttpClaimedOnce
CHECK_DEADLOCK FALSE
