\* Two writers, three rows, two months, two altered columns: the doc claim.
CONSTANTS
  None = None
  Writers = {w1, w2}
  Ids = {a1, a2, a3}
  MaxMonth = 2
  MaxAltered = 2
SYMMETRY MCSymmetry
SPECIFICATION Spec
INVARIANTS
  AlterationsDetected
