\* Two writers, three rows, two months, three altered columns.
CONSTANTS
  None = None
  Writers = {w1, w2}
  Ids = {a1, a2, a3}
  MaxMonth = 2
  MaxAltered = 3
SYMMETRY MCSymmetry
SPECIFICATION Spec
INVARIANTS
  RowsAreTheLog AlarmsAreReal SilenceVouches
PROPERTIES
  ImplementsLog
