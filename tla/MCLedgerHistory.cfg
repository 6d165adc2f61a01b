\* Two requests that post and reverse transfers, beside a reader.
CONSTANTS
  None = None
  Clients = {c1, c2}
  AccountIds = {1, 2}
  TransferIds = {1, 2, 3}
  HoldIds = {}
  MaxAmount = 1
  MaxRetries = 0
  Servers = {s1, s2}
  MaxSkew = 1
  MaxTime = 2
  Listed = 1
  PageSize = 1
  Currency <- MCCurrency
  AllowNegative <- MCUnlimited
  AllowPositive <- MCUnlimited
  Batches <- MCBatches
SYMMETRY MCSymmetry
SPECIFICATION SpecPaid
INVARIANTS
  ReversalsNeverMeet ReversedOnce HistoryMatchesVersions PagesMissNothing
PROPERTIES
  PastSettles
