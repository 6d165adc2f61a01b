\* Every request ends under fair scheduling and fair locks, and none waits
\* in a circle.
CONSTANTS
  None = None
  Clients = {c1, c2}
  AccountIds = {1, 2, 3}
  TransferIds = {t1}
  HoldIds = {h1}
  MaxAmount = 1
  MaxRetries = 1
  Currency <- MCCurrency
  AllowNegative <- MCAllowNegative
  AllowPositive <- MCAllowPositive
  Batches <- MCRing
SPECIFICATION FairSpecOpened
INVARIANTS
  NoDeadlock
PROPERTIES
  RequestsEnd
