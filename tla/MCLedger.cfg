\* Two requests over three accounts, from an empty database.
CONSTANTS
  None = None
  Clients = {c1, c2}
  AccountIds = {1, 2, 3}
  TransferIds = {t1, t2}
  HoldIds = {h1}
  MaxAmount = 2
  MaxRetries = 0
  Currency <- MCCurrency
  AllowNegative <- MCAllowNegative
  AllowPositive <- MCAllowPositive
  Batches <- MCBatches
SYMMETRY MCSymmetry
SPECIFICATION Spec
INVARIANTS
  TypeOK EncumberedIsHeld BalanceIsNet LimitsRespected EntriesChain
  CapturedOnce OutboxTellsAll AuditMatches
PROPERTIES
  ImplementsJournal ImplementsCommits
