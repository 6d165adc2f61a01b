\* Versions of entries against VerifyEntryChain.
CONSTANTS
  None = None
  AccountIds = {1, 2}
  TransferIds = {t1}
  HoldIds = {h1}
  MaxAmount = 1
  PageCap = 2
  MaxErrors = 0
  MaxDamage = 0
  Currency <- MCCurrency
  AllowNegative <- MCAllowNegative
  AllowPositive <- MCAllowPositive
  Payments <- MCPayments
  Holdings <- MCHoldings
SPECIFICATION SpecAll
INVARIANTS
  ChainsContiguous
CHECK_DEADLOCK FALSE
