\* The scheduler lists one of three accounts.
CONSTANTS
  None = None
  AccountIds = {1, 2, 3}
  TransferIds = {t1}
  HoldIds = {h1}
  MaxAmount = 1
  PageCap = 1
  MaxErrors = 1
  MaxDamage = 2
  Currency <- MCCurrency
  AllowNegative <- MCAllowNegative
  AllowPositive <- MCAllowPositive
  Payments <- MCPayments
  Holdings <- MCHoldings
SPECIFICATION SpecAll
INVARIANTS
  AlarmsExplained ConsistentUntilDamaged
PROPERTIES
  NoFalseAllClear DriftReported
CHECK_DEADLOCK FALSE
