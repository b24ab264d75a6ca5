SPECIFICATION MCSpec
CONSTANTS
  None = None
  Orders = {o1}
  Payees = {p1}
  Calls = {c1, c2, c3}
  Amounts <- MCAmounts
  Pcts <- MCPcts
  DeclinedAmount = 99
  MaxCharges = 3
  IntBound = 4000
  TonUnits = 2
  TariffTables <- MCTables
  Inputs <- MCInputs
  ClientPrices <- MCPrices
SYMMETRY CallSymmetry
INVARIANTS
  WalletTypeOK
  RowsAreCharged
  CommissionIsShare
  PartsAddUp
  SplitIsFair
  NobodyUnpaid
  QuoteIsPaid
PROPERTIES
  RowsSettleOnce
  RetriesNeverCharge
  KeepsLedger
