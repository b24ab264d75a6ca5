SPECIFICATION MCOverlapSpec
CONSTANTS
  s1 = s1
  s2 = s2
  e1 = e1
  e2 = e2
  o1 = o1
  u1 = u1
  None = None
  Orders = {o1}
  Payees = {e1, e2}
  Slots = {s1, s2}
  UserCalls = {u1}
  Calls <- MCCallsUser
  Amounts <- MCAmountsFew
  Pcts <- MCPcts
  DeclinedAmount = 99
  MaxCharges = 1
  Shapes <- MCEven
  Targets <- MCTargetsFew
  Unlicensed <- MCUnlicensed
  Overlap = TRUE
  Faults <- MCContext
SYMMETRY SlotSymmetry
INVARIANTS
  TypeOK
  ClaimExclusive
  EscrowBehindClaim
  PaidOnlyAfterDelivery
  RefundOnlyAfterCancel
PROPERTIES
  KeepsContract
