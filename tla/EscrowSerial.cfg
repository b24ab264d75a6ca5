SPECIFICATION Spec
CONSTANTS
  s1 = s1
  s2 = s2
  e1 = e1
  e2 = e2
  o1 = o1
  u1 = u1
  None = None
  Orders = {o1}
  Payees = {e1, e2}
  Slots = {s1, s2}
  UserCalls = {}
  Calls <- MCCalls
  Amounts <- MCAmounts
  Pcts <- MCPcts
  DeclinedAmount = 99
  MaxCharges = 1
  Shapes <- MCAllShapes
  Targets <- MCTargets
  Unlicensed = {}
  Overlap = FALSE
  Faults <- FaultKinds
SYMMETRY Symmetry
INVARIANTS
  CancelledOrPaid
PROPERTIES
  LegLifecycle
