SPECIFICATION Spec
CONSTANTS
  e1 = e1
  e2 = e2
  Workers = {w1, w2, w3}
  Months = {1, 2}
  Leaves = {1, 2, 3}
  Explanations = {}
  Employees = {e1, e2}
  OwnerOf <- TwoOwners
  Span <- CrossedSpan
  Handlers <- LeaveTransactions
  NoWorker = NoWorker
  NoEmployee = NoEmployee
  MaxAdjustments = 1
SYMMETRY AnySession
INVARIANTS
  NoLockCycle
