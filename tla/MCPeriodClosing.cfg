SPECIFICATION Spec
CONSTANTS
  e1 = e1
  e2 = e2
  Workers = {w1, w2}
  Months = {1, 2}
  Leaves = {1, 2}
  Explanations = {3}
  Employees = {e1}
  OwnerOf <- OneOwner
  Span <- MCSpan
  Handlers <- Transactions
  NoWorker = NoWorker
  NoEmployee = NoEmployee
  MaxAdjustments = 1
SYMMETRY AnySession
INVARIANTS
  TypeOK
  LockedMonthSettled
  WritesUnderItsMonths
  NoLockCycle
PROPERTIES
  ImplementsGate
