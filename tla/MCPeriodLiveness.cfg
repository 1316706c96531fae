SPECIFICATION FairSpec
CONSTANTS
  e1 = e1
  e2 = e2
  Workers = {w1, w2}
  Months = {1}
  Leaves = {1}
  Explanations = {3}
  Employees = {e1}
  OwnerOf <- OneOwner
  Span <- SingleMonth
  Handlers <- Everything
  NoWorker = NoWorker
  NoEmployee = NoEmployee
  MaxAdjustments = 1
PROPERTIES
  TransactionsEnd
