SPECIFICATION MCSpec
CONSTANTS
  None = None
  e1 = e1  e2 = e2
  d1 = d1
  p1 = p1  p2 = p2
  t1 = t1  t2 = t2  t3 = t3
  n1 = n1
  Employees = {e1, e2}
  Departments = {d1}
  MembersOf <- MCMembersOf
  Notices = {n1, n2}
  Drafts = {n1}
  Kinds = {"WARNING", "SUSPENSION"}
  Phones = {p1, p2}
  UsesOf <- MCUsesOf
  TokensOf <- MCTokensOf
  Deliveries = {v1, v2}
  Decisions = {k1}
  Days = {1, 2}
INVARIANTS
  DecisionTypeOK
  ReceiptsMatchNotice
  SentMeansAccepted
  PushFollowsSession
  DecisionReachedInbox
PROPERTIES
  RegistrationTakenByRight
SYMMETRY AnyDelivery
CHECK_DEADLOCK FALSE
