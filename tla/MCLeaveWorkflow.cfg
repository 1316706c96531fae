SPECIFICATION Spec
CONSTANTS
  emp = emp
  lead = lead
  head = head
  adm = adm
  t1 = t1
  t2 = t2
  d1 = d1
  r1 = r1
  NoUser = NoUser
  NoTeam = NoTeam
  Users <- MCUsers
  Employees <- MCUsers
  Admins = {adm}
  Teams = {t1, t2}
  Departments = {d1}
  DepartmentOf <- MCDepartmentOf
  Grants <- MCGrants
  Memberships <- MCMemberships
  Requests = {r1}
  OwnerOf <- MCOwnerOf
  AllowApprovedCancellation = TRUE
  MaxVersion = 4
  MaxLapsed = 1
INVARIANTS
  TypeOK
  ColumnChecks
  SeparationOfDuties
  RoutedMeansTwoSteps
  NoDeadEnd
  NextReviewerTold
PROPERTIES
  ConfirmedStepImmutable
  DecisionIsFinal
  DecidedOnWhatWasSeen
