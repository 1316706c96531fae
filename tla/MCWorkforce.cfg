SPECIFICATION MCSpec
CONSTANTS
  \* business trips and attendance
  Staff = {a, b}
  Office = Office
  DayLength = 2
  LastTick = 4
  MaxCalls = 2
  Trips = {t1}
  \* leave balances
  Takers = {a}
  Leaves = {i1, i2}
  Clerks = {c1, c2}
  DaysPerYear = 1
  LastDay = 1
  Entitlement = 1
  MaxCarryOver = 1
  Minutes = {1}
  Deltas <- MCDeltas
  MaxAdjusted = 1
  \* explanations
  ann = ann  lea = lea  hed = hed  dep = dep  team = team
  jpg1 = jpg1  jpg2 = jpg2  png1 = png1  call1 = call1  call2 = call2
  Users = {ann, lea, hed}
  Employees = {ann, lea, hed}
  Admins = {lea, hed}
  Teams = {team}
  Departments = {dep}
  DepartmentOf <- MCDepartmentOf
  Grants <- MCGrants
  Memberships <- MCMemberships
  NoUser = NoUser
  NoTeam = NoTeam
  MaxLapsed = 2
  Explanations = {i1, i2}
  Issues = {late}
  Uploads = {u1}
  Images = {jpg1, jpg2, png1}
  extensionOf <- MCExtensionOf
  Calls = {call1, call2}
  NoExplanation = NoExplanation
  NoImage = NoImage
  \* management grants
  Managers = {lea, hed}
  Squads = {squad1}
  Divisions = {dep}
  divisionOf <- MCDivisionOf
  GrantRows = {i1, i2}
  Requests = {c1, c2}
  LastInstant = 1
  NoGrant = NoGrant
  \* schedules
  desk = desk  rota = rota
  Schedules = {i1, i2}
  Owners = {desk, rota}
  homeOf <- MCHomeOf
  Planners = {c1, c2}
  LastDate = 2
  MaxRows = 2
  NoPlan = NoPlan
  \* profiles
  main = main  side = side
  Profiles = {ann}
  Units = {main, side}
  Editors = {c1, c2}
  FinalDay = 1
  MaxHomes = 2
  NoProfile = NoProfile
  \* screens of the Admin web
  People = {c1, c2}
  Nobody = Nobody
  MaxAssignments = 2
  MaxReads = 1
  Crew = {ann, lea}
  Offices = {main, side}
  officeOf <- MCOfficeOf
  Tickets = {t1}
  Clinics = {k1}
  Nothing = Nothing
  Fetches = {i1, i2}
  Routed = {ann}
  Filed = {t1}
  filedBy <- MCFiledBy
  Reading = {i1, i2}
  MaxEdition = 2
  Unloaded = Unloaded
INVARIANTS
  WorkforceTypeOK
  TripStatusMatchesMembers
  EventsMatchWork
  QuotaNotOverdrawn
  NoOverlappingLeave
  OneOpenExplanation
  ExplanationJudgedByTwo
  NoOverlappingGrants
  ScreensAgree
PROPERTIES
  AttachedEvidenceKept
  HistoryKept
SYMMETRY Symmetry
CHECK_DEADLOCK FALSE
