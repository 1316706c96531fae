------------------------------ MODULE MCWorkforce ------------------------------
(***************************************************************************)
(* Six components of the Backend and four screens of the Admin web that    *)
(* share no state, checked in one run as a disjoint sum: focus names the   *)
(* one whose actions are taken, the variables of the others stay at one    *)
(* initial value.  Explanations come twice: once with concurrent           *)
(* submissions and uploads and a fixed organisation, once with one call at *)
(* a time, routes, reviewers and a changing organisation.  The page of     *)
(* trips comes twice, for its trips and for its customers.                 *)
(***************************************************************************)
EXTENDS BusinessTrips, LeaveQuota, Explanations, AccessGrants, WorkSchedules, EmployeeLifecycle,
        EmployeesPage, TripsPage, AdminShell, RequestsWorkspace

CONSTANTS
  ann, lea, hed, dep, team,          \* explanations
  jpg1, jpg2, png1, call1, call2,
  desk, rota,                        \* schedules: an employee and a department
  main, side                         \* units of the organisation

VARIABLE focus

MCDeltas == {-1}
MCExtensionOf == [i \in Images |-> IF i = png1 THEN "png" ELSE "jpg"]
MCDepartmentOf == [t \in Teams |-> dep]
MCGrants ==
  {[user |-> lea, role |-> "TEAM_LEADER", scope |-> team]}
    \cup {[user |-> u, role |-> "DEPARTMENT_HEAD", scope |-> dep] : u \in {hed, lea}}
MCMemberships == {<<ann, team>>}
MCDivisionOf == [s \in Squads |-> CHOOSE d \in Divisions : TRUE]
MCHomeOf == [e \in {desk} |-> rota]
MCFiledBy == [i \in Filed |-> ann]
MCOfficeOf == [e \in Crew |-> IF e = lea THEN main ELSE side]

(* The cfg takes ids and transactions of every component from two sets of  *)
(* model values, in which all of them are symmetric.                       *)
Symmetry == Permutations(Leaves) \cup Permutations(Clerks)

screenVars == <<pageVars, tripsPageVars, shellVars, workspaceVars>>
allVars == <<tripVars, quotaVars, explainVars, accessVars, scheduleVars, lifecycleVars, screenVars, focus>>

(* A value that no symmetry of the other components is lost to.            *)
workspaceAsleep ==
  /\ workspace = "leave" /\ edition = [x \in Targets |-> 1] /\ step = [i \in Filed |-> "WAITING_ROUTING"]
  /\ items = Unloaded /\ routes = Unloaded /\ reading = [c \in Reading |-> NoRead]
  /\ area = "QUEUE" /\ detail = Unloaded /\ routeForm = EmptyForm /\ call = NoCall

MCInit ==
  /\ focus \in {"TRIPS", "QUOTA", "FILING", "REVIEW", "GRANTS", "SCHEDULES", "PROFILES",
               "EMPLOYEES_PAGE", "TRIPS_PAGE", "CUSTOMERS_PAGE", "SHELL", "REQUESTS_PAGE"}
  /\ TripInit
  /\ QuotaInit /\ (focus # "QUOTA" => policy.tracking)
  /\ ExplainInit
  /\ focus \notin {"FILING", "REVIEW"} =>
       /\ \A x \in Explanations : explanation[x] = NoExplanation
       /\ \A i \in Uploads : upload[i].extension = "jpg"
  /\ AccessInit /\ ScheduleInit
  /\ LifecycleInit /\ (focus # "PROFILES" => today = 0)
  /\ PageInit /\ TripsPageInit /\ ShellInit
  /\ IF focus = "REQUESTS_PAGE" THEN WorkspaceInit ELSE workspaceAsleep

(* Only the employee submits, and where routes are the question he does so *)
(* in one transaction at a time and without a picture.                     *)
byAnn == \A c \in Calls : filing'[c].op # "NONE" => filing'[c].user = ann
noPictures ==
  \A c \in Calls : filing'[c].op # "NONE" =>
    c = call1 /\ filing'[c].op # "store" /\ filing'[c].ref = NoImage
rejections ==
  \E x \in {y \in Explanations : explanation[y] # NoExplanation /\ rowFree(y)} : adminReview(hed, x, "REJECTED")

component ==
  /\ UNCHANGED screenVars
  /\ \/ /\ focus = "TRIPS" /\ TripNext
        /\ UNCHANGED <<quotaVars, explainVars, accessVars, scheduleVars, lifecycleVars>>
     \/ /\ focus = "QUOTA" /\ QuotaNext
        /\ UNCHANGED <<tripVars, explainVars, accessVars, scheduleVars, lifecycleVars>>
     \/ /\ \/ focus = "FILING" /\ ((FilingStep /\ byAnn) \/ rejections)
           \/ focus = "REVIEW" /\ ((FilingStep /\ byAnn /\ noPictures) \/ ReviewStep \/ OrgChange)
        /\ UNCHANGED <<tripVars, quotaVars, accessVars, scheduleVars, lifecycleVars>>
     \/ /\ focus = "GRANTS" /\ AccessNext
        /\ UNCHANGED <<tripVars, quotaVars, explainVars, scheduleVars, lifecycleVars>>
     \/ /\ focus = "SCHEDULES" /\ ScheduleNext
        /\ UNCHANGED <<tripVars, quotaVars, explainVars, accessVars, lifecycleVars>>
     \/ /\ focus = "PROFILES" /\ LifecycleNext
        /\ UNCHANGED <<tripVars, quotaVars, explainVars, accessVars, scheduleVars>>

screen ==
  /\ UNCHANGED <<tripVars, quotaVars, explainVars, accessVars, scheduleVars, lifecycleVars>>
  /\ \/ focus = "EMPLOYEES_PAGE" /\ PageNext /\ UNCHANGED <<tripsPageVars, shellVars, workspaceVars>>
     \/ /\ \/ /\ focus = "TRIPS_PAGE" /\ TripsPageNext
              /\ UNCHANGED <<clinic, clinicForm>> /\ tripWrite'.kind \notin {"customer", "toggle"}
           \/ focus = "CUSTOMERS_PAGE" /\ TripsPageNext /\ UNCHANGED <<ticket, tripForm, tripAsked>>
        /\ UNCHANGED <<pageVars, shellVars, workspaceVars>>
     \/ focus = "SHELL" /\ ShellNext /\ UNCHANGED <<pageVars, tripsPageVars, workspaceVars>>
     \/ focus = "REQUESTS_PAGE" /\ WorkspaceNext /\ UNCHANGED <<pageVars, tripsPageVars, shellVars>>

MCNext == UNCHANGED focus /\ (component \/ screen)

MCSpec == MCInit /\ [][MCNext]_allVars

(* The state of every component and of every screen keeps its type.        *)
WorkforceTypeOK ==
  CASE focus = "TRIPS" -> TripTypeOK
    [] focus = "QUOTA" -> QuotaTypeOK
    [] focus \in {"FILING", "REVIEW"} -> ExplainTypeOK
    [] focus = "GRANTS" -> AccessTypeOK
    [] focus = "SCHEDULES" -> ScheduleTypeOK
    [] focus = "PROFILES" -> LifecycleTypeOK
    [] focus = "EMPLOYEES_PAGE" -> PageTypeOK
    [] focus \in {"TRIPS_PAGE", "CUSTOMERS_PAGE"} -> TripsPageTypeOK
    [] focus = "SHELL" -> ShellTypeOK
    [] focus = "REQUESTS_PAGE" -> WorkspaceTypeOK

(* What has been lived is never rewritten: an assignment of a schedule     *)
(* leaves the days before its first day as they were, and a change of      *)
(* places the days before today (WorkSchedulesService.assign,              *)
(* EmployeesService.update).  Reports of past days follow both.            *)
HistoryKept == [][pastScheduleKept /\ pastHomesKept]_allVars

(* What a screen holds stays in agreement with what the Backend holds or   *)
(* insists on, whatever answers come late: one primary assignment of an    *)
(* employee (employees/page.tsx), the person responsible for a trip among  *)
(* its members (business-trips/page.tsx), nobody at the sign-in page whose *)
(* session goes on but those who asked for it or were overtaken by answers *)
(* of an earlier session or an expiry under a re-sent call (layout.tsx),   *)
(* and in the editor of routes the route of the employee or request it is  *)
(* saved for (leave-workflow-workspace.tsx).                               *)
ScreensAgree == OnePrimaryAssignment /\ ResponsibleIsMember /\ SignInPageMeansRefused /\ RouteOfItsTarget

=============================================================================
