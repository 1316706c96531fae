------------------------------ MODULE LeaveWorkflow ------------------------------
(***************************************************************************)
(* The two-step approval of leave requests: an employee (or an Admin for   *)
(* him) submits, the assigned Leader confirms, the assigned Head decides,  *)
(* and an Admin routes, reroutes or decides instead when no live route is  *)
(* left (LeaveWorkflowService and LeaveService of the backend).            *)
(*                                                                         *)
(* Every handler is one transaction under the advisory lock of the         *)
(* employee and the row lock of the request, so it is one step here; the   *)
(* steps inside it, the period check and the period locks are the subject  *)
(* of PeriodClosing.  What is not serialised by those locks is: the        *)
(* organisation data changes between any two handlers, and a user acts on  *)
(* the screen he loaded some time ago (view).  A handler that throws       *)
(* rolls back and is a stuttering step.                                    *)
(***************************************************************************)
EXTENDS ManagementAccess

CONSTANTS
  Requests,
  OwnerOf,                    \* the employee a request is for
  AllowApprovedCancellation,  \* of the leave policy of the requests
  MaxVersion                  \* bound: no handler runs at this routeVersion

ASSUME LeaveAssumption ==
  /\ OwnerOf \in [Requests -> Employees]
  /\ AllowApprovedCancellation \in BOOLEAN
  /\ MaxVersion \in Nat \ {0}

VARIABLES
  req,      \* the leave_requests rows
  route,    \* the leave_approval_routes rows, one per employee
  view,     \* the row each user last loaded, with its routeVersion
  told      \* who was sent "your step is next" for the current routeVersion

vars == <<org, req, route, view, told>>

Statuses == {"NONE", "SUBMITTED", "APPROVED", "REJECTED", "CANCELLED"}
Stages == {"NULL", "WAITING_ROUTING", "LEADER_CONFIRMATION", "HEAD_APPROVAL", "COMPLETED"}
Methods == {"NULL", "ROUTED", "ADMIN_FALLBACK"}

UserOrNull == Users \cup {NoUser}
Route == [team: Teams, leader: Users, head: Users]
NoRoute == [team |-> NoTeam, leader |-> NoUser, head |-> NoUser]

Request == [status: Statuses, stage: Stages, submittedBy: UserOrNull,
            team: Teams \cup {NoTeam}, leader: UserOrNull, head: UserOrNull,
            version: 0 .. MaxVersion, confirmedBy: UserOrNull,
            reviewedBy: UserOrNull, method: Methods]

(* A row nobody has routed, confirmed or decided. *)
bareRow(status, stage) ==
  [status |-> status, stage |-> stage, submittedBy |-> NoUser,
   team |-> NoTeam, leader |-> NoUser, head |-> NoUser, version |-> 0,
   confirmedBy |-> NoUser, reviewedBy |-> NoUser, method |-> "NULL"]

Absent == bareRow("NONE", "NULL")

(* A row the two-step migration found: pending ones are sent to routing,   *)
(* decided ones keep a null stage; some predate submitted_by.              *)
LegacyRows == {bareRow("SUBMITTED", "WAITING_ROUTING"), bareRow("APPROVED", "NULL")}

------------------------------------------------------------------------------
(* The permission rules *)

independentReviewers(owner, leader, head, confirmedBy) ==
  /\ leader # NoUser
  /\ head # NoUser
  /\ leader # head
  /\ leader # owner
  /\ head # owner
  /\ head # confirmedBy

open(item) == item.status = "SUBMITTED"

independent(item) ==
  independentReviewers(item.submittedBy, item.leader, item.head, item.confirmedBy)

routingRequired(item) ==
  /\ open(item)
  /\ \/ ~independent(item)
     \/ ~hasWorkflowGrant(item.head, "DEPARTMENT_HEAD", item.team)
     \/ /\ item.confirmedBy = NoUser
        /\ ~hasWorkflowGrant(item.leader, "TEAM_LEADER", item.team)

canConfirm(actor, r) ==
  /\ open(req[r])
  /\ ~routingRequired(req[r])
  /\ req[r].stage = "LEADER_CONFIRMATION"
  /\ req[r].confirmedBy = NoUser
  /\ actor # OwnerOf[r]
  /\ actor = req[r].leader
  /\ hasWorkflowGrant(actor, "TEAM_LEADER", req[r].team)

(* Mutant: the Head may decide a request nobody confirmed. *)
canReviewUnconfirmed(actor, r) ==
  /\ open(req[r])
  /\ ~routingRequired(req[r])
  /\ actor # OwnerOf[r]
  /\ actor = req[r].head
  /\ hasWorkflowGrant(actor, "DEPARTMENT_HEAD", req[r].team)

canReview(actor, r) ==
  /\ open(req[r])
  /\ ~routingRequired(req[r])
  /\ req[r].stage = "HEAD_APPROVAL"
  /\ req[r].confirmedBy # NoUser
  /\ actor # OwnerOf[r]
  /\ actor = req[r].head
  /\ hasWorkflowGrant(actor, "DEPARTMENT_HEAD", req[r].team)

(* Mutant: an Admin who confirmed as Leader may decide instead of the Head. *)
canAdminReviewTwice(actor, r) ==
  /\ actor \in Admins
  /\ open(req[r])
  /\ routingRequired(req[r])
  /\ req[r].stage # "COMPLETED"
  /\ actor # OwnerOf[r]
  /\ actor # req[r].submittedBy

canAdminReview(actor, r) ==
  /\ actor \in Admins
  /\ open(req[r])
  /\ routingRequired(req[r])
  /\ req[r].stage # "COMPLETED"
  /\ actor # OwnerOf[r]
  /\ actor # req[r].submittedBy
  /\ actor # req[r].confirmedBy

------------------------------------------------------------------------------
(* Routing *)

(* Mutant: only the employee is compared with the reviewers, not the account *)
(* that submitted for him.                                                 *)
validateRouteOfOwner(employee, input, confirmedBy, owner) ==
  /\ independentReviewers(employee, input.leader, input.head, confirmedBy)
  /\ hasWorkflowGrant(input.head, "DEPARTMENT_HEAD", input.team)
  /\ confirmedBy = NoUser =>
       /\ eligibleMember(employee, input.team)
       /\ hasWorkflowGrant(input.leader, "TEAM_LEADER", input.team)

(* What a route must satisfy to be given to a step that is not yet done.   *)
validateRoute(employee, input, confirmedBy, owner) ==
  /\ independentReviewers(employee, input.leader, input.head, confirmedBy)
  /\ independentReviewers(owner, input.leader, input.head, confirmedBy)
  /\ hasWorkflowGrant(input.head, "DEPARTMENT_HEAD", input.team)
  /\ confirmedBy = NoUser =>
       /\ eligibleMember(employee, input.team)
       /\ hasWorkflowGrant(input.leader, "TEAM_LEADER", input.team)

(* Mutant: nobody tells the Head. *)
notifyNextLeader(item) ==
  activeUsers \cap Employees \cap
    CASE item.stage = "LEADER_CONFIRMATION" -> {item.leader}
      [] item.stage = "WAITING_ROUTING" -> Admins
      [] OTHER -> {}

(* Who gets the inbox message of the next step; the insert needs an active *)
(* employee profile.                                                       *)
notifyNext(item) ==
  activeUsers \cap Employees \cap
    CASE item.stage = "LEADER_CONFIRMATION" -> {item.leader}
      [] item.stage = "HEAD_APPROVAL" -> {item.head}
      [] item.stage = "WAITING_ROUTING" -> Admins
      [] OTHER -> {}

(* The route a new request starts with: the default one if it still holds. *)
initialRoute(employee, submitter) ==
  LET default == route[employee] IN
  IF default # NoRoute /\ validateRoute(employee, default, NoUser, submitter)
  THEN default ELSE NoRoute

initialize(employee, submitter) ==
  LET r == initialRoute(employee, submitter) IN
  [status |-> "SUBMITTED",
   stage |-> IF r = NoRoute THEN "WAITING_ROUTING" ELSE "LEADER_CONFIRMATION",
   submittedBy |-> submitter,
   team |-> r.team, leader |-> r.leader, head |-> r.head,
   version |-> 1, confirmedBy |-> NoUser,
   reviewedBy |-> NoUser, method |-> "NULL"]

(* Mutant: the completed step is rerouted with the rest. *)
canApplyAnyRoute(r, input) ==
  /\ open(req[r])
  /\ req[r].version < MaxVersion
  /\ validateRoute(OwnerOf[r], input, req[r].confirmedBy, req[r].submittedBy)

canApplyRoute(r, input) ==
  /\ open(req[r])
  /\ req[r].version < MaxVersion
  /\ req[r].confirmedBy # NoUser =>
       req[r].team = input.team /\ req[r].leader = input.leader
  /\ validateRoute(OwnerOf[r], input, req[r].confirmedBy, req[r].submittedBy)

(* Mutants: every rerouted request starts over, or keeps its routeVersion. *)
applyRouteFromStart(r, input) ==
  [req[r] EXCEPT !.team = input.team, !.leader = input.leader, !.head = input.head,
                 !.version = @ + 1,
                 !.stage = "LEADER_CONFIRMATION"]

applyRouteSilently(r, input) ==
  [req[r] EXCEPT !.team = input.team, !.leader = input.leader, !.head = input.head,
                 !.stage = IF req[r].confirmedBy = NoUser THEN "LEADER_CONFIRMATION"
                                                          ELSE "HEAD_APPROVAL"]

applyRoute(r, input) ==
  [req[r] EXCEPT !.team = input.team, !.leader = input.leader, !.head = input.head,
                 !.version = @ + 1,
                 !.stage = IF req[r].confirmedBy = NoUser THEN "LEADER_CONFIRMATION"
                                                          ELSE "HEAD_APPROVAL"]

(* A default route does not touch the step a pending request has behind it. *)
defaultFor(r, input) ==
  IF req[r].confirmedBy = NoUser THEN input
  ELSE [input EXCEPT !.team = req[r].team, !.leader = req[r].leader]

------------------------------------------------------------------------------
(* The handlers *)

Init ==
  /\ OrgInit
  /\ req \in [Requests -> {Absent} \cup LegacyRows]
  /\ route = [e \in Employees |-> NoRoute]
  /\ view = [u \in Users |-> req]
  /\ told = [r \in Requests |-> {}]

(* A protected request comes from an account the session guard found active, *)
(* and carries the routeVersion of the screen it was sent from.              *)
acts(user) == user \in activeUsers

expectedVersion(user, r) == view[user][r].version = req[r].version

createForEmployee(user, r) ==
  /\ acts(user)
  /\ user = OwnerOf[r] \/ user \in Admins
  /\ OwnerOf[r] \in activeUsers
  /\ req[r].status = "NONE"
  /\ req' = [req EXCEPT ![r] = initialize(OwnerOf[r], user)]
  /\ told' = [told EXCEPT ![r] = notifyNext(req'[r])]
  /\ UNCHANGED <<org, route, view>>

load(user, r) ==
  /\ acts(user)
  /\ req[r].status # "NONE"
  /\ user \in Admins \cup {req[r].leader, req[r].head}
  /\ view' = [view EXCEPT ![user][r] = req[r]]
  /\ UNCHANGED <<org, req, route, told>>

confirm(user, r) ==
  /\ acts(user)
  /\ expectedVersion(user, r)
  /\ req[r].version < MaxVersion
  /\ canConfirm(user, r)
  /\ req' = [req EXCEPT ![r].confirmedBy = user,
                        ![r].stage = "HEAD_APPROVAL",
                        ![r].version = @ + 1]
  /\ told' = [told EXCEPT ![r] = notifyNext(req'[r])]
  /\ UNCHANGED <<org, route, view>>

decide(user, r, decision, method) ==
  /\ acts(user)
  /\ expectedVersion(user, r)
  /\ req[r].version < MaxVersion
  /\ req' = [req EXCEPT ![r].status = decision,
                        ![r].reviewedBy = user,
                        ![r].stage = "COMPLETED",
                        ![r].method = method,
                        ![r].version = @ + 1]
  /\ told' = [told EXCEPT ![r] = {}]
  /\ UNCHANGED <<org, route, view>>

review(user, r, decision) ==
  canReview(user, r) /\ decide(user, r, decision, "ROUTED")

adminReview(user, r, decision) ==
  canAdminReview(user, r) /\ decide(user, r, decision, "ADMIN_FALLBACK")

reroute(user, r, input) ==
  /\ acts(user)
  /\ user \in Admins
  /\ expectedVersion(user, r)
  /\ canApplyRoute(r, input)
  /\ req' = [req EXCEPT ![r] = applyRoute(r, input)]
  /\ told' = [told EXCEPT ![r] = notifyNext(req'[r])]
  /\ UNCHANGED <<org, route, view>>

setDefaultRoute(user, employee, input) ==
  LET pending == {r \in Requests : OwnerOf[r] = employee /\ open(req[r])} IN
  /\ acts(user)
  /\ user \in Admins
  /\ validateRoute(employee, input, NoUser, NoUser)
  /\ \A r \in pending : canApplyRoute(r, defaultFor(r, input))
  /\ route' = [route EXCEPT ![employee] = input]
  /\ req' = [r \in Requests |-> IF r \in pending
                                THEN applyRoute(r, defaultFor(r, input)) ELSE req[r]]
  /\ told' = [r \in Requests |-> IF r \in pending THEN notifyNext(req'[r]) ELSE told[r]]
  /\ UNCHANGED <<org, view>>

(* Mutant: whatever the policy does not forbid may be cancelled. *)
canCancelAnyLeave(item) ==
  item.status \in {"SUBMITTED", "REJECTED"} \/ AllowApprovedCancellation

canCancelLeave(item) ==
  \/ item.status = "SUBMITTED"
  \/ item.status = "APPROVED" /\ AllowApprovedCancellation

(* Mutant: the stage is given the name of the status. *)
cancelledStage(item) == [item EXCEPT !.status = "CANCELLED", !.stage = "CANCELLED",
                                     !.version = @ + 1]

(* A row with a null stage keeps it, and its routeVersion. *)
cancelled(item) ==
  IF item.stage = "NULL" THEN [item EXCEPT !.status = "CANCELLED"]
  ELSE [item EXCEPT !.status = "CANCELLED", !.stage = "COMPLETED", !.version = @ + 1]

cancel(user, r) ==
  /\ acts(user)
  /\ user = OwnerOf[r] \/ user \in Admins
  /\ canCancelLeave(req[r])
  /\ req[r].version < MaxVersion
  /\ req' = [req EXCEPT ![r] = cancelled(req[r])]
  /\ told' = [told EXCEPT ![r] = {}]
  /\ UNCHANGED <<org, route, view>>

OrgStep == OrgNext /\ UNCHANGED <<req, route, view, told>>

Next ==
  \/ OrgStep
  \/ \E user \in Users, r \in Requests :
       \/ createForEmployee(user, r)
       \/ load(user, r)
       \/ confirm(user, r)
       \/ \E decision \in {"APPROVED", "REJECTED"} :
            review(user, r, decision) \/ adminReview(user, r, decision)
       \/ \E input \in Route : reroute(user, r, input)
       \/ cancel(user, r)
  \/ \E user \in Users, employee \in Employees, input \in Route :
       setDefaultRoute(user, employee, input)

Spec == Init /\ [][Next]_vars

------------------------------------------------------------------------------
(* Properties *)

TypeOK ==
  /\ OrgTypeOK
  /\ req \in [Requests -> Request]
  /\ route \in [Employees -> Route \cup {NoRoute}]
  /\ view \in [Users -> [Requests -> Request]]
  /\ told \in [Requests -> SUBSET Users]

decided(item) == item.status \in {"APPROVED", "REJECTED"}

(* The CHECK constraints of leave_requests are never what stops a handler: *)
(* every row a handler saves satisfies them, in every history of routing,  *)
(* confirmation, rerouting, lapse of grants, decision and cancellation.    *)
ColumnChecks ==
  \A r \in Requests :
    /\ \/ <<req[r].team, req[r].leader, req[r].head>> = <<NoTeam, NoUser, NoUser>>
       \/ /\ NoTeam # req[r].team
          /\ NoUser \notin {req[r].leader, req[r].head}
          /\ req[r].leader # req[r].head
    /\ req[r].submittedBy # NoUser =>
         req[r].submittedBy \notin {req[r].leader, req[r].head}
    /\ req[r].confirmedBy # NoUser => req[r].head # req[r].confirmedBy
    /\ req[r].stage = "HEAD_APPROVAL" =>
         req[r].status = "SUBMITTED" /\ req[r].confirmedBy # NoUser

(* Nobody passes judgement twice or on himself: whoever confirmed a        *)
(* request is neither the employee it is for nor the account that sent it, *)
(* and whoever decided it is none of these three, although an Admin may    *)
(* submit for others, be its Leader, reroute it and decide instead.        *)
SeparationOfDuties ==
  \A r \in Requests :
    /\ req[r].confirmedBy # NoUser =>
         req[r].confirmedBy \notin {OwnerOf[r], req[r].submittedBy}
    /\ req[r].reviewedBy # NoUser =>
         req[r].reviewedBy \notin {OwnerOf[r], req[r].submittedBy, req[r].confirmedBy}

(* A ROUTED decision rests on two real steps on the route the row names:   *)
(* its Leader confirmed, its Head decided, however often the request was   *)
(* rerouted in between.  A decision outside the route is an Admin's.       *)
RoutedMeansTwoSteps ==
  \A r \in Requests :
    /\ req[r].method = "ROUTED" =>
         /\ req[r].confirmedBy = req[r].leader
         /\ req[r].reviewedBy = req[r].head
         /\ NoUser \notin {req[r].leader, req[r].head}
    /\ req[r].method = "ADMIN_FALLBACK" => req[r].reviewedBy \in Admins

(* A pending request is never stuck with nobody to move it: either its     *)
(* assigned reviewer may take the next step, or the system says it needs   *)
(* routing, which is what opens it to the Admins.                          *)
NoDeadEnd ==
  \A r \in Requests :
    open(req[r]) =>
      \/ routingRequired(req[r])
      \/ canConfirm(req[r].leader, r)
      \/ canReview(req[r].head, r)

(* Whoever must act next was sent the inbox message of the current         *)
(* routeVersion, also after reroutes and changes of the default route.     *)
NextReviewerTold ==
  \A r \in Requests :
    /\ req[r].stage = "LEADER_CONFIRMATION" => req[r].leader \in told[r]
    /\ req[r].stage = "HEAD_APPROVAL" => req[r].head \in told[r]

(* A completed confirmation is never rewritten: once a Leader confirmed,   *)
(* who it was and on which team stay as they are, whatever the default     *)
(* route becomes or whoever reroutes, decides or cancels.                  *)
ConfirmedStepImmutable ==
  [][\A r \in Requests :
       req[r].confirmedBy # NoUser =>
         /\ req'[r].confirmedBy = req[r].confirmedBy
         /\ req'[r].leader = req[r].leader
         /\ req'[r].team = req[r].team]_vars

(* A decision is final: a decided request changes only by the cancellation *)
(* of an approved one under a policy that allows it, which keeps who       *)
(* decided and how.                                                        *)
DecisionIsFinal ==
  [][\A r \in Requests :
       decided(req[r]) /\ req'[r] # req[r] =>
         /\ AllowApprovedCancellation
         /\ req[r].status = "APPROVED" /\ req'[r].status = "CANCELLED"
         /\ req'[r].reviewedBy = req[r].reviewedBy
         /\ req'[r].method = req[r].method]_vars

(* Nobody confirms or decides blindly: the row a user confirms or decides  *)
(* is the row on his screen, with the same route, step and confirmation.   *)
(* Equal routeVersions must mean equal rows for this to hold.              *)
DecidedOnWhatWasSeen ==
  [][\A r \in Requests :
       /\ req'[r].confirmedBy # req[r].confirmedBy => view[req'[r].confirmedBy][r] = req[r]
       /\ req'[r].reviewedBy # req[r].reviewedBy => view[req'[r].reviewedBy][r] = req[r]]_vars

=============================================================================
