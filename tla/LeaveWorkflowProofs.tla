--------------------------- MODULE LeaveWorkflowProofs ---------------------------
(***************************************************************************)
(* Proofs about LeaveWorkflow, for every organisation and any number of    *)
(* requests.  The inductive invariant Inv says of every row what the six   *)
(* handlers together keep true of it (RowOK), that the next reviewer was   *)
(* told, and that a screen with the routeVersion of a pending row shows    *)
(* that row (ScreenOK).                                                    *)
(***************************************************************************)
EXTENDS LeaveWorkflow, TLAPS

(* What is true of a row, whoever handled it before.  The last three       *)
(* conjuncts are what is wanted; the others are what they rest on: a step  *)
(* that is done is tied to the Leader of the row, a pending row has no     *)
(* decision, and its stage says whether it was confirmed.                  *)
RowOK(owner, x) ==
  /\ x.status = "NONE" => x = Absent
  /\ open(x) =>
       /\ x.stage \in {"WAITING_ROUTING", "LEADER_CONFIRMATION", "HEAD_APPROVAL"}
       /\ x.confirmedBy # NoUser <=> x.stage = "HEAD_APPROVAL"
       /\ x.reviewedBy = NoUser
       /\ x.method = "NULL"
  /\ x.stage \in {"WAITING_ROUTING", "LEADER_CONFIRMATION", "HEAD_APPROVAL"} => open(x)
  /\ x.stage = "WAITING_ROUTING" => x.leader = NoUser
  /\ \/ x.team = NoTeam /\ x.leader = NoUser /\ x.head = NoUser
     \/ /\ x.team # NoTeam /\ x.leader # NoUser /\ x.head # NoUser
        /\ x.leader # x.head
        /\ x.leader # owner /\ x.leader # x.submittedBy
        /\ x.head # owner /\ x.head # x.submittedBy
  /\ x.confirmedBy # NoUser => x.confirmedBy = x.leader
  /\ x.reviewedBy # NoUser =>
       x.reviewedBy # owner /\ x.reviewedBy # x.submittedBy /\ x.reviewedBy # x.confirmedBy
  /\ x.method = "ROUTED" =>
       /\ x.confirmedBy = x.leader /\ x.reviewedBy = x.head
       /\ x.leader # NoUser /\ x.head # NoUser
  /\ x.method = "ADMIN_FALLBACK" => x.reviewedBy \in Admins

ToldOK(x, recipients) ==
  /\ x.stage = "LEADER_CONFIRMATION" => x.leader \in recipients
  /\ x.stage = "HEAD_APPROVAL" => x.head \in recipients

ScreenOK(screen, x) ==
  /\ screen.version <= x.version
  /\ screen.version = x.version /\ open(x) => screen = x

Inv ==
  /\ TypeOK
  /\ \A r \in Requests : RowOK(OwnerOf[r], req[r])
  /\ \A r \in Requests : ToldOK(req[r], told[r])
  /\ \A u \in Users, r \in Requests : ScreenOK(view[u][r], req[r])

------------------------------------------------------------------------------
(* Lemmas on grants and rows *)

(* Whoever holds a grant in force is an active user with a profile, hence  *)
(* someone the inbox message reaches (readManagementGrants, notify).       *)
LEMMA GrantHolder ==
  ASSUME OrgTypeOK, NEW user, NEW role, NEW team, hasWorkflowGrant(user, role, team)
  PROVE  user \in activeUsers \cap Employees /\ user \in Users /\ user # NoUser
<1>1. PICK g \in granted : grantActive(g) /\ g.user = user
  BY DEF hasWorkflowGrant
<1>2. user \in activeUsers
  BY <1>1 DEF grantActive, eligible
<1>3. user \in Employees
  BY <1>1, OrgAssumption DEF OrgTypeOK
<1> QED BY <1>2, <1>3, OrgAssumption

(* The messages of a step go to users. *)
LEMMA ToldUsers ==
  ASSUME NEW x PROVE notifyNext(x) \subseteq Users
BY OrgAssumption DEF notifyNext

(* A new request starts well: on a route that suits employee and sender,   *)
(* or on none (initialize).                                                *)
LEMMA InitialRow ==
  ASSUME TypeOK, NEW e \in Employees, NEW s \in Users
  PROVE  /\ initialize(e, s) \in Request
         /\ RowOK(e, initialize(e, s))
         /\ ToldOK(initialize(e, s), notifyNext(initialize(e, s)))
         /\ initialize(e, s).version = 1
<1> DEFINE d == route[e]
           x == initialize(e, s)
<1>0. d \in Route \/ d = NoRoute
  BY DEF TypeOK
<1>1. CASE initialRoute(e, s) = NoRoute
  <2>1. x = [status |-> "SUBMITTED", stage |-> "WAITING_ROUTING", submittedBy |-> s,
             team |-> NoTeam, leader |-> NoUser, head |-> NoUser, version |-> 1,
             confirmedBy |-> NoUser, reviewedBy |-> NoUser, method |-> "NULL"]
    BY <1>1 DEF initialize, NoRoute
  <2>2. x \in Request
    BY <2>1, LeaveAssumption DEF Request, Statuses, Stages, Methods, UserOrNull
  <2>3. RowOK(e, x)
    BY <2>1 DEF RowOK, open
  <2> QED BY <2>1, <2>2, <2>3 DEF ToldOK
<1>2. CASE initialRoute(e, s) # NoRoute
  <2>1. initialRoute(e, s) = d /\ d \in Route /\ validateRoute(e, d, NoUser, s)
    BY <1>0, <1>2 DEF initialRoute
  <2>2. x = [status |-> "SUBMITTED", stage |-> "LEADER_CONFIRMATION", submittedBy |-> s,
             team |-> d.team, leader |-> d.leader, head |-> d.head, version |-> 1,
             confirmedBy |-> NoUser, reviewedBy |-> NoUser, method |-> "NULL"]
    BY <1>2, <2>1 DEF initialize
  <2>3. d.team \in Teams /\ d.leader \in Users /\ d.head \in Users
    BY <2>1 DEF Route
  <2>4. x \in Request
    BY <2>2, <2>3, LeaveAssumption DEF Request, Statuses, Stages, Methods, UserOrNull
  <2>5. /\ d.leader # NoUser /\ d.head # NoUser /\ d.leader # d.head
        /\ d.leader # e /\ d.head # e /\ d.leader # s /\ d.head # s
    BY <2>1 DEF validateRoute, independentReviewers
  <2>6. RowOK(e, x)
    BY <2>2, <2>3, <2>5, OrgAssumption DEF RowOK, open
  <2>7. d.leader \in activeUsers \cap Employees
    BY <2>1, GrantHolder DEF validateRoute, TypeOK
  <2>8. ToldOK(x, notifyNext(x))
    BY <2>2, <2>7 DEF ToldOK, notifyNext
  <2> QED BY <2>2, <2>4, <2>6, <2>8
<1> QED BY <1>1, <1>2

(* A route that may be applied leaves the row as good as it found it: the  *)
(* confirmed step stays that of its Leader, and the new reviewers are      *)
(* independent of everyone the row names (applyRoute).                     *)
LEMMA ReroutedRow ==
  ASSUME TypeOK, NEW r \in Requests, RowOK(OwnerOf[r], req[r]),
         NEW input \in Route, canApplyRoute(r, input)
  PROVE  /\ applyRoute(r, input) \in Request
         /\ RowOK(OwnerOf[r], applyRoute(r, input))
         /\ ToldOK(applyRoute(r, input), notifyNext(applyRoute(r, input)))
         /\ applyRoute(r, input).version = req[r].version + 1
         /\ req[r].confirmedBy # NoUser =>
              /\ applyRoute(r, input).leader = req[r].leader
              /\ applyRoute(r, input).team = req[r].team
         /\ applyRoute(r, input).confirmedBy = req[r].confirmedBy
         /\ applyRoute(r, input).reviewedBy = req[r].reviewedBy
<1> DEFINE x == req[r]
           y == applyRoute(r, input)
           stage == IF x.confirmedBy = NoUser THEN "LEADER_CONFIRMATION" ELSE "HEAD_APPROVAL"
<1>0. x \in Request
  BY DEF TypeOK
<1>1. y = [x EXCEPT !.team = input.team, !.leader = input.leader, !.head = input.head,
                    !.version = @ + 1, !.stage = stage]
  BY DEF applyRoute
<1>2. /\ y.status = x.status /\ y.submittedBy = x.submittedBy
      /\ y.confirmedBy = x.confirmedBy /\ y.reviewedBy = x.reviewedBy /\ y.method = x.method
      /\ y.team = input.team /\ y.leader = input.leader /\ y.head = input.head
      /\ y.version = x.version + 1 /\ y.stage = stage
  BY <1>0, <1>1 DEF Request
<1>3. input.team \in Teams /\ input.leader \in Users /\ input.head \in Users
  BY DEF Route
<1>4. x.version + 1 \in 0 .. MaxVersion
  BY <1>0, LeaveAssumption DEF canApplyRoute, Request
<1>5. y \in Request
  BY <1>0, <1>1, <1>3, <1>4 DEF Request, Stages, UserOrNull
<1>6. /\ open(x)
      /\ x.confirmedBy # NoUser => x.team = input.team /\ x.leader = input.leader
      /\ validateRoute(OwnerOf[r], input, x.confirmedBy, x.submittedBy)
  BY DEF canApplyRoute
<1>7. /\ input.leader # NoUser /\ input.head # NoUser /\ input.leader # input.head
      /\ input.leader # OwnerOf[r] /\ input.head # OwnerOf[r]
      /\ input.leader # x.submittedBy /\ input.head # x.submittedBy
      /\ input.head # x.confirmedBy
  BY <1>6 DEF validateRoute, independentReviewers
<1>8. RowOK(OwnerOf[r], y)
  BY <1>2, <1>3, <1>6, <1>7, OrgAssumption DEF RowOK, open
<1>9. input.head \in activeUsers \cap Employees
  BY <1>6, GrantHolder DEF validateRoute, TypeOK
<1>10. x.confirmedBy = NoUser => input.leader \in activeUsers \cap Employees
  BY <1>6, GrantHolder DEF validateRoute, TypeOK
<1>11. ToldOK(y, notifyNext(y))
  BY <1>2, <1>9, <1>10 DEF ToldOK, notifyNext
<1> QED BY <1>2, <1>5, <1>6, <1>8, <1>11

(* The rows the two steps of process leave. *)
confirmedRow(x, user) ==
  [x EXCEPT !.confirmedBy = user, !.stage = "HEAD_APPROVAL", !.version = @ + 1]

decidedRow(x, user, decision, method) ==
  [x EXCEPT !.status = decision, !.reviewedBy = user, !.stage = "COMPLETED",
            !.method = method, !.version = @ + 1]

(* A confirmation by whom canConfirm lets through (process, confirm).      *)
LEMMA ConfirmedRow ==
  ASSUME TypeOK, NEW r \in Requests, RowOK(OwnerOf[r], req[r]), NEW user \in Users,
         canConfirm(user, r), req[r].version < MaxVersion
  PROVE  /\ confirmedRow(req[r], user) \in Request
         /\ RowOK(OwnerOf[r], confirmedRow(req[r], user))
         /\ ToldOK(confirmedRow(req[r], user), notifyNext(confirmedRow(req[r], user)))
         /\ confirmedRow(req[r], user).version = req[r].version + 1
         /\ confirmedRow(req[r], user).reviewedBy = req[r].reviewedBy
         /\ confirmedRow(req[r], user).confirmedBy = user
         /\ req[r].confirmedBy = NoUser
<1> DEFINE x == req[r]
           y == confirmedRow(x, user)
<1>0. x \in Request
  BY DEF TypeOK
<1>1. /\ y.status = x.status /\ y.submittedBy = x.submittedBy /\ y.team = x.team
      /\ y.leader = x.leader /\ y.head = x.head /\ y.reviewedBy = x.reviewedBy
      /\ y.method = x.method
      /\ y.confirmedBy = user /\ y.stage = "HEAD_APPROVAL" /\ y.version = x.version + 1
  BY <1>0 DEF Request, confirmedRow
<1>2. x.version + 1 \in 0 .. MaxVersion
  BY <1>0, LeaveAssumption DEF Request
<1>3. y \in Request
  BY <1>0, <1>2 DEF Request, Stages, UserOrNull, confirmedRow
<1>4. open(x) /\ user = x.leader /\ x.confirmedBy = NoUser /\ ~routingRequired(x)
  BY DEF canConfirm
<1>5. RowOK(OwnerOf[r], y)
  BY <1>1, <1>4, OrgAssumption DEF RowOK, open
<1>6. x.head \in activeUsers \cap Employees
  BY <1>4, GrantHolder DEF routingRequired, TypeOK
<1>7. ToldOK(y, notifyNext(y))
  BY <1>1, <1>6 DEF ToldOK, notifyNext
<1> QED BY <1>1, <1>3, <1>4, <1>5, <1>7

(* A decision by whom canReview or canAdminReview lets through (process). *)
LEMMA DecidedRow ==
  ASSUME TypeOK, NEW r \in Requests, RowOK(OwnerOf[r], req[r]), NEW user \in Users,
         NEW decision \in {"APPROVED", "REJECTED"}, NEW method,
         \/ canReview(user, r) /\ method = "ROUTED"
         \/ canAdminReview(user, r) /\ method = "ADMIN_FALLBACK",
         req[r].version < MaxVersion
  PROVE  LET y == decidedRow(req[r], user, decision, method) IN
         /\ y \in Request
         /\ RowOK(OwnerOf[r], y)
         /\ ToldOK(y, {})
         /\ y.version = req[r].version + 1
         /\ y.confirmedBy = req[r].confirmedBy /\ y.leader = req[r].leader
         /\ y.team = req[r].team
         /\ y.reviewedBy = user
         /\ open(req[r]) /\ ~open(y)
<1> DEFINE x == req[r]
           y == decidedRow(x, user, decision, method)
<1>0. x \in Request
  BY DEF TypeOK
<1>1. /\ y.submittedBy = x.submittedBy /\ y.team = x.team /\ y.leader = x.leader
      /\ y.head = x.head /\ y.confirmedBy = x.confirmedBy
      /\ y.status = decision /\ y.reviewedBy = user /\ y.stage = "COMPLETED"
      /\ y.method = method /\ y.version = x.version + 1
  BY <1>0 DEF Request, decidedRow
<1>2. x.version + 1 \in 0 .. MaxVersion
  BY <1>0, LeaveAssumption DEF Request
<1>3. y \in Request
  BY <1>0, <1>2 DEF Request, Statuses, Stages, Methods, UserOrNull, decidedRow
<1>4. open(x)
  BY DEF canReview, canAdminReview
<1>5. CASE canReview(user, r) /\ method = "ROUTED"
  <2>1. user = x.head /\ x.confirmedBy # NoUser /\ user # OwnerOf[r]
    BY <1>5 DEF canReview
  <2>2. RowOK(OwnerOf[r], y)
    BY <1>1, <1>5, <2>1, OrgAssumption DEF RowOK, open
  <2> QED BY <1>1, <1>3, <1>4, <2>2 DEF ToldOK, open
<1>6. CASE canAdminReview(user, r) /\ method = "ADMIN_FALLBACK"
  <2>1. /\ user \in Admins /\ user # OwnerOf[r] /\ user # x.submittedBy
        /\ user # x.confirmedBy
    BY <1>6 DEF canAdminReview
  <2>2. RowOK(OwnerOf[r], y)
    BY <1>1, <1>6, <2>1, OrgAssumption DEF RowOK, open
  <2> QED BY <1>1, <1>3, <1>4, <2>2 DEF ToldOK, open
<1> QED BY <1>5, <1>6

(* A cancellation (cancel). *)
LEMMA CancelledRow ==
  ASSUME TypeOK, NEW r \in Requests, RowOK(OwnerOf[r], req[r]),
         canCancelLeave(req[r]), req[r].version < MaxVersion
  PROVE  /\ cancelled(req[r]) \in Request
         /\ RowOK(OwnerOf[r], cancelled(req[r]))
         /\ ToldOK(cancelled(req[r]), {})
         /\ cancelled(req[r]).version \in {req[r].version, req[r].version + 1}
         /\ cancelled(req[r]).confirmedBy = req[r].confirmedBy
         /\ cancelled(req[r]).leader = req[r].leader
         /\ cancelled(req[r]).team = req[r].team
         /\ cancelled(req[r]).reviewedBy = req[r].reviewedBy
         /\ cancelled(req[r]).method = req[r].method
         /\ cancelled(req[r]).status = "CANCELLED"
<1> DEFINE x == req[r]
           y == cancelled(x)
<1>0. x \in Request
  BY DEF TypeOK
<1>1. x.version + 1 \in 0 .. MaxVersion
  BY <1>0, LeaveAssumption DEF Request
<1>2. /\ y.submittedBy = x.submittedBy /\ y.team = x.team /\ y.leader = x.leader
      /\ y.head = x.head /\ y.confirmedBy = x.confirmedBy /\ y.reviewedBy = x.reviewedBy
      /\ y.method = x.method /\ y.status = "CANCELLED"
      /\ y.stage = IF x.stage = "NULL" THEN "NULL" ELSE "COMPLETED"
      /\ y.version = IF x.stage = "NULL" THEN x.version ELSE x.version + 1
  BY <1>0 DEF cancelled, Request
<1>3. y \in Request
  BY <1>0, <1>1 DEF cancelled, Request, Statuses, Stages
<1>4. RowOK(OwnerOf[r], y)
  BY <1>2 DEF RowOK, open, canCancelLeave
<1>5. ToldOK(y, {})
  BY <1>2 DEF ToldOK
<1> QED BY <1>2, <1>3, <1>4, <1>5

------------------------------------------------------------------------------
(* The invariant *)

(* The invariant holds of every initial table: no request, or those the    *)
(* migration left.                                                         *)
LEMMA InvInit == Init => Inv
<1> SUFFICES ASSUME Init PROVE Inv
  OBVIOUS
<1>1. OrgTypeOK
  BY OrgAssumption DEF Init, OrgInit, OrgTypeOK
<1>2. {Absent} \cup LegacyRows =
        {bareRow("NONE", "NULL"), bareRow("SUBMITTED", "WAITING_ROUTING"),
         bareRow("APPROVED", "NULL")}
  BY DEF LegacyRows, Absent
<1>3. \A s \in Statuses, g \in Stages : bareRow(s, g) \in Request
  BY LeaveAssumption DEF bareRow, Request, Methods, UserOrNull
<1>4. req \in [Requests -> Request]
  BY <1>2, <1>3 DEF Init, Statuses, Stages
<1>5. TypeOK
  BY <1>1, <1>4 DEF Init, TypeOK
<1>6. ASSUME NEW owner
      PROVE  /\ RowOK(owner, bareRow("NONE", "NULL"))
             /\ RowOK(owner, bareRow("SUBMITTED", "WAITING_ROUTING"))
             /\ RowOK(owner, bareRow("APPROVED", "NULL"))
  BY DEF bareRow, Absent, RowOK, open
<1>7. \A r \in Requests : RowOK(OwnerOf[r], req[r]) /\ ToldOK(req[r], told[r])
  BY <1>2, <1>6 DEF Init, ToldOK, bareRow
<1>8. \A u \in Users, r \in Requests : ScreenOK(view[u][r], req[r])
  <2> SUFFICES ASSUME NEW u \in Users, NEW r \in Requests
               PROVE  ScreenOK(view[u][r], req[r])
    OBVIOUS
  <2>1. view[u][r] = req[r] /\ req[r].version \in Int
    BY <1>4 DEF Init, Request
  <2> QED BY <2>1 DEF ScreenOK
<1> QED BY <1>5, <1>7, <1>8 DEF Inv

(* What every handler that changes one row has to show: that the new row   *)
(* is a good one and, if it is pending, has a routeVersion of its own.     *)
LEMMA RowStep ==
  ASSUME Inv, NEW r \in Requests, NEW y \in Request, RowOK(OwnerOf[r], y),
         NEW recipients \in SUBSET Users, ToldOK(y, recipients),
         \/ y.version = req[r].version + 1
         \/ y.version = req[r].version /\ ~open(y),
         req' = [req EXCEPT ![r] = y],
         told' = [told EXCEPT ![r] = recipients],
         UNCHANGED <<org, route, view>>
  PROVE  Inv'
<1>1. TypeOK'
  BY DEF Inv, TypeOK, OrgTypeOK, org
<1>2. \A q \in Requests : req'[q] = (IF q = r THEN y ELSE req[q])
                          /\ told'[q] = (IF q = r THEN recipients ELSE told[q])
  BY DEF Inv, TypeOK
<1>3. \A q \in Requests : RowOK(OwnerOf[q], req'[q]) /\ ToldOK(req'[q], told'[q])
  BY <1>2 DEF Inv
<1>4. \A u \in Users, q \in Requests : ScreenOK(view'[u][q], req'[q])
  <2> SUFFICES ASSUME NEW u \in Users, NEW q \in Requests
               PROVE  ScreenOK(view[u][q], req'[q])
    OBVIOUS
  <2>1. ScreenOK(view[u][q], req[q])
    BY DEF Inv
  <2>2. view[u][q].version \in Int /\ req[q].version \in Int
    BY DEF Inv, TypeOK, Request
  <2> QED BY <1>2, <2>1, <2>2 DEF ScreenOK
<1> QED BY <1>1, <1>3, <1>4 DEF Inv

(* Every handler, and every change of the organisation between handlers,   *)
(* preserves the invariant.                                                *)
LEMMA InvStep == Inv /\ [Next]_vars => Inv'
<1> SUFFICES ASSUME Inv, [Next]_vars PROVE Inv'
  OBVIOUS
<1> USE DEF Inv
<1>0. UNCHANGED <<req, route, view, told>> /\ OrgTypeOK' => Inv'
  BY DEF TypeOK, RowOK, open
<1>1. CASE OrgStep
  <2>1. OrgTypeOK'
    BY <1>1, OrgAssumption
    DEF OrgStep, OrgNext, TypeOK, OrgTypeOK, GrantTakesEffect, GrantLapses, updateTeam,
        addMember, endMembership, changeStatus
  <2> QED BY <1>0, <1>1, <2>1 DEF OrgStep
<1>2. ASSUME NEW user \in Users, NEW r \in Requests, createForEmployee(user, r) PROVE Inv'
  <2> DEFINE y == initialize(OwnerOf[r], user)
  <2>1. OwnerOf[r] \in Employees
    BY LeaveAssumption
  <2>2. /\ y \in Request /\ RowOK(OwnerOf[r], y) /\ ToldOK(y, notifyNext(y))
        /\ y.version = 1
    BY <2>1, InitialRow
  <2>3. req[r].version = 0
    BY <1>2 DEF createForEmployee, RowOK, Absent, bareRow
  <2>4. req' = [req EXCEPT ![r] = y] /\ req'[r] = y
    BY <1>2 DEF createForEmployee, TypeOK
  <2>5. told' = [told EXCEPT ![r] = notifyNext(y)] /\ UNCHANGED <<org, route, view>>
    BY <1>2, <2>4 DEF createForEmployee
  <2>6. notifyNext(y) \in SUBSET Users
    BY ToldUsers
  <2>7. y.version = req[r].version + 1
    BY <2>2, <2>3
  <2> HIDE DEF y
  <2> QED BY <2>2, <2>4, <2>5, <2>6, <2>7, RowStep
<1>3. ASSUME NEW user \in Users, NEW r \in Requests, load(user, r) PROVE Inv'
  <2>1. TypeOK'
    BY <1>3 DEF load, TypeOK, OrgTypeOK, org
  <2>2. \A u \in Users, q \in Requests :
          view'[u][q] = IF u = user /\ q = r THEN req[r] ELSE view[u][q]
    BY <1>3 DEF load, TypeOK
  <2>3. \A q \in Requests : req[q].version \in Int
    BY DEF TypeOK, Request
  <2>4. \A u \in Users, q \in Requests : ScreenOK(view'[u][q], req[q])
    BY <2>2, <2>3 DEF ScreenOK
  <2> QED BY <1>3, <2>1, <2>4 DEF load
<1>4. ASSUME NEW user \in Users, NEW r \in Requests, confirm(user, r) PROVE Inv'
  <2> DEFINE y == confirmedRow(req[r], user)
  <2>1. req' = [req EXCEPT ![r] = y] /\ req'[r] = y
    BY <1>4 DEF confirm, TypeOK, confirmedRow
  <2>2. /\ y \in Request /\ RowOK(OwnerOf[r], y) /\ ToldOK(y, notifyNext(y))
        /\ y.version = req[r].version + 1
    BY <1>4, ConfirmedRow DEF confirm
  <2>3. told' = [told EXCEPT ![r] = notifyNext(y)] /\ UNCHANGED <<org, route, view>>
    BY <1>4, <2>1 DEF confirm
  <2>4. notifyNext(y) \in SUBSET Users
    BY ToldUsers
  <2> HIDE DEF y
  <2> QED BY <2>1, <2>2, <2>3, <2>4, RowStep
<1>5. ASSUME NEW user \in Users, NEW r \in Requests, NEW decision \in {"APPROVED", "REJECTED"},
             review(user, r, decision) \/ adminReview(user, r, decision)
      PROVE  Inv'
  <2>1. PICK method : /\ decide(user, r, decision, method)
                      /\ \/ canReview(user, r) /\ method = "ROUTED"
                         \/ canAdminReview(user, r) /\ method = "ADMIN_FALLBACK"
    BY <1>5 DEF review, adminReview
  <2> DEFINE y == decidedRow(req[r], user, decision, method)
  <2>2. /\ req' = [req EXCEPT ![r] = y] /\ told' = [told EXCEPT ![r] = {}]
        /\ UNCHANGED <<org, route, view>>
    BY <2>1 DEF decide, TypeOK, decidedRow
  <2>3. /\ y \in Request /\ RowOK(OwnerOf[r], y) /\ ToldOK(y, {})
        /\ y.version = req[r].version + 1
    <3>1. req[r].version < MaxVersion /\ TypeOK /\ RowOK(OwnerOf[r], req[r])
      BY <2>1 DEF decide
    <3> QED BY <2>1, <3>1, DecidedRow
  <2> HIDE DEF y
  <2> QED BY <2>2, <2>3, RowStep
<1>6. ASSUME NEW user \in Users, NEW r \in Requests, NEW input \in Route,
             reroute(user, r, input)
      PROVE  Inv'
  <2> DEFINE y == applyRoute(r, input)
  <2>1. /\ y \in Request /\ RowOK(OwnerOf[r], y) /\ ToldOK(y, notifyNext(y))
        /\ y.version = req[r].version + 1
    BY <1>6, ReroutedRow DEF reroute
  <2>2. req'[r] = y
    BY <1>6 DEF reroute, TypeOK
  <2> QED BY <1>6, <2>1, <2>2, ToldUsers, RowStep DEF reroute
<1>7. ASSUME NEW user \in Users, NEW r \in Requests, cancel(user, r) PROVE Inv'
  <2> DEFINE y == cancelled(req[r])
  <2>1. /\ y \in Request /\ RowOK(OwnerOf[r], y) /\ ToldOK(y, {})
        /\ y.version \in {req[r].version, req[r].version + 1}
        /\ ~open(y)
    BY <1>7, CancelledRow DEF cancel, open
  <2> QED BY <1>7, <2>1, RowStep DEF cancel
<1>8. ASSUME NEW user \in Users, NEW employee \in Employees, NEW input \in Route,
             setDefaultRoute(user, employee, input)
      PROVE  Inv'
  <2> DEFINE pending == {r \in Requests : OwnerOf[r] = employee /\ open(req[r])}
             y(r) == applyRoute(r, defaultFor(r, input))
  <2>1. /\ \A r \in pending : canApplyRoute(r, defaultFor(r, input))
        /\ req' = [r \in Requests |-> IF r \in pending THEN y(r) ELSE req[r]]
        /\ told' = [r \in Requests |-> IF r \in pending THEN notifyNext(req'[r]) ELSE told[r]]
        /\ route' = [route EXCEPT ![employee] = input]
        /\ UNCHANGED <<org, view>>
    BY <1>8 DEF setDefaultRoute
  <2>2. ASSUME NEW r \in pending PROVE defaultFor(r, input) \in Route
    <3>1. req[r] \in Request /\ open(req[r])
      BY DEF TypeOK
    <3>2. req[r].confirmedBy # NoUser => req[r].team \in Teams /\ req[r].leader \in Users
      BY <3>1 DEF RowOK, Request, UserOrNull
    <3> QED BY <3>2 DEF defaultFor, Route
  <2>3. ASSUME NEW r \in pending
        PROVE  /\ y(r) \in Request /\ RowOK(OwnerOf[r], y(r))
               /\ ToldOK(y(r), notifyNext(y(r)))
               /\ y(r).version = req[r].version + 1
    BY <2>1, <2>2, ReroutedRow
  <2>4. \A r \in Requests : req'[r] = IF r \in pending THEN y(r) ELSE req[r]
    BY <2>1
  <2>5. TypeOK'
    <3>1. req' \in [Requests -> Request]
      BY <2>1, <2>3 DEF TypeOK
    <3>2. told' \in [Requests -> SUBSET Users]
      BY <2>1, ToldUsers DEF TypeOK
    <3> QED BY <2>1, <3>1, <3>2 DEF TypeOK, OrgTypeOK, org
  <2>6. \A r \in Requests : RowOK(OwnerOf[r], req'[r])
    BY <2>3, <2>4
  <2>7. \A r \in Requests : ToldOK(req'[r], told'[r])
    BY <2>1, <2>3, <2>4
  <2>8. \A u \in Users, r \in Requests : ScreenOK(view'[u][r], req'[r])
    <3> SUFFICES ASSUME NEW u \in Users, NEW r \in Requests
                 PROVE  ScreenOK(view[u][r], req'[r])
      BY <2>1
    <3>1. ScreenOK(view[u][r], req[r])
      OBVIOUS
    <3>2. view[u][r].version \in Int /\ req[r].version \in Int
      BY DEF TypeOK, Request
    <3>3. r \in pending => req'[r].version = req[r].version + 1
      BY <2>3, <2>4
    <3> QED BY <2>4, <3>1, <3>2, <3>3 DEF ScreenOK
  <2> QED BY <2>5, <2>6, <2>7, <2>8
<1>9. CASE UNCHANGED vars
  BY <1>0, <1>9 DEF vars, org, TypeOK, OrgTypeOK
<1> QED BY <1>1, <1>2, <1>3, <1>4, <1>5, <1>6, <1>7, <1>8, <1>9 DEF Next

(* In every reachable state the rows are good rows, the next reviewers     *)
(* were told, and a screen with the routeVersion of a pending row shows    *)
(* that row.                                                               *)
THEOREM Invariance == Spec => []Inv
BY InvInit, InvStep, PTL DEF Spec

------------------------------------------------------------------------------
(* What the invariant gives in every state *)

(* Type correctness of the rows, routes and screens. *)
THEOREM TypeCorrect == Spec => []TypeOK
<1>1. Inv => TypeOK
  BY DEF Inv
<1> QED BY <1>1, Invariance, PTL

(* No handler ever has its save refused by a CHECK constraint. *)
THEOREM ConstraintsHold == Spec => []ColumnChecks
<1>1. Inv => ColumnChecks
  <2> SUFFICES ASSUME Inv, NEW r \in Requests
               PROVE  /\ \/ <<req[r].team, req[r].leader, req[r].head>>
                               = <<NoTeam, NoUser, NoUser>>
                         \/ /\ NoTeam # req[r].team
                            /\ NoUser \notin {req[r].leader, req[r].head}
                            /\ req[r].leader # req[r].head
                      /\ req[r].submittedBy # NoUser =>
                           req[r].submittedBy \notin {req[r].leader, req[r].head}
                      /\ req[r].confirmedBy # NoUser => req[r].head # req[r].confirmedBy
                      /\ req[r].stage = "HEAD_APPROVAL" =>
                           req[r].status = "SUBMITTED" /\ req[r].confirmedBy # NoUser
    BY DEF ColumnChecks
  <2>1. RowOK(OwnerOf[r], req[r])
    BY DEF Inv
  <2> QED BY <2>1 DEF RowOK, open
<1> QED BY <1>1, Invariance, PTL

(* Nobody passes judgement twice or on himself. *)
THEOREM DutiesSeparated == Spec => []SeparationOfDuties
<1>1. Inv => SeparationOfDuties
  <2> SUFFICES ASSUME Inv, NEW r \in Requests
               PROVE  /\ req[r].confirmedBy # NoUser =>
                           req[r].confirmedBy \notin {OwnerOf[r], req[r].submittedBy}
                      /\ req[r].reviewedBy # NoUser =>
                           req[r].reviewedBy \notin
                             {OwnerOf[r], req[r].submittedBy, req[r].confirmedBy}
    BY DEF SeparationOfDuties
  <2>1. RowOK(OwnerOf[r], req[r])
    BY DEF Inv
  <2> QED BY <2>1 DEF RowOK
<1> QED BY <1>1, Invariance, PTL

(* A ROUTED decision rests on the two steps of the route the row names. *)
THEOREM TwoSteps == Spec => []RoutedMeansTwoSteps
<1>1. Inv => RoutedMeansTwoSteps
  BY DEF Inv, RowOK, RoutedMeansTwoSteps
<1> QED BY <1>1, Invariance, PTL

(* A pending request always has somebody who may move it. *)
THEOREM AlwaysAWayOn == Spec => []NoDeadEnd
<1>1. Inv => NoDeadEnd
  <2> SUFFICES ASSUME Inv, NEW r \in Requests, open(req[r]), ~routingRequired(req[r])
               PROVE  canConfirm(req[r].leader, r) \/ canReview(req[r].head, r)
    BY DEF NoDeadEnd
  <2>1. RowOK(OwnerOf[r], req[r])
    BY DEF Inv
  <2>2. /\ independent(req[r])
        /\ hasWorkflowGrant(req[r].head, "DEPARTMENT_HEAD", req[r].team)
        /\ req[r].confirmedBy = NoUser =>
             hasWorkflowGrant(req[r].leader, "TEAM_LEADER", req[r].team)
    BY DEF routingRequired
  <2>3. /\ req[r].leader # NoUser /\ req[r].leader # OwnerOf[r]
        /\ req[r].head # OwnerOf[r]
        /\ req[r].stage # "WAITING_ROUTING"
    BY <2>1, <2>2 DEF RowOK, independent, independentReviewers
  <2>4. CASE req[r].confirmedBy = NoUser
    <3>1. req[r].stage = "LEADER_CONFIRMATION"
      BY <2>1, <2>3, <2>4 DEF RowOK
    <3> QED BY <2>2, <2>3, <2>4, <3>1 DEF canConfirm
  <2>5. CASE req[r].confirmedBy # NoUser
    <3>1. req[r].stage = "HEAD_APPROVAL"
      BY <2>1, <2>5 DEF RowOK
    <3> QED BY <2>2, <2>3, <2>5, <3>1 DEF canReview
  <2> QED BY <2>4, <2>5
<1> QED BY <1>1, Invariance, PTL

(* Whoever must act next was sent the message of the current routeVersion. *)
THEOREM NextIsTold == Spec => []NextReviewerTold
<1>1. Inv => NextReviewerTold
  BY DEF Inv, ToldOK, NextReviewerTold
<1> QED BY <1>1, Invariance, PTL

------------------------------------------------------------------------------
(* What the invariant gives of every step *)

(* How one step of the system may change the row of a request: not at all, *)
(* or in one of the five ways of the handlers.                             *)
LEMMA HowRowsChange ==
  ASSUME Inv, [Next]_vars, NEW r \in Requests
  PROVE  \/ req'[r] = req[r]
         \/ req[r] = Absent /\ req'[r].confirmedBy = NoUser /\ req'[r].reviewedBy = NoUser
         \/ \E user \in Users : /\ canConfirm(user, r) /\ expectedVersion(user, r)
                                /\ req[r].version < MaxVersion
                                /\ req'[r] = confirmedRow(req[r], user)
         \/ \E user \in Users, decision \in {"APPROVED", "REJECTED"}, method \in Methods :
              /\ \/ canReview(user, r) /\ method = "ROUTED"
                 \/ canAdminReview(user, r) /\ method = "ADMIN_FALLBACK"
              /\ expectedVersion(user, r)
              /\ req[r].version < MaxVersion
              /\ req'[r] = decidedRow(req[r], user, decision, method)
         \/ \E input \in Route : canApplyRoute(r, input) /\ req'[r] = applyRoute(r, input)
         \/ /\ canCancelLeave(req[r]) /\ req[r].version < MaxVersion
            /\ req'[r] = cancelled(req[r])
<1> DEFINE Goal == \/ req'[r] = req[r]
                   \/ req[r] = Absent /\ req'[r].confirmedBy = NoUser
                                      /\ req'[r].reviewedBy = NoUser
                   \/ \E user \in Users :
                        /\ canConfirm(user, r) /\ expectedVersion(user, r)
                        /\ req[r].version < MaxVersion
                        /\ req'[r] = confirmedRow(req[r], user)
                   \/ \E user \in Users, decision \in {"APPROVED", "REJECTED"},
                         method \in Methods :
                        /\ \/ canReview(user, r) /\ method = "ROUTED"
                           \/ canAdminReview(user, r) /\ method = "ADMIN_FALLBACK"
                        /\ expectedVersion(user, r)
                        /\ req[r].version < MaxVersion
                        /\ req'[r] = decidedRow(req[r], user, decision, method)
                   \/ \E input \in Route :
                        canApplyRoute(r, input) /\ req'[r] = applyRoute(r, input)
                   \/ /\ canCancelLeave(req[r]) /\ req[r].version < MaxVersion
                      /\ req'[r] = cancelled(req[r])
<1>0. req \in [Requests -> Request]
  BY DEF Inv, TypeOK
<1>1. CASE OrgStep
  BY <1>1 DEF OrgStep
<1>2. ASSUME NEW user \in Users, NEW q \in Requests, createForEmployee(user, q) PROVE Goal
  <2>1. req'[r] = req[r] \/ (q = r /\ req[r].status = "NONE"
                                   /\ req'[r] = initialize(OwnerOf[r], user))
    BY <1>0, <1>2 DEF createForEmployee
  <2>2. req[r].status = "NONE" => req[r] = Absent
    BY DEF Inv, RowOK
  <2>3. /\ initialize(OwnerOf[r], user).confirmedBy = NoUser
        /\ initialize(OwnerOf[r], user).reviewedBy = NoUser
    BY DEF initialize
  <2> QED BY <2>1, <2>2, <2>3
<1>3. ASSUME NEW user \in Users, NEW q \in Requests, load(user, q) PROVE Goal
  BY <1>3 DEF load
<1>4. ASSUME NEW user \in Users, NEW q \in Requests, confirm(user, q) PROVE Goal
  <2>1. req'[r] = req[r] \/ (q = r /\ req'[r] = confirmedRow(req[r], user))
    BY <1>0, <1>4 DEF confirm, confirmedRow
  <2> QED BY <1>4, <2>1 DEF confirm
<1>5. ASSUME NEW user \in Users, NEW q \in Requests, NEW decision \in {"APPROVED", "REJECTED"},
             review(user, q, decision) \/ adminReview(user, q, decision)
      PROVE  Goal
  <2>1. PICK method \in Methods :
          /\ decide(user, q, decision, method)
          /\ \/ canReview(user, q) /\ method = "ROUTED"
             \/ canAdminReview(user, q) /\ method = "ADMIN_FALLBACK"
    BY <1>5 DEF review, adminReview, Methods
  <2>2. req'[r] = req[r] \/ (q = r /\ req'[r] = decidedRow(req[r], user, decision, method))
    BY <1>0, <2>1 DEF decide, decidedRow
  <2> QED BY <2>1, <2>2 DEF decide
<1>6. ASSUME NEW user \in Users, NEW q \in Requests, NEW input \in Route,
             reroute(user, q, input)
      PROVE  Goal
  BY <1>0, <1>6 DEF reroute
<1>7. ASSUME NEW user \in Users, NEW q \in Requests, cancel(user, q) PROVE Goal
  BY <1>0, <1>7 DEF cancel
<1>8. ASSUME NEW user \in Users, NEW employee \in Employees, NEW input \in Route,
             setDefaultRoute(user, employee, input)
      PROVE  Goal
  <2>1. \/ req'[r] = req[r]
        \/ /\ open(req[r]) /\ canApplyRoute(r, defaultFor(r, input))
           /\ req'[r] = applyRoute(r, defaultFor(r, input))
    BY <1>8 DEF setDefaultRoute
  <2>2. open(req[r]) => defaultFor(r, input) \in Route
    <3>1. RowOK(OwnerOf[r], req[r])
      BY DEF Inv
    <3>2. req[r].confirmedBy # NoUser => req[r].team \in Teams /\ req[r].leader \in Users
      BY <1>0, <3>1 DEF RowOK, Request, UserOrNull
    <3> QED BY <3>2 DEF defaultFor, Route
  <2> QED BY <2>1, <2>2
<1>9. CASE UNCHANGED vars
  BY <1>9 DEF vars
<1> QED BY <1>1, <1>2, <1>3, <1>4, <1>5, <1>6, <1>7, <1>8, <1>9 DEF Next

(* A confirmed step is never rewritten. *)
THEOREM ConfirmationKept == Spec => ConfirmedStepImmutable
<1>1. ASSUME Inv, [Next]_vars, NEW r \in Requests, req[r].confirmedBy # NoUser
      PROVE  /\ req'[r].confirmedBy = req[r].confirmedBy
             /\ req'[r].leader = req[r].leader
             /\ req'[r].team = req[r].team
  <2>0. TypeOK /\ RowOK(OwnerOf[r], req[r])
    BY <1>1 DEF Inv
  <2>1. req[r] # Absent
    BY <1>1 DEF Absent, bareRow
  <2>2. ASSUME NEW user \in Users, canConfirm(user, r) PROVE FALSE
    BY <1>1, <2>2 DEF canConfirm
  <2>3. ASSUME NEW user \in Users, NEW decision, NEW method,
               req'[r] = decidedRow(req[r], user, decision, method)
        PROVE  /\ req'[r].confirmedBy = req[r].confirmedBy
               /\ req'[r].leader = req[r].leader /\ req'[r].team = req[r].team
    BY <2>0, <2>3 DEF decidedRow, TypeOK, Request
  <2>4. ASSUME NEW input \in Route, canApplyRoute(r, input), req'[r] = applyRoute(r, input)
        PROVE  /\ req'[r].confirmedBy = req[r].confirmedBy
               /\ req'[r].leader = req[r].leader /\ req'[r].team = req[r].team
    BY <1>1, <2>0, <2>4, ReroutedRow
  <2>5. canCancelLeave(req[r]) /\ req[r].version < MaxVersion /\ req'[r] = cancelled(req[r])
        => /\ req'[r].confirmedBy = req[r].confirmedBy
           /\ req'[r].leader = req[r].leader /\ req'[r].team = req[r].team
    BY <2>0, CancelledRow
  <2> QED BY <1>1, <2>1, <2>2, <2>3, <2>4, <2>5, HowRowsChange
<1>2. Inv /\ [Next]_vars
      => [\A r \in Requests :
            req[r].confirmedBy # NoUser =>
              /\ req'[r].confirmedBy = req[r].confirmedBy
              /\ req'[r].leader = req[r].leader
              /\ req'[r].team = req[r].team]_vars
  BY <1>1
<1> QED BY <1>2, Invariance, PTL DEF Spec, ConfirmedStepImmutable

(* A decision is final but for the cancellation of an approved request. *)
THEOREM DecisionKept == Spec => DecisionIsFinal
<1>1. ASSUME Inv, [Next]_vars, NEW r \in Requests, decided(req[r]), req'[r] # req[r]
      PROVE  /\ AllowApprovedCancellation
             /\ req[r].status = "APPROVED" /\ req'[r].status = "CANCELLED"
             /\ req'[r].reviewedBy = req[r].reviewedBy
             /\ req'[r].method = req[r].method
  <2>0. TypeOK /\ RowOK(OwnerOf[r], req[r]) /\ ~open(req[r])
    BY <1>1 DEF Inv, decided, open
  <2>1. req[r] # Absent
    BY <1>1 DEF Absent, bareRow, decided
  <2>2. ASSUME NEW user \in Users,
               canConfirm(user, r) \/ canReview(user, r) \/ canAdminReview(user, r)
        PROVE  FALSE
    BY <2>0, <2>2 DEF canConfirm, canReview, canAdminReview
  <2>3. ASSUME NEW input \in Route, canApplyRoute(r, input) PROVE FALSE
    BY <2>0, <2>3 DEF canApplyRoute
  <2>4. canCancelLeave(req[r]) /\ req[r].version < MaxVersion /\ req'[r] = cancelled(req[r])
    BY <1>1, <2>1, <2>2, <2>3, HowRowsChange
  <2>5. AllowApprovedCancellation /\ req[r].status = "APPROVED"
    BY <1>1, <2>4 DEF canCancelLeave, decided
  <2> QED BY <2>0, <2>4, <2>5, CancelledRow
<1>2. Inv /\ [Next]_vars
      => [\A r \in Requests :
            decided(req[r]) /\ req'[r] # req[r] =>
              /\ AllowApprovedCancellation
              /\ req[r].status = "APPROVED" /\ req'[r].status = "CANCELLED"
              /\ req'[r].reviewedBy = req[r].reviewedBy
              /\ req'[r].method = req[r].method]_vars
  BY <1>1
<1> QED BY <1>2, Invariance, PTL DEF Spec, DecisionIsFinal

(* Nobody confirms or decides a row he did not see as it is. *)
THEOREM NothingDecidedBlindly == Spec => DecidedOnWhatWasSeen
<1>1. ASSUME Inv, [Next]_vars, NEW r \in Requests
      PROVE  /\ req'[r].confirmedBy # req[r].confirmedBy => view[req'[r].confirmedBy][r] = req[r]
             /\ req'[r].reviewedBy # req[r].reviewedBy => view[req'[r].reviewedBy][r] = req[r]
  <2> DEFINE Seen ==
        /\ req'[r].confirmedBy # req[r].confirmedBy => view[req'[r].confirmedBy][r] = req[r]
        /\ req'[r].reviewedBy # req[r].reviewedBy => view[req'[r].reviewedBy][r] = req[r]
  <2>0. /\ TypeOK /\ RowOK(OwnerOf[r], req[r])
        /\ \A u \in Users : ScreenOK(view[u][r], req[r])
    BY <1>1 DEF Inv
  <2>1. req[r] = Absent /\ req'[r].confirmedBy = NoUser /\ req'[r].reviewedBy = NoUser => Seen
    BY DEF Absent, bareRow
  <2>2. ASSUME NEW user \in Users, canConfirm(user, r), expectedVersion(user, r),
               req[r].version < MaxVersion, req'[r] = confirmedRow(req[r], user)
        PROVE  Seen
    <3>1. req'[r].confirmedBy = user /\ req'[r].reviewedBy = req[r].reviewedBy
      BY <2>0, <2>2, ConfirmedRow
    <3>2. view[user][r] = req[r]
      BY <2>0, <2>2 DEF expectedVersion, ScreenOK, canConfirm
    <3> QED BY <3>1, <3>2
  <2>3. ASSUME NEW user \in Users, NEW decision \in {"APPROVED", "REJECTED"}, NEW method,
               \/ canReview(user, r) /\ method = "ROUTED"
               \/ canAdminReview(user, r) /\ method = "ADMIN_FALLBACK",
               expectedVersion(user, r), req[r].version < MaxVersion,
               req'[r] = decidedRow(req[r], user, decision, method)
        PROVE  Seen
    <3>1. /\ req'[r].confirmedBy = req[r].confirmedBy /\ req'[r].reviewedBy = user
          /\ open(req[r])
      BY <2>0, <2>3, DecidedRow
    <3>2. view[user][r] = req[r]
      BY <2>0, <2>3, <3>1 DEF expectedVersion, ScreenOK
    <3> QED BY <3>1, <3>2
  <2>4. ASSUME NEW input \in Route, canApplyRoute(r, input), req'[r] = applyRoute(r, input)
        PROVE  Seen
    BY <2>0, <2>4, ReroutedRow
  <2>5. canCancelLeave(req[r]) /\ req[r].version < MaxVersion /\ req'[r] = cancelled(req[r])
        => Seen
    BY <2>0, CancelledRow
  <2> QED BY <1>1, <2>1, <2>2, <2>3, <2>4, <2>5, HowRowsChange
<1>2. Inv /\ [Next]_vars
      => [\A r \in Requests :
            /\ req'[r].confirmedBy # req[r].confirmedBy =>
                 view[req'[r].confirmedBy][r] = req[r]
            /\ req'[r].reviewedBy # req[r].reviewedBy =>
                 view[req'[r].reviewedBy][r] = req[r]]_vars
  BY <1>1
<1> QED BY <1>2, Invariance, PTL DEF Spec, DecidedOnWhatWasSeen

=============================================================================
