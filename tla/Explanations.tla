------------------------------ MODULE Explanations ------------------------------
(***************************************************************************)
(* Explanations of attendance: an employee uploads a picture, submits an   *)
(* explanation or answers one an Admin once asked for, the Leader confirms *)
(* it, the Head decides, an Admin routes or decides instead                *)
(* (AttendanceService, ExplanationWorkflowService,                         *)
(* AttendanceEvidenceStorage).  Submitting, answering and uploading are    *)
(* cut at their commit, and uploading at the write of the file, which no   *)
(* rollback undoes; the others run under the lock of the row and are one   *)
(* step.  Periods are in PeriodClosing, stale screens and messages, which  *)
(* work as for leave, in LeaveWorkflow; a retry that finds its submission  *)
(* writes nothing.                                                         *)
(***************************************************************************)
EXTENDS ManagementAccess

CONSTANTS
  Explanations,   \* ids: how many are submitted is bounded
  Issues,         \* <<work date, issue type>> pairs
  Uploads,        \* evidence ids
  Images,
  Calls,          \* transactions cut at their commit under way at once (a bound)
  extensionOf,    \* of each image
  NoExplanation, NoImage

VARIABLES
  explanation,    \* the attendance_explanation_requests
  explainRoute,   \* the attendance_explanation_routes
  upload,         \* the attendance_evidence_uploads: owner and extension
  file,           \* the image on disk under each name
  filing          \* the transaction of each call

explainVars == <<org, explanation, explainRoute, upload, file, filing>>

FileNames == Uploads \X {extensionOf[i] : i \in Images}
ExplainRoute == [team: Teams, leader: Users, head: Users]
NoExplainRoute == [team |-> NoTeam, leader |-> NoUser, head |-> NoUser]
UserOrNone == Users \cup {NoUser}
ExplanationRow ==
  [owner: Employees, issue: Issues, submittedBy: UserOrNone, evidence: FileNames \cup {NoImage},
   status: {"REQUESTED", "SUBMITTED", "APPROVED", "REJECTED"},
   stage: {"EMPLOYEE_RESPONSE", "WAITING_ROUTING", "LEADER_CONFIRMATION", "HEAD_APPROVAL", "COMPLETED"},
   route: ExplainRoute \cup {NoExplainRoute}, confirmedBy: UserOrNone, reviewedBy: UserOrNone,
   method: {"NULL", "ROUTED", "ADMIN_FALLBACK"}]
NoFiling == [op |-> "NONE"]

ASSUME ExplanationAssumption ==
  NoImage \notin Images \cup FileNames /\ NoExplanation \notin ExplanationRow /\ IsFiniteSet(Explanations)

(* Rows, routes, uploads and files keep their types.                       *)
ExplainTypeOK ==
  /\ OrgTypeOK
  /\ explanation \in [Explanations -> ExplanationRow \cup {NoExplanation}]
  /\ explainRoute \in [Employees -> ExplainRoute \cup {NoExplainRoute}]
  /\ \A i \in Uploads : upload[i].owner \in UserOrNone /\ <<i, upload[i].extension>> \in FileNames
  /\ file \in [FileNames -> Images \cup {NoImage}]
  /\ \A c \in Calls : filing[c].op \in {"NONE", "submit", "respond", "store", "stored"}

(* Requests that the two-step migration found, asked for by an Admin or    *)
(* sent in before.                                                         *)
legacyRow(e, issue, status, stage) ==
  [owner |-> e, issue |-> issue, submittedBy |-> NoUser, evidence |-> NoImage, status |-> status,
   stage |-> stage, route |-> NoExplainRoute, confirmedBy |-> NoUser, reviewedBy |-> NoUser, method |-> "NULL"]

ExplainInit ==
  /\ OrgInit
  /\ explanation \in [Explanations -> {NoExplanation} \cup
       {legacyRow(e, i, s[1], s[2]) : e \in Employees, i \in Issues,
          s \in {<<"REQUESTED", "EMPLOYEE_RESPONSE">>, <<"SUBMITTED", "WAITING_ROUTING">>}}]
  /\ Cardinality({x \in Explanations : explanation[x] # NoExplanation}) <= 1
  /\ explainRoute = [e \in Employees |-> NoExplainRoute]
  /\ \E i \in Images : upload = [u \in Uploads |-> [owner |-> NoUser, extension |-> extensionOf[i]]]
  /\ file = [f \in FileNames |-> NoImage]
  /\ filing = [c \in Calls |-> NoFiling]

------------------------------------------------------------------------------
(* Who may do what with an explanation *)

independentReviewers(owner, r, confirmedBy) ==
  r # NoExplainRoute /\ r.leader # r.head /\ owner \notin {r.leader, r.head} /\ r.head # confirmedBy

leads(r) == hasWorkflowGrant(r.leader, "TEAM_LEADER", r.team)
heads(r) == hasWorkflowGrant(r.head, "DEPARTMENT_HEAD", r.team)
independent(x) == independentReviewers(x.submittedBy, x.route, x.confirmedBy)

routingRequired(x) ==
  /\ x.status = "SUBMITTED"
  /\ ~independent(x) \/ ~heads(x.route) \/ (x.confirmedBy = NoUser /\ ~leads(x.route))

canConfirm(u, x) ==
  /\ x.status = "SUBMITTED" /\ ~routingRequired(x)
  /\ x.stage = "LEADER_CONFIRMATION" /\ x.confirmedBy = NoUser
  /\ u # x.owner /\ u = x.route.leader

canReview(u, x) ==
  /\ x.status = "SUBMITTED" /\ ~routingRequired(x)
  /\ x.stage = "HEAD_APPROVAL" /\ x.confirmedBy # NoUser
  /\ u # x.owner /\ u = x.route.head

(* Mutant: who confirmed may decide as an Admin *)
canAdminReviewTwice(u, x) ==
  u \in Admins /\ routingRequired(x) /\ x.stage # "COMPLETED" /\ u \notin {x.owner, x.submittedBy}

canAdminReview(u, x) ==
  u \in Admins /\ routingRequired(x) /\ x.stage # "COMPLETED" /\ u \notin {x.owner, x.submittedBy, x.confirmedBy}

validateRoute(e, r, confirmedBy) ==
  /\ independentReviewers(e, r, confirmedBy)
  /\ confirmedBy = NoUser => eligibleMember(e, r.team) /\ leads(r)
  /\ heads(r)

(* The route an explanation starts on: the one an Admin gave it, or else   *)
(* the default, if that one holds now.                                     *)
initialize(x) ==
  LET r == IF x.route # NoExplainRoute THEN x.route ELSE explainRoute[x.owner]
  IN IF r # NoExplainRoute /\ validateRoute(x.owner, r, NoUser)
       THEN [x EXCEPT !.route = r, !.stage = "LEADER_CONFIRMATION"]
       ELSE [x EXCEPT !.route = NoExplainRoute, !.stage = "WAITING_ROUTING"]

------------------------------------------------------------------------------
(* The employee's own transactions *)

acts(u) == u \in activeUsers
openFor(e, issue) ==
  {x \in Explanations : /\ explanation[x] # NoExplanation
                        /\ explanation[x].owner = e /\ explanation[x].issue = issue
                        /\ explanation[x].status \in {"REQUESTED", "SUBMITTED"}}
linkedTo(name) == {x \in Explanations : explanation[x] # NoExplanation /\ explanation[x].evidence = name}

busy(op) == {c \in Calls : filing[c].op \in op}
uploading(i) == \E c \in busy({"store", "stored"}) : filing[c].id = i
attaching(i) == \E c \in busy({"submit", "respond"}) : filing[c].ref # NoImage /\ filing[c].ref[1] = i

(* Mutant: the advisory lock of the employee is not taken *)
routeNeverLocked(e) == TRUE

explainRouteFree(e) == \A c \in busy({"submit", "respond"}) : filing[c].user # e
submissionFree(x) == \A c \in busy({"submit"}) : filing[c].id # x
rowFree(x) == \A c \in busy({"respond"}) : filing[c].id # x

(* Mutant: the row of the upload is not locked before it is attached *)
ownedReference(e, name) ==
  name # NoImage => /\ upload[name[1]] = [owner |-> e, extension |-> name[2]]
                    /\ file[name] # NoImage

(* A picture is optional; one of another account, or one uploaded again    *)
(* under another extension, is refused.                                    *)
assertOwnedReference(e, name) ==
  name # NoImage => /\ ~uploading(name[1]) /\ ~attaching(name[1])
                    /\ upload[name[1]] = [owner |-> e, extension |-> name[2]]
                    /\ file[name] # NoImage

(* x is the row of one submissionId, which a client draws for itself.  A   *)
(* submission sent again waits for the first; when that was stored it is   *)
(* answered with the row, or refused for another content: neither writes.  *)
lockToSubmit(c, e, x, issue, name) ==
  /\ filing[c] = NoFiling /\ acts(e)
  /\ submissionFree(x) /\ explanation[x] = NoExplanation
  /\ explainRouteFree(e)
  /\ openFor(e, issue) = {}
  /\ assertOwnedReference(e, name)
  /\ filing' = [filing EXCEPT ![c] = [op |-> "submit", user |-> e, id |-> x, issue |-> issue, ref |-> name]]
  /\ UNCHANGED <<org, explanation, explainRoute, upload, file>>

submit(c) ==
  LET t == filing[c]
  IN /\ t.op = "submit" /\ explanation[t.id] = NoExplanation
     /\ explanation' = [explanation EXCEPT ![t.id] =
          initialize([legacyRow(t.user, t.issue, "SUBMITTED", "WAITING_ROUTING")
                        EXCEPT !.submittedBy = t.user, !.evidence = t.ref])]
     /\ filing' = [filing EXCEPT ![c] = NoFiling]
     /\ UNCHANGED <<org, explainRoute, upload, file>>

lockToRespond(c, e, x, name) ==
  /\ filing[c] = NoFiling /\ acts(e)
  /\ explainRouteFree(e)
  /\ explanation[x] # NoExplanation /\ explanation[x].owner = e
  /\ explanation[x].status = "REQUESTED"
  /\ assertOwnedReference(e, name)
  /\ filing' = [filing EXCEPT ![c] = [op |-> "respond", user |-> e, id |-> x, ref |-> name]]
  /\ UNCHANGED <<org, explanation, explainRoute, upload, file>>

respondToExplanation(c) ==
  LET t == filing[c]
  IN /\ t.op = "respond"
     /\ explanation' = [explanation EXCEPT ![t.id] =
          initialize([@ EXCEPT !.status = "SUBMITTED", !.submittedBy = t.user, !.evidence = t.ref])]
     /\ filing' = [filing EXCEPT ![c] = NoFiling]
     /\ UNCHANGED <<org, explainRoute, upload, file>>

nameOf(i, image) == <<i, extensionOf[image]>>

(* The first statements of store.  What is attached already is left alone, *)
(* and the same picture sent again is accepted without being written.      *)
lockToStore(c, e, i, image) ==
  /\ filing[c] = NoFiling /\ acts(e)
  /\ ~uploading(i) /\ ~attaching(i)
  /\ upload[i].owner \in {NoUser, e}
  /\ upload[i].owner = e => linkedTo(<<i, upload[i].extension>>) = {}
  /\ filing' = [filing EXCEPT ![c] = [op |-> "store", user |-> e, id |-> i, image |-> image]]
  /\ UNCHANGED <<org, explanation, explainRoute, upload, file>>

writeFile(c) ==
  LET t == filing[c]
  IN /\ t.op = "store"
     /\ file' = [file EXCEPT ![nameOf(t.id, t.image)] = t.image]
     /\ filing' = [filing EXCEPT ![c].op = "stored"]
     /\ UNCHANGED <<org, explanation, explainRoute, upload>>

store(c) ==
  LET t == filing[c]
  IN /\ t.op = "stored"
     /\ upload' = [upload EXCEPT ![t.id] = [owner |-> t.user, extension |-> extensionOf[t.image]]]
     /\ filing' = [filing EXCEPT ![c] = NoFiling]
     /\ UNCHANGED <<org, explanation, explainRoute, file>>

(* A crash or a failed statement; a file that was written stays.           *)
rollBackFiling(c) ==
  /\ filing[c] # NoFiling
  /\ filing' = [filing EXCEPT ![c] = NoFiling]
  /\ UNCHANGED <<org, explanation, explainRoute, upload, file>>

------------------------------------------------------------------------------
(* Reviewers and Admins *)

keep == UNCHANGED <<org, upload, file, filing>>

confirm(u, x) ==
  /\ acts(u) /\ canConfirm(u, explanation[x])
  /\ explanation' = [explanation EXCEPT ![x].confirmedBy = u, ![x].stage = "HEAD_APPROVAL"]
  /\ UNCHANGED explainRoute /\ keep

decide(u, x, decision, method) ==
  /\ acts(u)
  /\ explanation' = [explanation EXCEPT ![x].status = decision, ![x].reviewedBy = u,
                                        ![x].stage = "COMPLETED", ![x].method = method]
  /\ UNCHANGED explainRoute /\ keep

review(u, x, decision) == canReview(u, explanation[x]) /\ decide(u, x, decision, "ROUTED")
adminReview(u, x, decision) == canAdminReview(u, explanation[x]) /\ decide(u, x, decision, "ADMIN_FALLBACK")

canApplyRoute(x, r) ==
  /\ x.status \in {"REQUESTED", "SUBMITTED"}
  /\ x.confirmedBy # NoUser => r.team = x.route.team /\ r.leader = x.route.leader
  /\ validateRoute(x.owner, r, x.confirmedBy)

applyRoute(x, r) ==
  [x EXCEPT !.route = r,
            !.stage = IF x.status = "REQUESTED" THEN "EMPLOYEE_RESPONSE"
                      ELSE IF x.confirmedBy # NoUser THEN "HEAD_APPROVAL" ELSE "LEADER_CONFIRMATION"]

reroute(u, x, r) ==
  /\ acts(u) /\ u \in Admins
  /\ canApplyRoute(explanation[x], r)
  /\ explanation' = [explanation EXCEPT ![x] = applyRoute(explanation[x], r)]
  /\ UNCHANGED explainRoute /\ keep

(* The default does not rewrite a step that is done.                       *)
defaultFor(x, r) == IF x.confirmedBy = NoUser THEN r ELSE [r EXCEPT !.team = x.route.team, !.leader = x.route.leader]

setDefaultRoute(u, e, r) ==
  LET pending == {x \in Explanations : /\ explanation[x] # NoExplanation /\ explanation[x].owner = e
                                       /\ explanation[x].status \in {"REQUESTED", "SUBMITTED"}}
  IN /\ acts(u) /\ u \in Admins
     /\ explainRouteFree(e)
     /\ validateRoute(e, r, NoUser)
     /\ \A x \in pending : canApplyRoute(explanation[x], defaultFor(explanation[x], r))
     /\ explainRoute' = [explainRoute EXCEPT ![e] = r]
     /\ explanation' = [x \in Explanations |->
          IF x \in pending THEN applyRoute(explanation[x], defaultFor(explanation[x], r)) ELSE explanation[x]]
     /\ keep

FilingStep ==
  \/ \E c \in Calls, e \in Employees :
       \/ \E x \in Explanations, name \in FileNames \cup {NoImage} :
            \/ lockToRespond(c, e, x, name)
            \/ \E issue \in Issues : lockToSubmit(c, e, x, issue, name)
       \/ \E i \in Uploads, image \in Images : lockToStore(c, e, i, image)
  \/ \E c \in Calls : submit(c) \/ respondToExplanation(c) \/ writeFile(c) \/ store(c) \/ rollBackFiling(c)

ReviewStep ==
  \E u \in Users :
    \/ \E x \in {y \in Explanations : explanation[y] # NoExplanation /\ rowFree(y)} :
         \/ confirm(u, x)
         \/ \E d \in {"APPROVED", "REJECTED"} : review(u, x, d) \/ adminReview(u, x, d)
         \/ \E r \in ExplainRoute : reroute(u, x, r)
    \/ \E e \in Employees, r \in ExplainRoute : setDefaultRoute(u, e, r)

OrgChange == OrgNext /\ UNCHANGED <<explanation, explainRoute, upload, file, filing>>

ExplainNext == FilingStep \/ ReviewStep \/ OrgChange

ExplainSpec == ExplainInit /\ [][ExplainNext]_explainVars

------------------------------------------------------------------------------
(* A picture that an explanation refers to is there and is never replaced, *)
(* although its owner may upload it again, under the same or another       *)
(* extension, while he submits (store, submitEmployeeExplanation).         *)
AttachedEvidenceKept ==
  [][\A name \in FileNames :
       linkedTo(name) # {} => file[name] # NoImage /\ file'[name] = file[name]]_explainVars

(* One day and issue of an employee has one open explanation, whatever two *)
(* submissions, an answer and a rollback do at the same time.              *)
OneOpenExplanation ==
  \A e \in Employees, issue \in Issues : Cardinality(openFor(e, issue)) <= 1

(* A decision has two people behind it, neither the employee: the Leader   *)
(* and the Head of the route the row names, or an Admin who did not take   *)
(* the first step; an open one can be moved by somebody or asks for a      *)
(* route (process, respondToExplanation, applyRoute).                      *)
ExplanationJudgedByTwo ==
  \A x \in {explanation[y] : y \in Explanations} \ {NoExplanation} :
    /\ x.confirmedBy # NoUser => x.confirmedBy = x.route.leader /\ x.confirmedBy # x.owner
    /\ x.reviewedBy # NoUser => x.reviewedBy \notin {x.owner, x.confirmedBy}
    /\ x.method = "ROUTED" => x.reviewedBy = x.route.head /\ x.confirmedBy # NoUser
    /\ x.status = "SUBMITTED" =>
         routingRequired(x) \/ canConfirm(x.route.leader, x) \/ canReview(x.route.head, x)

=============================================================================
