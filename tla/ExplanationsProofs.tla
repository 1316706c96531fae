--------------------------- MODULE ExplanationsProofs --------------------------
(***************************************************************************)
(* Proof that two people stand behind every decision on an explanation,    *)
(* for any organisation and any number of explanations and calls.  What is *)
(* inductive is a fact about each row (RowSound), and about the answers    *)
(* under way: what one found REQUESTED is so until it commits, because the *)
(* employee has one submission or answer at a time (AnswersHold).  The     *)
(* second part proves that no matter has two open explanations, the third  *)
(* that an attached picture stays as it is, the fourth the types.          *)
(***************************************************************************)
EXTENDS Explanations, FiniteSetTheorems, TLAPS

(* A row is the work of its employee, the Leader and the Head of its route,*)
(* or an Admin, in this order, and its stage says whose turn it is.        *)
RowSound(x) ==
  /\ x.submittedBy \in {NoUser, x.owner}
  /\ x.confirmedBy # NoUser => x.confirmedBy = x.route.leader /\ x.confirmedBy # x.owner
  /\ x.reviewedBy # NoUser => x.reviewedBy \notin {x.owner, x.confirmedBy}
  /\ x.method = "ROUTED" => x.reviewedBy = x.route.head /\ x.confirmedBy # NoUser
  /\ x.status \in {"REQUESTED", "SUBMITTED"} => x.reviewedBy = NoUser /\ x.method = "NULL"
  /\ x.status = "REQUESTED" => x.confirmedBy = NoUser
  /\ x.route # NoExplainRoute => x.owner \notin {x.route.leader, x.route.head}
  /\ x.status = "SUBMITTED" /\ x.route # NoExplainRoute =>
       x.stage = IF x.confirmedBy = NoUser THEN "LEADER_CONFIRMATION" ELSE "HEAD_APPROVAL"

(* What the property says of one row. *)
Judged(x) ==
  /\ x.confirmedBy # NoUser => x.confirmedBy = x.route.leader /\ x.confirmedBy # x.owner
  /\ x.reviewedBy # NoUser => x.reviewedBy \notin {x.owner, x.confirmedBy}
  /\ x.method = "ROUTED" => x.reviewedBy = x.route.head /\ x.confirmedBy # NoUser
  /\ x.status = "SUBMITTED" =>
       routingRequired(x) \/ canConfirm(x.route.leader, x) \/ canReview(x.route.head, x)

RowsSound ==
  /\ explanation \in [Explanations -> ExplanationRow \cup {NoExplanation}]
  /\ explainRoute \in [Employees -> ExplainRoute \cup {NoExplainRoute}]
  /\ \A y \in Explanations : explanation[y] # NoExplanation => RowSound(explanation[y])

Sending(c) == filing[c].op \in {"submit", "respond"}

FilingsTyped ==
  /\ filing = [c \in Calls |-> filing[c]]
  /\ \A c \in Calls : "op" \in DOMAIN filing[c]
  /\ \A c \in Calls : Sending(c) =>
       filing[c].user \in Employees /\ filing[c].id \in Explanations /\ filing[c].ref \in FileNames \cup {NoImage}
  /\ \A c \in Calls : filing[c].op = "submit" => filing[c].issue \in Issues

OneFilingEach ==
  \A c, d \in Calls : Sending(c) /\ Sending(d) /\ filing[c].user = filing[d].user => c = d

AnswersHold ==
  \A c \in Calls : filing[c].op = "respond" =>
    /\ explanation[filing[c].id] # NoExplanation
    /\ explanation[filing[c].id].status = "REQUESTED"
    /\ explanation[filing[c].id].owner = filing[c].user

ExplainInv == RowsSound /\ FilingsTyped /\ OneFilingEach /\ AnswersHold

------------------------------------------------------------------------------
(* One row *)

LEMMA NoUserIsNobody == NoUser \notin Users /\ NoUser \notin Employees
  BY OrgAssumption

LEMMA RouteFields ==
  ASSUME NEW r \in ExplainRoute
  PROVE  r # NoExplainRoute /\ r.team \in Teams /\ r.leader \in Users /\ r.head \in Users
  BY NoUserIsNobody DEF ExplainRoute, NoExplainRoute

LEMMA SoundIsJudged ==
  ASSUME NEW x \in ExplanationRow, RowSound(x) PROVE Judged(x)
<1> SUFFICES ASSUME x.status = "SUBMITTED", ~routingRequired(x)
             PROVE  canConfirm(x.route.leader, x) \/ canReview(x.route.head, x)
  BY DEF RowSound, Judged
<1>1. independent(x)
  BY DEF routingRequired
<1>2. x.route # NoExplainRoute
  BY <1>1 DEF independent, independentReviewers
<1>3. x.owner \notin {x.route.leader, x.route.head}
  BY <1>2 DEF RowSound
<1>4. CASE x.confirmedBy = NoUser
  BY <1>2, <1>3, <1>4 DEF RowSound, canConfirm
<1>5. CASE x.confirmedBy # NoUser
  BY <1>2, <1>3, <1>5 DEF RowSound, canReview
<1> QED BY <1>4, <1>5

LEMMA LegacySound ==
  ASSUME NEW e \in Employees, NEW i \in Issues,
         NEW status \in {"REQUESTED", "SUBMITTED"}, NEW stage \in {"EMPLOYEE_RESPONSE", "WAITING_ROUTING"}
  PROVE  legacyRow(e, i, status, stage) \in ExplanationRow /\ RowSound(legacyRow(e, i, status, stage))
  BY NoUserIsNobody DEF legacyRow, ExplanationRow, UserOrNone, RowSound

(* A row that nobody has confirmed or reviewed starts on its way.          *)
LEMMA InitializeSound ==
  ASSUME RowsSound, NEW x \in ExplanationRow, x.status = "SUBMITTED", x.submittedBy \in {NoUser, x.owner},
         x.confirmedBy = NoUser, x.reviewedBy = NoUser, x.method = "NULL"
  PROVE  /\ initialize(x) \in ExplanationRow /\ RowSound(initialize(x))
         /\ initialize(x).owner = x.owner /\ initialize(x).issue = x.issue /\ initialize(x).status = "SUBMITTED"
<1> PICK r : r = IF x.route # NoExplainRoute THEN x.route ELSE explainRoute[x.owner]
  OBVIOUS
<1>1. r \in ExplainRoute \cup {NoExplainRoute}
  BY DEF ExplanationRow, RowsSound
<1>2. CASE r # NoExplainRoute /\ validateRoute(x.owner, r, NoUser)
  <2>1. initialize(x) = [x EXCEPT !.route = r, !.stage = "LEADER_CONFIRMATION"]
    BY <1>2 DEF initialize
  <2>2. x.owner \notin {r.leader, r.head}
    BY <1>2 DEF validateRoute, independentReviewers
  <2> QED BY <1>1, <1>2, <2>1, <2>2, NoUserIsNobody DEF ExplanationRow, RowSound
<1>3. CASE ~(r # NoExplainRoute /\ validateRoute(x.owner, r, NoUser))
  <2>1. initialize(x) = [x EXCEPT !.route = NoExplainRoute, !.stage = "WAITING_ROUTING"]
    BY <1>3 DEF initialize
  <2> QED BY <2>1 DEF ExplanationRow, RowSound
<1> QED BY <1>2, <1>3

LEMMA ConfirmSound ==
  ASSUME NEW x \in ExplanationRow, RowSound(x), NEW u \in Users, canConfirm(u, x)
  PROVE  LET y == [x EXCEPT !.confirmedBy = u, !.stage = "HEAD_APPROVAL"]
         IN y \in ExplanationRow /\ RowSound(y) /\ y.owner = x.owner /\ y.issue = x.issue /\ y.status = x.status
  BY NoUserIsNobody DEF ExplanationRow, UserOrNone, RowSound, canConfirm

LEMMA DecideSound ==
  ASSUME NEW x \in ExplanationRow, RowSound(x), NEW u \in Users, NEW decision \in {"APPROVED", "REJECTED"},
         NEW method \in {"ROUTED", "ADMIN_FALLBACK"},
         IF method = "ROUTED" THEN canReview(u, x) ELSE canAdminReview(u, x)
  PROVE  LET y == [x EXCEPT !.status = decision, !.reviewedBy = u, !.stage = "COMPLETED", !.method = method]
         IN y \in ExplanationRow /\ RowSound(y) /\ y.owner = x.owner /\ y.issue = x.issue /\ y.status = decision
<1> PICK y : y = [x EXCEPT !.status = decision, !.reviewedBy = u, !.stage = "COMPLETED", !.method = method]
  OBVIOUS
<1>1. /\ y \in ExplanationRow /\ y.status = decision /\ y.reviewedBy = u /\ y.method = method
      /\ y.owner = x.owner /\ y.issue = x.issue /\ y.route = x.route /\ y.confirmedBy = x.confirmedBy
      /\ y.submittedBy = x.submittedBy
  BY DEF ExplanationRow, UserOrNone
<1>2. u \notin {x.owner, x.confirmedBy} /\ (method = "ROUTED" => u = x.route.head /\ x.confirmedBy # NoUser)
  <2>1. CASE method = "ROUTED"
    <3>1. canReview(u, x)
      BY <2>1
    <3>2. x.route.head # x.confirmedBy
      BY <3>1 DEF canReview, routingRequired, independent, independentReviewers
    <3> QED BY <3>1, <3>2 DEF canReview
  <2>2. CASE method # "ROUTED"
    BY <2>2 DEF canAdminReview
  <2> QED BY <2>1, <2>2
<1>3. RowSound(y)
  BY <1>1, <1>2 DEF RowSound
<1> QED BY <1>1, <1>3

LEMMA ApplySound ==
  ASSUME NEW x \in ExplanationRow, RowSound(x), NEW r \in ExplainRoute, canApplyRoute(x, r)
  PROVE  /\ applyRoute(x, r) \in ExplanationRow /\ RowSound(applyRoute(x, r))
         /\ applyRoute(x, r).owner = x.owner /\ applyRoute(x, r).issue = x.issue
         /\ applyRoute(x, r).status = x.status
<1>1. x.owner \notin {r.leader, r.head} /\ (x.confirmedBy # NoUser => r.leader = x.route.leader)
      /\ x.status \in {"REQUESTED", "SUBMITTED"}
  BY DEF canApplyRoute, validateRoute, independentReviewers
<1> QED BY <1>1, RouteFields DEF applyRoute, ExplanationRow, RowSound

(* A default keeps the team and the Leader of a confirmed row.             *)
LEMMA DefaultTyped ==
  ASSUME NEW x \in ExplanationRow, RowSound(x), NEW r \in ExplainRoute
  PROVE  defaultFor(x, r) \in ExplainRoute
<1>1. CASE x.confirmedBy = NoUser
  BY <1>1 DEF defaultFor
<1>2. CASE x.confirmedBy # NoUser
  <2>1. x.route # NoExplainRoute
    BY <1>2 DEF RowSound, NoExplainRoute
  <2>2. x.route \in ExplainRoute
    BY <2>1 DEF ExplanationRow
  <2> QED BY <1>2, <2>2 DEF defaultFor, ExplainRoute
<1> QED BY <1>1, <1>2

------------------------------------------------------------------------------
(* Steps *)

LEMMA InitExplainInv == ASSUME ExplainInit PROVE ExplainInv
<1>1. \A y \in Explanations : explanation[y] # NoExplanation =>
        explanation[y] \in ExplanationRow /\ RowSound(explanation[y])
  <2> SUFFICES ASSUME NEW y \in Explanations, explanation[y] # NoExplanation
               PROVE  explanation[y] \in ExplanationRow /\ RowSound(explanation[y])
    OBVIOUS
  <2>1. PICK e \in Employees, i \in Issues,
             s \in {<<"REQUESTED", "EMPLOYEE_RESPONSE">>, <<"SUBMITTED", "WAITING_ROUTING">>} :
               explanation[y] = legacyRow(e, i, s[1], s[2])
    BY DEF ExplainInit
  <2>2. s[1] \in {"REQUESTED", "SUBMITTED"} /\ s[2] \in {"EMPLOYEE_RESPONSE", "WAITING_ROUTING"}
    OBVIOUS
  <2> QED BY <2>1, <2>2, LegacySound
<1>2. DOMAIN explanation = Explanations /\ explanation = [y \in Explanations |-> explanation[y]]
  BY DEF ExplainInit
<1>3. RowsSound
  BY <1>1, <1>2 DEF ExplainInit, RowsSound
<1>4. \A c \in Calls : filing[c] = NoFiling
  BY DEF ExplainInit
<1> QED BY <1>3, <1>4 DEF ExplainInv, ExplainInit, FilingsTyped, OneFilingEach, AnswersHold, Sending, NoFiling

(* A call moves to or ends in something other than a submission or answer. *)
LEMMA CallStep ==
  ASSUME ExplainInv, UNCHANGED <<explanation, explainRoute>>,
         filing' = [c \in Calls |-> filing'[c]], \A c \in Calls : "op" \in DOMAIN filing'[c],
         \A c \in Calls : Sending(c)' => filing'[c] = filing[c]
  PROVE  ExplainInv'
<1>1. \A c \in Calls : Sending(c)' => Sending(c) /\ filing'[c] = filing[c]
  BY DEF Sending
<1>2. RowsSound'
  BY DEF ExplainInv, RowsSound
<1>3. FilingsTyped'
  BY <1>1 DEF ExplainInv, FilingsTyped, Sending
<1>4. OneFilingEach'
  BY <1>1 DEF ExplainInv, OneFilingEach
<1>5. AnswersHold'
  BY <1>1 DEF ExplainInv, AnswersHold, Sending
<1> QED BY <1>2, <1>3, <1>4, <1>5 DEF ExplainInv

(* A submission or answer begins; its employee had none under way.         *)
LEMMA ExplainLockStep ==
  ASSUME ExplainInv, NEW c \in Calls, NEW e \in Employees, explainRouteFree(e), NEW w,
         "op" \in DOMAIN w, w.op \in {"submit", "respond"}, w.user = e, w.id \in Explanations,
         w.ref \in FileNames \cup {NoImage}, w.op = "submit" => w.issue \in Issues,
         w.op = "respond" => /\ explanation[w.id] # NoExplanation /\ explanation[w.id].owner = e
                             /\ explanation[w.id].status = "REQUESTED",
         filing' = [filing EXCEPT ![c] = w], UNCHANGED <<explanation, explainRoute>>
  PROVE  ExplainInv'
<1>1. filing'[c] = w /\ \A d \in Calls : d # c => filing'[d] = filing[d]
  BY DEF ExplainInv, FilingsTyped
<1>2. RowsSound'
  BY DEF ExplainInv, RowsSound
<1>3. FilingsTyped'
  BY <1>1 DEF ExplainInv, FilingsTyped, Sending
<1>4. \A d \in Calls : Sending(d) => filing[d].user # e
  BY DEF explainRouteFree, busy, Sending
<1>5. OneFilingEach'
  BY <1>1, <1>4 DEF ExplainInv, OneFilingEach, Sending
<1>6. AnswersHold'
  BY <1>1 DEF ExplainInv, AnswersHold
<1> QED BY <1>2, <1>3, <1>5, <1>6 DEF ExplainInv

(* One row is written by a reviewer or an Admin: nobody is answering it.   *)
LEMMA ExplainRowStep ==
  ASSUME ExplainInv, NEW x \in Explanations, rowFree(x), NEW row \in ExplanationRow, RowSound(row),
         explanation' = [explanation EXCEPT ![x] = row], UNCHANGED <<explainRoute, filing>>
  PROVE  ExplainInv'
<1>1. RowsSound'
  BY DEF ExplainInv, RowsSound
<1>2. FilingsTyped' /\ OneFilingEach'
  BY DEF ExplainInv, FilingsTyped, OneFilingEach, Sending
<1>3. AnswersHold'
  <2> SUFFICES ASSUME NEW c \in Calls, filing[c].op = "respond"
               PROVE  /\ explanation'[filing[c].id] # NoExplanation
                      /\ explanation'[filing[c].id].status = "REQUESTED"
                      /\ explanation'[filing[c].id].owner = filing[c].user
    BY DEF AnswersHold
  <2>1. filing[c].id # x /\ filing[c].id \in Explanations
    BY DEF rowFree, busy, ExplainInv, FilingsTyped, Sending
  <2>2. explanation'[filing[c].id] = explanation[filing[c].id]
    BY <2>1 DEF ExplainInv, RowsSound
  <2> QED BY <2>2 DEF ExplainInv, AnswersHold
<1> QED BY <1>1, <1>2, <1>3 DEF ExplainInv

(* A submission or answer commits: no other one is about its row.          *)
LEMMA ExplainCommitStep ==
  ASSUME ExplainInv, NEW c \in Calls, Sending(c), NEW x \in Explanations, NEW row \in ExplanationRow, RowSound(row),
         \A d \in Calls : d # c /\ filing[d].op = "respond" => filing[d].id # x,
         explanation' = [explanation EXCEPT ![x] = row], filing' = [filing EXCEPT ![c] = NoFiling],
         UNCHANGED explainRoute
  PROVE  ExplainInv'
<1>1. filing'[c] = NoFiling /\ \A d \in Calls : d # c => filing'[d] = filing[d]
  BY DEF ExplainInv, FilingsTyped
<1>2. RowsSound'
  BY DEF ExplainInv, RowsSound
<1>3. FilingsTyped'
  BY <1>1 DEF ExplainInv, FilingsTyped, Sending, NoFiling
<1>4. OneFilingEach'
  BY <1>1 DEF ExplainInv, OneFilingEach, Sending, NoFiling
<1>5. AnswersHold'
  <2> SUFFICES ASSUME NEW d \in Calls, filing'[d].op = "respond"
               PROVE  /\ explanation'[filing'[d].id] # NoExplanation
                      /\ explanation'[filing'[d].id].status = "REQUESTED"
                      /\ explanation'[filing'[d].id].owner = filing'[d].user
    BY DEF AnswersHold
  <2>1. d # c /\ filing'[d] = filing[d]
    BY <1>1 DEF NoFiling
  <2>2. filing[d].id # x /\ filing[d].id \in Explanations
    BY <2>1 DEF ExplainInv, FilingsTyped, Sending
  <2>3. explanation'[filing[d].id] = explanation[filing[d].id]
    BY <2>2 DEF ExplainInv, RowsSound
  <2> QED BY <2>1, <2>3 DEF ExplainInv, AnswersHold
<1> QED BY <1>2, <1>3, <1>4, <1>5 DEF ExplainInv

LEMMA SubmitStep == ASSUME ExplainInv, NEW c \in Calls, submit(c) PROVE ExplainInv'
<1> PICK t : t = filing[c]
  OBVIOUS
<1> PICK x : x = [legacyRow(t.user, t.issue, "SUBMITTED", "WAITING_ROUTING")
                    EXCEPT !.submittedBy = t.user, !.evidence = t.ref]
  OBVIOUS
<1> PICK row : row = initialize(x)
  OBVIOUS
<1>1. /\ t.op = "submit" /\ t.user \in Employees /\ t.id \in Explanations /\ t.issue \in Issues
      /\ t.ref \in FileNames \cup {NoImage} /\ explanation[t.id] = NoExplanation
  BY DEF submit, ExplainInv, FilingsTyped, Sending
<1>2. /\ x \in ExplanationRow /\ x.status = "SUBMITTED" /\ x.submittedBy \in {NoUser, x.owner}
      /\ x.confirmedBy = NoUser /\ x.reviewedBy = NoUser /\ x.method = "NULL"
  BY <1>1, OrgAssumption DEF legacyRow, ExplanationRow, UserOrNone
<1>3. row \in ExplanationRow /\ RowSound(row)
  BY <1>2, InitializeSound DEF ExplainInv
<1>4. explanation' = [explanation EXCEPT ![t.id] = row] /\ filing' = [filing EXCEPT ![c] = NoFiling]
      /\ UNCHANGED explainRoute
  BY DEF submit
<1>5. \A d \in Calls : d # c /\ filing[d].op = "respond" => filing[d].id # t.id
  BY <1>1 DEF ExplainInv, AnswersHold
<1>6. Sending(c)
  BY <1>1 DEF Sending
<1> QED BY <1>1, <1>3, <1>4, <1>5, <1>6, ExplainCommitStep

LEMMA RespondStep == ASSUME ExplainInv, NEW c \in Calls, respondToExplanation(c) PROVE ExplainInv'
<1> PICK t : t = filing[c]
  OBVIOUS
<1> PICK old : old = explanation[t.id]
  OBVIOUS
<1> PICK x : x = [old EXCEPT !.status = "SUBMITTED", !.submittedBy = t.user, !.evidence = t.ref]
  OBVIOUS
<1> PICK row : row = initialize(x)
  OBVIOUS
<1>1. /\ t.op = "respond" /\ t.user \in Employees /\ t.id \in Explanations /\ Sending(c)
      /\ t.ref \in FileNames \cup {NoImage}
  BY DEF respondToExplanation, ExplainInv, FilingsTyped, Sending
<1>2. old # NoExplanation /\ old.status = "REQUESTED" /\ old.owner = t.user
  BY <1>1 DEF ExplainInv, AnswersHold
<1>3. old \in ExplanationRow /\ RowSound(old)
  BY <1>1, <1>2 DEF ExplainInv, RowsSound
<1>4. /\ x \in ExplanationRow /\ x.status = "SUBMITTED" /\ x.submittedBy \in {NoUser, x.owner}
      /\ x.confirmedBy = NoUser /\ x.reviewedBy = NoUser /\ x.method = "NULL"
  BY <1>1, <1>2, <1>3, OrgAssumption DEF ExplanationRow, UserOrNone, RowSound
<1>5. row \in ExplanationRow /\ RowSound(row)
  BY <1>4, InitializeSound DEF ExplainInv
<1>6. explanation' = [explanation EXCEPT ![t.id] = row] /\ filing' = [filing EXCEPT ![c] = NoFiling]
      /\ UNCHANGED explainRoute
  BY <1>1 DEF respondToExplanation, ExplainInv, RowsSound
<1>7. \A d \in Calls : d # c /\ filing[d].op = "respond" => filing[d].id # t.id
  BY <1>1, <1>2 DEF ExplainInv, AnswersHold, OneFilingEach, Sending
<1> QED BY <1>1, <1>5, <1>6, <1>7, ExplainCommitStep

LEMMA ReviewerStep ==
  ASSUME ExplainInv, NEW u \in Users, NEW x \in Explanations, explanation[x] # NoExplanation, rowFree(x),
         \/ confirm(u, x)
         \/ \E d \in {"APPROVED", "REJECTED"} : review(u, x, d) \/ adminReview(u, x, d)
         \/ \E r \in ExplainRoute : reroute(u, x, r)
  PROVE  ExplainInv'
<1> PICK old : old = explanation[x]
  OBVIOUS
<1>1. old \in ExplanationRow /\ RowSound(old) /\ explanation \in [Explanations -> ExplanationRow \cup {NoExplanation}]
  BY DEF ExplainInv, RowsSound
<1>2. CASE confirm(u, x)
  <2> PICK row : row = [old EXCEPT !.confirmedBy = u, !.stage = "HEAD_APPROVAL"]
    OBVIOUS
  <2>1. canConfirm(u, old) /\ UNCHANGED <<explainRoute, filing>>
    BY <1>2 DEF confirm, keep
  <2>2. row \in ExplanationRow /\ RowSound(row)
    BY <1>1, <2>1, ConfirmSound
  <2>3. explanation' = [explanation EXCEPT ![x] = row]
    BY <1>1, <1>2 DEF confirm
  <2> QED BY <2>1, <2>2, <2>3, ExplainRowStep
<1>3. ASSUME NEW d \in {"APPROVED", "REJECTED"}, NEW method \in {"ROUTED", "ADMIN_FALLBACK"},
             IF method = "ROUTED" THEN canReview(u, old) ELSE canAdminReview(u, old), decide(u, x, d, method)
      PROVE  ExplainInv'
  <2> PICK row : row = [old EXCEPT !.status = d, !.reviewedBy = u, !.stage = "COMPLETED", !.method = method]
    OBVIOUS
  <2>1. row \in ExplanationRow /\ RowSound(row)
    BY <1>1, <1>3, DecideSound
  <2>2. explanation' = [explanation EXCEPT ![x] = row] /\ UNCHANGED <<explainRoute, filing>>
    BY <1>1, <1>3 DEF decide, keep
  <2> QED BY <2>1, <2>2, ExplainRowStep
<1>4. ASSUME NEW d \in {"APPROVED", "REJECTED"}, review(u, x, d) PROVE ExplainInv'
  BY <1>3, <1>4 DEF review
<1>5. ASSUME NEW d \in {"APPROVED", "REJECTED"}, adminReview(u, x, d) PROVE ExplainInv'
  BY <1>3, <1>5 DEF adminReview
<1>6. ASSUME NEW r \in ExplainRoute, reroute(u, x, r) PROVE ExplainInv'
  <2> PICK row : row = applyRoute(old, r)
    OBVIOUS
  <2>1. canApplyRoute(old, r) /\ explanation' = [explanation EXCEPT ![x] = row] /\ UNCHANGED <<explainRoute, filing>>
    BY <1>6 DEF reroute, keep
  <2>2. row \in ExplanationRow /\ RowSound(row)
    BY <1>1, <2>1, ApplySound
  <2> QED BY <2>1, <2>2, ExplainRowStep
<1> QED BY <1>2, <1>4, <1>5, <1>6

(* The batch of a default route changes rows whose employee answers nothing.*)
LEMMA DefaultRouteStep ==
  ASSUME ExplainInv, NEW u \in Users, NEW e \in Employees, NEW r \in ExplainRoute, setDefaultRoute(u, e, r)
  PROVE  ExplainInv'
<1> PICK pending : pending = {x \in Explanations : /\ explanation[x] # NoExplanation /\ explanation[x].owner = e
                                                  /\ explanation[x].status \in {"REQUESTED", "SUBMITTED"}}
  OBVIOUS
<1> DEFINE next(x) == applyRoute(explanation[x], defaultFor(explanation[x], r))
<1>1. /\ explainRouteFree(e) /\ UNCHANGED filing
      /\ \A x \in pending : canApplyRoute(explanation[x], defaultFor(explanation[x], r))
      /\ explainRoute' = [explainRoute EXCEPT ![e] = r]
      /\ explanation' = [x \in Explanations |-> IF x \in pending THEN next(x) ELSE explanation[x]]
  BY DEF setDefaultRoute, keep
<1>2. ASSUME NEW x \in pending PROVE next(x) \in ExplanationRow /\ RowSound(next(x))
  <2> PICK old : old = explanation[x]
    OBVIOUS
  <2>1. old \in ExplanationRow /\ RowSound(old)
    BY DEF ExplainInv, RowsSound
  <2>2. PICK q \in ExplainRoute : q = defaultFor(old, r)
    BY <2>1, DefaultTyped
  <2>3. canApplyRoute(old, q)
    BY <1>1, <2>2
  <2> QED BY <2>1, <2>2, <2>3, ApplySound
<1> HIDE DEF next
<1>3. RowsSound'
  BY <1>1, <1>2 DEF ExplainInv, RowsSound
<1>4. FilingsTyped' /\ OneFilingEach'
  BY <1>1 DEF ExplainInv, FilingsTyped, OneFilingEach, Sending
<1>5. AnswersHold'
  <2> SUFFICES ASSUME NEW c \in Calls, filing[c].op = "respond"
               PROVE  /\ explanation'[filing[c].id] # NoExplanation
                      /\ explanation'[filing[c].id].status = "REQUESTED"
                      /\ explanation'[filing[c].id].owner = filing[c].user
    BY <1>1 DEF AnswersHold
  <2>1. filing[c].id \in Explanations /\ filing[c].user # e
    BY <1>1 DEF explainRouteFree, busy, ExplainInv, FilingsTyped, Sending
  <2>2. filing[c].id \notin pending
    BY <2>1 DEF ExplainInv, AnswersHold
  <2>3. explanation'[filing[c].id] = explanation[filing[c].id]
    BY <1>1, <2>1, <2>2
  <2> QED BY <2>3 DEF ExplainInv, AnswersHold
<1> QED BY <1>3, <1>4, <1>5 DEF ExplainInv

LEMMA FilingNext == ASSUME ExplainInv, FilingStep PROVE ExplainInv'
<1>1. ASSUME NEW c \in Calls, NEW e \in Employees, NEW x \in Explanations, NEW name \in FileNames \cup {NoImage},
             lockToRespond(c, e, x, name)
      PROVE  ExplainInv'
  <2> PICK w : w = [op |-> "respond", user |-> e, id |-> x, ref |-> name]
    OBVIOUS
  <2>1. /\ explainRouteFree(e) /\ filing' = [filing EXCEPT ![c] = w] /\ UNCHANGED <<explanation, explainRoute>>
        /\ explanation[x] # NoExplanation /\ explanation[x].owner = e /\ explanation[x].status = "REQUESTED"
    BY <1>1 DEF lockToRespond
  <2>2. "op" \in DOMAIN w /\ w.op = "respond" /\ w.user = e /\ w.id = x /\ w.ref = name
    OBVIOUS
  <2> QED BY <2>1, <2>2, ExplainLockStep
<1>2. ASSUME NEW c \in Calls, NEW e \in Employees, NEW x \in Explanations, NEW issue \in Issues,
             NEW name \in FileNames \cup {NoImage}, lockToSubmit(c, e, x, issue, name)
      PROVE  ExplainInv'
  <2> PICK w : w = [op |-> "submit", user |-> e, id |-> x, issue |-> issue, ref |-> name]
    OBVIOUS
  <2>1. explainRouteFree(e) /\ filing' = [filing EXCEPT ![c] = w] /\ UNCHANGED <<explanation, explainRoute>>
    BY <1>2 DEF lockToSubmit
  <2>2. "op" \in DOMAIN w /\ w.op = "submit" /\ w.user = e /\ w.id = x /\ w.issue = issue /\ w.ref = name
    OBVIOUS
  <2> QED BY <2>1, <2>2, ExplainLockStep
<1>3. ASSUME NEW c \in Calls, NEW w, "op" \in DOMAIN w, w.op \notin {"submit", "respond"},
             filing' = [filing EXCEPT ![c] = w], UNCHANGED <<explanation, explainRoute>>
      PROVE  ExplainInv'
  <2>1. filing'[c] = w /\ \A d \in Calls : d # c => filing'[d] = filing[d]
    BY <1>3 DEF ExplainInv, FilingsTyped
  <2>2. \A d \in Calls : Sending(d)' => filing'[d] = filing[d]
    BY <1>3, <2>1 DEF Sending
  <2>3. filing' = [d \in Calls |-> filing'[d]] /\ \A d \in Calls : "op" \in DOMAIN filing'[d]
    BY <1>3, <2>1 DEF ExplainInv, FilingsTyped
  <2> QED BY <1>3, <2>2, <2>3, CallStep
<1>4. ASSUME NEW c \in Calls, NEW e \in Employees, NEW i \in Uploads, NEW image \in Images, lockToStore(c, e, i, image)
      PROVE  ExplainInv'
  <2> PICK w : w = [op |-> "store", user |-> e, id |-> i, image |-> image]
    OBVIOUS
  <2>1. "op" \in DOMAIN w /\ w.op = "store"
    OBVIOUS
  <2> QED BY <1>3, <1>4, <2>1 DEF lockToStore
<1>5. ASSUME NEW c \in Calls, writeFile(c) PROVE ExplainInv'
  <2> PICK w : w = [filing[c] EXCEPT !.op = "stored"]
    OBVIOUS
  <2>1. "op" \in DOMAIN filing[c]
    BY DEF ExplainInv, FilingsTyped
  <2>2. "op" \in DOMAIN w /\ w.op = "stored"
    BY <2>1
  <2>3. filing' = [filing EXCEPT ![c] = w] /\ UNCHANGED <<explanation, explainRoute>>
    BY <1>5 DEF writeFile
  <2> QED BY <1>3, <2>2, <2>3
<1>6. ASSUME NEW c \in Calls, store(c) \/ rollBackFiling(c) PROVE ExplainInv'
  <2>1. filing' = [filing EXCEPT ![c] = NoFiling] /\ UNCHANGED <<explanation, explainRoute>>
    BY <1>6 DEF store, rollBackFiling
  <2>2. "op" \in DOMAIN NoFiling /\ NoFiling.op = "NONE"
    BY DEF NoFiling
  <2> QED BY <1>3, <2>1, <2>2
<1> QED BY <1>1, <1>2, <1>4, <1>5, <1>6, SubmitStep, RespondStep DEF FilingStep

LEMMA SameStep ==
  ASSUME ExplainInv, UNCHANGED <<explanation, explainRoute, filing>> PROVE ExplainInv'
  BY CallStep DEF ExplainInv, FilingsTyped

LEMMA NextExplainInv == ASSUME ExplainInv, [ExplainNext]_explainVars PROVE ExplainInv'
<1>1. CASE FilingStep
  BY <1>1, FilingNext
<1>2. CASE ReviewStep
  BY <1>2, ReviewerStep, DefaultRouteStep DEF ReviewStep
<1>3. CASE OrgChange
  BY <1>3, SameStep DEF OrgChange
<1>4. CASE UNCHANGED explainVars
  BY <1>4, SameStep DEF explainVars
<1> QED BY <1>1, <1>2, <1>3, <1>4 DEF ExplainNext

LEMMA ExplainInvImplies == ASSUME ExplainInv PROVE ExplanationJudgedByTwo
<1> SUFFICES ASSUME NEW y \in Explanations, explanation[y] # NoExplanation PROVE Judged(explanation[y])
  BY DEF ExplanationJudgedByTwo, Judged
<1>1. PICK x \in ExplanationRow : x = explanation[y] /\ RowSound(x)
  BY DEF ExplainInv, RowsSound
<1>2. Judged(x)
  BY <1>1, SoundIsJudged
<1> QED BY <1>1, <1>2

(* No employee, and no single reviewer, ever decides an explanation alone, *)
(* and an open one always has a next reviewer or asks for a route, however *)
(* routes, grants, teams and answers change around it                      *)
(* (ExplanationWorkflowService.process, reroute, setDefaultRoute).         *)
THEOREM TwoJudgeEveryExplanation == ExplainSpec => []ExplanationJudgedByTwo
<1>1. ExplainInit => ExplainInv
  BY InitExplainInv
<1>2. ExplainInv /\ [ExplainNext]_explainVars => ExplainInv'
  BY NextExplainInv
<1>3. ExplainInv => ExplanationJudgedByTwo
  BY ExplainInvImplies
<1> QED BY <1>1, <1>2, <1>3, PTL DEF ExplainSpec

------------------------------------------------------------------------------
(* One open explanation of a day and issue: it is looked for when a        *)
(* submission begins, and none comes until it commits (SubmissionsClear).  *)

Pending(x) == explanation[x] # NoExplanation /\ explanation[x].status \in {"REQUESTED", "SUBMITTED"}
SameMatter(x, e, issue) == explanation[x].owner = e /\ explanation[x].issue = issue

OpenApart ==
  \A x, y \in Explanations :
    Pending(x) /\ Pending(y) /\ SameMatter(y, explanation[x].owner, explanation[x].issue) => x = y

SubmissionsClear ==
  \A c \in Calls, x \in Explanations :
    filing[c].op = "submit" /\ Pending(x) => ~SameMatter(x, filing[c].user, filing[c].issue)

(* Nothing is opened, and no submission begins.                            *)
NothingOpened ==
  /\ \A x \in Explanations : Pending(x)' => Pending(x) /\ explanation'[x].owner = explanation[x].owner
                                                /\ explanation'[x].issue = explanation[x].issue
  /\ \A c \in Calls : filing'[c].op = "submit" => filing'[c] = filing[c]

LEMMA ExplainQuietStep ==
  ASSUME OpenApart, SubmissionsClear, NothingOpened PROVE OpenApart' /\ SubmissionsClear'
<1>1. OpenApart'
  BY DEF OpenApart, NothingOpened, SameMatter
<1>2. SubmissionsClear'
  BY DEF SubmissionsClear, NothingOpened, SameMatter
<1> QED BY <1>1, <1>2

LEMMA OneRowQuiet ==
  ASSUME RowsSound, NEW x \in Explanations, Pending(x), NEW row,
         row.owner = explanation[x].owner, row.issue = explanation[x].issue,
         explanation' = [explanation EXCEPT ![x] = row],
         \A c \in Calls : filing'[c].op = "submit" => filing'[c] = filing[c]
  PROVE  NothingOpened
  BY DEF NothingOpened, Pending, RowsSound

LEMMA ReviewQuiet == ASSUME ExplainInv, ReviewStep PROVE NothingOpened
<1>1. ASSUME NEW u \in Users, NEW x \in Explanations, explanation[x] # NoExplanation, rowFree(x),
             \/ confirm(u, x)
             \/ \E d \in {"APPROVED", "REJECTED"} : review(u, x, d) \/ adminReview(u, x, d)
             \/ \E r \in ExplainRoute : reroute(u, x, r)
      PROVE  NothingOpened
  <2> PICK old : old = explanation[x]
    OBVIOUS
  <2>1. old \in ExplanationRow /\ RowSound(old) /\ explanation \in [Explanations -> ExplanationRow \cup {NoExplanation}]
    BY <1>1 DEF ExplainInv, RowsSound
  <2>2. PICK row : explanation' = [explanation EXCEPT ![x] = row] /\ row.owner = old.owner /\ row.issue = old.issue
    <3>1. CASE confirm(u, x)
      <4> WITNESS [old EXCEPT !.confirmedBy = u, !.stage = "HEAD_APPROVAL"]
      <4> QED BY <2>1, <3>1 DEF confirm, ExplanationRow
    <3>2. ASSUME NEW d \in {"APPROVED", "REJECTED"}, NEW method, decide(u, x, d, method)
          PROVE  \E row : explanation' = [explanation EXCEPT ![x] = row] /\ row.owner = old.owner /\ row.issue = old.issue
      <4> WITNESS [old EXCEPT !.status = d, !.reviewedBy = u, !.stage = "COMPLETED", !.method = method]
      <4> QED BY <2>1, <3>2 DEF decide, ExplanationRow
    <3>3. ASSUME NEW r \in ExplainRoute, reroute(u, x, r)
          PROVE  \E row : explanation' = [explanation EXCEPT ![x] = row] /\ row.owner = old.owner /\ row.issue = old.issue
      <4>1. canApplyRoute(old, r) /\ explanation' = [explanation EXCEPT ![x] = applyRoute(old, r)]
        BY <3>3 DEF reroute
      <4>2. applyRoute(old, r).owner = old.owner /\ applyRoute(old, r).issue = old.issue
        BY <2>1, <4>1, ApplySound
      <4> QED BY <4>1, <4>2
    <3> QED BY <1>1, <3>1, <3>2, <3>3 DEF review, adminReview
  <2>3. Pending(x)
    <3>1. old.status \in {"REQUESTED", "SUBMITTED"}
      BY <1>1 DEF confirm, review, adminReview, reroute, canConfirm, canReview, canAdminReview, routingRequired, canApplyRoute
    <3> QED BY <1>1, <3>1 DEF Pending
  <2>4. UNCHANGED filing
    BY <1>1 DEF confirm, review, adminReview, decide, reroute, keep
  <2> QED BY <2>2, <2>3, <2>4, OneRowQuiet DEF ExplainInv
<1>2. ASSUME NEW u \in Users, NEW e \in Employees, NEW r \in ExplainRoute, setDefaultRoute(u, e, r)
      PROVE  NothingOpened
  <2> PICK pending : pending = {x \in Explanations : /\ explanation[x] # NoExplanation /\ explanation[x].owner = e
                                                    /\ explanation[x].status \in {"REQUESTED", "SUBMITTED"}}
    OBVIOUS
  <2>1. /\ UNCHANGED filing
        /\ \A x \in pending : canApplyRoute(explanation[x], defaultFor(explanation[x], r))
        /\ explanation' = [x \in Explanations |->
             IF x \in pending THEN applyRoute(explanation[x], defaultFor(explanation[x], r)) ELSE explanation[x]]
    BY <1>2 DEF setDefaultRoute, keep
  <2>2. ASSUME NEW x \in Explanations
        PROVE  Pending(x)' => Pending(x) /\ explanation'[x].owner = explanation[x].owner /\ explanation'[x].issue = explanation[x].issue
    <3>1. CASE x \in pending
      <4> PICK old : old = explanation[x]
        OBVIOUS
      <4>1. old \in ExplanationRow /\ RowSound(old)
        BY <3>1 DEF ExplainInv, RowsSound
      <4>2. PICK q \in ExplainRoute : q = defaultFor(old, r)
        BY <4>1, DefaultTyped
      <4>3. canApplyRoute(old, q) /\ explanation'[x] = applyRoute(old, q)
        BY <2>1, <3>1, <4>2
      <4>4. applyRoute(old, q).owner = old.owner /\ applyRoute(old, q).issue = old.issue
        BY <4>1, <4>2, <4>3, ApplySound
      <4> QED BY <3>1, <4>3, <4>4 DEF Pending
    <3>2. CASE x \notin pending
      BY <2>1, <3>2 DEF Pending
    <3> QED BY <3>1, <3>2
  <2> QED BY <2>1, <2>2 DEF NothingOpened
<1> QED BY <1>1, <1>2 DEF ReviewStep

LEMMA FilingOpens ==
  ASSUME ExplainInv, OpenApart, SubmissionsClear, FilingStep PROVE OpenApart' /\ SubmissionsClear'
<1>1. ASSUME NEW c \in Calls, NEW w, w.op # "submit", filing' = [filing EXCEPT ![c] = w], UNCHANGED explanation
      PROVE  NothingOpened
  BY <1>1 DEF NothingOpened, Pending, ExplainInv, FilingsTyped
<1>2. ASSUME NEW c \in Calls, NEW e \in Employees, NEW x \in Explanations, NEW name \in FileNames \cup {NoImage},
             lockToRespond(c, e, x, name)
      PROVE  NothingOpened
  BY <1>1, <1>2 DEF lockToRespond
<1>3. ASSUME NEW c \in Calls, NEW e \in Employees, NEW x \in Explanations, NEW issue \in Issues,
             NEW name \in FileNames \cup {NoImage}, lockToSubmit(c, e, x, issue, name)
      PROVE  OpenApart' /\ SubmissionsClear'
  <2> PICK w : w = [op |-> "submit", user |-> e, id |-> x, issue |-> issue, ref |-> name]
    OBVIOUS
  <2>1. UNCHANGED explanation /\ openFor(e, issue) = {} /\ filing' = [filing EXCEPT ![c] = w]
    BY <1>3 DEF lockToSubmit
  <2>2. filing'[c] = w /\ \A d \in Calls : d # c => filing'[d] = filing[d]
    BY <2>1 DEF ExplainInv, FilingsTyped
  <2>3. \A y \in Explanations : Pending(y) => ~SameMatter(y, e, issue)
    BY <2>1 DEF openFor, Pending, SameMatter
  <2>4. OpenApart'
    BY <2>1 DEF OpenApart, Pending, SameMatter
  <2>5. SubmissionsClear'
    BY <2>1, <2>2, <2>3 DEF SubmissionsClear, Pending, SameMatter
  <2> QED BY <2>4, <2>5
<1>4. ASSUME NEW c \in Calls, NEW e \in Employees, NEW i \in Uploads, NEW image \in Images, lockToStore(c, e, i, image)
      PROVE  NothingOpened
  BY <1>1, <1>4 DEF lockToStore
<1>5. ASSUME NEW c \in Calls, writeFile(c) PROVE NothingOpened
  <2> PICK w : w = [filing[c] EXCEPT !.op = "stored"]
    OBVIOUS
  <2>1. w.op # "submit"
    BY DEF ExplainInv, FilingsTyped
  <2> QED BY <1>1, <1>5, <2>1 DEF writeFile
<1>6. ASSUME NEW c \in Calls, store(c) \/ rollBackFiling(c) PROVE NothingOpened
  <2>1. NoFiling.op # "submit"
    BY DEF NoFiling
  <2> QED BY <1>1, <1>6, <2>1 DEF store, rollBackFiling
<1>7. ASSUME NEW c \in Calls, respondToExplanation(c) PROVE NothingOpened
  <2> PICK t : t = filing[c]
    OBVIOUS
  <2> PICK old : old = explanation[t.id]
    OBVIOUS
  <2> PICK x : x = [old EXCEPT !.status = "SUBMITTED", !.submittedBy = t.user, !.evidence = t.ref]
    OBVIOUS
  <2> PICK row : row = initialize(x)
    OBVIOUS
  <2>1. /\ t.op = "respond" /\ t.user \in Employees /\ t.id \in Explanations /\ t.ref \in FileNames \cup {NoImage}
        /\ old # NoExplanation /\ old.status = "REQUESTED" /\ old.owner = t.user
    BY <1>7 DEF respondToExplanation, ExplainInv, FilingsTyped, Sending, AnswersHold
  <2>2. old \in ExplanationRow /\ RowSound(old)
    BY <2>1 DEF ExplainInv, RowsSound
  <2>3. /\ x \in ExplanationRow /\ x.status = "SUBMITTED" /\ x.submittedBy \in {NoUser, x.owner}
        /\ x.confirmedBy = NoUser /\ x.reviewedBy = NoUser /\ x.method = "NULL" /\ x.owner = old.owner /\ x.issue = old.issue
    BY <2>1, <2>2, OrgAssumption DEF ExplanationRow, UserOrNone, RowSound
  <2>4. row.owner = old.owner /\ row.issue = old.issue
    BY <2>3, InitializeSound DEF ExplainInv
  <2>5. explanation' = [explanation EXCEPT ![t.id] = row] /\ filing' = [filing EXCEPT ![c] = NoFiling]
    BY <1>7, <2>1 DEF respondToExplanation, ExplainInv, RowsSound
  <2>6. \A d \in Calls : filing'[d].op = "submit" => filing'[d] = filing[d]
    BY <2>5 DEF ExplainInv, FilingsTyped, NoFiling
  <2>7. Pending(t.id)
    BY <2>1 DEF Pending
  <2> QED BY <2>1, <2>4, <2>5, <2>6, <2>7, OneRowQuiet DEF ExplainInv
<1>8. ASSUME NEW c \in Calls, submit(c) PROVE OpenApart' /\ SubmissionsClear'
  <2> PICK t : t = filing[c]
    OBVIOUS
  <2> PICK x : x = [legacyRow(t.user, t.issue, "SUBMITTED", "WAITING_ROUTING")
                      EXCEPT !.submittedBy = t.user, !.evidence = t.ref]
    OBVIOUS
  <2> PICK row : row = initialize(x)
    OBVIOUS
  <2>1. /\ t.op = "submit" /\ t.user \in Employees /\ t.id \in Explanations /\ t.issue \in Issues
        /\ t.ref \in FileNames \cup {NoImage} /\ explanation[t.id] = NoExplanation /\ Sending(c)
    BY <1>8 DEF submit, ExplainInv, FilingsTyped, Sending
  <2>2. /\ x \in ExplanationRow /\ x.status = "SUBMITTED" /\ x.submittedBy \in {NoUser, x.owner}
        /\ x.confirmedBy = NoUser /\ x.reviewedBy = NoUser /\ x.method = "NULL" /\ x.owner = t.user /\ x.issue = t.issue
    BY <2>1, OrgAssumption DEF legacyRow, ExplanationRow, UserOrNone
  <2>3. row.owner = t.user /\ row.issue = t.issue
    BY <2>2, InitializeSound DEF ExplainInv
  <2>4. explanation' = [explanation EXCEPT ![t.id] = row] /\ filing' = [filing EXCEPT ![c] = NoFiling]
    BY <1>8 DEF submit
  <2>5. explanation'[t.id] = row /\ \A y \in Explanations : y # t.id => explanation'[y] = explanation[y]
    BY <2>1, <2>4 DEF ExplainInv, RowsSound
  <2>6. filing'[c] = NoFiling /\ \A d \in Calls : d # c => filing'[d] = filing[d]
    BY <2>4 DEF ExplainInv, FilingsTyped
  <2>7. \A y \in Explanations : Pending(y) => ~SameMatter(y, t.user, t.issue)
    BY <2>1 DEF SubmissionsClear
  <2>8. OpenApart'
    BY <2>3, <2>5, <2>7 DEF OpenApart, Pending, SameMatter
  <2>9. \A d \in Calls : filing'[d].op = "submit" => d # c /\ filing'[d] = filing[d] /\ filing[d].user # t.user
    BY <2>1, <2>6 DEF NoFiling, ExplainInv, OneFilingEach, Sending
  <2>10. SubmissionsClear'
    BY <2>3, <2>5, <2>9 DEF SubmissionsClear, Pending, SameMatter
  <2> QED BY <2>8, <2>10
<1> QED BY <1>2, <1>3, <1>4, <1>5, <1>6, <1>7, <1>8, ExplainQuietStep DEF FilingStep

LEMMA InitApart == ASSUME ExplainInit PROVE OpenApart /\ SubmissionsClear
<1> PICK S : S = {x \in Explanations : explanation[x] # NoExplanation}
  OBVIOUS
<1>1. S \in SUBSET Explanations /\ Cardinality(S) <= 1
  BY DEF ExplainInit
<1>2. IsFiniteSet(S) /\ Cardinality(S) \in Nat
  BY <1>1, ExplanationAssumption, FS_Subset, FS_CardinalityType
<1>3. S = {} \/ \E a : S = {a}
  BY <1>1, <1>2, FS_EmptySet, FS_Singleton
<1>4. OpenApart
  BY <1>3 DEF OpenApart, Pending
<1>5. SubmissionsClear
  BY DEF SubmissionsClear, ExplainInit, NoFiling
<1> QED BY <1>4, <1>5

LEMMA NextApart ==
  ASSUME ExplainInv, OpenApart, SubmissionsClear, [ExplainNext]_explainVars PROVE OpenApart' /\ SubmissionsClear'
<1>1. CASE FilingStep
  BY <1>1, FilingOpens
<1>2. CASE ReviewStep
  BY <1>2, ReviewQuiet, ExplainQuietStep
<1>3. ASSUME UNCHANGED <<explanation, filing>> PROVE NothingOpened
  BY <1>3 DEF NothingOpened, Pending
<1> QED BY <1>1, <1>2, <1>3, ExplainQuietStep DEF ExplainNext, OrgChange, explainVars

LEMMA ApartImpliesOne == ASSUME OpenApart PROVE OneOpenExplanation
<1> SUFFICES ASSUME NEW e \in Employees, NEW issue \in Issues PROVE Cardinality(openFor(e, issue)) <= 1
  BY DEF OneOpenExplanation
<1>1. \A x, y \in openFor(e, issue) : x = y
  BY DEF OpenApart, openFor, Pending, SameMatter
<1>2. openFor(e, issue) = {} \/ \E x : openFor(e, issue) = {x}
  BY <1>1
<1>3. Cardinality(openFor(e, issue)) \in {0, 1}
  BY <1>2, FS_EmptySet, FS_Singleton, Zenon
<1> QED BY <1>3

(* Whatever submissions, answers, decisions and routes come at the same    *)
(* time, a day and issue of an employee has one open explanation: the lock *)
(* of his route keeps what submitEmployeeExplanation looked for true until *)
(* it commits.                                                             *)
THEOREM ExplanationsStayApart == ExplainSpec => []OneOpenExplanation
<1> DEFINE Apart == ExplainInv /\ OpenApart /\ SubmissionsClear
<1>1. ExplainInit => Apart
  BY InitExplainInv, InitApart
<1>2. Apart /\ [ExplainNext]_explainVars => Apart'
  BY NextExplainInv, NextApart
<1>3. Apart => OneOpenExplanation
  BY ApartImpliesOne
<1> HIDE DEF Apart
<1> QED BY <1>1, <1>2, <1>3, PTL DEF ExplainSpec

------------------------------------------------------------------------------
(* Pictures.  A reference that a submission or answer has checked, and one *)
(* that an explanation holds, belongs to its employee, is on disk, and     *)
(* nobody is storing that upload; so none of the three ends.               *)
Storing(c) == filing[c].op \in {"store", "stored"}

Safe(e, name) ==
  /\ upload[name[1]] = [owner |-> e, extension |-> name[2]]
  /\ file[name] # NoImage
  /\ \A c \in Calls : Storing(c) => filing[c].id # name[1]

EvidenceTyped ==
  /\ file \in [FileNames -> Images \cup {NoImage}]
  /\ upload = [i \in Uploads |-> upload[i]]
  /\ \A c \in Calls : Storing(c) =>
       filing[c] \in [op: {"store", "stored"}, user: Employees, id: Uploads, image: Images]

RefsSafe == \A c \in Calls : Sending(c) /\ filing[c].ref # NoImage => Safe(filing[c].user, filing[c].ref)
LinksSafe ==
  \A x \in Explanations : explanation[x] # NoExplanation /\ explanation[x].evidence # NoImage =>
    Safe(explanation[x].owner, explanation[x].evidence)
StoresApart ==
  \A c, d \in Calls : Storing(c) /\ Storing(d) /\ filing[c].id = filing[d].id => c = d

EvidenceInv == EvidenceTyped /\ RefsSafe /\ LinksSafe /\ StoresApart

LEMMA NameParts ==
  ASSUME NEW name \in FileNames
  PROVE  name[1] \in Uploads /\ name = <<name[1], name[2]>>
  BY DEF FileNames

(* A step that keeps pictures and uploads, begins no store, and leaves     *)
(* rows their owner and picture.                                           *)
RowsKeepEvidence ==
  \A x \in Explanations : explanation'[x] # NoExplanation =>
    /\ explanation[x] # NoExplanation
    /\ explanation'[x].evidence = explanation[x].evidence /\ explanation'[x].owner = explanation[x].owner

LEMMA SafeStays ==
  ASSUME NEW e, NEW name, Safe(e, name), UNCHANGED <<upload, file>>,
         \A c \in Calls : Storing(c)' => Storing(c) /\ filing'[c].id = filing[c].id
  PROVE  Safe(e, name)'
  BY DEF Safe

LEMMA QuietEvidence ==
  ASSUME EvidenceInv, UNCHANGED <<upload, file>>, RowsKeepEvidence,
         \A c \in Calls : filing'[c] = filing[c] \/ filing'[c] = NoFiling
  PROVE  EvidenceInv'
<1>1. \A c \in Calls : (Storing(c)' => Storing(c) /\ filing'[c] = filing[c]) /\ (Sending(c)' => Sending(c) /\ filing'[c] = filing[c])
  BY DEF Storing, Sending, NoFiling
<1>2. EvidenceTyped' /\ StoresApart'
  BY <1>1 DEF EvidenceInv, EvidenceTyped, StoresApart
<1>3. ASSUME NEW c \in Calls, Sending(c)', filing'[c].ref # NoImage PROVE Safe(filing[c].user, filing[c].ref)'
  <2> PICK e : e = filing[c].user
    OBVIOUS
  <2> PICK name : name = filing[c].ref
    OBVIOUS
  <2>1. Safe(e, name)'
    BY <1>1, <1>3, SafeStays DEF EvidenceInv, RefsSafe
  <2> QED BY <1>1, <1>3, <2>1
<1>4. ASSUME NEW x \in Explanations, explanation'[x] # NoExplanation, explanation'[x].evidence # NoImage
      PROVE  Safe(explanation[x].owner, explanation[x].evidence)'
  <2> PICK e : e = explanation[x].owner
    OBVIOUS
  <2> PICK name : name = explanation[x].evidence
    OBVIOUS
  <2>1. Safe(e, name)'
    BY <1>1, <1>4, SafeStays DEF EvidenceInv, LinksSafe, RowsKeepEvidence
  <2> QED BY <1>4, <2>1 DEF RowsKeepEvidence
<1> QED BY <1>2, <1>3, <1>4 DEF EvidenceInv, RefsSafe, LinksSafe

(* Reviewers and Admins leave the picture of an explanation alone.         *)
LEMMA ReviewKeepsEvidence == ASSUME ExplainInv, ReviewStep PROVE RowsKeepEvidence /\ UNCHANGED <<upload, file, filing>>
<1>1. ASSUME NEW u \in Users, NEW x \in Explanations, explanation[x] # NoExplanation, rowFree(x),
             \/ confirm(u, x)
             \/ \E d \in {"APPROVED", "REJECTED"} : review(u, x, d) \/ adminReview(u, x, d)
             \/ \E r \in ExplainRoute : reroute(u, x, r)
      PROVE  RowsKeepEvidence
  <2> PICK old : old = explanation[x]
    OBVIOUS
  <2>1. old \in ExplanationRow /\ explanation \in [Explanations -> ExplanationRow \cup {NoExplanation}]
    BY <1>1 DEF ExplainInv, RowsSound
  <2>2. PICK row : explanation' = [explanation EXCEPT ![x] = row] /\ row.owner = old.owner /\ row.evidence = old.evidence
    <3>1. CASE confirm(u, x)
      <4> WITNESS [old EXCEPT !.confirmedBy = u, !.stage = "HEAD_APPROVAL"]
      <4> QED BY <2>1, <3>1 DEF confirm, ExplanationRow
    <3>2. ASSUME NEW d \in {"APPROVED", "REJECTED"}, NEW method, decide(u, x, d, method)
          PROVE  \E row : explanation' = [explanation EXCEPT ![x] = row] /\ row.owner = old.owner /\ row.evidence = old.evidence
      <4> WITNESS [old EXCEPT !.status = d, !.reviewedBy = u, !.stage = "COMPLETED", !.method = method]
      <4> QED BY <2>1, <3>2 DEF decide, ExplanationRow
    <3>3. ASSUME NEW r \in ExplainRoute, reroute(u, x, r)
          PROVE  \E row : explanation' = [explanation EXCEPT ![x] = row] /\ row.owner = old.owner /\ row.evidence = old.evidence
      <4> WITNESS applyRoute(old, r)
      <4> QED BY <2>1, <3>3 DEF reroute, applyRoute, ExplanationRow
    <3> QED BY <1>1, <3>1, <3>2, <3>3 DEF review, adminReview
  <2>3. \A y \in Explanations : explanation'[y] = IF y = x THEN row ELSE explanation[y]
    BY <2>1, <2>2
  <2> QED BY <1>1, <2>2, <2>3 DEF RowsKeepEvidence
<1>2. ASSUME NEW u \in Users, NEW e \in Employees, NEW r \in ExplainRoute, setDefaultRoute(u, e, r)
      PROVE  RowsKeepEvidence
  <2> PICK pending : pending = {x \in Explanations : /\ explanation[x] # NoExplanation /\ explanation[x].owner = e
                                                    /\ explanation[x].status \in {"REQUESTED", "SUBMITTED"}}
    OBVIOUS
  <2>1. explanation' = [x \in Explanations |->
          IF x \in pending THEN applyRoute(explanation[x], defaultFor(explanation[x], r)) ELSE explanation[x]]
    BY <1>2 DEF setDefaultRoute
  <2>2. ASSUME NEW x \in pending
        PROVE  /\ explanation'[x].owner = explanation[x].owner
               /\ explanation'[x].evidence = explanation[x].evidence
    <3> PICK old : old = explanation[x]
      OBVIOUS
    <3> PICK q : q = defaultFor(old, r)
      OBVIOUS
    <3>1. old \in ExplanationRow
      BY DEF ExplainInv, RowsSound
    <3>2. explanation'[x] = applyRoute(old, q)
      BY <2>1
    <3> QED BY <3>1, <3>2 DEF applyRoute, ExplanationRow
  <2>3. \A x \in Explanations : explanation'[x] # explanation[x] => x \in pending
    BY <2>1
  <2> QED BY <2>2, <2>3 DEF RowsKeepEvidence
<1>3. ASSUME NEW u \in Users, NEW x \in Explanations,
             \/ confirm(u, x)
             \/ \E d \in {"APPROVED", "REJECTED"} : review(u, x, d) \/ adminReview(u, x, d)
             \/ \E r \in ExplainRoute : reroute(u, x, r)
      PROVE  UNCHANGED <<upload, file, filing>>
  BY <1>3 DEF confirm, review, adminReview, decide, reroute, keep
<1>4. ASSUME NEW u \in Users, NEW e \in Employees, NEW r \in ExplainRoute, setDefaultRoute(u, e, r)
      PROVE  UNCHANGED <<upload, file, filing>>
  BY <1>4 DEF setDefaultRoute, keep
<1> QED BY <1>1, <1>2, <1>3, <1>4 DEF ReviewStep

(* The row of a submission or answer as it commits. *)
LEMMA InitializeEvidence ==
  ASSUME NEW x \in ExplanationRow
  PROVE  initialize(x).evidence = x.evidence /\ initialize(x).owner = x.owner
<1> PICK r : r = IF x.route # NoExplainRoute THEN x.route ELSE explainRoute[x.owner]
  OBVIOUS
<1>1. \/ initialize(x) = [x EXCEPT !.route = r, !.stage = "LEADER_CONFIRMATION"]
      \/ initialize(x) = [x EXCEPT !.route = NoExplainRoute, !.stage = "WAITING_ROUTING"]
  BY DEF initialize
<1> QED BY <1>1 DEF ExplanationRow

(* What it had checked is what its row holds.                              *)
LEMMA CommitEvidence ==
  ASSUME ExplainInv, EvidenceInv, NEW c \in Calls, Sending(c), NEW row, row.owner = filing[c].user, row.evidence = filing[c].ref,
         explanation' = [explanation EXCEPT ![filing[c].id] = row], filing' = [filing EXCEPT ![c] = NoFiling],
         UNCHANGED <<upload, file>>
  PROVE  EvidenceInv'
<1>1. filing'[c] = NoFiling /\ \A d \in Calls : d # c => filing'[d] = filing[d]
  BY DEF ExplainInv, FilingsTyped
<1>2. \A d \in Calls : (Storing(d)' => Storing(d) /\ filing'[d] = filing[d]) /\ (Sending(d)' => Sending(d) /\ filing'[d] = filing[d])
  BY <1>1 DEF Storing, Sending, NoFiling
<1>3. EvidenceTyped' /\ StoresApart'
  BY <1>2 DEF EvidenceInv, EvidenceTyped, StoresApart
<1>4. ASSUME NEW d \in Calls, Sending(d)', filing'[d].ref # NoImage PROVE Safe(filing[d].user, filing[d].ref)'
  <2> PICK e : e = filing[d].user
    OBVIOUS
  <2> PICK name : name = filing[d].ref
    OBVIOUS
  <2>1. Safe(e, name)'
    BY <1>2, <1>4, SafeStays DEF EvidenceInv, RefsSafe
  <2> QED BY <1>2, <1>4, <2>1
<1>5. ASSUME NEW x \in Explanations, explanation'[x] # NoExplanation, explanation'[x].evidence # NoImage
      PROVE  Safe(explanation[x].owner, explanation[x].evidence)'
  <2>1. CASE x = filing[c].id
    <3> PICK e : e = filing[c].user
      OBVIOUS
    <3> PICK name : name = filing[c].ref
      OBVIOUS
    <3>1. explanation'[x] = row
      BY <2>1 DEF ExplainInv, RowsSound
    <3>2. Safe(e, name)'
      BY <1>2, <1>5, <3>1, SafeStays DEF EvidenceInv, RefsSafe
    <3> QED BY <3>1, <3>2
  <2>2. CASE x # filing[c].id
    <3> PICK e : e = explanation[x].owner
      OBVIOUS
    <3> PICK name : name = explanation[x].evidence
      OBVIOUS
    <3>1. explanation'[x] = explanation[x]
      BY <2>2 DEF ExplainInv, RowsSound
    <3>2. Safe(e, name)'
      BY <1>2, <1>5, <3>1, SafeStays DEF EvidenceInv, LinksSafe
    <3> QED BY <3>1, <3>2
  <2> QED BY <2>1, <2>2
<1> QED BY <1>3, <1>4, <1>5 DEF EvidenceInv, RefsSafe, LinksSafe

LEMMA SubmitEvidence ==
  ASSUME ExplainInv, EvidenceInv, NEW c \in Calls, submit(c) \/ respondToExplanation(c) PROVE EvidenceInv'
<1> PICK t : t = filing[c]
  OBVIOUS
<1>1. /\ Sending(c) /\ t.user \in Employees /\ t.id \in Explanations /\ t.ref \in FileNames \cup {NoImage}
      /\ filing' = [filing EXCEPT ![c] = NoFiling] /\ UNCHANGED <<upload, file>>
  BY DEF submit, respondToExplanation, ExplainInv, FilingsTyped, Sending
<1>2. CASE submit(c)
  <2> PICK x : x = [legacyRow(t.user, t.issue, "SUBMITTED", "WAITING_ROUTING")
                      EXCEPT !.submittedBy = t.user, !.evidence = t.ref]
    OBVIOUS
  <2>1. t.issue \in Issues
    BY <1>1, <1>2 DEF submit, ExplainInv, FilingsTyped
  <2>2. x \in ExplanationRow /\ x.owner = t.user /\ x.evidence = t.ref
    BY <1>1, <2>1, OrgAssumption DEF legacyRow, ExplanationRow, UserOrNone
  <2>3. explanation' = [explanation EXCEPT ![t.id] = initialize(x)]
    BY <1>2 DEF submit
  <2> QED BY <1>1, <2>2, <2>3, InitializeEvidence, CommitEvidence
<1>3. CASE respondToExplanation(c)
  <2> PICK old : old = explanation[t.id]
    OBVIOUS
  <2> PICK x : x = [old EXCEPT !.status = "SUBMITTED", !.submittedBy = t.user, !.evidence = t.ref]
    OBVIOUS
  <2>1. old # NoExplanation /\ old.owner = t.user /\ old \in ExplanationRow
    BY <1>1, <1>3 DEF respondToExplanation, ExplainInv, AnswersHold, RowsSound
  <2>2. x \in ExplanationRow /\ x.owner = t.user /\ x.evidence = t.ref
    BY <1>1, <2>1, OrgAssumption DEF ExplanationRow, UserOrNone
  <2>3. explanation' = [explanation EXCEPT ![t.id] = initialize(x)]
    BY <1>1, <1>3 DEF respondToExplanation, ExplainInv, RowsSound
  <2> QED BY <1>1, <2>2, <2>3, InitializeEvidence, CommitEvidence
<1> QED BY <1>2, <1>3

(* A reference is checked as a submission or answer begins.                *)
Checked(c, e, name, w) ==
  /\ w.op \in {"submit", "respond"} /\ w.user = e /\ w.ref = name
  /\ assertOwnedReference(e, name)
  /\ filing' = [filing EXCEPT ![c] = w] /\ UNCHANGED <<explanation, upload, file>>

LEMMA LockEvidence ==
  ASSUME ExplainInv, EvidenceInv, NEW c \in Calls, NEW e \in Employees, NEW name \in FileNames \cup {NoImage},
         NEW w, Checked(c, e, name, w)
  PROVE  EvidenceInv'
<1> USE DEF Checked
<1>1. filing'[c] = w /\ \A d \in Calls : d # c => filing'[d] = filing[d]
  BY DEF ExplainInv, FilingsTyped
<1>2. \A d \in Calls : Storing(d)' => Storing(d) /\ filing'[d] = filing[d]
  BY <1>1 DEF Storing
<1>3. EvidenceTyped' /\ StoresApart'
  BY <1>2 DEF EvidenceInv, EvidenceTyped, StoresApart
<1>4. name # NoImage => Safe(e, name)
  BY DEF assertOwnedReference, uploading, busy, Safe, Storing
<1>5. ASSUME NEW d \in Calls, Sending(d)', filing'[d].ref # NoImage PROVE Safe(filing[d].user, filing[d].ref)'
  <2> PICK f : f = filing'[d].user
    OBVIOUS
  <2> PICK n : n = filing'[d].ref
    OBVIOUS
  <2>1. CASE d = c
    <3>1. Safe(f, n)'
      BY <1>1, <1>2, <1>4, <1>5, <2>1, SafeStays
    <3> QED BY <3>1
  <2>2. CASE d # c
    <3>1. Sending(d) /\ filing'[d] = filing[d]
      BY <1>1, <1>5, <2>2 DEF Sending
    <3>2. Safe(f, n)'
      BY <1>2, <1>5, <3>1, SafeStays DEF EvidenceInv, RefsSafe
    <3> QED BY <3>2
  <2> QED BY <2>1, <2>2
<1>6. ASSUME NEW x \in Explanations, explanation'[x] # NoExplanation, explanation'[x].evidence # NoImage
      PROVE  Safe(explanation[x].owner, explanation[x].evidence)'
  <2> PICK f : f = explanation[x].owner
    OBVIOUS
  <2> PICK n : n = explanation[x].evidence
    OBVIOUS
  <2>1. Safe(f, n)'
    BY <1>2, <1>6, SafeStays DEF EvidenceInv, LinksSafe
  <2> QED BY <2>1
<1> QED BY <1>3, <1>5, <1>6 DEF EvidenceInv, RefsSafe, LinksSafe

(* A store begins for an upload that nothing refers to.                    *)
LEMMA LockToStoreEvidence ==
  ASSUME ExplainInv, EvidenceInv, NEW c \in Calls, NEW e \in Employees, NEW i \in Uploads, NEW image \in Images,
         lockToStore(c, e, i, image)
  PROVE  EvidenceInv'
<1> PICK w : w = [op |-> "store", user |-> e, id |-> i, image |-> image]
  OBVIOUS
<1>1. filing'[c] = w /\ \A d \in Calls : d # c => filing'[d] = filing[d]
  BY DEF lockToStore, ExplainInv, FilingsTyped
<1>2. UNCHANGED <<explanation, upload, file>>
  BY DEF lockToStore
<1>3. \A d \in Calls : Storing(d) => filing[d].id # i
  BY DEF lockToStore, uploading, busy, Storing
<1>4. EvidenceTyped' /\ StoresApart'
  BY <1>1, <1>2, <1>3 DEF EvidenceInv, EvidenceTyped, StoresApart, Storing
<1>5. ASSUME NEW f \in Employees, NEW n \in FileNames, Safe(f, n), n[1] # i PROVE Safe(f, n)'
  BY <1>1, <1>2, <1>5 DEF Safe, Storing
<1>6. ASSUME NEW d \in Calls, Sending(d)', filing'[d].ref # NoImage PROVE Safe(filing[d].user, filing[d].ref)'
  <2> PICK f : f = filing'[d].user
    OBVIOUS
  <2> PICK n : n = filing'[d].ref
    OBVIOUS
  <2>1. Sending(d) /\ f = filing[d].user /\ n = filing[d].ref
    BY <1>1, <1>6 DEF Sending
  <2>2. f \in Employees /\ n \in FileNames /\ Safe(f, n)
    BY <1>6, <2>1 DEF ExplainInv, FilingsTyped, EvidenceInv, RefsSafe
  <2>3. n[1] # i
    BY <1>6, <2>1 DEF lockToStore, attaching, busy, Sending
  <2>4. Safe(f, n)'
    BY <1>5, <2>2, <2>3
  <2> QED BY <2>4
<1>7. ASSUME NEW x \in Explanations, explanation'[x] # NoExplanation, explanation'[x].evidence # NoImage
      PROVE  Safe(explanation[x].owner, explanation[x].evidence)'
  <2> PICK f : f = explanation[x].owner
    OBVIOUS
  <2> PICK n : n = explanation[x].evidence
    OBVIOUS
  <2>1. f \in Employees /\ n \in FileNames /\ Safe(f, n)
    BY <1>2, <1>7 DEF ExplainInv, RowsSound, ExplanationRow, EvidenceInv, LinksSafe
  <2>2. n[1] # i
    <3> SUFFICES ASSUME n[1] = i PROVE FALSE
      OBVIOUS
    <3>1. n = <<i, n[2]>> /\ upload[i] = [owner |-> f, extension |-> n[2]]
      BY <2>1, NameParts DEF Safe
    <3>2. upload[i].owner = e /\ n = <<i, upload[i].extension>>
      BY <2>1, <3>1, NoUserIsNobody DEF lockToStore
    <3>3. x \in linkedTo(<<i, upload[i].extension>>)
      BY <1>2, <1>7, <3>2 DEF linkedTo
    <3> QED BY <3>2, <3>3 DEF lockToStore
  <2>3. Safe(f, n)'
    BY <1>5, <2>1, <2>2
  <2> QED BY <1>2, <2>3
<1> QED BY <1>4, <1>6, <1>7 DEF EvidenceInv, RefsSafe, LinksSafe

(* Writing the file and recording the upload touch nothing that is         *)
(* referred to: no safe picture belongs to the upload being stored.        *)
LEMMA StoreKeepsSafe ==
  ASSUME FilingsTyped, EvidenceTyped, NEW c \in Calls, writeFile(c) \/ store(c),
         NEW f, NEW n \in FileNames, Safe(f, n)
  PROVE  Safe(f, n)' /\ file'[n] = file[n]
<1> PICK t : t = filing[c]
  OBVIOUS
<1>1. Storing(c) /\ t.id \in Uploads /\ t.image \in Images /\ t.id # n[1]
  BY DEF writeFile, store, EvidenceTyped, Storing, Safe
<1>2. n[1] \in Uploads /\ n = <<n[1], n[2]>>
  BY NameParts
<1>3. \A d \in Calls : Storing(d)' => Storing(d) /\ filing'[d].id = filing[d].id
  <2>1. CASE writeFile(c)
    <3>1. filing'[c] = [t EXCEPT !.op = "stored"] /\ \A d \in Calls : d # c => filing'[d] = filing[d]
      BY <2>1 DEF writeFile, FilingsTyped
    <3>2. filing'[c].id = t.id
      BY <1>1, <3>1 DEF EvidenceTyped
    <3> QED BY <1>1, <3>1, <3>2 DEF Storing
  <2>2. CASE store(c)
    <3>1. filing'[c] = NoFiling /\ \A d \in Calls : d # c => filing'[d] = filing[d]
      BY <2>2 DEF store, FilingsTyped
    <3> QED BY <3>1 DEF Storing, NoFiling
  <2> QED BY <2>1, <2>2
<1>4. file'[n] = file[n]
  <2>1. nameOf(t.id, t.image) # n
    BY <1>1, <1>2 DEF nameOf
  <2> QED BY <2>1 DEF writeFile, store, EvidenceTyped
<1>5. upload'[n[1]] = upload[n[1]]
  BY <1>1, <1>2 DEF writeFile, store, EvidenceTyped
<1> QED BY <1>3, <1>4, <1>5 DEF Safe

LEMMA StoreEvidence ==
  ASSUME ExplainInv, EvidenceInv, NEW c \in Calls, writeFile(c) \/ store(c) PROVE EvidenceInv'
<1> PICK t : t = filing[c]
  OBVIOUS
<1>1. t \in [op: {"store", "stored"}, user: Employees, id: Uploads, image: Images]
  BY DEF writeFile, store, EvidenceInv, EvidenceTyped, Storing
<1>2. /\ \A d \in Calls : d # c => filing'[d] = filing[d]
      /\ filing'[c] = NoFiling \/ filing'[c] = [t EXCEPT !.op = "stored"]
  BY DEF writeFile, store, ExplainInv, FilingsTyped
<1>3. /\ \A d \in Calls : Storing(d)' => Storing(d) /\ filing'[d].id = filing[d].id
      /\ \A d \in Calls : Sending(d)' => Sending(d) /\ filing'[d] = filing[d]
  BY <1>1, <1>2 DEF Storing, Sending, NoFiling, writeFile, store
<1>4. UNCHANGED explanation
  BY DEF writeFile, store
<1>5. EvidenceTyped'
  <2>1. \A d \in Calls : Storing(d)' =>
          filing'[d] \in [op: {"store", "stored"}, user: Employees, id: Uploads, image: Images]
    BY <1>1, <1>2 DEF EvidenceInv, EvidenceTyped, Storing, NoFiling
  <2>2. file' \in [FileNames -> Images \cup {NoImage}]
    BY <1>1 DEF writeFile, store, nameOf, FileNames, EvidenceInv, EvidenceTyped
  <2>3. upload' = [i \in Uploads |-> upload'[i]]
    BY DEF writeFile, store, EvidenceInv, EvidenceTyped
  <2> QED BY <2>1, <2>2, <2>3 DEF EvidenceTyped
<1>6. StoresApart'
  BY <1>3 DEF EvidenceInv, StoresApart
<1>7. ASSUME NEW d \in Calls, Sending(d)', filing'[d].ref # NoImage PROVE Safe(filing[d].user, filing[d].ref)'
  <2> PICK f : f = filing'[d].user
    OBVIOUS
  <2> PICK n : n = filing'[d].ref
    OBVIOUS
  <2>1. n \in FileNames /\ Safe(f, n)
    BY <1>3, <1>7 DEF ExplainInv, FilingsTyped, EvidenceInv, RefsSafe
  <2>2. Safe(f, n)'
    BY <2>1, StoreKeepsSafe DEF ExplainInv, EvidenceInv
  <2> QED BY <2>2
<1>8. ASSUME NEW x \in Explanations, explanation'[x] # NoExplanation, explanation'[x].evidence # NoImage
      PROVE  Safe(explanation[x].owner, explanation[x].evidence)'
  <2> PICK f : f = explanation[x].owner
    OBVIOUS
  <2> PICK n : n = explanation[x].evidence
    OBVIOUS
  <2>1. n \in FileNames /\ Safe(f, n)
    BY <1>4, <1>8 DEF ExplainInv, RowsSound, ExplanationRow, EvidenceInv, LinksSafe
  <2>2. Safe(f, n)'
    BY <2>1, StoreKeepsSafe DEF ExplainInv, EvidenceInv
  <2> QED BY <1>4, <2>2
<1> QED BY <1>5, <1>6, <1>7, <1>8 DEF EvidenceInv, RefsSafe, LinksSafe

LEMMA InitEvidence == ASSUME ExplainInit PROVE EvidenceInv
<1>1. \A c \in Calls : ~Storing(c) /\ ~Sending(c)
  BY DEF ExplainInit, Storing, Sending, NoFiling
<1>2. EvidenceTyped
  <2>1. PICK i \in Images : upload = [u \in Uploads |-> [owner |-> NoUser, extension |-> extensionOf[i]]]
    BY DEF ExplainInit
  <2> QED BY <1>1, <2>1 DEF ExplainInit, EvidenceTyped
<1>3. ASSUME NEW x \in Explanations, explanation[x] # NoExplanation PROVE explanation[x].evidence = NoImage
  <2>1. explanation[x] \in {legacyRow(e, i, s[1], s[2]) : e \in Employees, i \in Issues,
                              s \in {<<"REQUESTED", "EMPLOYEE_RESPONSE">>, <<"SUBMITTED", "WAITING_ROUTING">>}}
    BY <1>3 DEF ExplainInit
  <2> QED BY <2>1 DEF legacyRow
<1> QED BY <1>1, <1>2, <1>3 DEF EvidenceInv, RefsSafe, LinksSafe, StoresApart

LEMMA NextEvidence == ASSUME ExplainInv, EvidenceInv, [ExplainNext]_explainVars PROVE EvidenceInv'
<1>1. ASSUME NEW c \in Calls, NEW e \in Employees, NEW x \in Explanations, NEW name \in FileNames \cup {NoImage},
             lockToRespond(c, e, x, name) \/ \E issue \in Issues : lockToSubmit(c, e, x, issue, name)
      PROVE  EvidenceInv'
  <2>1. PICK w : Checked(c, e, name, w)
    <3>1. CASE lockToRespond(c, e, x, name)
      <4> WITNESS [op |-> "respond", user |-> e, id |-> x, ref |-> name]
      <4> QED BY <3>1 DEF lockToRespond, Checked
    <3>2. ASSUME NEW issue \in Issues, lockToSubmit(c, e, x, issue, name) PROVE \E w : Checked(c, e, name, w)
      <4> WITNESS [op |-> "submit", user |-> e, id |-> x, issue |-> issue, ref |-> name]
      <4> QED BY <3>2 DEF lockToSubmit, Checked
    <3> QED BY <1>1, <3>1, <3>2
  <2> QED BY <2>1, LockEvidence
<1>2. ASSUME NEW c \in Calls, rollBackFiling(c) PROVE EvidenceInv'
  <2>1. UNCHANGED <<explanation, upload, file>> /\ \A d \in Calls : filing'[d] = filing[d] \/ filing'[d] = NoFiling
    BY <1>2 DEF rollBackFiling, ExplainInv, FilingsTyped
  <2> QED BY <2>1, QuietEvidence DEF RowsKeepEvidence
<1>3. FilingStep => EvidenceInv'
  BY <1>1, <1>2, LockToStoreEvidence, SubmitEvidence, StoreEvidence DEF FilingStep
<1>4. ReviewStep => EvidenceInv'
  BY ReviewKeepsEvidence, QuietEvidence
<1>5. OrgChange \/ UNCHANGED explainVars => EvidenceInv'
  BY QuietEvidence DEF OrgChange, explainVars, RowsKeepEvidence
<1> QED BY <1>3, <1>4, <1>5 DEF ExplainNext

(* A picture that an explanation refers to is never replaced or lost:      *)
(* store and submitEmployeeExplanation lock the upload, so an upload that  *)
(* is being stored is one that no row holds and no call has checked.       *)
THEOREM AttachedEvidenceStays == ExplainSpec => AttachedEvidenceKept
<1>1. ExplainInit => ExplainInv /\ EvidenceInv
  BY InitExplainInv, InitEvidence
<1>2. ExplainInv /\ EvidenceInv /\ [ExplainNext]_explainVars => (ExplainInv /\ EvidenceInv)'
  BY NextExplainInv, NextEvidence
<1>3. ExplainInv /\ EvidenceInv /\ [ExplainNext]_explainVars =>
        [\A name \in FileNames :
           linkedTo(name) # {} => file[name] # NoImage /\ file'[name] = file[name]]_explainVars
  <2> SUFFICES ASSUME ExplainInv, EvidenceInv, [ExplainNext]_explainVars, NEW name \in FileNames, linkedTo(name) # {}
               PROVE  file[name] # NoImage /\ file'[name] = file[name]
    OBVIOUS
  <2>1. PICK x \in Explanations : explanation[x] # NoExplanation /\ explanation[x].evidence = name
    BY DEF linkedTo
  <2>2. Safe(explanation[x].owner, name)
    BY <2>1, ExplanationAssumption DEF EvidenceInv, LinksSafe
  <2>3. file[name] # NoImage
    BY <2>2 DEF Safe
  <2>4. CASE \E c \in Calls : writeFile(c) \/ store(c)
    <3> PICK e : e = explanation[x].owner
      OBVIOUS
    <3> QED BY <2>2, <2>3, <2>4, StoreKeepsSafe DEF ExplainInv, EvidenceInv
  <2>5. CASE ~\E c \in Calls : writeFile(c) \/ store(c)
    <3>1. FilingStep => UNCHANGED file
      <4>1. ASSUME NEW c \in Calls, NEW e \in Employees, NEW x1 \in Explanations, NEW n \in FileNames \cup {NoImage}, NEW i
            PROVE  lockToRespond(c, e, x1, n) \/ lockToSubmit(c, e, x1, i, n) => UNCHANGED file
        BY DEF lockToRespond, lockToSubmit
      <4>2. ASSUME NEW c \in Calls
            PROVE  /\ submit(c) \/ respondToExplanation(c) \/ rollBackFiling(c) => UNCHANGED file
                   /\ \A e \in Employees, i \in Uploads, image \in Images : lockToStore(c, e, i, image) => UNCHANGED file
        BY DEF submit, respondToExplanation, rollBackFiling, lockToStore
      <4> QED BY <2>5, <4>1, <4>2 DEF FilingStep
    <3> QED BY <2>3, <3>1, ReviewKeepsEvidence DEF ExplainNext, OrgChange, explainVars
  <2> QED BY <2>4, <2>5
<1> QED BY <1>1, <1>2, <1>3, PTL DEF ExplainSpec, AttachedEvidenceKept

------------------------------------------------------------------------------
(* Types.  What remains after rows, routes and stores: the organisation,   *)
(* the uploads and what a call may be doing.                               *)
CallsTyped ==
  /\ OrgTypeOK
  /\ \A i \in Uploads : upload[i].owner \in UserOrNone /\ <<i, upload[i].extension>> \in FileNames
  /\ \A c \in Calls : filing[c].op \in {"NONE", "submit", "respond", "store", "stored"}

(* One call begins or ends something, the rest stays.                      *)
Becomes(c, w) ==
  /\ w.op \in {"NONE", "submit", "respond", "store", "stored"}
  /\ filing' = [filing EXCEPT ![c] = w]
  /\ UNCHANGED <<org, upload>>

LEMMA InitTyped == ASSUME ExplainInit PROVE CallsTyped
<1>1. PICK i \in Images : upload = [u \in Uploads |-> [owner |-> NoUser, extension |-> extensionOf[i]]]
  BY DEF ExplainInit
<1>2. \A u \in Uploads : upload[u].owner \in UserOrNone /\ <<u, upload[u].extension>> \in FileNames
  BY <1>1 DEF UserOrNone, FileNames
<1>3. OrgTypeOK
  BY OrgAssumption DEF ExplainInit, OrgInit, OrgTypeOK
<1>4. \A c \in Calls : filing[c].op = "NONE"
  BY DEF ExplainInit, NoFiling
<1> QED BY <1>2, <1>3, <1>4 DEF CallsTyped

(* A step of the calls leaves the organisation alone; it begins something, *)
(* ends, or comes to the write of the file.                                *)
LEMMA FilingTyped == ASSUME ExplainInv, EvidenceInv, CallsTyped, FilingStep PROVE CallsTyped'
<1>0. filing = [c \in Calls |-> filing[c]]
  BY DEF ExplainInv, FilingsTyped
<1>1. ASSUME NEW c \in Calls, NEW w, Becomes(c, w) PROVE CallsTyped'
  <2>1. \A d \in Calls : filing'[d] = IF d = c THEN w ELSE filing[d]
    BY <1>0, <1>1 DEF Becomes
  <2>2. OrgTypeOK'
    BY <1>1 DEF Becomes, CallsTyped, OrgTypeOK, org
  <2> QED BY <1>1, <2>1, <2>2 DEF Becomes, CallsTyped
<1>2. ASSUME NEW c \in Calls, NEW e \in Employees, NEW x \in Explanations, NEW name
      PROVE  /\ lockToRespond(c, e, x, name) => CallsTyped'
             /\ \A issue \in Issues : lockToSubmit(c, e, x, issue, name) => CallsTyped'
  <2>1. ASSUME lockToRespond(c, e, x, name) PROVE CallsTyped'
    <3>1. PICK w : w = [op |-> "respond", user |-> e, id |-> x, ref |-> name]
      OBVIOUS
    <3>2. Becomes(c, w)
      BY <2>1, <3>1 DEF lockToRespond, Becomes
    <3> QED BY <1>1, <3>2
  <2>2. ASSUME NEW issue \in Issues, lockToSubmit(c, e, x, issue, name) PROVE CallsTyped'
    <3>1. PICK w : w = [op |-> "submit", user |-> e, id |-> x, issue |-> issue, ref |-> name]
      OBVIOUS
    <3>2. Becomes(c, w)
      BY <2>2, <3>1 DEF lockToSubmit, Becomes
    <3> QED BY <1>1, <3>2
  <2> QED BY <2>1, <2>2
<1>3. ASSUME NEW c \in Calls, NEW e \in Employees, NEW i \in Uploads, NEW image \in Images, lockToStore(c, e, i, image)
      PROVE  CallsTyped'
  <2>1. PICK w : w = [op |-> "store", user |-> e, id |-> i, image |-> image]
    OBVIOUS
  <2>2. Becomes(c, w)
    BY <1>3, <2>1 DEF lockToStore, Becomes
  <2> QED BY <1>1, <2>2
<1>4. ASSUME NEW c \in Calls, submit(c) \/ respondToExplanation(c) \/ rollBackFiling(c) PROVE CallsTyped'
  <2>1. NoFiling.op = "NONE"
    BY DEF NoFiling
  <2>2. Becomes(c, NoFiling)
    BY <1>4, <2>1 DEF submit, respondToExplanation, rollBackFiling, Becomes
  <2> QED BY <1>1, <2>2
<1>5. ASSUME NEW c \in Calls, writeFile(c) PROVE CallsTyped'
  <2>1. \A d \in Calls : filing'[d].op = IF d = c THEN "stored" ELSE filing[d].op
    <3>1. filing[c] \in [op: {"store", "stored"}, user: Employees, id: Uploads, image: Images]
      BY <1>5 DEF writeFile, EvidenceInv, EvidenceTyped, Storing
    <3> QED BY <1>0, <1>5, <3>1 DEF writeFile
  <2>2. OrgTypeOK' /\ UNCHANGED upload
    BY <1>5 DEF writeFile, CallsTyped, OrgTypeOK, org
  <2> QED BY <2>1, <2>2 DEF CallsTyped
<1>6. ASSUME NEW c \in Calls, store(c) PROVE CallsTyped'
  <2> DEFINE t == filing[c]
  <2>1. t.user \in Employees /\ t.id \in Uploads /\ t.image \in Images
    BY <1>6 DEF store, EvidenceInv, EvidenceTyped, Storing
  <2>2. \A i \in Uploads :
          upload'[i] = IF i = t.id THEN [owner |-> t.user, extension |-> extensionOf[t.image]] ELSE upload[i]
    <3>1. upload = [i \in Uploads |-> upload[i]]
      BY DEF EvidenceInv, EvidenceTyped
    <3> QED BY <1>6, <2>1, <3>1 DEF store
  <2>3. \A i \in Uploads : upload'[i].owner \in UserOrNone /\ <<i, upload'[i].extension>> \in FileNames
    BY <2>1, <2>2, OrgAssumption DEF CallsTyped, UserOrNone, FileNames
  <2>4. \A d \in Calls : filing'[d] = IF d = c THEN NoFiling ELSE filing[d]
    BY <1>0, <1>6 DEF store
  <2>5. OrgTypeOK'
    BY <1>6 DEF store, CallsTyped, OrgTypeOK, org
  <2> QED BY <2>3, <2>4, <2>5 DEF CallsTyped, NoFiling
<1> QED BY <1>2, <1>3, <1>4, <1>5, <1>6 DEF FilingStep

LEMMA NextTyped == ASSUME ExplainInv, EvidenceInv, CallsTyped, [ExplainNext]_explainVars PROVE CallsTyped'
<1>1. ReviewStep => UNCHANGED <<org, upload, filing>>
  <2>1. ASSUME NEW u \in Users, NEW x \in Explanations
        PROVE  /\ confirm(u, x) => keep
               /\ \A d \in {"APPROVED", "REJECTED"} : review(u, x, d) \/ adminReview(u, x, d) => keep
               /\ \A r \in ExplainRoute : reroute(u, x, r) => keep
    BY DEF confirm, review, adminReview, decide, reroute
  <2>2. ASSUME NEW u \in Users, NEW e \in Employees, NEW r \in ExplainRoute, setDefaultRoute(u, e, r) PROVE keep
    BY <2>2 DEF setDefaultRoute
  <2>3. ReviewStep => keep
    BY <2>1, <2>2 DEF ReviewStep
  <2> QED BY <2>3 DEF keep
<1>2. OrgChange => OrgTypeOK' /\ UNCHANGED <<upload, filing>>
  BY OrgAssumption
  DEF CallsTyped, OrgTypeOK, OrgChange, OrgNext, GrantTakesEffect, GrantLapses, updateTeam, addMember, endMembership,
      changeStatus
<1> QED BY <1>1, <1>2, FilingTyped DEF ExplainNext, explainVars, CallsTyped, OrgTypeOK, org

(* Rows, routes, uploads and files keep their types, so that every         *)
(* reference an explanation holds names an upload and an extension.        *)
THEOREM ExplainTypes == ExplainSpec => []ExplainTypeOK
<1> DEFINE T == ExplainInv /\ EvidenceInv /\ CallsTyped
<1>1. ExplainInit => T
  BY InitExplainInv, InitEvidence, InitTyped
<1>2. T /\ [ExplainNext]_explainVars => T'
  BY NextExplainInv, NextEvidence, NextTyped
<1>3. T => ExplainTypeOK
  BY DEF ExplainInv, RowsSound, EvidenceInv, EvidenceTyped, CallsTyped, ExplainTypeOK
<1> QED BY <1>1, <1>2, <1>3, PTL DEF ExplainSpec

=============================================================================
