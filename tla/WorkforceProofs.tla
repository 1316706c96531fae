----------------------------- MODULE WorkforceProofs -----------------------------
(***************************************************************************)
(* Proofs about the components that MCWorkforce puts side by side and that *)
(* need no module of their own: grants, work schedules, places of          *)
(* employees, and the four screens of the Admin web; and, since in each of *)
(* its steps one component or screen moves by its own next-state relation  *)
(* and the others stay (OneMoves, OneWorks), about the run itself, for     *)
(* which it takes the proofs of trips, balances and explanations.  Every   *)
(* part has an inductive invariant: the property, the types and what its   *)
(* proof needs besides.  All hold for any number of grants, calls,         *)
(* planners, employees, trips, requests and loads.                         *)
(***************************************************************************)
EXTENDS MCWorkforce, BusinessTripsProofs, LeaveQuotaProofs, ExplanationsProofs, TLAPS

------------------------------------------------------------------------------
(* Grants of management (AccessGrants).  The check of overlaps is made     *)
(* under the lock of the account and the row inserted at the commit, so    *)
(* the inductive invariant speaks of the calls in between: no two are      *)
(* about one account (RequestsApart), and none overlaps a row in force     *)
(* (RequestsClear); with it the rows in force stay apart (GrantsApart).    *)

(* Two grants that may not both be in force. *)
clash(g, h) ==
  /\ g.user = h.user /\ g.scope = h.scope
  /\ ~g.revoked /\ ~h.revoked
  /\ windowsOverlap(g, h)

RequestsApart ==
  \A r1, r2 \in Requests :
    r1 # r2 /\ request[r1] # NoGrant /\ request[r2] # NoGrant
    => request[r1].user # request[r2].user

RequestsClear ==
  \A r \in Requests, h \in GrantRows :
    request[r] # NoGrant /\ grantRow[h] # NoGrant => ~clash(grantRow[h], request[r])

GrantsApart ==
  \A g, h \in GrantRows :
    g # h /\ grantRow[g] # NoGrant /\ grantRow[h] # NoGrant
    => ~clash(grantRow[g], grantRow[h])

GrantInv == AccessTypeOK /\ RequestsApart /\ RequestsClear /\ GrantsApart

(* Whether two grants clash does not depend on which is named first. *)
LEMMA ClashSymmetric ==
  ASSUME NEW g, NEW h, clash(g, h) PROVE clash(h, g)
  BY DEF clash, windowsOverlap

(* A row that has just been revoked clashes with nothing any more than it  *)
(* did: revocation only takes clashes away.                                *)
LEMMA RevokedClashesWithNothing ==
  ASSUME NEW g \in GrantRow, NEW h PROVE ~clash([g EXCEPT !.revoked = TRUE], h)
  BY DEF clash, GrantRow

LEMMA GrantStart == ASSUME AccessInit PROVE GrantInv
  BY AccessAssumption DEF AccessInit, GrantInv, AccessTypeOK, Instants, RequestsApart, RequestsClear, GrantsApart

LEMMA GrantTypes ==
  ASSUME AccessTypeOK, [AccessNext]_accessVars PROVE AccessTypeOK'
<1>1. ASSUME NEW r \in Requests, NEW g \in GrantRow, lockToGrant(r, g) PROVE AccessTypeOK'
  BY <1>1 DEF AccessTypeOK, lockToGrant
<1>2. ASSUME NEW r \in Requests, NEW id \in GrantRows, createGrant(r, id) PROVE AccessTypeOK'
  BY <1>2 DEF AccessTypeOK, createGrant
<1>3. ASSUME NEW r \in Requests, rollBackGrant(r) PROVE AccessTypeOK'
  BY <1>3 DEF AccessTypeOK, rollBackGrant
<1>4. ASSUME NEW id \in GrantRows, revokeGrant(id) PROVE AccessTypeOK'
  <2>1. grantRow[id] \in GrantRow
    BY <1>4 DEF AccessTypeOK, revokeGrant
  <2>2. [grantRow[id] EXCEPT !.revoked = TRUE] \in GrantRow
    BY <2>1 DEF GrantRow
  <2> QED BY <1>4, <2>2 DEF AccessTypeOK, revokeGrant
<1>5. ASSUME NEW s \in Squads, createTeam(s) PROVE AccessTypeOK'
  BY <1>5 DEF AccessTypeOK, createTeam
<1>6. ASSUME NEW s \in Squads, NEW status \in {"ACTIVE", "STOPPED"}, stopTeam(s, status) PROVE AccessTypeOK'
  BY <1>6 DEF AccessTypeOK, stopTeam
<1>7. ASSUME NEW user \in Managers, changeManager(user) PROVE AccessTypeOK'
  BY <1>7 DEF AccessTypeOK, changeManager
<1>8. CASE Elapse
  BY <1>8 DEF AccessTypeOK, Elapse
<1>9. CASE UNCHANGED accessVars
  BY <1>9 DEF AccessTypeOK, accessVars
<1>10. [user: Managers, scope: Scopes, from: Instants, until: 1..Forever, revoked: {FALSE}] \subseteq GrantRow
  BY DEF GrantRow
<1> QED
  BY <1>1, <1>2, <1>3, <1>4, <1>5, <1>6, <1>7, <1>8, <1>9, <1>10 DEF AccessNext

(* What a call found free under the lock of the account it still finds     *)
(* free at its commit, since no other call about the account is under way. *)
LEMMA GrantStep ==
  ASSUME GrantInv, AccessTypeOK', [AccessNext]_accessVars
  PROVE RequestsApart' /\ RequestsClear' /\ GrantsApart'
<1> USE DEF GrantInv
<1>1. ASSUME NEW r \in Requests, NEW g \in GrantRow, ~g.revoked, lockToGrant(r, g)
      PROVE RequestsApart' /\ RequestsClear' /\ GrantsApart'
  <2>0. /\ request[r] = NoGrant /\ request' = [request EXCEPT ![r] = g]
        /\ grantRow' = grantRow /\ accountUnlocked(g.user) /\ overlaps(g) = {}
    BY <1>1 DEF lockToGrant
  <2>1. ASSUME NEW q \in Requests, q # r, request[q] # NoGrant PROVE request[q].user # g.user
    BY <2>0, <2>1 DEF accountUnlocked, requested
  <2>2. RequestsApart'
    BY <2>0, <2>1 DEF RequestsApart, AccessTypeOK
  <2>3. ASSUME NEW h \in GrantRows, grantRow[h] # NoGrant PROVE ~clash(grantRow[h], g)
    BY <2>0, <2>3 DEF overlaps, given, clash
  <2>4. RequestsClear'
    BY <2>0, <2>3 DEF RequestsClear, AccessTypeOK
  <2>5. GrantsApart'
    BY <2>0 DEF GrantsApart
  <2> QED BY <2>2, <2>4, <2>5
<1>2. ASSUME NEW r \in Requests, NEW id \in GrantRows, createGrant(r, id)
      PROVE RequestsApart' /\ RequestsClear' /\ GrantsApart'
  <2>0. /\ request[r] # NoGrant /\ grantRow[id] = NoGrant
        /\ grantRow' = [grantRow EXCEPT ![id] = request[r]]
        /\ request' = [request EXCEPT ![r] = NoGrant]
    BY <1>2 DEF createGrant
  <2>1. RequestsApart'
    BY <2>0 DEF RequestsApart, AccessTypeOK
  <2>2. ASSUME NEW q \in Requests, q # r, request[q] # NoGrant PROVE ~clash(request[r], request[q])
    BY <2>0, <2>2 DEF RequestsApart, clash
  <2>3. RequestsClear'
    BY <2>0, <2>2 DEF RequestsClear, AccessTypeOK
  <2>4. ASSUME NEW h \in GrantRows, grantRow[h] # NoGrant
        PROVE ~clash(grantRow[h], request[r]) /\ ~clash(request[r], grantRow[h])
    BY <2>0, <2>4, ClashSymmetric DEF RequestsClear
  <2>5. GrantsApart'
    BY <2>0, <2>4 DEF GrantsApart, AccessTypeOK
  <2> QED BY <2>1, <2>3, <2>5
<1>3. ASSUME NEW r \in Requests, rollBackGrant(r)
      PROVE RequestsApart' /\ RequestsClear' /\ GrantsApart'
  BY <1>3 DEF rollBackGrant, RequestsApart, RequestsClear, GrantsApart, AccessTypeOK
<1>4. ASSUME NEW id \in GrantRows, revokeGrant(id)
      PROVE RequestsApart' /\ RequestsClear' /\ GrantsApart'
  <2>0. /\ grantRow[id] # NoGrant /\ request' = request
        /\ grantRow' = [grantRow EXCEPT ![id].revoked = TRUE]
    BY <1>4 DEF revokeGrant
  <2>1. grantRow[id] \in GrantRow
    BY <2>0 DEF AccessTypeOK
  <2>2. grantRow'[id] = [grantRow[id] EXCEPT !.revoked = TRUE]
    BY <2>0 DEF AccessTypeOK
  <2>3. ASSUME NEW h PROVE ~clash(grantRow'[id], h) /\ ~clash(h, grantRow'[id])
    BY <2>1, <2>2, RevokedClashesWithNothing, ClashSymmetric
  <2>4. \A h \in GrantRows : h # id => grantRow'[h] = grantRow[h]
    BY <2>0 DEF AccessTypeOK
  <2> QED BY <2>0, <2>3, <2>4 DEF RequestsApart, RequestsClear, GrantsApart
<1>5. ASSUME UNCHANGED <<grantRow, request>>
      PROVE RequestsApart' /\ RequestsClear' /\ GrantsApart'
  BY <1>5 DEF RequestsApart, RequestsClear, GrantsApart
<1>6. \A g \in [user: Managers, scope: Scopes, from: Instants, until: 1..Forever, revoked: {FALSE}] :
        g \in GrantRow /\ ~g.revoked
  BY DEF GrantRow
<1>7. CASE \E s \in Squads : createTeam(s) \/ \E status \in {"ACTIVE", "STOPPED"} : stopTeam(s, status)
  BY <1>5, <1>7 DEF createTeam, stopTeam
<1>8. CASE (\E user \in Managers : changeManager(user)) \/ Elapse \/ UNCHANGED accessVars
  BY <1>5, <1>8 DEF changeManager, Elapse, accessVars
<1> QED
  BY <1>1, <1>2, <1>3, <1>4, <1>6, <1>7, <1>8 DEF AccessNext

(* An ACTIVE grant is not revoked and its window holds the instant.        *)
LEMMA ActiveInsideWindow ==
  ASSUME NEW g \in GrantRow, NEW t \in Int, grantStatus(g, t) = "ACTIVE"
  PROVE ~g.revoked /\ g.from =< t /\ t < g.until
<1>1. g.revoked \in BOOLEAN /\ g.from \in Int /\ g.until \in Int
  BY AccessAssumption DEF GrantRow, Instants, Forever
<1>2. ~g.revoked
  BY <1>1 DEF grantStatus
<1>3. t < g.until
  BY <1>1, <1>2 DEF grantStatus
<1>4. grantEligible(g)
  BY <1>1, <1>2, <1>3 DEF grantStatus
<1>5. g.from =< t
  BY <1>1, <1>2, <1>3, <1>4 DEF grantStatus
<1> QED BY <1>2, <1>3, <1>5

LEMMA GrantsInForceApart == ASSUME GrantInv PROVE NoOverlappingGrants
<1> SUFFICES ASSUME NEW g \in given, NEW h \in given,
                    g # h, grantRow[g].user = grantRow[h].user, grantRow[g].scope = grantRow[h].scope,
                    ~grantRow[g].revoked, ~grantRow[h].revoked,
                    NEW t \in instant..LastInstant,
                    {grantStatus(grantRow[g], t), grantStatus(grantRow[h], t)} \subseteq {"ACTIVE"}
             PROVE FALSE
  BY DEF NoOverlappingGrants
<1>1. /\ g \in GrantRows /\ h \in GrantRows /\ grantRow[g] \in GrantRow /\ grantRow[h] \in GrantRow
      /\ grantRow[g] # NoGrant /\ grantRow[h] # NoGrant /\ t \in Int
  BY AccessAssumption DEF GrantInv, AccessTypeOK, given, Instants
<1>2. grantStatus(grantRow[g], t) = "ACTIVE" /\ grantStatus(grantRow[h], t) = "ACTIVE"
  OBVIOUS
<1>3. /\ grantRow[g].from =< t /\ t < grantRow[g].until
      /\ grantRow[h].from =< t /\ t < grantRow[h].until
  BY <1>1, <1>2, ActiveInsideWindow
<1>4. windowsOverlap(grantRow[g], grantRow[h])
  BY <1>1, <1>3, AccessAssumption DEF windowsOverlap, GrantRow, Instants, Forever
<1> QED BY <1>1, <1>4 DEF GrantInv, GrantsApart, clash

(* In every reachable state the clock, the rows of grants and teams and    *)
(* the calls under way have their types (OrganizationAccessService).       *)
THEOREM AccessTypeCorrect == AccessSpec => []AccessTypeOK
<1>1. ASSUME AccessInit PROVE AccessTypeOK
  BY <1>1, GrantStart DEF GrantInv
<1> QED BY <1>1, GrantTypes, PTL DEF AccessSpec

(* However many calls of createGrant are under way, the rows in force and  *)
(* what those calls are about to insert stay apart.                        *)
THEOREM RequestsAndGrantsApart == AccessSpec => []GrantInv
<1>1. ASSUME GrantInv, [AccessNext]_accessVars PROVE GrantInv'
  <2>1. AccessTypeOK'
    BY <1>1, GrantTypes DEF GrantInv
  <2> QED BY <1>1, <2>1, GrantStep DEF GrantInv
<1> QED BY GrantStart, <1>1, PTL DEF AccessSpec

(* One account never has two grants of one role and scope in force, now or *)
(* later, for any number of Admins creating and revoking grants at once.   *)
THEOREM GrantsNeverOverlap == AccessSpec => []NoOverlappingGrants
  BY RequestsAndGrantsApart, GrantsInForceApart, PTL

------------------------------------------------------------------------------
(* Work schedules (WorkSchedules).                                         *)

(* What an assign under way has closed is still there, open and before its *)
(* first day, and no other assign has closed it.                           *)
ClosedHeld ==
  /\ \A p \in underWay : planning[p].row.from <= planning[p].row.to
  /\ \A p \in underWay : \A r \in planning[p].closed :
       /\ r \in planned /\ r.owner = planning[p].row.owner
       /\ r.to = Open /\ r.from < planning[p].row.from
  /\ \A p, q \in underWay : p # q => planning[p].closed \cap planning[q].closed = {}

ScheduleInv == ScheduleTypeOK /\ ClosedHeld

LEMMA ScheduleStart == ASSUME ScheduleInit PROVE ScheduleInv
  BY DEF ScheduleInit, ScheduleInv, ScheduleTypeOK, ClosedHeld, underWay

(* A row that is closed ends the day before and is otherwise what it was.  *)
LEMMA ClosedRow ==
  ASSUME NEW r \in PlanRow, NEW from \in Dates, r.from < from, NEW s, s = [r EXCEPT !.to = from - 1]
  PROVE s \in PlanRow /\ s.from <= s.to /\ s.to = from - 1
        /\ s.owner = r.owner /\ s.schedule = r.schedule /\ s.from = r.from
<1>1. r.from \in Dates /\ from - 1 \in Dates
  BY ScheduleAssumption DEF PlanRow, Dates
<1> QED BY <1>1, ScheduleAssumption DEF PlanRow, Dates, Open

(* The transaction of a planner, with types. *)
LEMMA Planned ==
  ASSUME ScheduleInv, NEW p \in underWay
  PROVE /\ p \in Planners /\ planning[p].row \in PlanRow /\ planning[p].closed \subseteq PlanRow
        /\ planning[p].row.from \in Dates
  BY DEF ScheduleInv, ScheduleTypeOK, underWay, PlanRow

LEMMA ScheduleStep ==
  ASSUME ScheduleInv, [ScheduleNext]_scheduleVars PROVE ScheduleInv'
<1> USE DEF ScheduleInv
<1>1. ASSUME NEW p \in Planners, assign(p) PROVE ScheduleInv'
  <2> PICK row : row = planning[p].row
    OBVIOUS
  <2> PICK closed : closed = planning[p].closed
    OBVIOUS
  <2>1. /\ planned' = (planned \ closed) \cup closedAt(closed, row.from) \cup {row}
        /\ planning' = [planning EXCEPT ![p] = NoPlan] /\ inUse' = inUse /\ p \in underWay
    BY <1>1 DEF assign, underWay
  <2>2. row \in PlanRow /\ closed \subseteq PlanRow /\ row.from \in Dates /\ row.from <= row.to
        /\ \A r \in closed : r.from < row.from
    BY <2>1, Planned DEF ClosedHeld
  <2>3. \A s \in closedAt(closed, row.from) : s \in PlanRow /\ s.from <= s.to
    BY <2>2, ClosedRow DEF closedAt
  <2>4. ScheduleTypeOK'
    BY <2>1, <2>2, <2>3 DEF ScheduleTypeOK
  <2>5. underWay' = underWay \ {p} /\ \A q \in underWay' : planning'[q] = planning[q]
    BY <2>1 DEF underWay, ScheduleTypeOK
  <2>6. \A q \in underWay' : \A r \in planning[q].closed : r \in planned'
    BY <2>1, <2>5 DEF ClosedHeld
  <2>7. ClosedHeld'
    BY <2>5, <2>6 DEF ClosedHeld
  <2> QED BY <2>4, <2>7
<1>2. ASSUME NEW p \in Planners, rollBackAssign(p) PROVE ScheduleInv'
  <2>1. planning' = [planning EXCEPT ![p] = NoPlan] /\ UNCHANGED <<inUse, planned>>
    BY <1>2 DEF rollBackAssign
  <2>2. underWay' = underWay \ {p} /\ \A q \in underWay' : planning'[q] = planning[q]
    BY <2>1 DEF underWay, ScheduleTypeOK
  <2>3. ClosedHeld'
    BY <2>1, <2>2 DEF ClosedHeld
  <2> QED BY <2>1, <2>3 DEF ScheduleTypeOK
<1>3. ASSUME NEW p \in Planners, NEW row \in PlanRow, closePreviousOpenAssignment(p, row) PROVE ScheduleInv'
  <2> PICK closing : closing = openBefore(row.owner, row.from)
    OBVIOUS
  <2>1. /\ planning' = [planning EXCEPT ![p] = [row |-> row, closed |-> closing]]
        /\ UNCHANGED <<inUse, planned>> /\ planning[p] = NoPlan
        /\ row.from <= row.to /\ closing \cap rowsLocked = {}
    BY <1>3 DEF closePreviousOpenAssignment, validateRange
  <2>2. \A r \in closing : r \in planned /\ r \in PlanRow /\ r.owner = row.owner /\ r.to = Open /\ r.from < row.from
    BY DEF openBefore, plansOf, ScheduleTypeOK
  <2>3. ScheduleTypeOK'
    BY <2>1, <2>2 DEF ScheduleTypeOK
  <2>4. /\ underWay' \subseteq underWay \cup {p} /\ p \notin underWay
        /\ planning'[p].row = row /\ planning'[p].closed = closing
        /\ \A q \in underWay : planning'[q] = planning[q]
    BY <2>1 DEF underWay, ScheduleTypeOK
  <2>5. \A q \in underWay : planning[q].closed \cap closing = {}
    BY <2>1 DEF rowsLocked
  <2>6. ClosedHeld'
    <3>1. \A q \in underWay' : planning'[q].row.from <= planning'[q].row.to
      BY <2>1, <2>4 DEF ClosedHeld
    <3>2. \A q \in underWay' : \A r \in planning'[q].closed :
            /\ r \in planned' /\ r.owner = planning'[q].row.owner
            /\ r.to = Open /\ r.from < planning'[q].row.from
      BY <2>1, <2>2, <2>4 DEF ClosedHeld
    <3>3. \A q, s \in underWay' : q # s => planning'[q].closed \cap planning'[s].closed = {}
      BY <2>4, <2>5 DEF ClosedHeld
    <3> QED BY <3>1, <3>2, <3>3 DEF ClosedHeld
  <2> QED BY <2>3, <2>6
<1>4. ASSUME NEW s \in Schedules, updateSchedule(s) PROVE ScheduleInv'
  BY <1>4 DEF updateSchedule, ScheduleTypeOK, ClosedHeld, underWay
<1>5. CASE UNCHANGED scheduleVars
  BY <1>5 DEF scheduleVars, ScheduleTypeOK, ClosedHeld, underWay
<1> QED BY <1>1, <1>2, <1>3, <1>4, <1>5 DEF ScheduleNext

(* What is followed on a day depends on the schedules and first days of    *)
(* the rows that cover it.                                                 *)
LEMMA FollowedWithin ==
  ASSUME NEW A, NEW B, NEW date,
         \A r \in A : covers(r, date) => \E s \in B : covers(s, date) /\ s.schedule = r.schedule /\ s.from = r.from,
         \A s \in B : covers(s, date) => \E r \in A : covers(r, date) /\ r.schedule = s.schedule /\ r.from = s.from
  PROVE followed(A, date) \subseteq followed(B, date)
<1> DEFINE now(R) == {r \in R : covers(r, date) /\ r.schedule \in inUse}
<1>1. \A r \in now(A) : \E s \in now(B) : s.schedule = r.schedule /\ s.from = r.from
  OBVIOUS
<1>2. \A s \in now(B) : \E r \in now(A) : r.schedule = s.schedule /\ r.from = s.from
  OBVIOUS
<1>3. \A R : followed(R, date) = {r.schedule : r \in {x \in now(R) : \A y \in now(R) : x.from >= y.from}}
  BY DEF followed
<1> HIDE DEF now
<1> SUFFICES ASSUME NEW r \in now(A), \A y \in now(A) : r.from >= y.from
             PROVE r.schedule \in followed(B, date)
  BY <1>3
<1>4. PICK s \in now(B) : s.schedule = r.schedule /\ s.from = r.from
  BY <1>1
<1>5. \A y \in now(B) : s.from >= y.from
  BY <1>2, <1>4
<1> QED BY <1>3, <1>4, <1>5

(* The rows of an owner say the same of a day before an assignment as      *)
(* before its commit.                                                      *)
LEMMA RowsBefore ==
  ASSUME ScheduleInv, NEW p \in underWay, assign(p), NEW o, NEW d \in 0..(planning[p].row.from - 1)
  PROVE followed(plansOf(o), d)' = followed(plansOf(o), d)
<1> PICK row : row = planning[p].row
  OBVIOUS
<1> PICK closed : closed = planning[p].closed
  OBVIOUS
<1> PICK A : A = plansOf(o)
  OBVIOUS
<1> PICK B : B = plansOf(o)'
  OBVIOUS
<1>1. planned' = (planned \ closed) \cup closedAt(closed, row.from) \cup {row} /\ inUse' = inUse
  BY DEF assign
<1>2. /\ row \in PlanRow /\ closed \subseteq PlanRow /\ row.from \in Dates /\ d \in Int /\ d < row.from
      /\ d <= Open
  BY Planned, ScheduleAssumption DEF Dates, Open
<1>3. \A r \in closed : r \in planned /\ r.to = Open /\ r.from < row.from /\ r.owner = row.owner
  BY DEF ScheduleInv, ClosedHeld
<1>4. \A r \in closed :
        /\ [r EXCEPT !.to = row.from - 1].owner = r.owner
        /\ [r EXCEPT !.to = row.from - 1].schedule = r.schedule
        /\ [r EXCEPT !.to = row.from - 1].from = r.from
        /\ [r EXCEPT !.to = row.from - 1].to = row.from - 1
  BY <1>2, <1>3, ClosedRow
<1>5. ~covers(row, d)
  BY <1>2 DEF covers, Dates
<1>6. \A r \in closed : covers([r EXCEPT !.to = row.from - 1], d) <=> covers(r, d)
  <2> SUFFICES ASSUME NEW r \in closed PROVE covers([r EXCEPT !.to = row.from - 1], d) <=> covers(r, d)
    OBVIOUS
  <2>1. d <= r.to /\ d <= row.from - 1
    BY <1>2, <1>3 DEF Dates
  <2> QED BY <1>4, <2>1 DEF covers
<1>7. /\ \A r \in A : r \in planned /\ r.owner = o
      /\ \A r \in planned : r.owner = o => r \in A
      /\ \A r \in B : r \in planned' /\ r.owner = o
      /\ \A r \in planned' : r.owner = o => r \in B
  BY DEF plansOf
<1>8. \A r \in A : covers(r, d) => \E s \in B : covers(s, d) /\ s.schedule = r.schedule /\ s.from = r.from
  <2> SUFFICES ASSUME NEW r \in A, covers(r, d)
               PROVE \E s \in B : covers(s, d) /\ s.schedule = r.schedule /\ s.from = r.from
    OBVIOUS
  <2>1. CASE r \in closed
    <3> PICK s : s = [r EXCEPT !.to = row.from - 1]
      OBVIOUS
    <3>1. s \in planned'
      BY <1>1, <2>1 DEF closedAt
    <3>2. s.owner = r.owner /\ s.schedule = r.schedule /\ s.from = r.from /\ covers(s, d)
      BY <1>4, <1>6, <2>1
    <3> QED BY <1>7, <3>1, <3>2
  <2>2. CASE r \notin closed
    BY <1>1, <1>7, <2>2
  <2> QED BY <2>1, <2>2
<1>9. \A s \in B : covers(s, d) => \E r \in A : covers(r, d) /\ r.schedule = s.schedule /\ r.from = s.from
  <2> SUFFICES ASSUME NEW s \in B, covers(s, d)
               PROVE \E r \in A : covers(r, d) /\ r.schedule = s.schedule /\ r.from = s.from
    OBVIOUS
  <2>1. s \in planned \/ \E r \in closed : s = [r EXCEPT !.to = row.from - 1]
    BY <1>1, <1>5, <1>7 DEF closedAt
  <2>2. CASE s \in planned
    BY <1>7, <2>2
  <2>3. ASSUME NEW r \in closed, s = [r EXCEPT !.to = row.from - 1]
        PROVE \E t \in A : covers(t, d) /\ t.schedule = s.schedule /\ t.from = s.from
    <3>1. s.owner = r.owner /\ s.schedule = r.schedule /\ s.from = r.from /\ covers(r, d)
      BY <1>4, <1>6, <2>3
    <3> QED BY <1>3, <1>7, <3>1
  <2> QED BY <2>1, <2>2, <2>3
<1>10. followed(A, d) \subseteq followed(B, d)
  BY <1>8, <1>9, FollowedWithin
<1>11. followed(B, d) \subseteq followed(A, d)
  BY <1>8, <1>9, FollowedWithin
<1>12. followed(plansOf(o), d)' = followed(B, d)
  BY <1>1 DEF followed
<1> QED BY <1>10, <1>11, <1>12

LEMMA SchedulesKeepPast ==
  ASSUME ScheduleInv, [ScheduleNext]_scheduleVars PROVE pastScheduleKept
<1> SUFFICES ASSUME NEW p \in underWay, planned' # planned, planning'[p] = NoPlan,
                    NEW e \in DOMAIN homeOf, NEW d \in 0..(planning[p].row.from - 1)
             PROVE resolveSchedule(e, d)' = resolveSchedule(e, d)
  BY DEF pastScheduleKept
<1>1. PICK q \in Planners : assign(q)
  BY DEF ScheduleNext, rollBackAssign, closePreviousOpenAssignment, updateSchedule, scheduleVars
<1>2. q = p
  BY <1>1 DEF assign, underWay, ScheduleInv, ScheduleTypeOK
<1>3. \A o : followed(plansOf(o), d)' = followed(plansOf(o), d)
  BY <1>1, <1>2, RowsBefore
<1> QED BY <1>3 DEF resolveSchedule

(* In every reachable state rows and transactions have their types and     *)
(* what an assign under way has closed is still there, its own             *)
(* (closePreviousOpenAssignment).                                          *)
THEOREM ClosedRowsHeld == ScheduleSpec => []ScheduleInv
  BY ScheduleStart, ScheduleStep, PTL DEF ScheduleSpec

(* No assignment rewrites the days before its own first day, with any      *)
(* number of assign calls at once (assign, resolveSchedule).               *)
THEOREM PastSchedulesKept == ScheduleSpec => [][pastScheduleKept]_scheduleVars
  BY ClosedRowsHeld, SchedulesKeepPast, PTL DEF ScheduleSpec

------------------------------------------------------------------------------
(* Places of employees (EmployeeLifecycle).                                *)

(* An edit that moves an employee has places to move him to. *)
EditsTyped ==
  /\ DOMAIN edits = Editors
  /\ \A d \in Editors : edits[d].op = "move" => edits[d].units \subseteq Units

LifecycleInv == LifecycleTypeOK /\ EditsTyped

LEMMA LifecycleStart == ASSUME LifecycleInit PROVE LifecycleInv
  BY DEF LifecycleInit, LifecycleInv, LifecycleTypeOK, EditsTyped, NoEdit

LEMMA Placed ==
  ASSUME NEW e \in Profiles, NEW primary, NEW units \in SUBSET Units, NEW from \in CalendarDays
  PROVE \A h \in placed(e, primary, units, from) : h \in HomeRow /\ h.from <= h.to /\ h.employee = e /\ h.from = from
<1>1. from <= Unended /\ from \in CalendarDays
  BY LifecycleAssumption DEF CalendarDays, Unended
<1>2. ASSUME NEW u \in units, NEW flag \in BOOLEAN,
             NEW h, h = [employee |-> e, unit |-> u, primary |-> flag, from |-> from, to |-> Unended]
      PROVE h \in HomeRow /\ h.from <= h.to /\ h.employee = e /\ h.from = from
  BY <1>1, <1>2 DEF HomeRow
<1> SUFFICES ASSUME NEW u \in units,
                    NEW h, h = [employee |-> e, unit |-> u, primary |-> u = primary, from |-> from, to |-> Unended]
             PROVE h \in HomeRow /\ h.from <= h.to /\ h.employee = e /\ h.from = from
  BY DEF placed
<1>3. (u = primary) \in BOOLEAN
  OBVIOUS
<1> QED BY <1>2, <1>3, Zenon

(* A place that ends is otherwise what it was, and on the days before      *)
(* today altogether what it was.                                           *)
LEMMA Ended ==
  ASSUME NEW h \in HomeRow, h.to = Unended, NEW day \in CalendarDays, NEW g, g = ended(h, day)
  PROVE /\ g \in HomeRow /\ g.from <= g.to
        /\ g.employee = h.employee /\ g.unit = h.unit
        /\ \A d \in 0..(day - 1) : (g.from <= d /\ d <= g.to) <=> (h.from <= d /\ d <= h.to)
<1> PICK to : to = IF h.from < day THEN day - 1 ELSE h.from
  OBVIOUS
<1>1. h.from \in CalendarDays /\ to \in CalendarDays /\ h.from <= to
  BY LifecycleAssumption DEF HomeRow, CalendarDays
<1>2. g = [h EXCEPT !.to = to]
  BY DEF ended
<1>3. g \in HomeRow /\ g.from = h.from /\ g.to = to /\ g.employee = h.employee /\ g.unit = h.unit
  BY <1>1, <1>2 DEF HomeRow
<1>4. \A d \in 0..(day - 1) : d <= Unended
  BY LifecycleAssumption DEF CalendarDays, Unended
<1>5. \A d \in 0..(day - 1) : h.from <= d => d <= to
  BY <1>1 DEF CalendarDays
<1> QED BY <1>1, <1>3, <1>4, <1>5

(* The rows of a move: what was there, what it ends and the new places.    *)
LEMMA Moved ==
  ASSUME LifecycleInv, NEW e \in Profiles, NEW row, NEW units \in SUBSET Units,
         NEW after, after = moved(e, row, units)
  PROVE /\ \A h \in after : h \in HomeRow /\ h.from <= h.to
        /\ \A f \in Profiles, d \in 0..(today - 1) :
             {h.unit : h \in {g \in after : g.employee = f /\ g.from <= d /\ d <= g.to}} = homeOn(f, d)
<1> PICK current : current = {h \in home : h.employee = e /\ h.to = Unended}
  OBVIOUS
<1> PICK new : new = placed(e, row.unit, units, today)
  OBVIOUS
<1>1. after = (home \ current) \cup {ended(h, today) : h \in current} \cup new
  BY DEF moved
<1>2. today \in CalendarDays /\ home \subseteq HomeRow /\ (\A h \in home : h.from <= h.to)
      /\ current \subseteq home /\ \A h \in current : h.to = Unended
  BY DEF LifecycleInv, LifecycleTypeOK
<1>3. \A h \in new : h \in HomeRow /\ h.from <= h.to /\ h.employee = e /\ h.from = today
  BY <1>2, Placed
<1>4. \A h \in current :
        /\ ended(h, today) \in HomeRow /\ ended(h, today).from <= ended(h, today).to
        /\ ended(h, today).employee = h.employee /\ ended(h, today).unit = h.unit
        /\ \A d \in 0..(today - 1) :
             (ended(h, today).from <= d /\ d <= ended(h, today).to) <=> (h.from <= d /\ d <= h.to)
  BY <1>2, Ended
<1>5. \A h \in after : h \in HomeRow /\ h.from <= h.to
  BY <1>1, <1>2, <1>3, <1>4
<1>6. ASSUME NEW f \in Profiles, NEW d \in 0..(today - 1)
      PROVE {h.unit : h \in {g \in after : g.employee = f /\ g.from <= d /\ d <= g.to}} = homeOn(f, d)
  <2> DEFINE there(g) == g.employee = f /\ g.from <= d /\ d <= g.to
  <2>1. \A g \in new : ~there(g)
    BY <1>2, <1>3 DEF CalendarDays
  <2>2. \A h \in current : there(ended(h, today)) <=> there(h)
    BY <1>4
  <2>3. homeOn(f, d) = {h.unit : h \in {g \in home : there(g)}}
    BY DEF homeOn
  <2> HIDE DEF there
  <2>4. ASSUME NEW g \in after, there(g) PROVE \E h \in home : there(h) /\ h.unit = g.unit
    <3>1. CASE g \in home
      BY <2>4, <3>1
    <3>2. ASSUME NEW h \in current, g = ended(h, today) PROVE \E k \in home : there(k) /\ k.unit = g.unit
      <4>1. there(h) /\ h \in home /\ h.unit = g.unit
        BY <1>2, <1>4, <2>2, <2>4, <3>2
      <4> QED BY <4>1
    <3> QED BY <1>1, <2>1, <2>4, <3>1, <3>2
  <2>5. ASSUME NEW h \in home, there(h) PROVE \E g \in after : there(g) /\ g.unit = h.unit
    <3>1. CASE h \in current
      <4>1. ended(h, today) \in after /\ there(ended(h, today)) /\ ended(h, today).unit = h.unit
        BY <1>1, <1>4, <2>2, <2>5, <3>1
      <4> QED BY <4>1
    <3>2. CASE h \notin current
      BY <1>1, <2>5, <3>2
    <3> QED BY <3>1, <3>2
  <2>6. {h.unit : h \in {g \in after : there(g)}} = {h.unit : h \in {g \in home : there(g)}}
    BY <2>4, <2>5
  <2> QED BY <2>3, <2>6 DEF there
<1> QED BY <1>5, <1>6

LEMMA LifecycleStep ==
  ASSUME LifecycleInv, [LifecycleNext]_lifecycleVars PROVE LifecycleInv' /\ pastHomesKept
<1> USE DEF LifecycleInv
<1>0. ASSUME UNCHANGED home PROVE pastHomesKept
  BY <1>0 DEF pastHomesKept, homeOn
<1>1. ASSUME NEW e \in Profiles, NEW primary \in Units, NEW units \in SUBSET Units, NEW hired \in CalendarDays,
             createEmployee(e, primary, units, hired)
      PROVE LifecycleInv' /\ pastHomesKept
  <2> PICK row : row = [active |-> TRUE, unit |-> primary, hired |-> hired, endDate |-> Unended]
    OBVIOUS
  <2> PICK new : new = placed(e, primary, units, hired)
    OBVIOUS
  <2>1. row \in ProfileRow
    BY DEF ProfileRow
  <2>2. /\ profile[e] = NoProfile /\ profile' = [profile EXCEPT ![e] = row]
        /\ accountActive' = [accountActive EXCEPT ![e] = TRUE]
        /\ home' = home \cup new /\ UNCHANGED <<today, edits>>
    BY <1>1 DEF createEmployee
  <2>3. \A h \in new : h \in HomeRow /\ h.from <= h.to /\ h.employee = e
    BY Placed
  <2>4. LifecycleInv'
    BY <2>1, <2>2, <2>3 DEF LifecycleTypeOK, EditsTyped
  <2>5. ASSUME NEW f \in Profiles, f # e, NEW d PROVE homeOn(f, d)' = homeOn(f, d)
    BY <2>2, <2>3, <2>5 DEF homeOn
  <2>6. pastHomesKept
    BY <2>2, <2>5 DEF pastHomesKept
  <2> QED BY <2>4, <2>6
<1>2. ASSUME NEW d \in Editors, NEW e \in Profiles, NEW edit, readProfile(d, e, edit),
             edit.employee = e, edit.row \in ProfileRow, edit.op = "move" => edit.units \subseteq Units
      PROVE LifecycleInv' /\ pastHomesKept
  BY <1>0, <1>2 DEF readProfile, LifecycleTypeOK, EditsTyped
<1>3. \A e \in Profiles : profile[e] # NoProfile => profile[e] \in ProfileRow
  BY DEF LifecycleTypeOK
<1>4. ASSUME NEW d \in Editors, NEW e \in Profiles, NEW primary \in Units, NEW units \in SUBSET Units,
             readToMove(d, e, primary, units)
      PROVE LifecycleInv' /\ pastHomesKept
  <2> PICK edit : edit = [op |-> "move", employee |-> e, row |-> [profile[e] EXCEPT !.unit = primary], units |-> units]
    OBVIOUS
  <2>1. readProfile(d, e, edit) /\ profile[e] \in ProfileRow
    BY <1>3, <1>4 DEF readToMove, readProfile
  <2>2. [profile[e] EXCEPT !.unit = primary] \in ProfileRow
    BY <2>1 DEF ProfileRow
  <2> QED BY <1>2, <2>1, <2>2
<1>5. ASSUME NEW d \in Editors, NEW e \in Profiles, NEW day \in CalendarDays, readToEdit(d, e, day)
      PROVE LifecycleInv' /\ pastHomesKept
  <2> PICK edit : edit = [op |-> "edit", employee |-> e, row |-> [profile[e] EXCEPT !.hired = day]]
    OBVIOUS
  <2>1. readProfile(d, e, edit) /\ profile[e] \in ProfileRow
    BY <1>3, <1>5 DEF readToEdit, readProfile
  <2>2. [profile[e] EXCEPT !.hired = day] \in ProfileRow
    BY <2>1 DEF ProfileRow
  <2> QED BY <1>2, <2>1, <2>2
<1>6. ASSUME NEW d \in Editors, NEW e \in Profiles, NEW day \in CalendarDays, readToChangeStatus(d, e, day)
      PROVE LifecycleInv' /\ pastHomesKept
  <2> PICK end : end = IF profile[e].active THEN day ELSE Unended
    OBVIOUS
  <2> PICK active : active = ~profile[e].active
    OBVIOUS
  <2> PICK row : row = [profile[e] EXCEPT !.active = active, !.endDate = end]
    OBVIOUS
  <2> PICK edit : edit = [op |-> "status", employee |-> e, row |-> row]
    OBVIOUS
  <2>1. readProfile(d, e, edit) /\ profile[e] \in ProfileRow
    BY <1>3, <1>6 DEF readToChangeStatus, readProfile
  <2>2. row \in ProfileRow
    BY <2>1 DEF ProfileRow
  <2> QED BY <1>2, <2>1, <2>2
<1>7. ASSUME NEW d \in Editors, updateEmployee(d) PROVE LifecycleInv' /\ pastHomesKept
  <2> PICK e : e = edits[d].employee
    OBVIOUS
  <2> PICK row : row = edits[d].row
    OBVIOUS
  <2> PICK units : units = edits[d].units
    OBVIOUS
  <2>1. /\ e \in Profiles /\ row \in ProfileRow /\ edits[d].op \in {"move", "edit"}
        /\ profile' = [profile EXCEPT ![e] = row]
        /\ edits' = [edits EXCEPT ![d] = NoEdit]
        /\ UNCHANGED <<today, accountActive>>
        /\ home' = IF edits[d].op = "move" THEN moved(e, row, units) ELSE home
    BY <1>7 DEF updateEmployee, LifecycleTypeOK
  <2>2. edits[d].op = "move" => units \in SUBSET Units
    BY DEF EditsTyped
  <2>3. \A h \in home' : h \in HomeRow /\ h.from <= h.to
    BY <2>1, <2>2, Moved DEF LifecycleTypeOK
  <2>4. LifecycleInv'
    BY <2>1, <2>3 DEF LifecycleTypeOK, EditsTyped, NoEdit
  <2>5. CASE edits[d].op = "move"
    <3> PICK after : after = moved(e, row, units)
      OBVIOUS
    <3>1. home' = after
      BY <2>1, <2>5
    <3>2. \A f \in Profiles, day \in 0..(today - 1) :
            {h.unit : h \in {g \in after : g.employee = f /\ g.from <= day /\ day <= g.to}} = homeOn(f, day)
      BY <2>1, <2>2, <2>5, Moved
    <3>3. \A f, day : homeOn(f, day)' = {h.unit : h \in {g \in after : g.employee = f /\ g.from <= day /\ day <= g.to}}
      BY <3>1 DEF homeOn
    <3> QED BY <2>4, <3>2, <3>3 DEF pastHomesKept
  <2>6. CASE edits[d].op # "move"
    <3>1. home' = home
      BY <2>1, <2>6
    <3> QED BY <1>0, <2>4, <3>1
  <2> QED BY <2>4, <2>5, <2>6
<1>8. ASSUME NEW d \in Editors, changeEmployeeStatus(d) \/ rollBackEdit(d) PROVE LifecycleInv' /\ pastHomesKept
  BY <1>0, <1>8 DEF changeEmployeeStatus, rollBackEdit, LifecycleTypeOK, EditsTyped, NoEdit, ProfileRow
<1>9. CASE NewDay
  BY <1>0, <1>9 DEF NewDay, LifecycleTypeOK, EditsTyped
<1>10. CASE UNCHANGED lifecycleVars
  BY <1>0, <1>10 DEF lifecycleVars, LifecycleTypeOK, EditsTyped
<1> QED BY <1>1, <1>4, <1>5, <1>6, <1>7, <1>8, <1>9, <1>10 DEF LifecycleNext

(* No change of places rewrites the days before today, with any number of  *)
(* edits at once (update, saveAssignments).                                *)
THEOREM PastHomesKept == LifecycleSpec => [][pastHomesKept]_lifecycleVars
<1>1. LifecycleSpec => []LifecycleInv
  BY LifecycleStart, LifecycleStep, PTL DEF LifecycleSpec
<1> QED BY <1>1, LifecycleStep, PTL DEF LifecycleSpec

------------------------------------------------------------------------------
(* The page of employees (EmployeesPage).                                  *)

(* The dialog asks of an employee on the page what needs one.              *)
AskedOfSomeone == asked.next \in {"edit", "history", "status"} => asked.of \in People

PageInv == PageTypeOK /\ AskedOfSomeone /\ OnePrimaryAssignment

(* A draft is a sequence of rows. *)
LEMMA DraftRows ==
  ASSUME NEW rows \in Drafts
  PROVE /\ rows \in Seq(AssignmentDraft) /\ Len(rows) \in 0..MaxAssignments
        /\ rows \in [1..Len(rows) -> AssignmentDraft]
<1>1. PICK n \in 0..MaxAssignments : rows \in [1..n -> AssignmentDraft]
  BY DEF Drafts
<1>2. n \in Nat
  BY <1>1, PageAssumption
<1>3. rows \in Seq(AssignmentDraft) /\ Len(rows) = n
  BY <1>1, <1>2
<1> QED BY <1>1, <1>2, <1>3

LEMMA DraftOf ==
  ASSUME NEW n \in 0..MaxAssignments, NEW rows \in [1..n -> AssignmentDraft] PROVE rows \in Drafts
  BY DEF Drafts

LEMMA NoRows == <<>> \in Drafts /\ OnePrimary(<<>>)
<1>1. <<>> \in [1..0 -> AssignmentDraft] /\ 0 \in 0..MaxAssignments
  BY PageAssumption
<1> QED BY <1>1, DraftOf DEF OnePrimary

(* What the Backend sends has one primary assignment. *)
LEMMA SentRows ==
  ASSUME NEW rows \in organizationAssignments PROVE rows \in Drafts /\ OnePrimary(rows)
  BY DEF organizationAssignments, OnePrimary

(* Marking a row as the primary one unmarks all others. *)
LEMMA Marked ==
  ASSUME NEW rows \in Drafts, NEW i \in DOMAIN rows,
         NEW next, next = [j \in DOMAIN rows |-> [rows[j] EXCEPT !.isPrimary = (j = i)]]
  PROVE next \in Drafts /\ OnePrimary(next)
<1>1. PICK n \in 0..MaxAssignments : rows \in [1..n -> AssignmentDraft]
  BY DEF Drafts
<1>2. \A j \in 1..n : next[j] \in AssignmentDraft /\ (next[j].isPrimary <=> j = i)
  BY <1>1 DEF AssignmentDraft
<1>3. next \in [1..n -> AssignmentDraft] /\ DOMAIN next = 1..n /\ i \in 1..n
  BY <1>1, <1>2
<1>4. primaries(next) = {i}
  BY <1>2, <1>3 DEF primaries
<1> QED BY <1>3, <1>4, DraftOf DEF OnePrimary

(* The branch of a row has nothing to do with it. *)
LEMMA BranchChosen ==
  ASSUME NEW rows \in Drafts, OnePrimary(rows), NEW i \in DOMAIN rows, NEW value \in BOOLEAN,
         NEW next, next = [rows EXCEPT ![i].branchId = value]
  PROVE next \in Drafts /\ OnePrimary(next)
<1>1. PICK n \in 0..MaxAssignments : rows \in [1..n -> AssignmentDraft]
  BY DEF Drafts
<1>2. \A j \in 1..n : next[j] \in AssignmentDraft /\ next[j].isPrimary = rows[j].isPrimary
  BY <1>1 DEF AssignmentDraft
<1>3. next \in [1..n -> AssignmentDraft] /\ DOMAIN next = 1..n /\ DOMAIN rows = 1..n
  BY <1>1, <1>2
<1>4. primaries(next) = primaries(rows)
  BY <1>2, <1>3 DEF primaries
<1>5. rows # <<>>
  OBVIOUS
<1>6. \E k \in DOMAIN rows : primaries(rows) = {k}
  BY <1>5 DEF OnePrimary
<1> QED BY <1>3, <1>4, <1>6, DraftOf DEF OnePrimary

LEMMA RowsOf ==
  ASSUME NEW S, NEW rows \in Seq(S)
  PROVE rows \in [1..Len(rows) -> S] /\ DOMAIN rows = 1..Len(rows)
  OBVIOUS

(* A row that is added is the primary one if it is the first. *)
LEMMA Added ==
  ASSUME NEW rows \in Drafts, OnePrimary(rows), Len(rows) < MaxAssignments,
         NEW row \in AssignmentDraft, row.isPrimary <=> rows = <<>>,
         NEW next, next = Append(rows, row)
  PROVE next \in Drafts /\ OnePrimary(next)
<1>0. PICK n : n = Len(rows)
  OBVIOUS
<1>1. /\ rows \in Seq(AssignmentDraft) /\ n \in Nat /\ rows \in [1..n -> AssignmentDraft]
      /\ n + 1 \in 0..MaxAssignments /\ DOMAIN rows = 1..n
  BY <1>0, DraftRows, PageAssumption
<1>3. /\ next \in Seq(AssignmentDraft) /\ Len(next) = n + 1 /\ next[n + 1] = row
      /\ \A j \in 1..n : next[j] = rows[j]
  BY <1>0, <1>1
<1>4. next \in [1..(n + 1) -> AssignmentDraft] /\ DOMAIN next = 1..(n + 1)
  BY <1>3, RowsOf
<1>10. next \in Drafts
  BY <1>1, <1>4 DEF Drafts
<1>5. CASE rows = <<>>
  <2>1. n = 0
    BY <1>0, <1>5
  <2>2. primaries(next) = {1}
    BY <1>3, <1>4, <1>5, <2>1 DEF primaries
  <2> QED BY <1>1, <1>4, <1>10, <2>1, <2>2 DEF OnePrimary
<1>6. CASE rows # <<>>
  <2>1. PICK k \in DOMAIN rows : primaries(rows) = {k}
    BY <1>6 DEF OnePrimary
  <2>2. ~next[n + 1].isPrimary
    BY <1>3, <1>6
  <2>3. primaries(next) = {k}
    BY <1>1, <1>3, <1>4, <2>1, <2>2 DEF primaries
  <2> QED BY <1>1, <1>4, <1>10, <2>1, <2>3 DEF OnePrimary
<1> QED BY <1>5, <1>6

(* A primary row that is removed leaves that to the first of the others. *)
LEMMA Removed ==
  ASSUME editAssignments \in Drafts, OnePrimary(editAssignments), Len(editAssignments) > 1,
         NEW i \in DOMAIN editAssignments
  PROVE rowsAfterRemoval(i) \in Drafts /\ OnePrimary(rowsAfterRemoval(i))
<1> DEFINE n == Len(editAssignments)
           rows == editAssignments
           next == without(editAssignments, i)
<1>1. /\ n \in Nat /\ n > 1 /\ rows \in [1..n -> AssignmentDraft] /\ i \in 1..n
      /\ n - 1 \in 0..MaxAssignments
  BY DraftRows, PageAssumption
<1>2. /\ DOMAIN next = 1..(n - 1)
      /\ \A j \in 1..(n - 1) : next[j] = IF j < i THEN rows[j] ELSE rows[j + 1]
  BY DEF without
<1>3. next \in [1..(n - 1) -> AssignmentDraft]
  BY <1>1 DEF without
<1>4. PICK k \in 1..n : primaries(rows) = {k}
  BY <1>1 DEF OnePrimary
<1>5. \A j \in 1..n : rows[j].isPrimary <=> j = k
  BY <1>1, <1>4 DEF primaries
<1> HIDE DEF next
<1>6. \A j \in 1..(n - 1) : next[j].isPrimary <=> (j < i /\ j = k) \/ (~(j < i) /\ j + 1 = k)
  BY <1>1, <1>2, <1>5
<1>7. CASE k = i
  <2>1. primaries(next) = {}
    BY <1>1, <1>2, <1>6, <1>7 DEF primaries
  <2> DEFINE heir == [next EXCEPT ![1].isPrimary = TRUE]
  <2>2. rowsAfterRemoval(i) = heir
    BY <2>1 DEF rowsAfterRemoval, next
  <2>3. 1 \in 1..(n - 1)
    BY <1>1
  <2>4. heir \in [1..(n - 1) -> AssignmentDraft] /\ DOMAIN heir = 1..(n - 1)
    BY <1>3, <2>3 DEF AssignmentDraft
  <2>5. \A j \in 1..(n - 1) : heir[j].isPrimary <=> j = 1
    BY <1>1, <1>3, <1>6, <1>7, <2>3 DEF AssignmentDraft
  <2> HIDE DEF heir
  <2>6. primaries(heir) = {1}
    BY <2>3, <2>4, <2>5 DEF primaries
  <2> QED BY <1>1, <2>2, <2>3, <2>4, <2>6, DraftOf DEF OnePrimary
<1>8. ASSUME NEW m \in 1..(n - 1), \A j \in 1..(n - 1) : next[j].isPrimary <=> j = m
      PROVE rowsAfterRemoval(i) \in Drafts /\ OnePrimary(rowsAfterRemoval(i))
  <2>1. primaries(next) = {m}
    BY <1>2, <1>8 DEF primaries
  <2>2. rowsAfterRemoval(i) = next
    BY <2>1 DEF rowsAfterRemoval, next
  <2> QED BY <1>1, <1>2, <1>3, <2>1, <2>2, DraftOf DEF OnePrimary
<1>9. CASE k < i
  <2>1. k \in 1..(n - 1) /\ \A j \in 1..(n - 1) : next[j].isPrimary <=> j = k
    BY <1>1, <1>6, <1>9
  <2> QED BY <2>1, <1>8
<1>10. CASE i < k
  <2>1. k - 1 \in 1..(n - 1) /\ \A j \in 1..(n - 1) : next[j].isPrimary <=> j = k - 1
    BY <1>1, <1>6, <1>10
  <2> QED BY <2>1, <1>8
<1> QED BY <1>1, <1>7, <1>9, <1>10

LEMMA PageStart == ASSUME PageInit PROVE PageInv
<1>1. NoQuestion \in Question /\ NoQuestion.next = "none" /\ NoWrite \in Write /\ NoWrite.kind = "none"
  BY NoRows DEF NoQuestion, Question, NoWrite, Write, Someone
<1>2. 0 \in 0..MaxReads
  BY PageAssumption
<1> QED
  BY <1>1, <1>2, NoRows DEF PageInit, PageInv, PageTypeOK, AskedOfSomeone, OnePrimaryAssignment, Someone

(* What a click leads to leaves the panel closed, or open on the rows that *)
(* the Backend sent.                                                       *)
LEMMA Proceeds ==
  ASSUME PageInv, NEW next \in {"none", "edit", "history", "status", "close", "leave"}, NEW e \in Someone,
         next \in {"edit", "history", "status"} => e \in People,
         proceed(next, e)
  PROVE /\ {editing', statusEmployee', historyOf'} \subseteq Someone
        /\ editAssignments' \in Drafts /\ typed' \in BOOLEAN /\ employeeDirty' \in BOOLEAN
        /\ histories' \subseteq People
        /\ editing' # Nobody => OnePrimary(editAssignments')
<1> USE DEF PageInv, PageTypeOK
<1>1. ASSUME NEW rows \in organizationAssignments, open(e, rows), UNCHANGED histories
      PROVE /\ {editing', statusEmployee', historyOf'} \subseteq Someone
            /\ editAssignments' \in Drafts /\ typed' \in BOOLEAN /\ employeeDirty' \in BOOLEAN
            /\ histories' \subseteq People
            /\ editing' # Nobody => OnePrimary(editAssignments')
  BY <1>1, SentRows DEF open, Someone
<1>2. CASE openStatus(e) /\ UNCHANGED histories
  BY <1>2 DEF openStatus, Someone
<1>3. CASE openHistory(e) /\ next = "history"
  BY <1>3 DEF openHistory, Someone
<1>4. CASE closeEdit /\ UNCHANGED histories
  BY <1>4 DEF closeEdit, Someone
<1> QED BY <1>1, <1>2, <1>3, <1>4 DEF proceed

LEMMA Clicks ==
  ASSUME PageInv,
         \/ \E e \in People : beginEdit(e) \/ viewHistory(e) \/ beginStatusChange(e)
         \/ cancelEdit
  PROVE PageInv'
<1>1. PICK next \in {"edit", "history", "status", "close"}, e \in Someone :
        /\ next \in {"edit", "history", "status"} => e \in People
        /\ confirmDiscardEmployee(next, e)
  BY DEF beginEdit, viewHistory, beginStatusChange, cancelEdit, Someone
<1>2. CASE asked' = [next |-> next, of |-> e] /\ UNCHANGED <<panels, histories>>
  BY <1>1, <1>2 DEF confirmDiscardEmployee, panels, PageInv, PageTypeOK, AskedOfSomeone, OnePrimaryAssignment, Question
<1>3. CASE proceed(next, e) /\ UNCHANGED asked
  <2>1. UNCHANGED <<canManage, list, loads, write>>
    BY <1>1 DEF confirmDiscardEmployee
  <2> QED BY <1>1, <1>3, <2>1, Proceeds DEF PageInv, PageTypeOK, AskedOfSomeone, OnePrimaryAssignment
<1> QED BY <1>1, <1>2, <1>3 DEF confirmDiscardEmployee

LEMMA Dialog ==
  ASSUME PageInv, NEW yes \in BOOLEAN, closeDialog(yes) PROVE PageInv'
<1>0. NoQuestion \in Question /\ NoQuestion.next = "none" /\ asked \in Question
  BY DEF NoQuestion, Question, Someone, PageInv, PageTypeOK
<1>1. CASE leavePage
  <2>1. NoWrite \in Write /\ NoWrite.kind = "none" /\ 0 \in 0..MaxReads
    BY NoRows, PageAssumption DEF NoWrite, Write, Someone
  <2> QED
    BY <1>0, <1>1, <2>1, NoRows
    DEF leavePage, PageInv, PageTypeOK, AskedOfSomeone, OnePrimaryAssignment, Someone
<1>2. CASE asked' = NoQuestion /\ UNCHANGED <<panels, histories, canManage, list, loads, write>>
  BY <1>0, <1>2 DEF panels, PageInv, PageTypeOK, AskedOfSomeone, OnePrimaryAssignment
<1>3. CASE asked' = NoQuestion /\ proceed(asked.next, asked.of) /\ UNCHANGED <<canManage, list, loads, write>>
  <2>1. /\ {editing', statusEmployee', historyOf'} \subseteq Someone
        /\ editAssignments' \in Drafts /\ typed' \in BOOLEAN /\ employeeDirty' \in BOOLEAN
        /\ histories' \subseteq People
        /\ editing' # Nobody => OnePrimary(editAssignments')
    BY <1>0, <1>3, Proceeds DEF PageInv, AskedOfSomeone, Question
  <2> QED BY <1>0, <1>3, <2>1 DEF PageInv, PageTypeOK, AskedOfSomeone, OnePrimaryAssignment
<1> QED BY <1>1, <1>2, <1>3 DEF closeDialog

(* What is typed into the rows of the panel keeps one of them primary.     *)
LEMMA RowsEdited ==
  ASSUME PageInv,
         \/ type \/ addEditAssignment
         \/ \E i \in 1..MaxAssignments :
              makePrimary(i) \/ removeEditAssignment(i) \/ \E value \in BOOLEAN : updateEditAssignment(i, value)
  PROVE PageInv'
<1>0. editAssignments \in Drafts /\ (editing # Nobody => OnePrimary(editAssignments))
  BY DEF PageInv, PageTypeOK, OnePrimaryAssignment
<1>1. ASSUME onlyRows, typed' \in BOOLEAN, employeeDirty' \in BOOLEAN,
             editAssignments' \in Drafts, editing # Nobody => OnePrimary(editAssignments')
      PROVE PageInv'
  BY <1>1 DEF onlyRows, PageInv, PageTypeOK, AskedOfSomeone, OnePrimaryAssignment
<1>2. typed \in BOOLEAN
  BY DEF PageInv, PageTypeOK
<1>3. CASE type
  BY <1>0, <1>1, <1>3 DEF type
<1>4. CASE addEditAssignment
  <2>1. PICK row \in AssignmentDraft :
          editAssignments' = Append(editAssignments, row) /\ (row.isPrimary <=> editAssignments = <<>>)
    <3>1. [branchId |-> FALSE, isPrimary |-> editAssignments = <<>>] \in AssignmentDraft
      BY DEF AssignmentDraft
    <3> QED BY <1>4, <3>1 DEF addEditAssignment
  <2>2. Len(editAssignments) < MaxAssignments /\ editing # Nobody
    BY <1>4 DEF addEditAssignment, editPanel
  <2>3. editAssignments' \in Drafts /\ OnePrimary(editAssignments')
    BY <1>0, <2>1, <2>2, Added
  <2> QED BY <1>1, <1>2, <1>4, <2>3 DEF addEditAssignment
<1>5. ASSUME NEW i \in 1..MaxAssignments, makePrimary(i) PROVE PageInv'
  <2>1. editAssignments' \in Drafts /\ OnePrimary(editAssignments')
    BY <1>0, <1>5, Marked DEF makePrimary
  <2> QED BY <1>1, <1>2, <1>5, <2>1 DEF makePrimary
<1>6. ASSUME NEW i \in 1..MaxAssignments, removeEditAssignment(i) PROVE PageInv'
  <2>1. editAssignments' \in Drafts /\ OnePrimary(editAssignments')
    BY <1>0, <1>6, Removed DEF removeEditAssignment, editPanel
  <2> QED BY <1>1, <1>2, <1>6, <2>1 DEF removeEditAssignment
<1>7. ASSUME NEW i \in 1..MaxAssignments, NEW value \in BOOLEAN, updateEditAssignment(i, value) PROVE PageInv'
  <2>1. editAssignments' \in Drafts /\ OnePrimary(editAssignments')
    BY <1>0, <1>7, BranchChosen DEF updateEditAssignment, editPanel
  <2> QED BY <1>1, <1>2, <1>7, <2>1 DEF updateEditAssignment
<1> QED BY <1>3, <1>4, <1>5, <1>6, <1>7

LEMMA Saves ==
  ASSUME PageInv, submitCreate \/ submitEdit \/ submitStatus \/ refused \/ saveAnswered \/ \E yes \in BOOLEAN : reloaded(yes)
  PROVE PageInv'
<1>0. NoWrite \in Write /\ NoWrite.kind = "none" /\ Nobody \in Someone
  BY NoRows DEF NoWrite, Write, Someone
<1>1. ASSUME NEW kind \in {"create", "edit", "status"}, NEW e \in Someone, NEW rows \in Drafts,
             kind = "edit" => OnePrimary(rows), send(kind, e, rows)
      PROVE PageInv'
  <2>1. write' = [kind |-> kind, of |-> e, rows |-> rows, at |-> "sent"]
    BY <1>1 DEF send
  <2>2. write' \in Write /\ (write'.kind = "edit" => OnePrimary(write'.rows))
    BY <1>1, <2>1 DEF Write
  <2> QED BY <1>1, <2>2 DEF send, panels, PageInv, PageTypeOK, AskedOfSomeone, OnePrimaryAssignment
<1>2. CASE submitCreate
  BY <1>0, <1>1, <1>2, NoRows DEF submitCreate
<1>3. CASE submitEdit
  BY <1>1, <1>3 DEF submitEdit, editPanel, PageInv, PageTypeOK, OnePrimaryAssignment
<1>4. CASE submitStatus
  BY <1>1, <1>4, NoRows DEF submitStatus, PageInv, PageTypeOK
<1>5. CASE refused
  BY <1>0, <1>5 DEF refused, panels, PageInv, PageTypeOK, AskedOfSomeone, OnePrimaryAssignment
<1>6. CASE saveAnswered
  <2>1. /\ write' \in Write /\ write'.kind = write.kind /\ write'.rows = write.rows
        /\ UNCHANGED <<canManage, list, loads, histories, asked>>
    BY <1>6 DEF saveAnswered, PageInv, PageTypeOK, Write
  <2>2. /\ UNCHANGED editAssignments /\ editing' \in {editing, Nobody}
        /\ {editing', statusEmployee', historyOf'} \subseteq Someone
        /\ typed' \in BOOLEAN /\ employeeDirty' \in BOOLEAN
    BY <1>0, <1>6 DEF saveAnswered, closeEdit, PageInv, PageTypeOK
  <2> QED BY <2>1, <2>2 DEF PageInv, PageTypeOK, AskedOfSomeone, OnePrimaryAssignment
<1>7. ASSUME NEW yes \in BOOLEAN, reloaded(yes) PROVE PageInv'
  BY <1>0, <1>7 DEF reloaded, panels, PageInv, PageTypeOK, AskedOfSomeone, OnePrimaryAssignment
<1> QED BY <1>2, <1>3, <1>4, <1>5, <1>6, <1>7

LEMMA Lists ==
  ASSUME PageInv,
         \/ \E admin \in BOOLEAN : initialLoad(admin)
         \/ fetchList \/ interceptNavigation \/ closeStatus \/ closeHistory
         \/ \E yes \in BOOLEAN : load(yes)
         \/ \E e \in People, yes \in BOOLEAN : historyAnswered(e, yes)
  PROVE PageInv'
<1> USE DEF panels, PageInv, PageTypeOK, AskedOfSomeone, OnePrimaryAssignment
<1>1. ASSUME NEW admin \in BOOLEAN, initialLoad(admin) PROVE PageInv'
  BY <1>1 DEF initialLoad
<1>2. CASE fetchList
  BY <1>2, PageAssumption DEF fetchList
<1>3. CASE interceptNavigation
  BY <1>3 DEF interceptNavigation, Question, Someone
<1>4. CASE closeStatus \/ closeHistory
  BY <1>4 DEF closeStatus, closeHistory, Someone
<1>5. ASSUME NEW yes \in BOOLEAN, load(yes) PROVE PageInv'
  BY <1>5, PageAssumption DEF load
<1>6. ASSUME NEW e \in People, NEW yes \in BOOLEAN, historyAnswered(e, yes) PROVE PageInv'
  BY <1>6 DEF historyAnswered, Someone
<1> QED BY <1>1, <1>2, <1>3, <1>4, <1>5, <1>6

LEMMA PageStep ==
  ASSUME PageInv, [PageNext]_pageVars PROVE PageInv'
<1>1. CASE UNCHANGED pageVars
  BY <1>1 DEF pageVars, panels, PageInv, PageTypeOK, AskedOfSomeone, OnePrimaryAssignment
<1> QED BY <1>1, Clicks, Dialog, RowsEdited, Saves, Lists DEF PageNext

(* Whatever is edited, asked and answered, one assignment is primary       *)
(* (employees/page.tsx).                                                   *)
THEOREM OneStaysPrimary == PageSpec => []OnePrimaryAssignment
<1>1. PageSpec => []PageInv
  BY PageStart, PageStep, PTL DEF PageSpec
<1>2. PageInv => OnePrimaryAssignment
  BY DEF PageInv
<1> QED BY <1>1, <1>2, PTL

------------------------------------------------------------------------------
(* The page of business trips (TripsPage).                                 *)

(* Who is responsible for it is of the team. *)
teamHeld(x) == x.responsible # Nothing => x.responsible \in x.team

(* What the Backend holds, what the page shows of it and the editor have   *)
(* the person responsible among the members.                               *)
TeamsHeld ==
  /\ \A t \in Tickets : teamHeld(ticket[t]) /\ teamHeld(shown.tickets[t])
  /\ teamHeld(tripForm)
  /\ tripWrite.kind = "trip" => assertTeam(tripWrite.responsible, tripWrite.team)
  /\ teamHeld(tripAsked.form)

TripsPageInv == TripsPageTypeOK /\ TeamsHeld

LEMMA TripsPageStart == ASSUME TripsPageInit PROVE TripsPageInv
  BY DEF TripsPageInit, TripsPageInv, TripsPageTypeOK, TeamsHeld, teamHeld, NoTicket, NoForm, NoTripQuestion,
         NoTripWrite, Ticket, Clinic, TripForm, TripQuestion, TripWrite

(* The editor holds what the page shows of a trip. *)
LEMMA EditTrip ==
  ASSUME TripsPageInv, NEW t \in Tickets
  PROVE editTrip(t) \in TripForm /\ teamHeld(editTrip(t))
<1>1. shown.tickets[t] \in Ticket /\ teamHeld(shown.tickets[t])
  BY DEF TripsPageInv, TripsPageTypeOK, TeamsHeld
<1>2. shown.tickets[t].responsible # Nothing => officeOf[shown.tickets[t].responsible] \in Offices
  BY <1>1, TripsPageAssumption DEF Ticket
<1> QED BY <1>1, <1>2 DEF editTrip, Ticket, TripForm, teamHeld

(* A form that is filled in holds its team. *)
LEMMA Filled ==
  ASSUME TripsPageInv, NEW form \in TripForm, teamHeld(form), fill(form) PROVE TripsPageInv'
  BY DEF TripsPageInv, TripsPageTypeOK, TeamsHeld, fill, backend, teamHeld

LEMMA FormFilled ==
  ASSUME TripsPageInv,
         \/ typeTrip
         \/ \E d \in Offices \cup {Nothing} : changeDepartment(d)
         \/ \E e \in Crew \cup {Nothing} : changeResponsible(e) \/ (e \in Crew /\ toggleMember(e))
  PROVE TripsPageInv'
<1>0. tripForm \in TripForm /\ teamHeld(tripForm)
  BY DEF TripsPageInv, TripsPageTypeOK, TeamsHeld
<1>1. CASE typeTrip
  <2>1. [tripForm EXCEPT !.dirty = TRUE] \in TripForm /\ teamHeld([tripForm EXCEPT !.dirty = TRUE])
    BY <1>0 DEF TripForm, teamHeld
  <2> QED BY <1>1, <2>1, Filled DEF typeTrip
<1>2. ASSUME NEW d \in Offices \cup {Nothing}, changeDepartment(d) PROVE TripsPageInv'
  <2> DEFINE form == [tripForm EXCEPT !.office = d, !.dirty = TRUE,
                        !.responsible = IF @ # Nothing /\ d \notin {Nothing, officeOf[@]} THEN Nothing ELSE @]
  <2>1. form \in TripForm /\ teamHeld(form)
    BY <1>0 DEF TripForm, teamHeld
  <2>2. fill(form)
    BY <1>2 DEF changeDepartment
  <2> QED BY <2>1, <2>2, Filled
<1>3. ASSUME NEW e \in Crew \cup {Nothing}, changeResponsible(e) PROVE TripsPageInv'
  <2> DEFINE form == [tripForm EXCEPT !.responsible = e, !.dirty = TRUE, !.team = @ \cup ({e} \cap Crew)]
  <2>1. form \in TripForm /\ teamHeld(form)
    BY <1>0 DEF TripForm, teamHeld
  <2>2. fill(form)
    BY <1>3 DEF changeResponsible
  <2> QED BY <2>1, <2>2, Filled
<1>4. ASSUME NEW e \in Crew, toggleMember(e) PROVE TripsPageInv'
  <2> DEFINE form == [tripForm EXCEPT !.dirty = TRUE, !.team = IF e \in @ THEN @ \ {e} ELSE @ \cup {e}]
  <2>0. fill(form) /\ e # tripForm.responsible
    BY <1>4 DEF toggleMember, mayToggle
  <2>1. form \in TripForm /\ teamHeld(form)
    BY <1>0, <2>0 DEF TripForm, teamHeld
  <2> QED BY <2>0, <2>1, Filled
<1> QED BY <1>1, <1>2, <1>3, <1>4

LEMMA TripsDialog ==
  ASSUME TripsPageInv,
         \/ cancelTripEdit \/ \E t \in Tickets : beginTripEdit(t)
         \/ \E yes \in BOOLEAN : closeTripDialog(yes)
  PROVE TripsPageInv'
<1> USE DEF TripsPageInv
<1>0. NoForm \in TripForm /\ teamHeld(NoForm)
  BY DEF NoForm, TripForm, teamHeld
<1>1. ASSUME NEW form \in TripForm, teamHeld(form), confirmDiscardTrip(form)
      PROVE TripsPageInv'
  <2> PICK discardAsked : discardAsked = [next |-> "discard", of |-> Nothing, form |-> form]
    OBVIOUS
  <2>1. discardAsked \in TripQuestion /\ teamHeld(discardAsked.form)
    BY <1>1 DEF TripQuestion
  <2>2. UNCHANGED <<ticket, clinic, shown, clinicForm, tripWrite>>
    BY <1>1 DEF confirmDiscardTrip, backend
  <2>3. CASE tripAsked' = discardAsked /\ UNCHANGED tripForm
    BY <2>1, <2>2, <2>3 DEF TripsPageTypeOK, TeamsHeld, teamHeld
  <2>4. CASE tripForm' = form /\ UNCHANGED tripAsked
    BY <1>1, <2>2, <2>4 DEF TripsPageTypeOK, TeamsHeld, teamHeld
  <2> QED BY <1>1, <2>3, <2>4 DEF confirmDiscardTrip
<1>2. CASE cancelTripEdit
  BY <1>0, <1>1, <1>2 DEF cancelTripEdit, resetTripEditor
<1>3. ASSUME NEW t \in Tickets, beginTripEdit(t) PROVE TripsPageInv'
  BY <1>1, <1>3, EditTrip DEF beginTripEdit
<1>4. ASSUME NEW yes \in BOOLEAN, closeTripDialog(yes) PROVE TripsPageInv'
  <2>1. UNCHANGED <<ticket, clinic, shown, clinicForm>> /\ tripAsked' = NoTripQuestion
    BY <1>4 DEF closeTripDialog, backend
  <2>2. tripForm' \in {tripAsked.form, tripForm}
    BY <1>4 DEF closeTripDialog
  <2>3. tripForm' \in TripForm /\ teamHeld(tripForm')
    BY <2>2 DEF TripsPageTypeOK, TeamsHeld, TripQuestion
  <2>4. tripWrite' \in TripWrite /\ (tripWrite'.kind = "trip" => tripWrite' = tripWrite)
    BY <1>4 DEF closeTripDialog, sendTrip, TripWrite, TripsPageTypeOK, TripQuestion
  <2>5. tripAsked' \in TripQuestion /\ teamHeld(tripAsked'.form)
    BY <1>0, <2>1 DEF NoTripQuestion, TripQuestion
  <2> QED BY <2>1, <2>3, <2>4, <2>5 DEF TripsPageTypeOK, TeamsHeld, teamHeld
<1> QED BY <1>2, <1>3, <1>4

LEMMA TripsSent ==
  ASSUME TripsPageInv,
         \/ saveTrip \/ saveCustomer \/ notStored \/ cancelCustomerEdit
         \/ \E k \in Clinics : beginCustomerEdit(k) \/ toggleCustomer(k)
         \/ \E t \in Tickets : transitionOf(t, "ASSIGNED") \/ transitionOf(t, "CANCELLED")
         \/ \E yes \in BOOLEAN : loadTrips(yes)
  PROVE TripsPageInv'
<1> USE DEF TripsPageInv, backend
<1>1. CASE saveTrip
  <2>1. tripWrite' = [kind |-> "trip", of |-> tripForm.editing, responsible |-> tripForm.responsible,
                      team |-> tripForm.team, at |-> "sent"]
        /\ tripForm.responsible # Nothing /\ UNCHANGED <<ticket, clinic, shown, tripForm, clinicForm, tripAsked>>
    BY <1>1 DEF saveTrip, sendTrip
  <2>2. tripWrite' \in TripWrite /\ assertTeam(tripWrite'.responsible, tripWrite'.team)
    BY <2>1 DEF TripWrite, TripForm, TripsPageTypeOK, TeamsHeld, teamHeld, assertTeam
  <2> QED BY <2>1, <2>2 DEF TripsPageTypeOK, TeamsHeld, teamHeld, assertTeam
<1>2. CASE saveCustomer \/ notStored \/ cancelCustomerEdit
  BY <1>2
  DEF saveCustomer, notStored, cancelCustomerEdit, sendTrip, NoTripWrite, TripWrite,
      TripsPageTypeOK, TeamsHeld, teamHeld, assertTeam
<1>3. ASSUME NEW k \in Clinics, beginCustomerEdit(k) \/ toggleCustomer(k) PROVE TripsPageInv'
  BY <1>3 DEF beginCustomerEdit, toggleCustomer, sendTrip, TripWrite, TripsPageTypeOK, TeamsHeld, teamHeld, assertTeam
<1>4. ASSUME NEW t \in Tickets, transitionOf(t, "ASSIGNED") \/ transitionOf(t, "CANCELLED") PROVE TripsPageInv'
  <2>1. NoForm \in TripForm /\ teamHeld(NoForm)
    BY DEF NoForm, TripForm, teamHeld
  <2>2. /\ tripAsked' \in TripQuestion /\ tripAsked'.form = NoForm
        /\ UNCHANGED <<ticket, clinic, shown, tripForm, clinicForm, tripWrite>>
    BY <1>4, <2>1 DEF transitionOf, TripQuestion
  <2> QED BY <2>1, <2>2 DEF TripsPageTypeOK, TeamsHeld, teamHeld, assertTeam
<1>5. ASSUME NEW yes \in BOOLEAN, loadTrips(yes) PROVE TripsPageInv'
  BY <1>5 DEF loadTrips, NoTripWrite, TripWrite, TripsPageTypeOK, TeamsHeld, teamHeld, assertTeam
<1> QED BY <1>1, <1>2, <1>3, <1>4, <1>5

LEMMA TripsStored ==
  ASSUME TripsPageInv, stored \/ \E t \in Tickets : elsewhere(t) PROVE TripsPageInv'
<1> USE DEF TripsPageInv
<1>0. NoForm \in TripForm /\ teamHeld(NoForm)
  BY DEF NoForm, TripForm, teamHeld
<1>1. ASSUME NEW t \in Tickets, NEW x \in Ticket, teamHeld(x), ticket' = [ticket EXCEPT ![t] = x]
      PROVE ticket' \in [Tickets -> Ticket] /\ \A u \in Tickets : teamHeld(ticket'[u])
  BY <1>1 DEF TripsPageTypeOK, TeamsHeld
<1>2. ASSUME NEW t \in Tickets, NEW status \in {"ASSIGNED", "IN_PROGRESS", "COMPLETED", "CANCELLED"},
             ticket' = [ticket EXCEPT ![t].status = status]
      PROVE ticket' \in [Tickets -> Ticket] /\ \A u \in Tickets : teamHeld(ticket'[u])
  <2>1. ticket[t] \in Ticket /\ teamHeld(ticket[t])
    BY DEF TripsPageTypeOK, TeamsHeld
  <2>2. [ticket[t] EXCEPT !.status = status] \in Ticket /\ teamHeld([ticket[t] EXCEPT !.status = status])
    BY <2>1 DEF Ticket, teamHeld
  <2>3. ticket' = [ticket EXCEPT ![t] = [ticket[t] EXCEPT !.status = status]]
    BY <1>2
  <2> QED BY <2>2, <2>3, <1>1
<1>3. ASSUME NEW t \in Tickets, elsewhere(t) PROVE TripsPageInv'
  <2>1. ticket' \in [Tickets -> Ticket] /\ \A u \in Tickets : teamHeld(ticket'[u])
    BY <1>2, <1>3 DEF elsewhere
  <2> QED BY <1>3, <2>1 DEF elsewhere, TripsPageTypeOK, TeamsHeld, teamHeld
<1>4. CASE stored
  <2>1. /\ tripWrite' \in TripWrite /\ tripWrite'.kind = tripWrite.kind
        /\ tripWrite'.responsible = tripWrite.responsible /\ tripWrite'.team = tripWrite.team
        /\ UNCHANGED <<shown, tripAsked>>
    BY <1>4 DEF stored, TripsPageTypeOK, TripWrite
  <2>2. ASSUME NEW t \in Tickets, storeTrip(t) PROVE TripsPageInv'
    <3> DEFINE x == [status |-> "DRAFT", responsible |-> tripWrite.responsible, team |-> tripWrite.team]
    <3>1. x \in Ticket /\ teamHeld(x)
      BY <2>2 DEF storeTrip, Ticket, TripWrite, TripsPageTypeOK, teamHeld, assertTeam
    <3>2. ticket' = [ticket EXCEPT ![t] = x] /\ tripForm' = NoForm /\ UNCHANGED <<clinic, clinicForm>>
      BY <2>2 DEF storeTrip, resetTripEditor
    <3>3. ticket' \in [Tickets -> Ticket] /\ \A u \in Tickets : teamHeld(ticket'[u])
      BY <1>1, <3>1, <3>2
    <3> QED BY <1>0, <2>1, <3>2, <3>3 DEF TripsPageTypeOK, TeamsHeld
  <2>3. ASSUME NEW t \in Tickets, storeStatus(t), tripWrite.kind \in {"ASSIGNED", "CANCELLED"} PROVE TripsPageInv'
    <3>1. ticket' \in [Tickets -> Ticket] /\ \A u \in Tickets : teamHeld(ticket'[u])
      BY <1>2, <2>3 DEF storeStatus
    <3> QED BY <2>1, <2>3, <3>1 DEF storeStatus, TripsPageTypeOK, TeamsHeld
  <2>4. ASSUME NEW k \in Clinics, storeCustomer(k) PROVE TripsPageInv'
    <3>1. /\ clinic' \in [Clinics -> Clinic] /\ clinicForm' \in Clinics \cup {Nothing}
          /\ UNCHANGED <<ticket, tripForm>>
      BY <2>4 DEF storeCustomer, createCustomer, updateCustomer, TripsPageTypeOK, Clinic
    <3> QED BY <2>1, <3>1 DEF TripsPageTypeOK, TeamsHeld
  <2> QED BY <1>4, <2>2, <2>3, <2>4 DEF stored
<1> QED BY <1>3, <1>4

LEMMA TripsPageStep ==
  ASSUME TripsPageInv, [TripsPageNext]_tripsPageVars PROVE TripsPageInv'
<1>1. CASE UNCHANGED tripsPageVars
  BY <1>1 DEF tripsPageVars, TripsPageInv, TripsPageTypeOK, TeamsHeld, teamHeld, assertTeam
<1> QED BY <1>1, FormFilled, TripsDialog, TripsSent, TripsStored DEF TripsPageNext

LEMMA TripsPageInvImplies == ASSUME TripsPageInv PROVE ResponsibleIsMember
  BY DEF TripsPageInv, TeamsHeld, teamHeld, ResponsibleIsMember

(* Whatever is filtered, ticked, opened and answered, the person           *)
(* responsible is a member (business-trips/page.tsx).                      *)
THEOREM ResponsibleStaysMember == TripsPageSpec => []ResponsibleIsMember
<1>1. TripsPageSpec => []TripsPageInv
  BY TripsPageStart, TripsPageStep, PTL DEF TripsPageSpec
<1> QED BY <1>1, TripsPageInvImplies, PTL

------------------------------------------------------------------------------
(* The tab around the pages (AdminShell).                                  *)

LEMMA EndedSession == NoSession \in WebSession /\ ~NoSession.live
  BY DEF NoSession, WebSession

(* What lets a user be at the sign-in page. *)
Excused == shell.byUser \/ ~websession.live \/ ~websession.web \/ shell.overtaken

(* A call of this session that will be refused for good. *)
Refusing(c) ==
  /\ ~fetches[c].old
  /\ \/ fetches[c].at = "resent" /\ ~fetches[c].valid
     \/ fetches[c].at = "403" /\ aboutSession(c)

(* What ends at the sign-in page, or is there: cookies of no session, a    *)
(* refresh of this session that will be or was refused though its token    *)
(* was not rotated before, a call that will be refused for good.           *)
Doubt ==
  \/ ~cookies.own
  \/ refreshRequest.at = "sent" /\ refreshRequest.token = "none" /\ ~refreshRequest.old
  \/ refreshRequest.at = "refused" /\ ~refreshRequest.old
  \/ \E c \in Fetches : Refusing(c)
  \/ shell.route = "signin"

ShellInv == ShellTypeOK /\ (Doubt => Excused)

(* What a step that ends calls with a status leaves of the layout.         *)
LEMMA EndWith ==
  ASSUME ShellTypeOK, NEW D \in SUBSET Fetches, NEW status, NEW late \in BOOLEAN, endWith(D, status, late)
  PROVE /\ shell' \in Shell /\ fetches' \in [Fetches -> Fetch]
        /\ \A d \in Fetches : Refusing(d)' => Refusing(d)
        /\ (shell.byUser => shell'.byUser) /\ (shell.overtaken => shell'.overtaken)
        /\ shell'.route = "signin" =>
             \/ shell.route = "signin" \/ shell'.byUser \/ shell'.overtaken
             \/ ~late /\ (status = "401" \/ (status = "403" /\ \E d \in D : redirects(d)))
<1> DEFINE quits == \E d \in D : fetches[d].kind = "logout" \/ (fetches[d].kind = "revoke" /\ status = "done")
           refusal == status = "401" \/ (status = "403" /\ \E d \in D : redirects(d))
           leaves == quits \/ status = "401" \/ (status = "403" /\ \E d \in D : redirects(d))
<1>1. /\ shell' = IF leaves
                   THEN [route |-> "signin", state |-> "loading", navigation |-> {},
                         byUser |-> shell.byUser \/ quits, overtaken |-> shell.overtaken \/ late]
                   ELSE IF status = "error" /\ \E d \in D : listens(d)
                          THEN [shell EXCEPT !.state = "error"] ELSE shell
      /\ fetches' = [d \in Fetches |->
          IF d \in D THEN NoFetch
          ELSE IF leaves THEN [fetches[d] EXCEPT !.active = FALSE] ELSE fetches[d]]
  BY DEF endWith
<1>2. quits \in BOOLEAN /\ refusal \in BOOLEAN /\ (leaves <=> quits \/ refusal)
  OBVIOUS
<1>3. shell \in Shell /\ fetches \in [Fetches -> Fetch]
  BY DEF ShellTypeOK
<1> HIDE DEF quits, leaves
<1>4. shell' \in Shell
  BY <1>1, <1>2, <1>3 DEF Shell
<1>5. \A d \in Fetches :
        /\ fetches[d] \in Fetch /\ [fetches[d] EXCEPT !.active = FALSE] \in Fetch
        /\ LET g == [fetches[d] EXCEPT !.active = FALSE]
           IN g.kind = fetches[d].kind /\ g.at = fetches[d].at /\ g.old = fetches[d].old /\ g.valid = fetches[d].valid
  BY <1>3 DEF Fetch
<1>6. NoFetch \in Fetch /\ NoFetch.at = "none"
  BY DEF NoFetch, Fetch
<1>7. fetches' \in [Fetches -> Fetch]
  BY <1>1, <1>5, <1>6
<1>8. ASSUME NEW d \in Fetches, Refusing(d)' PROVE Refusing(d)
  <2>1. d \notin D
    BY <1>1, <1>6, <1>8 DEF Refusing
  <2>2. /\ fetches'[d].kind = fetches[d].kind /\ fetches'[d].at = fetches[d].at
        /\ fetches'[d].old = fetches[d].old /\ fetches'[d].valid = fetches[d].valid
    BY <1>1, <1>5, <2>1
  <2> QED BY <1>8, <2>2 DEF Refusing, aboutSession
<1>9. CASE leaves
  <2>1. shell'.byUser = (shell.byUser \/ quits) /\ shell'.overtaken = (shell.overtaken \/ late)
    BY <1>1, <1>9
  <2> QED BY <1>2, <1>4, <1>7, <1>8, <1>9, <2>1 DEF refusal
<1>10. CASE ~leaves
  <2>1. shell'.route = shell.route /\ shell'.byUser = shell.byUser /\ shell'.overtaken = shell.overtaken
    BY <1>1, <1>3, <1>10 DEF Shell
  <2> QED BY <2>1, <1>4, <1>7, <1>8
<1> QED BY <1>9, <1>10

(* What a call that the page starts is for. *)
Kinds == {"session", "focus", "retry", "page", "logout", "revoke"}

(* A call that starts leaves the others as they are.                       *)
LEMMA SessionCall ==
  ASSUME ShellTypeOK, NEW c \in Fetches,
         fetches' = effectOn(c) \/ \E kind \in Kinds : fetches' = [fetches EXCEPT ![c] = fetch(kind, cookies)]
  PROVE /\ fetches' \in [Fetches -> Fetch]
        /\ \A d \in Fetches : Refusing(d)' => Refusing(d)
<1>1. \A kind \in Kinds : fetch(kind, cookies) \in Fetch /\ fetch(kind, cookies).at = "sent"
  BY DEF Kinds, fetch, Fetch, ShellTypeOK, Cookies
<1>2. fetches \in [Fetches -> Fetch]
  BY DEF ShellTypeOK
<1>3. \A d \in Fetches :
        /\ [fetches[d] EXCEPT !.active = FALSE] \in Fetch
        /\ LET g == [fetches[d] EXCEPT !.active = FALSE]
           IN g.kind = fetches[d].kind /\ g.at = fetches[d].at /\ g.old = fetches[d].old /\ g.valid = fetches[d].valid
  BY <1>2 DEF Fetch
<1>4. CASE fetches' = effectOn(c)
  <2>1. fetches' \in [Fetches -> Fetch] /\ fetches'[c].at = "sent"
    BY <1>1, <1>2, <1>3, <1>4 DEF Kinds, effectOn
  <2>2. \A d \in Fetches \ {c} :
          /\ fetches'[d].kind = fetches[d].kind /\ fetches'[d].at = fetches[d].at
          /\ fetches'[d].old = fetches[d].old /\ fetches'[d].valid = fetches[d].valid
    BY <1>3, <1>4 DEF effectOn
  <2> QED BY <2>1, <2>2 DEF Refusing, aboutSession
<1>5. CASE \E kind \in Kinds : fetches' = [fetches EXCEPT ![c] = fetch(kind, cookies)]
  <2>1. /\ fetches' \in [Fetches -> Fetch] /\ fetches'[c].at = "sent"
        /\ \A d \in Fetches \ {c} : fetches'[d] = fetches[d]
    BY <1>1, <1>2, <1>5
  <2> QED BY <2>1 DEF Refusing, aboutSession
<1> QED BY <1>4, <1>5

(* One call goes on and the others stay as they are.                       *)
LEMMA CallGoesOn ==
  ASSUME ShellTypeOK, NEW c \in Fetches,
         NEW answer \in {"refreshing", "done", "403"} \cup Areas, answerWith(c, answer),
         answer = "403" /\ aboutSession(c) => fetches[c].old \/ Excused
  PROVE /\ fetches' \in [Fetches -> Fetch]
        /\ \A d \in Fetches : Refusing(d)' => Refusing(d) \/ Excused
<1>1. fetches' = [fetches EXCEPT ![c].at = answer, ![c].valid = FALSE] /\ fetches \in [Fetches -> Fetch]
  BY DEF answerWith, ShellTypeOK
<1> DEFINE g == [fetches[c] EXCEPT !.at = answer, !.valid = FALSE]
<1>2. g \in Fetch /\ g.at = answer /\ g.kind = fetches[c].kind /\ g.old = fetches[c].old
  BY <1>1 DEF Fetch
<1>3. fetches' = [fetches EXCEPT ![c] = g]
  BY <1>1
<1> HIDE DEF g
<1>4. fetches' \in [Fetches -> Fetch] /\ fetches'[c] = g /\ \A d \in Fetches \ {c} : fetches'[d] = fetches[d]
  BY <1>1, <1>2, <1>3
<1>5. answer # "resent"
  BY DEF Areas, Dashboard, Managed
<1> QED BY <1>2, <1>4, <1>5 DEF Refusing, aboutSession

(* Outside the tab a session ends or loses access, which excuses more; a   *)
(* token that expires under a re-sent call is noted.                       *)
LEMMA Outside ==
  ASSUME ShellInv, outside PROVE ShellInv'
<1> USE DEF ShellInv
<1>1. CASE (sessionEnds \/ accessChanges) /\ UNCHANGED <<cookies, shell, fetches, refreshRequest>>
  <2>1. /\ websession' \in WebSession
        /\ ~websession.live => ~websession'.live
        /\ ~websession.web => ~websession'.web \/ ~websession'.live
    <3>1. CASE sessionEnds
      BY <3>1, EndedSession DEF sessionEnds
    <3>2. CASE accessChanges
      BY <3>2 DEF accessChanges, WebSession, ShellTypeOK
    <3> QED BY <1>1, <3>1, <3>2
  <2>2. (Doubt' => Doubt) /\ (Excused => Excused')
    BY <1>1, <2>1 DEF Doubt, Refusing, aboutSession, Excused
  <2> QED BY <1>1, <2>1, <2>2 DEF ShellTypeOK
<1>2. CASE tokenExpires /\ UNCHANGED <<websession, refreshRequest>>
  <2>1. /\ cookies' = [cookies EXCEPT !.fresh = FALSE]
        /\ fetches' = [c \in Fetches |-> [fetches[c] EXCEPT !.valid = FALSE]]
        /\ shell' = [shell EXCEPT !.overtaken = @ \/ \E c \in Fetches : fetches[c].at = "resent" /\ fetches[c].valid]
    BY <1>2 DEF tokenExpires
  <2>2. cookies' \in Cookies /\ cookies'.own = cookies.own
    BY <2>1 DEF Cookies, ShellTypeOK
  <2>3. \A c \in Fetches :
          /\ fetches'[c] \in Fetch
          /\ fetches'[c].kind = fetches[c].kind /\ fetches'[c].at = fetches[c].at /\ fetches'[c].old = fetches[c].old
    BY <2>1 DEF Fetch, ShellTypeOK
  <2>4. /\ shell' \in Shell /\ shell'.route = shell.route /\ shell'.byUser = shell.byUser
        /\ shell'.overtaken = (shell.overtaken \/ \E c \in Fetches : fetches[c].at = "resent" /\ fetches[c].valid)
    BY <2>1 DEF Shell, ShellTypeOK
  <2>5. (\E c \in Fetches : Refusing(c)') => (\E c \in Fetches : Refusing(c)) \/ shell'.overtaken
    BY <2>3, <2>4 DEF Refusing, aboutSession
  <2>6. (Doubt' => Doubt \/ Excused') /\ (Excused => Excused')
    BY <1>2, <2>2, <2>4, <2>5 DEF Doubt, Excused
  <2> QED BY <1>2, <2>1, <2>2, <2>3, <2>4, <2>6 DEF ShellTypeOK
<1> QED BY <1>1, <1>2 DEF outside

(* With a new session everything under way is of an earlier one.           *)
LEMMA SignIn ==
  ASSUME ShellInv, NEW c \in Fetches, signIn(c) PROVE ShellInv'
<1> USE DEF ShellInv
<1>1. /\ fetches' = [d \in Fetches |-> IF d = c THEN fetch("session", NewCookies) ELSE ofEarlierSession(d)]
      /\ shell' = [route |-> homePath(websession'), state |-> "loading", navigation |-> {},
                   byUser |-> FALSE, overtaken |-> FALSE]
      /\ cookies' = NewCookies
      /\ refreshRequest' = IF refreshRequest.at = "none" THEN NoRefresh
                           ELSE [refreshRequest EXCEPT !.token = "none", !.old = TRUE]
      /\ websession' \in WebSession
  BY DEF signIn, WebSession
<1>2. homePath(websession') \in Areas /\ "signin" \notin Areas
  BY DEF homePath, Areas, Dashboard, Managed
<1>3. shell' \in Shell /\ shell'.route # "signin"
  BY <1>1, <1>2 DEF Shell
<1>4. cookies' \in Cookies /\ cookies'.own
  BY <1>1 DEF Cookies, NewCookies
<1>5. refreshRequest' \in Refresh /\ (refreshRequest'.at = "none" \/ refreshRequest'.old)
  BY <1>1 DEF Refresh, NoRefresh, ShellTypeOK
<1>6. \A d \in Fetches : ofEarlierSession(d) \in Fetch /\ (ofEarlierSession(d).at = "none" \/ ofEarlierSession(d).old)
  BY DEF ofEarlierSession, idle, NoFetch, Fetch, ShellTypeOK
<1>7. fetch("session", NewCookies) \in Fetch /\ fetch("session", NewCookies).at = "sent"
  BY DEF fetch, NewCookies, Fetch
<1>8. fetches' \in [Fetches -> Fetch] /\ \A d \in Fetches : fetches'[d].at \in {"none", "sent"} \/ fetches'[d].old
  BY <1>1, <1>6, <1>7
<1>9. ~Doubt'
  BY <1>3, <1>4, <1>5, <1>8 DEF Doubt, Refusing
<1> QED BY <1>1, <1>3, <1>4, <1>5, <1>8, <1>9 DEF ShellTypeOK

(* A call that starts on the page. *)
LEMMA CallStarts ==
  ASSUME ShellInv, NEW c \in Fetches,
         \/ refreshAccess(c) \/ loadSession(c) \/ fromPage(c) \/ handleLogout(c) \/ revokeCurrent(c)
         \/ \E p \in Areas : navigate(c, p)
  PROVE ShellInv'
<1> USE DEF ShellInv
<1>1. /\ UNCHANGED <<websession, cookies, refreshRequest>>
      /\ shell.route # "signin"
      /\ \/ fetches' = effectOn(c)
         \/ \E kind \in Kinds : fetches' = [fetches EXCEPT ![c] = fetch(kind, cookies)]
  BY DEF refreshAccess, loadSession, fromPage, handleLogout, revokeCurrent, navigate, start, Kinds
<1>2. \/ shell' = shell \/ shell' = [shell EXCEPT !.state = "loading"]
      \/ \E p \in Areas : shell' = [shell EXCEPT !.route = p]
  BY DEF refreshAccess, loadSession, fromPage, handleLogout, revokeCurrent, navigate, start
<1>3. /\ shell' \in Shell /\ shell'.route # "signin"
      /\ shell'.byUser = shell.byUser /\ shell'.overtaken = shell.overtaken
  BY <1>1, <1>2 DEF Shell, ShellTypeOK, Areas, Dashboard, Managed
<1>4. fetches' \in [Fetches -> Fetch] /\ \A d \in Fetches : Refusing(d)' => Refusing(d)
  BY <1>1, SessionCall
<1>5. (Doubt' => Doubt) /\ (Excused => Excused')
  BY <1>1, <1>3, <1>4 DEF Doubt, Excused
<1> QED BY <1>1, <1>3, <1>4, <1>5 DEF ShellTypeOK

(* Calls end with a status that is right to end with.                      *)
LEMMA CallsEnd ==
  ASSUME ShellInv, NEW D \in SUBSET Fetches, NEW status, NEW late \in BOOLEAN, endWith(D, status, late),
         UNCHANGED websession, cookies' \in Cookies, refreshRequest' \in {refreshRequest, NoRefresh},
         cookies.own => cookies'.own \/ shell'.byUser,
         ~late /\ (status = "401" \/ (status = "403" /\ \E d \in D : redirects(d))) => Excused
  PROVE ShellInv'
<1> USE DEF ShellInv
<1>1. /\ shell' \in Shell /\ fetches' \in [Fetches -> Fetch]
      /\ \A d \in Fetches : Refusing(d)' => Refusing(d)
      /\ (shell.byUser => shell'.byUser) /\ (shell.overtaken => shell'.overtaken)
      /\ shell'.route = "signin" =>
             \/ shell.route = "signin" \/ shell'.byUser \/ shell'.overtaken
             \/ ~late /\ (status = "401" \/ (status = "403" /\ \E d \in D : redirects(d)))
  BY EndWith
<1>2. Excused => Excused'
  BY <1>1 DEF Excused
<1>3. NoRefresh \in Refresh /\ NoRefresh.at = "none"
  BY DEF NoRefresh, Refresh
<1>4. Doubt' => Doubt \/ Excused \/ Excused'
  BY <1>1, <1>3 DEF Doubt, Excused
<1> QED BY <1>1, <1>2, <1>3, <1>4 DEF ShellTypeOK

LEMMA Served ==
  ASSUME ShellInv, NEW c \in Fetches, served(c) PROVE ShellInv'
<1> USE DEF ShellInv
<1>1. UNCHANGED <<cookies, shell, refreshRequest>>
  BY DEF served
<1>2. ASSUME fetches' \in [Fetches -> Fetch], \A d \in Fetches : Refusing(d)' => Refusing(d) \/ Excused,
             websession' \in {websession, NoSession}
      PROVE ShellInv'
  <2>1. websession' \in WebSession /\ (Excused => Excused')
    BY <1>1, <1>2, EndedSession DEF Excused, ShellTypeOK
  <2>2. Doubt' => Doubt \/ Excused
    BY <1>1, <1>2 DEF Doubt
  <2> QED BY <1>1, <1>2, <2>1, <2>2 DEF ShellTypeOK
<1>3. CASE fetches[c].kind = "page" /\ fetches' = [fetches EXCEPT ![c] = NoFetch] /\ UNCHANGED websession
  <2>1. NoFetch \in Fetch /\ NoFetch.at = "none"
    BY DEF NoFetch, Fetch
  <2>2. fetches' \in [Fetches -> Fetch] /\ fetches'[c].at = "none" /\ \A d \in Fetches \ {c} : fetches'[d] = fetches[d]
    BY <1>3, <2>1 DEF ShellTypeOK
  <2>3. \A d \in Fetches : Refusing(d)' => Refusing(d)
    BY <2>2 DEF Refusing, aboutSession
  <2> QED BY <1>2, <1>3, <2>2, <2>3
<1>4. ASSUME NEW answer \in {"done", "403"} \cup Areas, answerWith(c, answer),
             answer = "403" /\ aboutSession(c) => ~websession.web,
             websession' \in {websession, NoSession}
      PROVE ShellInv'
  <2>1. answer = "403" /\ aboutSession(c) => fetches[c].old \/ Excused
    BY <1>4 DEF Excused
  <2>2. fetches' \in [Fetches -> Fetch] /\ \A d \in Fetches : Refusing(d)' => Refusing(d) \/ Excused
    BY <1>4, <2>1, CallGoesOn
  <2> QED BY <1>2, <1>4, <2>2
<1>5. homePath(websession) \in Areas /\ "403" \notin Areas
  BY DEF homePath, Areas, Dashboard, Managed
<1>6. CASE answerWith(c, "done") /\ websession' \in {websession, NoSession}
  BY <1>4, <1>6
<1>7. CASE answerWith(c, homePath(websession)) /\ UNCHANGED websession
  BY <1>4, <1>5, <1>7
<1>8. CASE /\ answerWith(c, "403") /\ UNCHANGED websession
           /\ \/ aboutSession(c) /\ ~websession.web
              \/ fetches[c].kind = "revoke"
  BY <1>4, <1>8 DEF aboutSession
<1> QED BY <1>3, <1>6, <1>7, <1>8 DEF served

LEMMA Answered ==
  ASSUME ShellInv, NEW c \in Fetches, answered(c) PROVE ShellInv'
<1> USE DEF ShellInv
<1>1. /\ UNCHANGED <<websession, refreshRequest>> /\ fetches[c] \in Fetch
      /\ cookies' = IF fetches[c].kind = "logout" /\ fetches[c].at = "done" THEN NoCookies ELSE cookies
  BY DEF answered, ShellTypeOK
<1>2. cookies' \in Cookies
  BY <1>1 DEF ShellTypeOK, Cookies, NoCookies
<1>3. CASE fetches[c].at \in {"done", "403"} /\ endWith({c}, fetches[c].at, fetches[c].old)
  <2>1. fetches[c].old \in BOOLEAN
    BY <1>1 DEF Fetch
  <2>2. fetches[c].kind = "logout" => shell'.byUser
    BY <1>3 DEF endWith
  <2>3. fetches[c].at = "403" /\ ~fetches[c].old /\ redirects(c) => Excused
    BY DEF Doubt, Refusing, redirects, listens, aboutSession
  <2> QED BY <1>1, <1>2, <1>3, <2>1, <2>2, <2>3, CallsEnd
<1>4. CASE fetches[c].at \in Areas /\ learn(c, fetches[c].at)
  <2> DEFINE landing == fetches[c].at
             known == [shell EXCEPT !.navigation = navigationOf(landing),
                             !.state = IF fetches[c].kind = "focus" THEN @ ELSE "ready"]
  <2>1. /\ \/ fetches' = [fetches EXCEPT ![c] = NoFetch]
           \/ fetches' = effectOn(c)
        /\ shell' \in {shell, known} \/ shell' = [known EXCEPT !.route = landing]
    BY <1>4 DEF learn
  <2>2. navigationOf(landing) \in SUBSET Areas /\ "signin" \notin Areas
    BY DEF navigationOf, Areas, Dashboard, Managed
  <2>3. /\ shell' \in Shell
        /\ shell'.route = "signin" => shell.route = "signin"
        /\ shell'.byUser = shell.byUser /\ shell'.overtaken = shell.overtaken
    BY <1>4, <2>1, <2>2 DEF Shell, ShellTypeOK
  <2>4. fetches' \in [Fetches -> Fetch] /\ \A d \in Fetches : Refusing(d)' => Refusing(d)
    <3>1. CASE fetches' = [fetches EXCEPT ![c] = NoFetch]
      <4>1. NoFetch \in Fetch /\ NoFetch.at = "none"
        BY DEF NoFetch, Fetch
      <4>2. fetches' \in [Fetches -> Fetch] /\ fetches'[c].at = "none" /\ \A d \in Fetches \ {c} : fetches'[d] = fetches[d]
        BY <3>1, <4>1 DEF ShellTypeOK
      <4> QED BY <4>2 DEF Refusing, aboutSession
    <3>2. CASE fetches' = effectOn(c)
      BY <3>2, SessionCall
    <3> QED BY <2>1, <3>1, <3>2
  <2>5. cookies' = cookies
    BY <1>1, <1>4 DEF Areas, Dashboard, Managed
  <2>6. (Doubt' => Doubt) /\ (Excused => Excused')
    BY <1>1, <2>3, <2>4, <2>5 DEF Doubt, Excused
  <2> QED BY <1>1, <1>2, <2>3, <2>4, <2>6 DEF ShellTypeOK
<1> QED BY <1>3, <1>4 DEF answered

(* An outage sends nobody away; a second 401 does.                         *)
LEMMA NotServed ==
  ASSUME ShellInv, NEW c \in Fetches, outage(c) \/ unauthorizedAgain(c) PROVE ShellInv'
<1> USE DEF ShellInv
<1>1. /\ UNCHANGED <<websession, cookies, refreshRequest>> /\ cookies \in Cookies
      /\ fetches[c].old \in BOOLEAN
  BY DEF outage, unauthorizedAgain, ShellTypeOK, Fetch
<1>2. CASE endWith({c}, "error", fetches[c].old)
  BY <1>1, <1>2, CallsEnd
<1>3. CASE fetches[c].at = "resent" /\ ~authorized(c) /\ endWith({c}, "401", fetches[c].old)
  <2>1. ~fetches[c].old => Excused
    BY <1>3 DEF authorized, Doubt, Refusing, Excused
  <2> QED BY <1>1, <1>3, <2>1, CallsEnd
<1> QED BY <1>2, <1>3 DEF outage, unauthorizedAgain

(* A refresh is sent with a token of no session only if the cookies were   *)
(* lost before.                                                            *)
LEMMA AwaitRefresh ==
  ASSUME ShellInv, NEW c \in Fetches, awaitRefresh(c) PROVE ShellInv'
<1> USE DEF ShellInv
<1>1. /\ answerWith(c, "refreshing") /\ UNCHANGED <<websession, cookies, shell>>
      /\ refreshRequest' = IF refreshRequest.at # "none" THEN refreshRequest
                           ELSE [at |-> "sent", token |-> heldToken, old |-> FALSE]
  BY DEF awaitRefresh
<1>2. fetches' \in [Fetches -> Fetch] /\ \A d \in Fetches : Refusing(d)' => Refusing(d) \/ Excused
  BY <1>1, CallGoesOn
<1>3. heldToken \in {"last", "used", "none"} /\ (heldToken = "none" => ~cookies.own)
  BY DEF heldToken
<1>4. /\ refreshRequest' \in Refresh
      /\ refreshRequest' = refreshRequest
           \/ (refreshRequest'.at = "sent" /\ (refreshRequest'.token = "none" => ~cookies.own))
  BY <1>1, <1>3 DEF Refresh, ShellTypeOK
<1>5. (Doubt' => Doubt \/ Excused) /\ (Excused => Excused')
  BY <1>1, <1>2, <1>4 DEF Doubt, Excused
<1> QED BY <1>1, <1>2, <1>4, <1>5 DEF ShellTypeOK

LEMMA Rotated ==
  ASSUME ShellInv, rotateSession PROVE ShellInv'
<1> USE DEF ShellInv
<1>1. UNCHANGED <<shell, fetches>> /\ refreshRequest.at = "sent"
  BY DEF rotateSession
<1>2. CASE /\ refreshRequest' = [refreshRequest EXCEPT !.at = "rotated", !.token = "none"]
           /\ cookies' = [cookies EXCEPT !.last = FALSE] /\ UNCHANGED websession
  <2>1. /\ refreshRequest' \in Refresh /\ refreshRequest'.at = "rotated"
        /\ cookies' \in Cookies /\ cookies'.own = cookies.own
    BY <1>2 DEF Refresh, Cookies, ShellTypeOK
  <2>2. (Doubt' => Doubt) /\ (Excused => Excused')
    BY <1>1, <1>2, <2>1 DEF Doubt, Refusing, aboutSession, Excused
  <2> QED BY <1>1, <1>2, <2>1, <2>2 DEF ShellTypeOK
<1>3. CASE /\ ~websession.live \/ refreshRequest.token # "last"
           /\ refreshRequest' = [refreshRequest EXCEPT !.at = "refused", !.token = "none"]
           /\ websession' = IF refreshRequest.token = "used" THEN NoSession ELSE websession
           /\ UNCHANGED cookies
  <2>1. /\ refreshRequest' \in Refresh /\ refreshRequest'.at = "refused"
        /\ refreshRequest'.old = refreshRequest.old
    BY <1>3 DEF Refresh, ShellTypeOK
  <2>2. websession' \in WebSession /\ (Excused => Excused') /\ (refreshRequest.token = "used" => Excused')
    BY <1>1, <1>3, EndedSession DEF Excused, ShellTypeOK
  <2>3. ~refreshRequest.old => Excused'
    BY <1>1, <1>3, <2>2 DEF Doubt, Excused, ShellTypeOK, Refresh
  <2>4. Doubt' => Doubt \/ Excused'
    BY <1>1, <1>3, <2>1, <2>3 DEF Doubt, Refusing, aboutSession
  <2> QED BY <1>1, <1>3, <2>1, <2>2, <2>4 DEF ShellTypeOK
<1> QED BY <1>2, <1>3 DEF rotateSession

LEMMA RefreshAnswered ==
  ASSUME ShellInv, NEW answer \in {"rotated", "refused", "lost"}, refreshAnswered(answer) PROVE ShellInv'
<1> USE DEF ShellInv
<1>1. /\ refreshRequest' = NoRefresh /\ websession' = websession
      /\ answer = "lost" \/ answer = refreshRequest.at
      /\ NoRefresh \in Refresh /\ NoRefresh.at = "none"
      /\ refreshRequest.old \in BOOLEAN
  BY DEF refreshAnswered, NoRefresh, Refresh, ShellTypeOK
<1>2. CASE answer = "rotated"
  <2>1. /\ cookies' = IF refreshRequest.old THEN NoCookies ELSE NewCookies
        /\ fetches' = [c \in Fetches |-> IF c \in refreshing
                         THEN [fetches[c] EXCEPT !.at = "resent", !.valid = ~refreshRequest.old]
                         ELSE fetches[c]]
        /\ shell' = [shell EXCEPT !.overtaken = @ \/ refreshRequest.old]
    BY <1>2 DEF refreshAnswered, refreshWebSession
  <2>2. cookies' \in Cookies /\ (~refreshRequest.old => cookies'.own)
    BY <2>1 DEF Cookies, NoCookies, NewCookies
  <2>3. \A c \in Fetches : LET g == [fetches[c] EXCEPT !.at = "resent", !.valid = ~refreshRequest.old]
                           IN g \in Fetch /\ g.at = "resent" /\ g.valid = ~refreshRequest.old
    BY <1>1 DEF ShellTypeOK, Fetch
  <2>4. /\ fetches' \in [Fetches -> Fetch]
        /\ \A c \in Fetches : Refusing(c)' => Refusing(c) \/ refreshRequest.old
    BY <2>1, <2>3 DEF ShellTypeOK, Refusing, aboutSession
  <2>5. /\ shell' \in Shell /\ shell'.route = shell.route /\ shell'.byUser = shell.byUser
        /\ shell'.overtaken = (shell.overtaken \/ refreshRequest.old)
    BY <1>1, <2>1 DEF Shell, ShellTypeOK
  <2>6. (Doubt' => Doubt \/ refreshRequest.old) /\ (Excused \/ refreshRequest.old => Excused')
    BY <1>1, <2>2, <2>4, <2>5 DEF Doubt, Excused
  <2> QED BY <1>1, <2>2, <2>4, <2>5, <2>6 DEF ShellTypeOK
<1>3. refreshing \in SUBSET Fetches /\ cookies \in Cookies
  BY DEF refreshing, ShellTypeOK
<1>4. CASE answer = "refused"
  <2>1. endWith(refreshing, "401", refreshRequest.old) /\ UNCHANGED cookies
    BY <1>4 DEF refreshAnswered, refreshWebSession
  <2>2. ~refreshRequest.old => Excused
    BY <1>1, <1>4 DEF Doubt
  <2> QED BY <1>1, <1>3, <2>1, <2>2, CallsEnd
<1>5. CASE answer = "lost"
  <2>1. endWith(refreshing, "error", refreshRequest.old) /\ UNCHANGED cookies
    BY <1>5 DEF refreshAnswered, refreshWebSession
  <2> QED BY <1>1, <1>3, <2>1, CallsEnd
<1> QED BY <1>2, <1>4, <1>5

LEMMA ShellStep ==
  ASSUME ShellInv, [ShellNext]_shellVars PROVE ShellInv'
<1>1. CASE UNCHANGED shellVars
  BY <1>1 DEF shellVars, ShellInv, ShellTypeOK, Doubt, Refusing, aboutSession, Excused
<1> QED
  BY <1>1, Outside, SignIn, CallStarts, Served, Answered, NotServed, AwaitRefresh, Rotated, RefreshAnswered
  DEF ShellNext

LEMMA ShellStart == ASSUME ShellInit PROVE ShellInv
<1>1. /\ NoFetch \in Fetch /\ NoCookies \in Cookies /\ NoRefresh \in Refresh
      /\ NoSession \in WebSession /\ ~NoSession.live
  BY EndedSession DEF NoFetch, Fetch, NoCookies, Cookies, NoRefresh, Refresh
<1> QED BY <1>1 DEF ShellInit, ShellInv, ShellTypeOK, Excused, Shell, Areas

LEMMA ShellInvImplies == ASSUME ShellInv PROVE SignInPageMeansRefused
  BY DEF ShellInv, Doubt, Excused, SignInPageMeansRefused

(* With any number of calls and one shared refresh, however late they are  *)
(* answered, a user whose session goes on is at the sign-in page only if   *)
(* he asked to leave, something of an earlier session was answered since   *)
(* he signed in, or a token expired under a re-sent call (auth-api.ts,     *)
(* layout.tsx).                                                            *)
THEOREM OnlyRefusedSignIn == ShellSpec => []SignInPageMeansRefused
<1>1. ShellSpec => []ShellInv
  BY ShellStart, ShellStep, PTL DEF ShellSpec
<1> QED BY <1>1, ShellInvImplies, PTL

------------------------------------------------------------------------------
(* The workspace of requests (RequestsWorkspace).                          *)

(* A route that is copied is copied for the employee in the form, which    *)
(* nothing changes meanwhile; a form is complete of somebody; a request    *)
(* has a first version when it is filed.                                   *)
RoutesHeld ==
  /\ RouteOfItsTarget
  /\ call.kind = "copy" => call.target = routeForm.target /\ call.target \in Routed
  /\ call.kind \in {"CONFIRM", "DECIDE"} => call.target \in Filed
  /\ routeForm.complete => routeForm.target # Unloaded
  /\ \A i \in Filed : edition[i] # 0

WorkspaceInv == WorkspaceTypeOK /\ RoutesHeld

LEMMA WorkspaceValues ==
  /\ 0 \in 0..MaxEdition /\ \A n \in 1..MaxEdition : n \in 0..MaxEdition
  /\ EmptyForm \in RouteForm /\ NoCall \in Call /\ NoRead \in Read
  /\ EmptyForm.of = EmptyForm.target /\ ~EmptyForm.complete /\ NoCall.kind = "none"
  /\ \A of \in {"first", "focus", "own"} : read(of) \in Read
<1>1. 0 \in 0..MaxEdition /\ \A n \in 1..MaxEdition : n \in 0..MaxEdition
  BY WorkspaceAssumption
<1> QED BY <1>1 DEF EmptyForm, NoCall, NoRead, read, RouteForm, Call, Read

LEMMA WorkspaceStart ==
  ASSUME WorkspaceInit PROVE WorkspaceInv
<1>1. \A n \in 0..1 : n \in 0..MaxEdition
  BY WorkspaceAssumption
<1>2. edition \in [Targets -> 0..MaxEdition] /\ \A i \in Filed : edition[i] # 0
  BY <1>1 DEF WorkspaceInit
<1>3. step \in [Filed -> NextStep] /\ reading \in [Reading -> Read]
  BY WorkspaceValues DEF WorkspaceInit, firstSteps, NextStep
<1> QED
  BY <1>2, <1>3, WorkspaceValues
  DEF WorkspaceInit, WorkspaceInv, WorkspaceTypeOK, RoutesHeld, RouteOfItsTarget, EmptyForm, NoCall

(* The form and the click stay, whatever the lists become. *)
LEMMA ListsChange ==
  ASSUME WorkspaceInv, UNCHANGED <<atBackend, routeForm>>,
         items' \in [Filed -> Row] \cup {Unloaded}, routes' \in Routes \cup {Unloaded},
         reading' \in [Reading -> Read], area' \in {"QUEUE", "ROUTES"}, detail' \in Filed \cup {Unloaded},
         call' \in {call, NoCall} \/ \E at \in {"asking", "sent", "stored", "loading"} : call' = [call EXCEPT !.at = at]
  PROVE WorkspaceInv'
<1>1. \A at \in {"asking", "sent", "stored", "loading"} :
        /\ [call EXCEPT !.at = at] \in Call
        /\ [call EXCEPT !.at = at].kind = call.kind
        /\ [call EXCEPT !.at = at].of = call.of
        /\ [call EXCEPT !.at = at].target = call.target
  BY DEF WorkspaceInv, WorkspaceTypeOK, Call
<1>2. call' \in Call /\ (call'.kind = "none" \/ (call'.kind = call.kind /\ call'.of = call.of /\ call'.target = call.target))
  BY <1>1, WorkspaceValues DEF WorkspaceInv, WorkspaceTypeOK
<1> QED
  BY <1>2 DEF WorkspaceInv, WorkspaceTypeOK, RoutesHeld, RouteOfItsTarget, atBackend

(* A click that begins something other than to save a route. *)
LEMMA CallBegins ==
  ASSUME WorkspaceInv, UNCHANGED <<atBackend, routeForm, routes>>,
         items' \in {items, Unloaded}, reading' \in [Reading -> Read], detail' \in Filed \cup {Unloaded}, area' = area,
         NEW kind \in {"CONFIRM", "DECIDE", "history", "copy", "refresh"}, NEW at \in {"asking", "sent", "loading"},
         NEW target \in Targets \cup {Unloaded}, NEW version \in 0..MaxEdition,
         beginCall(kind, at, target, version), kind \in {"CONFIRM", "DECIDE"} => target \in Filed,
         kind = "copy" => target = routeForm.target /\ target \in Routed
  PROVE WorkspaceInv'
<1>1. call' = [kind |-> kind, at |-> at, target |-> target, expectedVersion |-> version, seen |-> 0, of |-> Unloaded]
  BY DEF beginCall, NoCall
<1>3. call' \in Call
  BY <1>1, WorkspaceValues DEF Call
<1> QED
  BY <1>1, <1>3 DEF WorkspaceInv, WorkspaceTypeOK, RoutesHeld, RouteOfItsTarget, atBackend

(* Another form, while nothing is under way that speaks of the last. *)
LEMMA FormChanges ==
  ASSUME WorkspaceInv, UNCHANGED <<atBackend, lists>>,
         detail' \in {detail, Unloaded}, area' \in {"QUEUE", "ROUTES"},
         routeForm' \in RouteForm, routeForm'.of = routeForm'.target,
         routeForm'.complete => routeForm'.target # Unloaded,
         call' \in Call, call'.kind \notin {"copy", "CONFIRM", "DECIDE"}, call'.kind = "route" => call'.of = call'.target
  PROVE WorkspaceInv'
  BY DEF WorkspaceInv, WorkspaceTypeOK, RoutesHeld, RouteOfItsTarget, atBackend, lists

LEMMA Loads ==
  ASSUME WorkspaceInv, NEW c \in Reading,
         focusLoad(c) \/ readLists(c) \/ loaded(c) \/ loadFailed(c) \/ refresh(c) \/ saved(c)
  PROVE WorkspaceInv'
<1> USE DEF WorkspaceInv
<1>0. /\ \A of \in {"focus", "own"} : [reading EXCEPT ![c] = read(of)] \in [Reading -> Read]
      /\ [reading EXCEPT ![c] = NoRead] \in [Reading -> Read]
      /\ reading[c] \in Read
  BY WorkspaceValues DEF WorkspaceTypeOK
<1>1. CASE focusLoad(c)
  BY <1>0, <1>1, ListsChange DEF focusLoad, startLoad, WorkspaceTypeOK
<1>2. CASE readLists(c)
  <2> DEFINE rows == [i \in Filed |-> [version |-> edition[i], step |-> step[i]]]
             versions == [e \in Routed |-> edition[e]]
  <2>1. \A i \in Filed : edition[i] \in 1..MaxEdition /\ step[i] \in NextStep
    BY WorkspaceAssumption DEF WorkspaceTypeOK, RoutesHeld, Targets
  <2>2. rows \in [Filed -> Row]
    BY <2>1 DEF Row
  <2>3. versions \in Routes
    BY DEF Routes, WorkspaceTypeOK, Targets
  <2>4. [[reading[c] EXCEPT !.items = rows] EXCEPT !.routes = versions] \in Read
    BY <1>0, <2>2, <2>3 DEF Read
  <2>5. reading' = [reading EXCEPT ![c] = [[reading[c] EXCEPT !.items = rows] EXCEPT !.routes = versions]]
    BY <1>2 DEF readLists, WorkspaceTypeOK
  <2>6. reading' \in [Reading -> Read]
    BY <2>4, <2>5 DEF WorkspaceTypeOK
  <2> QED BY <1>2, <2>6, ListsChange DEF readLists, WorkspaceTypeOK
<1>3. CASE loaded(c)
  <2>1. reading[c].items \in [Filed -> Row] \cup {Unloaded} /\ reading[c].routes \in Routes \cup {Unloaded}
    BY <1>0 DEF Read
  <2> QED BY <1>0, <1>3, <2>1, ListsChange DEF loaded, WorkspaceTypeOK
<1>4. CASE loadFailed(c)
  BY <1>0, <1>4, ListsChange DEF loadFailed, giveUp, WorkspaceTypeOK
<1>5. CASE refresh(c)
  BY <1>0, <1>5, CallBegins, WorkspaceValues DEF refresh, startLoad, WorkspaceTypeOK
<1>6. CASE saved(c)
  <2>1. /\ reading' \in [Reading -> Read] /\ items' = Unloaded /\ detail' = Unloaded
        /\ UNCHANGED <<atBackend, routes, area>> /\ call' = [call EXCEPT !.at = "loading"]
        /\ routeForm' = IF call.kind = "route" THEN EmptyForm ELSE routeForm
    BY <1>0, <1>6 DEF saved, startLoad
  <2>2. call' \in Call /\ call'.kind = call.kind /\ call'.of = call.of /\ call'.target = call.target
    BY <2>1 DEF WorkspaceTypeOK, Call
  <2>3. CASE call.kind = "route"
    BY <2>1, <2>2, <2>3, WorkspaceValues DEF WorkspaceTypeOK, RoutesHeld, RouteOfItsTarget, atBackend
  <2>4. CASE call.kind # "route"
    BY <2>1, <2>2, <2>4 DEF WorkspaceTypeOK, RoutesHeld, RouteOfItsTarget, atBackend
  <2> QED BY <2>3, <2>4
<1> QED BY <1>1, <1>2, <1>3, <1>4, <1>5, <1>6

LEMMA Drawer ==
  ASSUME WorkspaceInv,
         \/ \E i \in Filed : showHistory(i) \/ editItem(i) \/ process(i, "CONFIRM") \/ process(i, "DECIDE")
         \/ historyShown \/ closeDetail \/ changeView("QUEUE") \/ changeView("ROUTES")
  PROVE WorkspaceInv'
<1> USE DEF WorkspaceInv, lists
<1>1. ASSUME NEW i \in Filed, showHistory(i) PROVE WorkspaceInv'
  BY <1>1, CallBegins, WorkspaceValues DEF showHistory, WorkspaceTypeOK, Targets
<1>2. ASSUME NEW i \in Filed, editItem(i) PROVE WorkspaceInv'
  <2>1. items[i].version \in 1..MaxEdition
    BY <1>2 DEF editItem, drawerOf, WorkspaceTypeOK, Row
  <2>2. /\ routeForm' \in RouteForm /\ routeForm'.of = routeForm'.target /\ ~routeForm'.complete
    BY <1>2, <2>1, WorkspaceValues DEF editItem, RouteForm, Targets
  <2>3. call' = call /\ call.kind = "none" /\ call \in Call
    BY <1>2 DEF editItem, drawerOf, pageBusy, WorkspaceTypeOK
  <2> QED BY <1>2, <2>2, <2>3, FormChanges DEF editItem
<1>3. ASSUME NEW i \in Filed, NEW action \in {"CONFIRM", "DECIDE"}, process(i, action) PROVE WorkspaceInv'
  <2>1. items[i].version \in 1..MaxEdition
    BY <1>3 DEF process, drawerOf, WorkspaceTypeOK, Row
  <2> QED BY <1>3, <2>1, CallBegins, WorkspaceValues DEF process, WorkspaceTypeOK, Targets
<1>4. CASE historyShown \/ closeDetail
  BY <1>4, ListsChange DEF historyShown, closeDetail, WorkspaceTypeOK
<1>5. ASSUME NEW value \in {"QUEUE", "ROUTES"}, changeView(value) PROVE WorkspaceInv'
  BY <1>5, ListsChange DEF changeView, WorkspaceTypeOK
<1> QED BY <1>1, <1>2, <1>3, <1>4, <1>5

LEMMA RouteEditor ==
  ASSUME WorkspaceInv,
         \/ \E e \in Routed \cup {Unloaded} : selectEmployee(e)
         \/ \E yes \in BOOLEAN : answerDialog(yes) \/ copied(yes)
         \/ fillRoute \/ copyExplanationRoute \/ saveRoute
  PROVE WorkspaceInv'
<1> USE DEF WorkspaceInv, lists
<1>1. ASSUME NEW e \in Routed \cup {Unloaded}, selectEmployee(e) PROVE WorkspaceInv'
  <2>1. call' = call /\ call.kind = "none" /\ call \in Call
    BY <1>1 DEF selectEmployee, editor, pageBusy, WorkspaceTypeOK
  <2>2. e \in Routed => routes[e] \in 0..MaxEdition
    BY <1>1 DEF selectEmployee, editor, WorkspaceTypeOK, Routes
  <2>3. /\ routeForm' \in RouteForm /\ routeForm'.of = routeForm'.target /\ ~routeForm'.complete
    BY <1>1, <2>2, WorkspaceValues DEF selectEmployee, RouteForm, Targets
  <2> QED BY <1>1, <2>1, <2>3, FormChanges DEF selectEmployee, WorkspaceTypeOK
<1>2. ASSUME NEW yes \in BOOLEAN, answerDialog(yes) PROVE WorkspaceInv'
  BY <1>2, ListsChange DEF answerDialog, WorkspaceTypeOK
<1>3. ASSUME NEW yes \in BOOLEAN, copied(yes) PROVE WorkspaceInv'
  <2>1. call' = NoCall /\ call.target = routeForm.target /\ call.target \in Routed
    BY <1>3 DEF copied, RoutesHeld
  <2>2. /\ routeForm' \in RouteForm /\ routeForm'.of = routeForm'.target
        /\ routeForm'.complete => routeForm'.target # Unloaded
    BY <1>3, <2>1, WorkspaceAssumption DEF copied, RouteForm, WorkspaceTypeOK, RoutesHeld, RouteOfItsTarget, Targets
  <2> QED BY <1>3, <2>1, <2>2, FormChanges, WorkspaceValues DEF copied, WorkspaceTypeOK
<1>4. CASE fillRoute
  <2>1. call' = call /\ call.kind = "none" /\ call \in Call
    BY <1>4 DEF fillRoute, editor, pageBusy, WorkspaceTypeOK
  <2>2. routeForm' \in RouteForm /\ routeForm'.of = routeForm'.target /\ routeForm'.target # Unloaded
    BY <1>4 DEF fillRoute, RouteForm, WorkspaceTypeOK, RoutesHeld, RouteOfItsTarget
  <2> QED BY <1>4, <2>1, <2>2, FormChanges DEF fillRoute, WorkspaceTypeOK
<1>5. CASE copyExplanationRoute
  BY <1>5, CallBegins, WorkspaceValues DEF copyExplanationRoute, WorkspaceTypeOK, Targets
<1>6. CASE saveRoute
  <2>1. routeForm.target \in Targets /\ routeForm \in RouteForm /\ routes \in Routes
    BY <1>6 DEF saveRoute, editor, WorkspaceTypeOK, RoutesHeld, RouteForm
  <2>2. versionToSend \in 0..MaxEdition
    BY <2>1 DEF versionToSend, RouteForm, Routes, Targets
  <2>3. call' \in Call /\ call'.kind = "route" /\ call'.of = call'.target
    BY <1>6, <2>1, <2>2 DEF saveRoute, Call, RouteForm, RoutesHeld, RouteOfItsTarget
  <2> QED BY <1>6, <2>1, <2>3, FormChanges DEF saveRoute, WorkspaceTypeOK, RoutesHeld, RouteOfItsTarget
<1> QED BY <1>1, <1>2, <1>3, <1>4, <1>5, <1>6

(* What the Backend writes. *)
LEMMA Written ==
  ASSUME WorkspaceInv, NEW X, NEW next \in [Filed -> NextStep], written(X, next),
         UNCHANGED <<workspace, lists, area, detail, routeForm>>,
         call' = call \/ call' = [call EXCEPT !.at = "stored"], X \subseteq Targets
  PROVE WorkspaceInv'
<1> USE DEF WorkspaceInv
<1>1. /\ edition' = [x \in Targets |-> IF x \in X THEN edition[x] + 1 ELSE edition[x]]
      /\ step' = [i \in Filed |-> IF i \in X THEN next[i] ELSE step[i]]
      /\ \A x \in X : edition[x] < MaxEdition
  BY DEF written
<1>2. \A x \in Targets : edition[x] \in 0..MaxEdition
  BY DEF WorkspaceTypeOK
<1>3. edition' \in [Targets -> 0..MaxEdition] /\ \A i \in Filed : edition'[i] # 0
  BY <1>1, <1>2, WorkspaceAssumption DEF RoutesHeld, Targets
<1>4. step' \in [Filed -> NextStep]
  BY <1>1 DEF WorkspaceTypeOK
<1>5. call' \in Call /\ call'.kind = call.kind /\ call'.of = call.of /\ call'.target = call.target
  BY DEF WorkspaceTypeOK, Call
<1> QED BY <1>3, <1>4, <1>5 DEF WorkspaceTypeOK, RoutesHeld, RouteOfItsTarget, lists

LEMMA AtBackend ==
  ASSUME WorkspaceInv, save \/ byOthers PROVE WorkspaceInv'
<1> USE DEF WorkspaceInv
<1>1. rerouted \in [Filed -> NextStep]
  BY DEF rerouted, NextStep, WorkspaceTypeOK
<1>2. \A x \in NextStep : [j \in Filed |-> x] \in [Filed -> NextStep]
  OBVIOUS
<1>3. /\ UNCHANGED <<workspace, lists, area, detail, routeForm>>
      /\ call' = call \/ call' = [call EXCEPT !.at = "stored"]
  BY DEF save, byOthers
<1>4. \/ \E e \in Routed : putRoute(e)
      \/ \E i \in Filed : changeRoute(i)
      \/ \E i \in Filed, action \in {"CONFIRM", "DECIDE"} : decided(i, action)
      \/ \E i \in Filed, next \in {"LEADER_CONFIRMATION", "WAITING_ROUTING"} : written({i}, [j \in Filed |-> next])
  BY DEF save, byOthers, RoutesHeld
<1>5. ASSUME NEW e \in Routed, putRoute(e) PROVE WorkspaceInv'
  BY <1>1, <1>3, <1>5, Written DEF putRoute, pendingOf, Targets
<1>6. ASSUME NEW i \in Filed, changeRoute(i) PROVE WorkspaceInv'
  BY <1>1, <1>3, <1>6, Written DEF changeRoute, Targets
<1>7. ASSUME NEW i \in Filed, NEW action \in {"CONFIRM", "DECIDE"}, decided(i, action) PROVE WorkspaceInv'
  <2> DEFINE next == [j \in Filed |-> IF action = "CONFIRM" THEN "HEAD_APPROVAL" ELSE "COMPLETED"]
  <2>1. next \in [Filed -> NextStep]
    BY DEF NextStep
  <2>2. written({i}, next) /\ {i} \subseteq Targets
    BY <1>7 DEF decided, Targets
  <2> QED BY <1>3, <2>1, <2>2, Written
<1>8. ASSUME NEW i \in Filed, NEW next \in {"LEADER_CONFIRMATION", "WAITING_ROUTING"}, written({i}, [j \in Filed |-> next])
      PROVE WorkspaceInv'
  <2>1. [j \in Filed |-> next] \in [Filed -> NextStep] /\ {i} \subseteq Targets
    BY DEF NextStep, Targets
  <2> QED BY <1>3, <1>8, <2>1, Written
<1> QED BY <1>4, <1>5, <1>6, <1>7, <1>8

LEMMA WorkspaceStep ==
  ASSUME WorkspaceInv, [WorkspaceNext]_workspaceVars PROVE WorkspaceInv'
<1>1. CASE saveFailed
  BY <1>1, ListsChange DEF saveFailed, giveUp, WorkspaceInv, WorkspaceTypeOK
<1>2. CASE UNCHANGED workspaceVars
  BY <1>2 DEF workspaceVars, WorkspaceInv, WorkspaceTypeOK, RoutesHeld, RouteOfItsTarget
<1> QED BY <1>1, <1>2, Loads, Drawer, RouteEditor, AtBackend DEF WorkspaceNext

(* The route in the editor, and the one being saved, are of the employee   *)
(* or request they are saved for (leave-workflow-workspace.tsx).           *)
THEOREM RouteStaysWithTarget == WorkspaceSpec => []RouteOfItsTarget
<1>1. WorkspaceSpec => []WorkspaceInv
  BY WorkspaceStart, WorkspaceStep, PTL DEF WorkspaceSpec
<1>2. WorkspaceInv => RouteOfItsTarget
  BY DEF WorkspaceInv, RoutesHeld
<1> QED BY <1>1, <1>2, PTL

------------------------------------------------------------------------------
(* All of them, side by side.                                              *)


Side ==
  /\ ScheduleInv /\ LifecycleInv
  /\ PageInv /\ TripsPageInv /\ ShellInv /\ WorkspaceInv

LEMMA OneMoves ==
  ASSUME [MCNext]_allVars
  PROVE /\ [ScheduleNext]_scheduleVars /\ [LifecycleNext]_lifecycleVars
        /\ [PageNext]_pageVars /\ [TripsPageNext]_tripsPageVars
        /\ [ShellNext]_shellVars /\ [WorkspaceNext]_workspaceVars
<1>1. CASE component
  BY <1>1 DEF component, screenVars
<1>2. CASE screen
  BY <1>2 DEF screen
<1>3. CASE UNCHANGED allVars
  BY <1>3 DEF allVars, screenVars
<1> QED BY <1>1, <1>2, <1>3 DEF MCNext

(* The workspace that is not looked at. *)
LEMMA WorkspaceAsleep == ASSUME workspaceAsleep PROVE WorkspaceInv
<1>1. 1 \in 0..MaxEdition
  BY WorkspaceAssumption
<1> QED
  BY <1>1, WorkspaceValues DEF workspaceAsleep, WorkspaceInv, WorkspaceTypeOK, RoutesHeld, RouteOfItsTarget,
                               Targets, NextStep, EmptyForm, NoCall

LEMMA SideStart == ASSUME MCInit PROVE Side
  BY ScheduleStart, LifecycleStart, PageStart, TripsPageStart, ShellStart, WorkspaceStart, WorkspaceAsleep
  DEF MCInit, Side

LEMMA SideStep ==
  ASSUME Side, [MCNext]_allVars PROVE Side' /\ pastScheduleKept /\ pastHomesKept
<1>1. ScheduleInv' /\ pastScheduleKept
  BY OneMoves, ScheduleStep, SchedulesKeepPast DEF Side
<1>2. LifecycleInv' /\ pastHomesKept
  BY OneMoves, LifecycleStep DEF Side
<1>3. PageInv'
  BY OneMoves, PageStep DEF Side
<1>4. TripsPageInv'
  BY OneMoves, TripsPageStep DEF Side
<1>5. ShellInv'
  BY OneMoves, ShellStep DEF Side
<1>6. WorkspaceInv'
  BY OneMoves, WorkspaceStep DEF Side
<1> QED BY <1>1, <1>2, <1>3, <1>4, <1>5, <1>6 DEF Side

(* In every reachable state of the run the four screens agree with what    *)
(* the Backend holds or insists on, for any number of employees, trips,    *)
(* requests and calls under way.                                           *)
THEOREM ScreensStand == MCSpec => []ScreensAgree
<1>1. MCSpec => []Side
  BY SideStart, SideStep, PTL DEF MCSpec
<1>2. Side => ScreensAgree
  BY TripsPageInvImplies, ShellInvImplies DEF Side, ScreensAgree, PageInv, WorkspaceInv, RoutesHeld
<1> QED BY <1>1, <1>2, PTL

(* No step of the run rewrites a schedule or a place of the past, for any  *)
(* number of owners, planners, employees and editors.                      *)
THEOREM HistoryStands == MCSpec => HistoryKept
<1>1. MCSpec => []Side
  BY SideStart, SideStep, PTL DEF MCSpec
<1> QED BY <1>1, SideStep, PTL DEF MCSpec, HistoryKept

------------------------------------------------------------------------------
(* The run is each of its components: what is proved of one component      *)
(* alone holds of it in the run.                                           *)
LEMMA RejectionsAreReviews == ASSUME rejections PROVE ReviewStep
<1>1. PICK x \in {y \in Explanations : explanation[y] # NoExplanation /\ rowFree(y)} : adminReview(hed, x, "REJECTED")
  BY DEF rejections
<1>2. hed \in Users
  BY <1>1, OrgAssumption DEF adminReview, canAdminReview
<1> QED BY <1>1, <1>2 DEF ReviewStep

Focuses ==
  {"TRIPS", "QUOTA", "FILING", "REVIEW", "GRANTS", "SCHEDULES", "PROFILES",
   "EMPLOYEES_PAGE", "TRIPS_PAGE", "CUSTOMERS_PAGE", "SHELL", "REQUESTS_PAGE"}

LEMMA OneWorks ==
  ASSUME [MCNext]_allVars
  PROVE  [TripNext]_tripVars /\ [QuotaNext]_quotaVars /\ [ExplainNext]_explainVars /\ [AccessNext]_accessVars
<1>1. CASE component
  BY <1>1, RejectionsAreReviews DEF component, ExplainNext
<1>2. CASE screen
  BY <1>2 DEF screen
<1>3. CASE UNCHANGED allVars
  BY <1>3 DEF allVars
<1> QED BY <1>1, <1>2, <1>3 DEF MCNext

(* Every component and every screen keeps its types.                       *)
THEOREM WorkforceTypes == MCSpec => []WorkforceTypeOK
<1>1. MCInit => TripInit /\ QuotaInit /\ ExplainInit /\ AccessInit
  BY DEF MCInit
<1>2. MCSpec => TripSpec /\ QuotaSpec /\ ExplainSpec /\ AccessSpec
  BY <1>1, OneWorks, PTL DEF MCSpec, TripSpec, QuotaSpec, ExplainSpec, AccessSpec
<1>3. MCSpec => []Side
  BY SideStart, SideStep, PTL DEF MCSpec
<1>4. ASSUME Side, TripTypeOK, QuotaTypeOK, ExplainTypeOK, AccessTypeOK, focus \in Focuses PROVE WorkforceTypeOK
  BY <1>4 DEF Side, ScheduleInv, LifecycleInv, PageInv, TripsPageInv, ShellInv, WorkspaceInv, WorkforceTypeOK, Focuses
<1>5. MCInit => focus \in Focuses
  BY DEF MCInit, Focuses
<1>6. focus \in Focuses /\ [MCNext]_allVars => (focus \in Focuses)'
  BY DEF MCNext, allVars
<1> QED BY <1>2, <1>3, <1>4, <1>5, <1>6, TripTypes, QuotaTypes, ExplainTypes, AccessTypeCorrect, PTL DEF MCSpec

=============================================================================
