---------------------------- MODULE LeaveQuotaProofs ---------------------------
(***************************************************************************)
(* Two proofs about leave, for any number of employees, requests and       *)
(* transactions.                                                           *)
(* First, no two open requests of an employee share a day.  The overlap is *)
(* looked for when a creation begins and the row is inserted at its        *)
(* commit: what holds in between is that an employee has one creation      *)
(* under way (CreationsApart) and that its days are still free             *)
(* (DaysStayFree).                                                         *)
(* Second, what was checked against a balance never uses more than it      *)
(* holds.  A row has one holder (HoldersApart), a row that nobody made has *)
(* nothing on it (EmptyUntilMade), a row covers what counts (Covered), and *)
(* what its holder read is still true of it (HeldStands).  The minutes of  *)
(* the requests are a fold over a finite set; that the fold of a set is    *)
(* one member and the fold of the rest, for every order in which it may    *)
(* choose, is proved here by a least counterexample.                       *)
(***************************************************************************)
EXTENDS LeaveQuota, FiniteSetTheorems, WellFoundedInduction, TLAPS

creating(c) == clerk[c].op = "create"
takesDays(q) == leave[q].status \in {"SUBMITTED", "APPROVED"}

(* The fields of a creation that its commit uses. *)
CreationFields == {"op", "employee", "policy", "leave", "from", "to", "minutes"}

CreationTyped(w) ==
  /\ CreationFields \subseteq DOMAIN w
  /\ w.employee \in Takers /\ w.leave \in Leaves /\ w.minutes \in Minutes
  /\ w.from \in 0..LastDay /\ w.to \in 0..LastDay /\ w.from <= w.to
  /\ w.policy.tracking \in BOOLEAN

RequestsTyped ==
  /\ policy \in [tracking: BOOLEAN, carryOver: BOOLEAN]
  /\ leave \in [Leaves -> LeaveRow \cup {NoLeave}]
  /\ clerk = [c \in Clerks |-> clerk[c]]
  /\ \A c \in Clerks : "op" \in DOMAIN clerk[c]
  /\ \A c \in Clerks : creating(c) => CreationTyped(clerk[c])

CreationsApart ==
  \A c, d \in Clerks : creating(c) /\ creating(d) /\ clerk[c].employee = clerk[d].employee => c = d

DaysStayFree ==
  \A c \in Clerks, q \in Leaves :
    creating(c) /\ takesDays(q) /\ leave[q].employee = clerk[c].employee
    => clerk[c].to < leave[q].from \/ leave[q].to < clerk[c].from

QuotaInv == RequestsTyped /\ CreationsApart /\ DaysStayFree /\ NoOverlappingLeave

LEMMA InitQuotaInv == ASSUME QuotaInit PROVE QuotaInv
<1>1. \A q \in Leaves : leave[q].status = "NONE"
  BY DEF QuotaInit, NoLeave
<1>2. \A c \in Clerks : ~creating(c)
  BY DEF QuotaInit, NoWork, creating
<1>3. RequestsTyped
  BY <1>2 DEF QuotaInit, RequestsTyped, NoWork
<1> QED BY <1>1, <1>2, <1>3 DEF QuotaInv, CreationsApart, DaysStayFree, NoOverlappingLeave, takesDays

(* A step that begins no creation, inserts no request and moves none.      *)
LEMMA QuotaQuietStep ==
  ASSUME QuotaInv, policy' \in [tracking: BOOLEAN, carryOver: BOOLEAN],
         leave' \in [Leaves -> LeaveRow \cup {NoLeave}],
         \A q \in Leaves : takesDays(q)' => /\ takesDays(q) /\ leave'[q].employee = leave[q].employee
                                       /\ leave'[q].from = leave[q].from /\ leave'[q].to = leave[q].to,
         clerk' = [c \in Clerks |-> clerk'[c]], \A c \in Clerks : "op" \in DOMAIN clerk'[c],
         \A c \in Clerks : creating(c)' =>
           /\ creating(c) /\ CreationFields \subseteq DOMAIN clerk'[c]
           /\ \A field \in CreationFields : clerk'[c][field] = clerk[c][field]
  PROVE  QuotaInv'
<1>1. \A c \in Clerks : creating(c)' =>
        /\ creating(c) /\ clerk'[c].employee = clerk[c].employee
        /\ clerk'[c].from = clerk[c].from /\ clerk'[c].to = clerk[c].to
        /\ CreationTyped(clerk'[c])
  BY DEF CreationFields, CreationTyped, QuotaInv, RequestsTyped
<1>2. RequestsTyped'
  BY <1>1 DEF RequestsTyped
<1>3. CreationsApart'
  BY <1>1 DEF QuotaInv, CreationsApart
<1>4. DaysStayFree'
  BY <1>1 DEF QuotaInv, DaysStayFree
<1>5. NoOverlappingLeave'
  <2>1. \A q \in Leaves : leave[q].status \in {"SUBMITTED", "APPROVED"} <=> takesDays(q)
    BY DEF takesDays
  <2>2. \A q \in Leaves : leave'[q].status \in {"SUBMITTED", "APPROVED"} <=> takesDays(q)'
    BY DEF takesDays
  <2> QED BY <2>1, <2>2 DEF QuotaInv, NoOverlappingLeave
<1> QED BY <1>2, <1>3, <1>4, <1>5 DEF QuotaInv

(* What a transaction holds when it has begun. *)
WorkFields == {"op", "employee", "year", "policy", "locked"}
Begun(c, op, e, y, more) ==
  /\ clerk' = [d \in Clerks |-> clerk'[d]]
  /\ \A d \in Clerks : d # c => clerk'[d] = clerk[d]
  /\ DOMAIN clerk'[c] = WorkFields \cup DOMAIN more
  /\ clerk'[c].op = op /\ clerk'[c].employee = e /\ clerk'[c].year = y
  /\ clerk'[c].policy = policy /\ clerk'[c].locked = FALSE
  /\ \A field \in DOMAIN more : clerk'[c][field] = more[field]

LEMMA BegunFields ==
  ASSUME NEW c \in Clerks, NEW op, NEW e, NEW y, NEW more, begin(c, op, e, y, more),
         clerk = [d \in Clerks |-> clerk[d]], WorkFields \cap DOMAIN more = {}
  PROVE  Begun(c, op, e, y, more)
<1> PICK base : base = [op |-> op, employee |-> e, year |-> y, policy |-> policy, locked |-> FALSE]
  OBVIOUS
<1>1. clerk' = [clerk EXCEPT ![c] = extend(base, more)]
  BY DEF begin
<1>2. /\ DOMAIN base = WorkFields
      /\ base["op"] = op /\ base["employee"] = e /\ base["year"] = y
      /\ base["policy"] = policy /\ base["locked"] = FALSE
  BY DEF WorkFields
<1>3. /\ DOMAIN extend(base, more) = DOMAIN base \cup DOMAIN more
      /\ \A field \in DOMAIN more : extend(base, more)[field] = IF field \in DOMAIN base THEN base[field] ELSE more[field]
      /\ \A field \in DOMAIN base : extend(base, more)[field] = base[field]
  BY DEF extend
<1>4. clerk'[c] = extend(base, more)
  BY <1>1
<1>5. "op" \in WorkFields /\ "employee" \in WorkFields /\ "year" \in WorkFields /\ "policy" \in WorkFields
      /\ "locked" \in WorkFields
  BY DEF WorkFields
<1> QED BY <1>1, <1>2, <1>3, <1>4, <1>5 DEF Begun

LEMMA BeginLeaveStep ==
  ASSUME QuotaInv, NEW c \in Clerks, NEW e \in Takers, NEW q \in Leaves, NEW from \in 0..LastDay,
         NEW to \in 0..LastDay, NEW minutes \in Minutes, beginLeave(c, e, q, from, to, minutes)
  PROVE  QuotaInv'
<1> PICK more : more = [leave |-> q, from |-> from, to |-> to, minutes |-> minutes]
  OBVIOUS
<1>1. begin(c, "create", e, yearOf(from), more) /\ UNCHANGED <<policy, leave>>
  BY DEF beginLeave, begin
<1>2. DOMAIN more = {"leave", "from", "to", "minutes"}
  OBVIOUS
<1>3. /\ clerk' = [d \in Clerks |-> clerk'[d]]
      /\ \A d \in Clerks : d # c => clerk'[d] = clerk[d]
      /\ DOMAIN clerk'[c] = WorkFields \cup DOMAIN more /\ "op" \in DOMAIN clerk'[c]
      /\ clerk'[c].op = "create" /\ clerk'[c].employee = e /\ clerk'[c].policy = policy
      /\ \A field \in DOMAIN more : clerk'[c][field] = more[field]
  <2>1. WorkFields \cap DOMAIN more = {}
    BY <1>2 DEF WorkFields
  <2>2. clerk = [d \in Clerks |-> clerk[d]]
    BY DEF QuotaInv, RequestsTyped
  <2>3. Begun(c, "create", e, yearOf(from), more)
    BY <1>1, <2>1, <2>2, BegunFields
  <2> QED BY <2>3 DEF Begun, WorkFields
<1>4. clerk'[c].leave = q /\ clerk'[c].from = from /\ clerk'[c].to = to /\ clerk'[c].minutes = minutes
  BY <1>2, <1>3
<1>5. from <= to /\ overlapping(e, from, to) = {} /\ routeLockFree(e)
  BY DEF beginLeave
<1>6. CreationTyped(clerk'[c])
  BY <1>2, <1>3, <1>4, <1>5 DEF CreationTyped, CreationFields, WorkFields, QuotaInv, RequestsTyped
<1>7. RequestsTyped'
  BY <1>1, <1>3, <1>6 DEF QuotaInv, RequestsTyped, creating
<1>8. CreationsApart'
  BY <1>3, <1>5 DEF QuotaInv, CreationsApart, creating, routeLockFree
<1>9. \A p \in Leaves : takesDays(p) /\ leave[p].employee = e => to < leave[p].from \/ leave[p].to < from
  <2> SUFFICES ASSUME NEW p \in Leaves, takesDays(p), leave[p].employee = e
               PROVE  to < leave[p].from \/ leave[p].to < from
    OBVIOUS
  <2>1. leave[p].from \in 0..LastDay /\ leave[p].to \in 0..LastDay
    BY DEF takesDays, QuotaInv, RequestsTyped, LeaveRow, NoLeave
  <2>2. ~(leave[p].from <= to /\ leave[p].to >= from)
    BY <1>5 DEF overlapping, openLeaves, takesDays
  <2> QED BY <2>1, <2>2, QuotaAssumption
<1>10. DaysStayFree'
  BY <1>1, <1>3, <1>4, <1>9 DEF QuotaInv, DaysStayFree, creating, takesDays
<1>11. NoOverlappingLeave'
  BY <1>1 DEF QuotaInv, NoOverlappingLeave
<1> QED BY <1>7, <1>8, <1>10, <1>11 DEF QuotaInv

LEMMA BeginAdjustStep ==
  ASSUME QuotaInv, NEW c \in Clerks, NEW e \in Takers, NEW y \in Years, NEW delta \in Deltas, beginAdjust(c, e, y, delta)
  PROVE  QuotaInv'
<1> PICK more : more = [delta |-> delta]
  OBVIOUS
<1>1. begin(c, "adjust", e, y, more) /\ UNCHANGED <<policy, leave>>
  BY DEF beginAdjust, begin
<1>2. DOMAIN more = {"delta"}
  OBVIOUS
<1>3. /\ clerk' = [d \in Clerks |-> clerk'[d]] /\ clerk'[c].op = "adjust" /\ "op" \in DOMAIN clerk'[c]
      /\ \A d \in Clerks : d # c => clerk'[d] = clerk[d]
  <2>1. WorkFields \cap DOMAIN more = {}
    BY <1>2 DEF WorkFields
  <2>2. clerk = [d \in Clerks |-> clerk[d]]
    BY DEF QuotaInv, RequestsTyped
  <2>3. Begun(c, "adjust", e, y, more)
    BY <1>1, <2>1, <2>2, BegunFields
  <2> QED BY <2>3 DEF Begun, WorkFields
<1>4. \A d \in Clerks : creating(d)' =>
        /\ creating(d) /\ CreationFields \subseteq DOMAIN clerk'[d]
        /\ \A field \in CreationFields : clerk'[d][field] = clerk[d][field]
  BY <1>3 DEF creating, QuotaInv, RequestsTyped, CreationTyped
<1>5. leave' \in [Leaves -> LeaveRow \cup {NoLeave}] /\ policy' \in [tracking: BOOLEAN, carryOver: BOOLEAN]
  BY <1>1 DEF QuotaInv, RequestsTyped
<1>6. \A d \in Clerks : "op" \in DOMAIN clerk'[d]
  BY <1>3 DEF QuotaInv, RequestsTyped
<1> QED BY <1>1, <1>3, <1>4, <1>5, <1>6, QuotaQuietStep DEF takesDays

LEMMA EnsureStep ==
  ASSUME QuotaInv, NEW c \in Clerks, ensureBalance(c) PROVE QuotaInv'
<1> PICK w : w = clerk[c]
  OBVIOUS
<1> PICK read : read = LET row == ensured(w.policy, w.employee, w.year)
                       IN [row |-> row, available |-> availableLeaveMinutes(row, w.employee, w.year)]
  OBVIOUS
<1> PICK next : next = [w EXCEPT !.locked = TRUE]
  OBVIOUS
<1>1. clerk' = [clerk EXCEPT ![c] = extend(next, read)] /\ UNCHANGED <<policy, leave>>
  BY DEF ensureBalance
<1>2. DOMAIN read = {"row", "available"}
  OBVIOUS
<1>3. DOMAIN next = DOMAIN w /\ \A field \in CreationFields : field \in DOMAIN w => next[field] = w[field]
  BY DEF CreationFields
<1>4. /\ DOMAIN extend(next, read) = DOMAIN read \cup DOMAIN next
      /\ \A field \in DOMAIN next : extend(next, read)[field] = next[field]
  BY DEF extend
<1>5. clerk' = [d \in Clerks |-> clerk'[d]] /\ clerk'[c] = extend(next, read)
      /\ \A d \in Clerks : d # c => clerk'[d] = clerk[d]
  BY <1>1 DEF QuotaInv, RequestsTyped
<1>6. creating(c)' => creating(c)
  BY <1>2, <1>3, <1>4, <1>5 DEF CreationFields, creating, QuotaInv, RequestsTyped
<1>7. \A d \in Clerks : creating(d)' =>
        /\ creating(d) /\ CreationFields \subseteq DOMAIN clerk'[d]
        /\ \A field \in CreationFields : clerk'[d][field] = clerk[d][field]
  BY <1>2, <1>3, <1>4, <1>5, <1>6 DEF creating, QuotaInv, RequestsTyped, CreationTyped, CreationFields
<1>8. leave' \in [Leaves -> LeaveRow \cup {NoLeave}] /\ policy' \in [tracking: BOOLEAN, carryOver: BOOLEAN]
  BY <1>1 DEF QuotaInv, RequestsTyped
<1>9. \A d \in Clerks : "op" \in DOMAIN clerk'[d]
  BY <1>3, <1>4, <1>5 DEF QuotaInv, RequestsTyped
<1> QED BY <1>1, <1>5, <1>7, <1>8, <1>9, QuotaQuietStep DEF takesDays

(* A transaction that ends leaves the others as they were.                 *)
LEMMA EndedWork ==
  ASSUME RequestsTyped, NEW c \in Clerks, clerk' = [clerk EXCEPT ![c] = NoWork]
  PROVE  /\ clerk' = [d \in Clerks |-> clerk'[d]]
         /\ \A d \in Clerks : "op" \in DOMAIN clerk'[d]
         /\ ~creating(c)' /\ \A d \in Clerks : d # c => clerk'[d] = clerk[d]
         /\ \A d \in Clerks : creating(d)' =>
              /\ creating(d) /\ CreationFields \subseteq DOMAIN clerk'[d]
              /\ \A field \in CreationFields : clerk'[d][field] = clerk[d][field]
<1>1. clerk'[c] = NoWork /\ \A d \in Clerks : d # c => clerk'[d] = clerk[d]
  BY DEF RequestsTyped
<1> QED BY <1>1 DEF RequestsTyped, creating, NoWork, CreationTyped

LEMMA InsertLeaveStep ==
  ASSUME QuotaInv, NEW c \in Clerks, insertLeave(c) PROVE QuotaInv'
<1> PICK w : w = clerk[c]
  OBVIOUS
<1> PICK row : row = submitted(w)
  OBVIOUS
<1>1. /\ w.op = "create" /\ leave[w.leave] = NoLeave /\ leave' = [leave EXCEPT ![w.leave] = row]
      /\ clerk' = [clerk EXCEPT ![c] = NoWork] /\ policy' = policy
  BY DEF insertLeave
<1>2. creating(c) /\ CreationTyped(w)
  BY <1>1 DEF creating, QuotaInv, RequestsTyped
<1>3. /\ row \in LeaveRow /\ row.status = "SUBMITTED" /\ row.employee = w.employee
      /\ row.from = w.from /\ row.to = w.to
  BY <1>2 DEF submitted, LeaveRow, CreationTyped
<1>4. leave'[w.leave] = row /\ \A q \in Leaves : q # w.leave => leave'[q] = leave[q]
  BY <1>1, <1>2 DEF QuotaInv, RequestsTyped, CreationTyped
<1>5. /\ clerk' = [d \in Clerks |-> clerk'[d]]
      /\ \A d \in Clerks : "op" \in DOMAIN clerk'[d]
      /\ ~creating(c)' /\ \A d \in Clerks : d # c => clerk'[d] = clerk[d]
  BY <1>1, EndedWork DEF QuotaInv
<1>6. \A d \in Clerks : creating(d)' => d # c /\ creating(d) /\ clerk'[d] = clerk[d]
  BY <1>5 DEF creating
<1>7. RequestsTyped'
  BY <1>1, <1>2, <1>3, <1>5, <1>6 DEF QuotaInv, RequestsTyped, CreationTyped
<1>8. CreationsApart'
  BY <1>6 DEF QuotaInv, CreationsApart
<1>9. \A d \in Clerks : creating(d)' => clerk'[d].employee # w.employee
  BY <1>2, <1>6 DEF QuotaInv, CreationsApart
<1>10. DaysStayFree'
  BY <1>3, <1>4, <1>6, <1>9 DEF QuotaInv, DaysStayFree, takesDays
<1>11. NoOverlappingLeave'
  BY <1>2, <1>3, <1>4 DEF QuotaInv, DaysStayFree, NoOverlappingLeave, takesDays
<1> QED BY <1>7, <1>8, <1>10, <1>11 DEF QuotaInv

(* A request gets another status, and takes no more days by it.            *)
LEMMA DecidedLeave ==
  ASSUME RequestsTyped, NEW q \in Leaves, leave[q].status \in {"SUBMITTED", "APPROVED"},
         NEW status \in {"APPROVED", "REJECTED", "CANCELLED"}, leave' = [leave EXCEPT ![q].status = status]
  PROVE  /\ leave' \in [Leaves -> LeaveRow \cup {NoLeave}]
         /\ \A p \in Leaves : takesDays(p)' => /\ takesDays(p) /\ leave'[p].employee = leave[p].employee
                                          /\ leave'[p].from = leave[p].from /\ leave'[p].to = leave[p].to
<1>1. leave[q] \in LeaveRow
  BY DEF RequestsTyped, NoLeave
<1>2. /\ leave'[q] \in LeaveRow /\ leave'[q].employee = leave[q].employee
      /\ leave'[q].from = leave[q].from /\ leave'[q].to = leave[q].to
  BY <1>1 DEF RequestsTyped, LeaveRow
<1> QED BY <1>2 DEF RequestsTyped, takesDays

(* The transactions keep what they hold. *)
LEMMA SameWork ==
  ASSUME RequestsTyped, UNCHANGED clerk
  PROVE  /\ clerk' = [d \in Clerks |-> clerk'[d]]
         /\ \A d \in Clerks : "op" \in DOMAIN clerk'[d]
         /\ \A d \in Clerks : creating(d)' =>
              /\ creating(d) /\ CreationFields \subseteq DOMAIN clerk'[d]
              /\ \A field \in CreationFields : clerk'[d][field] = clerk[d][field]
  BY DEF RequestsTyped, creating, CreationTyped

LEMMA NextQuotaInv == ASSUME QuotaInv, [QuotaNext]_quotaVars PROVE QuotaInv'
<1> USE DEF QuotaInv
<1>1. policy \in [tracking: BOOLEAN, carryOver: BOOLEAN] /\ leave \in [Leaves -> LeaveRow \cup {NoLeave}]
  BY DEF RequestsTyped
<1>2. ASSUME NEW c \in Clerks, insertAdjustment(c) \/ rollBackWork(c) PROVE QuotaInv'
  <2>1. clerk' = [clerk EXCEPT ![c] = NoWork] /\ UNCHANGED <<policy, leave>>
    BY <1>2 DEF insertAdjustment, rollBackWork
  <2> QED BY <2>1, <1>1, EndedWork, QuotaQuietStep DEF takesDays
<1>3. ASSUME NEW q \in Leaves, NEW decision \in {"APPROVED", "REJECTED"}, reviewLeave(q, decision) PROVE QuotaInv'
  <2>1. /\ leave[q].status = "SUBMITTED" /\ leave' = [leave EXCEPT ![q].status = decision]
        /\ UNCHANGED <<policy, clerk>>
    BY <1>3 DEF reviewLeave
  <2> QED BY <2>1, <1>1, DecidedLeave, SameWork, QuotaQuietStep
<1>4. ASSUME NEW q \in Leaves, cancelLeave(q) PROVE QuotaInv'
  <2>1. /\ leave[q].status \in {"SUBMITTED", "APPROVED"} /\ leave' = [leave EXCEPT ![q].status = "CANCELLED"]
        /\ UNCHANGED <<policy, clerk>>
    BY <1>4 DEF cancelLeave
  <2> QED BY <2>1, <1>1, DecidedLeave, SameWork, QuotaQuietStep
<1>5. ASSUME NEW y \in Years, initializeBalances(y) PROVE QuotaInv'
  BY <1>5, <1>1, SameWork, QuotaQuietStep DEF initializeBalances, takesDays
<1>6. ASSUME NEW p \in [tracking: BOOLEAN, carryOver: BOOLEAN], updatePolicy(p) PROVE QuotaInv'
  BY <1>6, <1>1, SameWork, QuotaQuietStep DEF updatePolicy, takesDays
<1>7. CASE UNCHANGED quotaVars
  BY <1>7, <1>1, SameWork, QuotaQuietStep DEF quotaVars, takesDays
<1> QED BY <1>2, <1>3, <1>4, <1>5, <1>6, <1>7, BeginLeaveStep, BeginAdjustStep, EnsureStep, InsertLeaveStep
        DEF QuotaNext

(* No two pending or approved requests of an employee share a day, however *)
(* many creations, decisions and changes of the policy are under way       *)
(* (LeaveService.createForEmployee).                                       *)
THEOREM LeaveNeverOverlaps == QuotaSpec => []NoOverlappingLeave
<1>1. QuotaInit => QuotaInv
  BY InitQuotaInv
<1>2. QuotaInv /\ [QuotaNext]_quotaVars => QuotaInv'
  BY NextQuotaInv
<1>3. QuotaInv => NoOverlappingLeave
  BY DEF QuotaInv
<1> QED BY <1>1, <1>2, <1>3, PTL DEF QuotaSpec

------------------------------------------------------------------------------
(* Sums *)

(* Every non-empty set of numbers has a least one: the way induction over  *)
(* the size of a set is done below.                                        *)
Below == {p \in Nat \X Nat : p[1] < p[2]}

LEMMA LowestNat == ASSUME NEW T \in SUBSET Nat, T # {} PROVE \E x \in T : \A y \in T : x <= y
<1>1. IsWellFoundedOn(Below, Nat)
  BY NatLessThanWellFounded DEF OpToRel, Below
<1>2. PICK x \in T : \A y \in T : ~(<<y, x>> \in Below)
  BY <1>1, WFMin
<1>3. ASSUME NEW y \in T PROVE x <= y
  <2>1. y < x => <<y, x>> \in Below
    BY DEF Below
  <2> QED BY <1>2, <2>1
<1> QED BY <1>3

LEMMA Smallest ==
  ASSUME NEW Ss, Ss # {}, \A s \in Ss : IsFiniteSet(s)
  PROVE  \E s \in Ss : \A r \in Ss : Cardinality(s) <= Cardinality(r)
<1> PICK T : T = {Cardinality(s) : s \in Ss}
  OBVIOUS
<1>1. T \in SUBSET Nat /\ T # {}
  BY FS_CardinalityType
<1>2. PICK x \in T : \A y \in T : x <= y
  BY <1>1, LowestNat
<1>3. PICK s \in Ss : x = Cardinality(s)
  OBVIOUS
<1> QED BY <1>2, <1>3

LEMMA OneLess ==
  ASSUME NEW S, IsFiniteSet(S), NEW x \in S
  PROVE  /\ IsFiniteSet(S \ {x}) /\ Cardinality(S) \in Nat /\ Cardinality(S \ {x}) \in Nat
         /\ Cardinality(S \ {x}) < Cardinality(S)
  BY FS_RemoveElement, FS_CardinalityType

one(s) == CHOOSE x \in s : TRUE
stepSum(f, g, s) == IF s = {} THEN 0 ELSE f[one(s)] + g[s \ {one(s)}]
areSums(f, S, g) == g = [s \in SUBSET S |-> stepSum(f, g, s)]
sums(f, S) == CHOOSE g : areSums(f, S, g)
on(f, S) == FoldFunctionOnSet(+, 0, f, S)

LEMMA FoldIsSums == ASSUME NEW f, NEW S PROVE on(f, S) = sums(f, S)[S]
  BY DEF on, sums, areSums, FoldFunctionOnSet, MapThenFoldSet, stepSum, one

LEMMA OneIn == ASSUME NEW s, s # {} PROVE one(s) \in s
  BY DEF one

(* A sum is defined by the sums of smaller sets. *)
LEMMA SumsExist ==
  ASSUME NEW f, NEW S, IsFiniteSet(S) PROVE areSums(f, S, sums(f, S))
<1> DEFINE upTo(m) == {s \in SUBSET S : Cardinality(s) <= m}
           Undefined == {m \in Nat : ~\E g : g = [s \in upTo(m) |-> stepSum(f, g, s)]}
<1>1. \A s \in SUBSET S : IsFiniteSet(s) /\ Cardinality(s) \in Nat /\ Cardinality(s) <= Cardinality(S)
  BY FS_Subset, FS_CardinalityType
<1>2. Cardinality(S) \in Nat
  BY FS_CardinalityType
<1>3. Undefined = {}
  <2> SUFFICES ASSUME Undefined # {} PROVE FALSE
    OBVIOUS
  <2>1. PICK m \in Undefined : \A n \in Undefined : m <= n
    <3> HIDE DEF upTo
    <3>1. Undefined \in SUBSET Nat
      OBVIOUS
    <3> HIDE DEF Undefined
    <3> QED BY <3>1, LowestNat
  <2>2. CASE m = 0
    <3>1. \A s \in upTo(m) : s = {}
      BY <1>1, <2>2, FS_EmptySet
    <3>2. [s \in upTo(m) |-> 0] = [s \in upTo(m) |-> stepSum(f, [r \in upTo(m) |-> 0], s)]
      BY <3>1 DEF stepSum
    <3> QED BY <3>2
  <2>3. CASE m # 0
    <3>1. m - 1 \in Nat /\ m - 1 \notin Undefined
      <4>1. m \in Nat
        OBVIOUS
      <4> HIDE DEF Undefined
      <4> QED BY <2>1, <2>3, <4>1
    <3>2. PICK g : g = [s \in upTo(m - 1) |-> stepSum(f, g, s)]
      BY <3>1
    <3> PICK h : h = [s \in upTo(m) |-> IF Cardinality(s) <= m - 1 THEN g[s] ELSE stepSum(f, g, s)]
      OBVIOUS
    <3>3. ASSUME NEW s \in upTo(m) PROVE h[s] = stepSum(f, h, s)
      <4>1. CASE s = {}
        <5>1. s \in upTo(m - 1)
          BY <3>1, <4>1, FS_EmptySet
        <5> QED BY <3>2, <4>1, <5>1 DEF stepSum
      <4>2. CASE s # {}
        <5> PICK r : r = s \ {one(s)}
          OBVIOUS
        <5>1. r \in SUBSET S /\ Cardinality(r) < Cardinality(s) /\ Cardinality(r) \in Nat /\ Cardinality(s) \in Nat
          BY <1>1, <4>2, OneIn, OneLess
        <5>2. r \in upTo(m - 1) /\ r \in upTo(m)
          BY <3>1, <5>1
        <5>3. h[r] = g[r]
          BY <5>2
        <5>4. h[s] = stepSum(f, g, s)
          BY <3>2
        <5> QED BY <4>2, <5>3, <5>4 DEF stepSum
      <4> QED BY <4>1, <4>2
    <3>4. h = [s \in upTo(m) |-> stepSum(f, h, s)]
      BY <3>3
    <3> QED BY <3>4
  <2> QED BY <2>2, <2>3
<1>4. upTo(Cardinality(S)) = SUBSET S
  BY <1>1
<1>5. \E g : g = [s \in SUBSET S |-> stepSum(f, g, s)]
  <2>1. \E g : g = [s \in upTo(Cardinality(S)) |-> stepSum(f, g, s)]
    BY <1>2, <1>3
  <2> HIDE DEF upTo
  <2> QED BY <1>4, <2>1
<1>6. \E g : areSums(f, S, g)
  BY <1>5 DEF areSums
<1> QED BY <1>6 DEF sums

LEMMA SumsAgree ==
  ASSUME NEW f, NEW S, NEW T, IsFiniteSet(S), IsFiniteSet(T), NEW s, s \subseteq S, s \subseteq T
  PROVE  sums(f, S)[s] = sums(f, T)[s]
<1> PICK g : g = sums(f, S)
  OBVIOUS
<1> PICK h : h = sums(f, T)
  OBVIOUS
<1> DEFINE Bad == {r \in SUBSET (S \cap T) : g[r] # h[r]}
<1>1. areSums(f, S, g) /\ areSums(f, T, h)
  BY SumsExist
<1>2. g = [r \in SUBSET S |-> stepSum(f, g, r)] /\ h = [r \in SUBSET T |-> stepSum(f, h, r)]
  BY <1>1 DEF areSums
<1>3. Bad = {}
  <2> SUFFICES ASSUME Bad # {} PROVE FALSE
    OBVIOUS
  <2>1. \A r \in Bad : IsFiniteSet(r)
    BY FS_Subset
  <2>2. PICK r \in Bad : \A q \in Bad : Cardinality(r) <= Cardinality(q)
    <3> HIDE DEF Bad
    <3> QED BY <2>1, Smallest
  <2>3. g[r] = stepSum(f, g, r) /\ h[r] = stepSum(f, h, r) /\ r # {}
    BY <1>2 DEF stepSum
  <2> PICK q : q = r \ {one(r)}
    OBVIOUS
  <2>4. q \in SUBSET (S \cap T) /\ ~(Cardinality(r) <= Cardinality(q))
    BY <2>1, <2>3, OneIn, OneLess
  <2>5. g[q] = h[q]
    BY <2>2, <2>4
  <2> QED BY <2>3, <2>5 DEF stepSum
<1> QED BY <1>3

LEMMA SumUnfolds ==
  ASSUME NEW f, NEW S, IsFiniteSet(S)
  PROVE  on(f, S) = IF S = {} THEN 0 ELSE f[one(S)] + on(f, S \ {one(S)})
<1>1. sums(f, S)[S] = stepSum(f, sums(f, S), S)
  <2> PICK g : g = sums(f, S)
    OBVIOUS
  <2>1. areSums(f, S, g)
    BY SumsExist
  <2>2. g = [s \in SUBSET S |-> stepSum(f, g, s)]
    BY <2>1 DEF areSums
  <2>3. g[S] = stepSum(f, g, S)
    BY <2>2
  <2> QED BY <2>3
<1>2. S # {} => sums(f, S)[S \ {one(S)}] = sums(f, S \ {one(S)})[S \ {one(S)}]
  <2>1. IsFiniteSet(S \ {one(S)})
    BY FS_Subset
  <2> QED BY <2>1, SumsAgree
<1> QED BY <1>1, <1>2, FoldIsSums DEF stepSum

(* What a sum does not depend on: the order, and values outside the set.   *)
LEMMA SumRemoves ==
  ASSUME NEW f, NEW S, IsFiniteSet(S), \A x \in S : f[x] \in Nat
  PROVE  on(f, S) \in Nat /\ \A x \in S : on(f, S) = f[x] + on(f, S \ {x})
<1> DEFINE Good(s) == on(f, s) \in Nat /\ \A x \in s : on(f, s) = f[x] + on(f, s \ {x})
           Bad == {s \in SUBSET S : ~Good(s)}
<1>1. Bad = {}
  <2> SUFFICES ASSUME Bad # {} PROVE FALSE
    OBVIOUS
  <2>1. \A r \in Bad : IsFiniteSet(r)
    BY FS_Subset
  <2>2. PICK r \in Bad : \A q \in Bad : Cardinality(r) <= Cardinality(q)
    <3> HIDE DEF Bad
    <3> QED BY <2>1, Smallest
  <2>3. ASSUME NEW x \in r PROVE Good(r \ {x})
    <3>1. r \ {x} \in SUBSET S /\ ~(Cardinality(r) <= Cardinality(r \ {x}))
      BY <2>1, OneLess
    <3> HIDE DEF Good
    <3> QED BY <2>2, <3>1
  <2>4. r \subseteq S /\ ~Good(r)
    OBVIOUS
  <2>5. CASE r = {}
    <3>1. on(f, r) = 0
      BY <2>1, <2>5, SumUnfolds
    <3> QED BY <2>4, <2>5, <3>1
  <2>6. CASE r # {}
    <3> PICK y : y = one(r)
      OBVIOUS
    <3>1. y \in r /\ on(f, r) = f[y] + on(f, r \ {y})
      BY <2>1, <2>6, OneIn, SumUnfolds
    <3>2. on(f, r) \in Nat
      BY <2>3, <2>4, <3>1
    <3>3. ASSUME NEW x \in r PROVE on(f, r) = f[x] + on(f, r \ {x})
      <4>1. CASE x = y
        BY <3>1, <4>1
      <4>2. CASE x # y
        <5>1. on(f, r \ {y}) = f[x] + on(f, (r \ {y}) \ {x})
          BY <2>3, <3>1, <4>2
        <5>2. on(f, r \ {x}) = f[y] + on(f, (r \ {x}) \ {y})
          BY <2>3, <3>1, <4>2
        <5>3. (r \ {y}) \ {x} = (r \ {x}) \ {y}
          OBVIOUS
        <5> PICK rest : rest = on(f, (r \ {x}) \ {y})
          OBVIOUS
        <5>4. rest \in Nat /\ f[x] \in Nat /\ f[y] \in Nat
          <6>1. Good(r \ {x}) /\ on(f, r \ {x}) \in Nat
            BY <2>3
          <6>2. Good((r \ {x}) \ {y})
            <7>1. IsFiniteSet(r \ {x}) /\ Cardinality(r \ {x}) < Cardinality(r) /\ y \in r \ {x}
                  /\ Cardinality(r) \in Nat /\ Cardinality(r \ {x}) \in Nat
              BY <2>1, <3>1, <4>2, OneLess
            <7>2. Cardinality((r \ {x}) \ {y}) < Cardinality(r \ {x}) /\ Cardinality((r \ {x}) \ {y}) \in Nat
              BY <7>1, OneLess
            <7>3. (r \ {x}) \ {y} \in SUBSET S /\ ~(Cardinality(r) <= Cardinality((r \ {x}) \ {y}))
              BY <2>4, <7>1, <7>2
            <7> HIDE DEF Good
            <7> QED BY <2>2, <7>3
          <6> QED BY <2>4, <3>1, <6>2
        <5>5. on(f, r) = f[y] + (f[x] + rest) /\ on(f, r \ {x}) = f[y] + rest
          BY <3>1, <5>1, <5>2, <5>3
        <5> QED BY <5>4, <5>5
      <4> QED BY <4>1, <4>2
    <3> QED BY <2>4, <3>2, <3>3
  <2> QED BY <2>5, <2>6
<1>2. Good(S)
  <2> HIDE DEF Good
  <2> QED BY <1>1
<1> QED BY <1>2

LEMMA SumSame ==
  ASSUME NEW f, NEW g, NEW S, IsFiniteSet(S), \A x \in S : f[x] = g[x] PROVE on(f, S) = on(g, S)
<1> DEFINE Bad == {s \in SUBSET S : on(f, s) # on(g, s)}
<1>1. Bad = {}
  <2> SUFFICES ASSUME Bad # {} PROVE FALSE
    OBVIOUS
  <2>1. \A r \in Bad : IsFiniteSet(r)
    BY FS_Subset
  <2>2. PICK r \in Bad : \A q \in Bad : Cardinality(r) <= Cardinality(q)
    <3> HIDE DEF Bad
    <3> QED BY <2>1, Smallest
  <2>3. r # {}
    BY <2>1, <2>2, SumUnfolds
  <2> PICK y : y = one(r)
    OBVIOUS
  <2>4. y \in r /\ r \ {y} \in SUBSET S /\ ~(Cardinality(r) <= Cardinality(r \ {y}))
    BY <2>1, <2>3, OneIn, OneLess
  <2>5. on(f, r \ {y}) = on(g, r \ {y})
    BY <2>2, <2>4
  <2>6. on(f, r) = f[y] + on(f, r \ {y}) /\ on(g, r) = g[y] + on(g, r \ {y})
    BY <2>1, <2>3, SumUnfolds
  <2> QED BY <2>4, <2>5, <2>6
<1> QED BY <1>1

LEMMA SumGrows ==
  ASSUME NEW f, NEW S, NEW T, IsFiniteSet(T), S \subseteq T, \A x \in T : f[x] \in Nat
  PROVE  on(f, S) <= on(f, T)
<1> DEFINE Bad == {s \in SUBSET T : S \subseteq s /\ ~(on(f, S) <= on(f, s))}
<1>1. Bad = {}
  <2> SUFFICES ASSUME Bad # {} PROVE FALSE
    OBVIOUS
  <2>1. \A r \in Bad : IsFiniteSet(r)
    BY FS_Subset
  <2>2. PICK r \in Bad : \A q \in Bad : Cardinality(r) <= Cardinality(q)
    <3> HIDE DEF Bad
    <3> QED BY <2>1, Smallest
  <2>3. r \subseteq T /\ on(f, S) \in Nat /\ on(f, r) \in Nat /\ S \subseteq r
    <3>1. IsFiniteSet(S) /\ IsFiniteSet(r) /\ r \subseteq T
      BY FS_Subset
    <3> QED BY <3>1, SumRemoves
  <2>4. PICK y \in r : y \notin S
    BY <2>3
  <2>5. r \ {y} \in SUBSET T /\ S \subseteq r \ {y} /\ ~(Cardinality(r) <= Cardinality(r \ {y})) /\ IsFiniteSet(r \ {y})
    BY <2>1, <2>3, <2>4, OneLess
  <2>6. on(f, S) <= on(f, r \ {y})
    BY <2>2, <2>5
  <2>7. on(f, r) = f[y] + on(f, r \ {y}) /\ on(f, r \ {y}) \in Nat /\ f[y] \in Nat
    BY <2>1, <2>3, <2>5, SumRemoves
  <2>8. on(f, S) <= on(f, r)
    BY <2>3, <2>6, <2>7
  <2> QED BY <2>8
<1> QED BY <1>1

------------------------------------------------------------------------------
(* The minutes of requests *)

minutesIn(rows, S) == SumFunction([q \in S |-> rows[q].minutes])

LEMMA MinutesSum ==
  ASSUME NEW rows, NEW S
  PROVE  minutesIn(rows, S) = on([q \in S |-> rows[q].minutes], S)
  BY DEF minutesIn, on, SumFunction, SumFunctionOnSet

LEMMA MinutesNat ==
  ASSUME NEW rows, NEW S, IsFiniteSet(S), \A q \in S : rows[q].minutes \in Nat
  PROVE  minutesIn(rows, S) \in Nat
<1> PICK f : f = [q \in S |-> rows[q].minutes]
  OBVIOUS
<1>1. \A q \in S : f[q] \in Nat
  OBVIOUS
<1> QED BY <1>1, MinutesSum, SumRemoves

LEMMA MinutesNone == ASSUME NEW rows PROVE minutesIn(rows, {}) = 0
  BY MinutesSum, SumUnfolds, FS_EmptySet

(* Fewer requests, with the minutes they had. *)
LEMMA MinutesFewer ==
  ASSUME NEW old, NEW new, NEW S, NEW T, IsFiniteSet(T), S \subseteq T,
         \A q \in T : old[q].minutes \in Nat, \A q \in S : new[q].minutes = old[q].minutes
  PROVE  minutesIn(new, S) <= minutesIn(old, T)
<1> PICK f : f = [q \in T |-> old[q].minutes]
  OBVIOUS
<1> PICK g : g = [q \in S |-> new[q].minutes]
  OBVIOUS
<1>1. IsFiniteSet(S)
  BY FS_Subset
<1>2. \A q \in T : f[q] \in Nat
  OBVIOUS
<1>3. \A q \in S : g[q] = f[q]
  OBVIOUS
<1>4. on(g, S) = on(f, S)
  BY <1>1, <1>3, SumSame
<1>5. on(f, S) <= on(f, T)
  BY <1>2, SumGrows
<1> QED BY <1>4, <1>5, MinutesSum

(* One more request. *)
LEMMA MinutesMore ==
  ASSUME NEW old, NEW new, NEW S, IsFiniteSet(S), NEW x, x \notin S, new[x].minutes \in Nat,
         \A q \in S : old[q].minutes \in Nat /\ new[q].minutes = old[q].minutes
  PROVE  minutesIn(new, S \cup {x}) = minutesIn(old, S) + new[x].minutes
<1> PICK T : T = S \cup {x}
  OBVIOUS
<1> PICK f : f = [q \in S |-> old[q].minutes]
  OBVIOUS
<1> PICK g : g = [q \in T |-> new[q].minutes]
  OBVIOUS
<1>1. IsFiniteSet(T) /\ S = T \ {x} /\ x \in T
  BY FS_AddElement
<1>2. \A q \in T : g[q] \in Nat
  OBVIOUS
<1>3. on(g, T) = g[x] + on(g, S)
  BY <1>1, <1>2, SumRemoves
<1>4. \A q \in S : g[q] = f[q]
  OBVIOUS
<1>5. on(g, S) = on(f, S)
  BY <1>4, SumSame
<1>6. on(f, S) \in Nat
  <2>1. \A q \in S : f[q] \in Nat
    OBVIOUS
  <2> QED BY <2>1, SumRemoves
<1>7. g[x] = new[x].minutes /\ g[x] \in Nat
  BY <1>1
<1> QED BY <1>3, <1>5, <1>6, <1>7, MinutesSum

------------------------------------------------------------------------------
(* Balances *)

holds(c) == clerk[c].op # "NONE" /\ clerk[c].locked
counted(e, y) == {q \in openLeaves(e) : yearOf(leave[q].from) = y /\ leave[q].tracked}
used(e, y) == minutesOf(counted(e, y))
entitled(row, e, y) == row.entitlement + row.carryOver + adjusted[e][y]

WorkTyped(w) ==
  /\ WorkFields \subseteq DOMAIN w
  /\ w.op \in {"create", "adjust"} /\ w.employee \in Takers /\ w.year \in Years /\ w.locked \in BOOLEAN
  /\ w.op = "create" => w.year = yearOf(w.from)
  /\ w.op = "adjust" => "delta" \in DOMAIN w /\ w.delta \in Deltas
  /\ ~w.locked => "row" \notin DOMAIN w /\ "available" \notin DOMAIN w
  /\ w.locked => w.row \in BalanceRow /\ w.row.exists /\ w.available \in Int /\ w.policy.tracking

BalancesTyped ==
  /\ balance \in [Takers -> [Years -> BalanceRow]]
  /\ adjusted \in [Takers -> [Years -> -MaxAdjusted..MaxAdjusted]]
  /\ \A c \in Clerks : clerk[c].op # "NONE" => WorkTyped(clerk[c])

HoldersApart ==
  \A c, d \in Clerks :
    holds(c) /\ holds(d) /\ clerk[c].employee = clerk[d].employee /\ clerk[c].year = clerk[d].year => c = d

EmptyUntilMade ==
  \A e \in Takers, y \in Years : ~balance[e][y].exists => adjusted[e][y] = 0 /\ counted(e, y) = {}

Covered ==
  \A e \in Takers, y \in Years : balance[e][y].exists => used(e, y) <= entitled(balance[e][y], e, y)

HeldStands ==
  \A c \in Clerks : holds(c) =>
    LET w == clerk[c]
    IN /\ balance[w.employee][w.year].exists => w.row = balance[w.employee][w.year]
       /\ w.available + used(w.employee, w.year) <= entitled(w.row, w.employee, w.year)

BalanceInv == BalancesTyped /\ HoldersApart /\ EmptyUntilMade /\ Covered /\ HeldStands

LEMMA CountedRows ==
  ASSUME QuotaInv, NEW e \in Takers, NEW y \in Years
  PROVE  /\ IsFiniteSet(counted(e, y)) /\ counted(e, y) \subseteq Leaves
         /\ \A q \in counted(e, y) : leave[q] \in LeaveRow /\ leave[q].minutes \in Nat
         /\ used(e, y) = minutesIn(leave, counted(e, y)) /\ used(e, y) \in Nat
<1>1. counted(e, y) \subseteq Leaves
  BY DEF counted, openLeaves
<1>2. IsFiniteSet(counted(e, y))
  BY <1>1, QuotaAssumption, FS_Subset
<1>3. \A q \in counted(e, y) : leave[q] \in LeaveRow /\ leave[q].minutes \in Nat
  BY QuotaAssumption DEF counted, openLeaves, QuotaInv, RequestsTyped, LeaveRow, NoLeave
<1>4. used(e, y) = minutesIn(leave, counted(e, y))
  BY DEF used, minutesOf, minutesIn
<1> QED BY <1>1, <1>2, <1>3, <1>4, MinutesNat

LEMMA BalanceImpliesProperty == ASSUME QuotaInv, BalanceInv PROVE QuotaNotOverdrawn
<1> SUFFICES ASSUME NEW e \in Takers, NEW y \in Years, counted(e, y) # {} \/ balance[e][y].exists
             PROVE  /\ balance[e][y].exists
                    /\ balance[e][y].entitlement + balance[e][y].carryOver + adjusted[e][y] >= minutesOf(counted(e, y))
  BY DEF QuotaNotOverdrawn, counted
<1>1. balance[e][y].exists
  BY DEF BalanceInv, EmptyUntilMade
<1>2. used(e, y) <= entitled(balance[e][y], e, y)
  BY <1>1 DEF BalanceInv, Covered
<1>3. used(e, y) \in Nat
  BY CountedRows
<1>4. /\ balance[e][y].entitlement \in Int /\ balance[e][y].carryOver \in Int /\ adjusted[e][y] \in Int
  BY QuotaAssumption DEF BalanceInv, BalancesTyped, BalanceRow
<1> QED BY <1>1, <1>2, <1>3, <1>4 DEF used, entitled

LEMMA InitBalances == ASSUME QuotaInit PROVE BalanceInv
<1>1. \A e \in Takers, y \in Years : counted(e, y) = {}
  BY DEF QuotaInit, counted, openLeaves, NoLeave
<1>2. \A c \in Clerks : clerk[c].op = "NONE"
  BY DEF QuotaInit, NoWork
<1>3. \A e \in Takers, y \in Years : balance[e][y] = NoRow /\ adjusted[e][y] = 0
  BY DEF QuotaInit
<1>4. NoRow \in BalanceRow /\ ~NoRow.exists /\ 0 \in -MaxAdjusted..MaxAdjusted
  BY QuotaAssumption DEF NoRow, BalanceRow
<1>5. BalancesTyped
  BY <1>2, <1>4 DEF QuotaInit, BalancesTyped
<1> QED BY <1>1, <1>2, <1>3, <1>4, <1>5 DEF BalanceInv, HoldersApart, EmptyUntilMade, Covered, HeldStands, holds

(* What the steps of all transactions but the commits have in common: no   *)
(* request is counted that was not, a row is only made where nobody holds  *)
(* one, and who goes on holding one has it as before.                      *)
Gentle ==
  /\ UNCHANGED adjusted
  /\ balance' \in [Takers -> [Years -> BalanceRow]]
  /\ \A e \in Takers, y \in Years :
       /\ \A q \in counted(e, y)' : q \in counted(e, y) /\ leave'[q].minutes = leave[q].minutes
       /\ \/ balance'[e][y] = balance[e][y]
          \/ ~balance[e][y].exists /\ balance'[e][y].exists /\ ~held(e, y)
  /\ \A c \in Clerks : clerk'[c].op # "NONE" => WorkTyped(clerk'[c])
  /\ \A c \in Clerks : holds(c)' => holds(c) /\ clerk'[c] = clerk[c]

LEMMA UsedShrinks ==
  ASSUME QuotaInv, NEW e \in Takers, NEW y \in Years,
         \A q \in counted(e, y)' : q \in counted(e, y) /\ leave'[q].minutes = leave[q].minutes
  PROVE  used(e, y)' \in Nat /\ used(e, y)' <= used(e, y)
<1> PICK S : S = counted(e, y)'
  OBVIOUS
<1> PICK T : T = counted(e, y)
  OBVIOUS
<1>1. IsFiniteSet(T) /\ S \subseteq T /\ used(e, y) = minutesIn(leave, T) /\ \A q \in T : leave[q].minutes \in Nat
  BY CountedRows
<1>2. used(e, y)' = minutesIn(leave', S)
  BY DEF used, minutesOf, minutesIn
<1>3. \A q \in S : leave'[q].minutes = leave[q].minutes /\ leave'[q].minutes \in Nat
  BY <1>1
<1>4. IsFiniteSet(S)
  BY <1>1, FS_Subset
<1>5. minutesIn(leave', S) \in Nat
  BY <1>3, <1>4, MinutesNat
<1>6. minutesIn(leave', S) <= minutesIn(leave, T)
  BY <1>1, <1>3, MinutesFewer
<1> QED BY <1>1, <1>2, <1>5, <1>6

LEMMA EntitledInt ==
  ASSUME BalancesTyped, NEW row \in BalanceRow, NEW e \in Takers, NEW y \in Years
  PROVE  /\ entitled(row, e, y) \in Int
         /\ row.entitlement \in Nat /\ row.carryOver \in Nat /\ adjusted[e][y] \in Int
  BY QuotaAssumption DEF BalancesTyped, BalanceRow, entitled

LEMMA GentleStep == ASSUME QuotaInv, BalanceInv, Gentle PROVE BalanceInv'
<1>1. BalancesTyped'
  BY DEF Gentle, BalanceInv, BalancesTyped
<1>2. HoldersApart'
  BY DEF Gentle, BalanceInv, HoldersApart
<1>3. EmptyUntilMade'
  <2> SUFFICES ASSUME NEW e \in Takers, NEW y \in Years, ~balance'[e][y].exists
               PROVE  adjusted'[e][y] = 0 /\ counted(e, y)' = {}
    BY DEF EmptyUntilMade
  <2>1. ~balance[e][y].exists
    BY DEF Gentle
  <2> QED BY <2>1 DEF Gentle, BalanceInv, EmptyUntilMade
<1>4. Covered'
  <2> SUFFICES ASSUME NEW e \in Takers, NEW y \in Years, balance'[e][y].exists
               PROVE  used(e, y)' <= entitled(balance[e][y], e, y)'
    BY DEF Covered
  <2> PICK row : row = balance'[e][y]
    OBVIOUS
  <2>1. row \in BalanceRow /\ adjusted' = adjusted
    BY DEF Gentle
  <2>2. entitled(row, e, y) \in Int /\ entitled(balance[e][y], e, y)' = entitled(row, e, y)
    BY <2>1, EntitledInt DEF BalanceInv, entitled
  <2>3. used(e, y)' \in Nat /\ used(e, y) \in Nat /\ used(e, y)' <= used(e, y)
    BY UsedShrinks, CountedRows DEF Gentle
  <2>4. used(e, y) <= entitled(row, e, y)
    <3>1. CASE row = balance[e][y]
      BY <3>1 DEF BalanceInv, Covered
    <3>2. CASE row # balance[e][y]
      <4>1. adjusted[e][y] = 0 /\ counted(e, y) = {}
        BY <3>2 DEF Gentle, BalanceInv, EmptyUntilMade
      <4>2. used(e, y) = 0
        BY <4>1, CountedRows, MinutesNone
      <4>3. row.entitlement \in Nat /\ row.carryOver \in Nat
        BY <2>1, EntitledInt DEF BalanceInv
      <4> QED BY <4>1, <4>2, <4>3 DEF entitled
    <3> QED BY <3>1, <3>2
  <2> QED BY <2>2, <2>3, <2>4
<1>5. HeldStands'
  <2> SUFFICES ASSUME NEW c \in Clerks, holds(c)'
               PROVE  (LET w == clerk[c]
                       IN /\ balance[w.employee][w.year].exists => w.row = balance[w.employee][w.year]
                          /\ w.available + used(w.employee, w.year) <= entitled(w.row, w.employee, w.year))'
    BY DEF HeldStands
  <2> PICK w : w = clerk[c]
    OBVIOUS
  <2> PICK e : e = w.employee
    OBVIOUS
  <2> PICK y : y = w.year
    OBVIOUS
  <2>1. holds(c) /\ clerk'[c] = w
    BY DEF Gentle
  <2>2. /\ e \in Takers /\ y \in Years /\ w.row \in BalanceRow /\ w.available \in Int
    BY <2>1 DEF holds, BalanceInv, BalancesTyped, WorkTyped
  <2>3. balance'[e][y] = balance[e][y]
    BY <2>1, <2>2 DEF Gentle, held, holds
  <2>4. /\ balance[e][y].exists => w.row = balance[e][y]
        /\ w.available + used(e, y) <= entitled(w.row, e, y)
    BY <2>1 DEF BalanceInv, HeldStands
  <2>5. used(e, y)' \in Nat /\ used(e, y) \in Nat /\ used(e, y)' <= used(e, y)
    BY <2>2, UsedShrinks, CountedRows DEF Gentle
  <2> PICK row : row = w.row
    OBVIOUS
  <2>6. entitled(row, e, y) \in Int /\ entitled(row, e, y)' = entitled(row, e, y)
    BY <2>2, EntitledInt DEF BalanceInv, entitled, Gentle
  <2>7. w.available + used(e, y)' <= entitled(row, e, y)'
    BY <2>2, <2>4, <2>5, <2>6
  <2> QED BY <2>1, <2>3, <2>4, <2>7
<1> QED BY <1>1, <1>2, <1>3, <1>4, <1>5 DEF BalanceInv

(* A row that a transaction reads or makes up covers what counts.          *)
LEMMA EnsuredRow ==
  ASSUME QuotaInv, BalanceInv, NEW p, NEW e \in Takers, NEW y \in Years, NEW row, row = ensured(p, e, y)
  PROVE  /\ row \in BalanceRow /\ row.exists /\ (balance[e][y].exists => row = balance[e][y])
         /\ availableLeaveMinutes(row, e, y) \in Int
         /\ availableLeaveMinutes(row, e, y) + used(e, y) <= entitled(row, e, y)
<1>1. ASSUME NEW z \in Years PROVE balanceUsage(e, z) \in Nat /\ used(e, z) <= balanceUsage(e, z)
  <2> PICK T : T = {q \in openLeaves(e) : yearOf(leave[q].from) = z}
    OBVIOUS
  <2>1. T \subseteq Leaves /\ \A q \in T : leave[q].minutes \in Nat
    BY QuotaAssumption DEF openLeaves, QuotaInv, RequestsTyped, LeaveRow, NoLeave
  <2>2. IsFiniteSet(T) /\ counted(e, z) \subseteq T
    BY <2>1, QuotaAssumption, FS_Subset DEF counted
  <2>3. balanceUsage(e, z) = minutesIn(leave, T)
    BY DEF balanceUsage, minutesOf, minutesIn
  <2>4. minutesIn(leave, T) \in Nat
    BY <2>1, <2>2, MinutesNat
  <2>5. minutesIn(leave, counted(e, z)) <= minutesIn(leave, T)
    BY <2>1, <2>2, MinutesFewer
  <2> QED BY <2>3, <2>4, <2>5, CountedRows
<1>2. carryOver(p, e, y) \in 0..MaxCarryOver
  <2>1. CASE ~p.carryOver \/ y - 1 \notin Years \/ ~balance[e][y - 1].exists
    BY <2>1, QuotaAssumption DEF carryOver
  <2>2. CASE ~(~p.carryOver \/ y - 1 \notin Years \/ ~balance[e][y - 1].exists)
    <3> PICK remaining : remaining = availableLeaveMinutes(balance[e][y - 1], e, y - 1)
      OBVIOUS
    <3>1. y - 1 \in Years /\ balance[e][y - 1] \in BalanceRow
      BY <2>2 DEF BalanceInv, BalancesTyped
    <3>2. remaining \in Int
      BY <1>1, <3>1, EntitledInt DEF availableLeaveMinutes, BalanceInv
    <3> QED BY <2>2, <3>2, QuotaAssumption DEF carryOver, atMost
  <2> QED BY <2>1, <2>2
<1>3. row \in BalanceRow /\ row.exists /\ (balance[e][y].exists => row = balance[e][y])
  <2>1. CASE balance[e][y].exists
    BY <2>1 DEF ensured, BalanceInv, BalancesTyped
  <2>2. CASE ~balance[e][y].exists
    BY <1>2, <2>2 DEF ensured, BalanceRow
  <2> QED BY <2>1, <2>2
<1>4. row.entitlement \in Nat /\ row.carryOver \in Nat /\ adjusted[e][y] \in Int
  BY <1>3, EntitledInt DEF BalanceInv
<1>5. used(e, y) \in Nat
  BY CountedRows
<1> QED BY <1>1, <1>3, <1>4, <1>5 DEF availableLeaveMinutes, entitled

(* ensureBalance: the transaction now holds the row, as it found it.       *)
LEMMA HoldStep ==
  ASSUME QuotaInv, BalanceInv, NEW c \in Clerks, ensureBalance(c) PROVE BalanceInv'
<1> PICK w : w = clerk[c]
  OBVIOUS
<1> PICK e : e = w.employee
  OBVIOUS
<1> PICK y : y = w.year
  OBVIOUS
<1> PICK row : row = ensured(w.policy, e, y)
  OBVIOUS
<1> PICK read : read = [row |-> row, available |-> availableLeaveMinutes(row, e, y)]
  OBVIOUS
<1> PICK base : base = [w EXCEPT !.locked = TRUE]
  OBVIOUS
<1> PICK next : next = extend(base, read)
  OBVIOUS
<1>1. WorkTyped(w) /\ ~w.locked /\ w.policy.tracking /\ ~held(e, y) /\ e \in Takers /\ y \in Years
  BY DEF ensureBalance, BalanceInv, BalancesTyped, WorkTyped
<1>2. /\ row \in BalanceRow /\ row.exists /\ (balance[e][y].exists => row = balance[e][y])
      /\ availableLeaveMinutes(row, e, y) \in Int
      /\ availableLeaveMinutes(row, e, y) + used(e, y) <= entitled(row, e, y)
  BY <1>1, EnsuredRow
<1>3. clerk' = [clerk EXCEPT ![c] = next] /\ UNCHANGED <<policy, balance, adjusted, leave>>
  BY DEF ensureBalance
<1>4. next = clerk'[c] /\ \A d \in Clerks : d # c => clerk'[d] = clerk[d]
  BY <1>3 DEF QuotaInv, RequestsTyped
<1>5. /\ DOMAIN base = DOMAIN w /\ base["locked"] = TRUE
      /\ \A field \in DOMAIN w : field # "locked" => base[field] = w[field]
  BY <1>1 DEF WorkTyped, WorkFields
<1>6. DOMAIN read = {"row", "available"} /\ read["row"] = row /\ read["available"] = availableLeaveMinutes(row, e, y)
  OBVIOUS
<1>7. /\ DOMAIN next = DOMAIN base \cup DOMAIN read
      /\ \A field \in DOMAIN base : next[field] = base[field]
      /\ \A field \in DOMAIN read : field \notin DOMAIN base => next[field] = read[field]
  BY DEF extend
<1>8. /\ next.op = w.op /\ next.employee = e /\ next.year = y /\ next.policy = w.policy /\ next.locked = TRUE
      /\ WorkFields \subseteq DOMAIN next
      /\ \A field \in DOMAIN w : field # "locked" => next[field] = w[field]
  <2>1. /\ \A field \in DOMAIN w : field # "locked" => next[field] = w[field]
        /\ "locked" \in DOMAIN w => next["locked"] = TRUE
        /\ DOMAIN w \subseteq DOMAIN next
    BY <1>5, <1>7
  <2>2. {"op", "employee", "year", "policy", "locked"} \subseteq DOMAIN w
    BY <1>1 DEF WorkTyped, WorkFields
  <2> QED BY <2>1, <2>2 DEF WorkFields
<1>9. next.row = row /\ next.available = availableLeaveMinutes(row, e, y)
  BY <1>1, <1>5, <1>6, <1>7 DEF WorkTyped
<1>10. w.op = "create" => next.from = w.from
  <2>1. w.op = "create" => "from" \in DOMAIN w
    BY DEF QuotaInv, RequestsTyped, creating, CreationTyped, CreationFields
  <2> QED BY <1>8, <2>1
<1>11. w.op = "adjust" => "delta" \in DOMAIN next /\ next.delta = w.delta
  <2>1. w.op = "adjust" => "delta" \in DOMAIN w
    BY <1>1 DEF WorkTyped
  <2>2. DOMAIN w \subseteq DOMAIN next
    BY <1>5, <1>7
  <2> QED BY <1>8, <2>1, <2>2
<1>12. WorkTyped(next)
  BY <1>1, <1>2, <1>8, <1>9, <1>10, <1>11 DEF WorkTyped
<1>13. BalancesTyped'
  BY <1>3, <1>4, <1>12 DEF BalanceInv, BalancesTyped
<1>14. \A d \in Clerks : d # c /\ holds(d)' => holds(d) /\ clerk'[d] = clerk[d] /\ ~(clerk[d].employee = e /\ clerk[d].year = y)
  BY <1>1, <1>4 DEF holds, held
<1>15. HoldersApart'
  BY <1>4, <1>8, <1>14 DEF BalanceInv, HoldersApart
<1>16. \A f \in Takers, z \in Years : counted(f, z)' = counted(f, z) /\ used(f, z)' = used(f, z)
  BY <1>3 DEF counted, openLeaves, used, minutesOf
<1>17. EmptyUntilMade' /\ Covered'
  BY <1>3, <1>16 DEF BalanceInv, EmptyUntilMade, Covered, entitled
<1>18. HeldStands'
  <2> SUFFICES ASSUME NEW d \in Clerks, holds(d)'
               PROVE  (LET v == clerk[d]
                       IN /\ balance[v.employee][v.year].exists => v.row = balance[v.employee][v.year]
                          /\ v.available + used(v.employee, v.year) <= entitled(v.row, v.employee, v.year))'
    BY DEF HeldStands
  <2>1. CASE d = c
    <3>1. /\ clerk'[d] = next /\ next.employee = e /\ next.year = y /\ next.row = row
          /\ next.available = availableLeaveMinutes(row, e, y)
      BY <1>4, <1>8, <1>9, <2>1
    <3>2. used(e, y)' = used(e, y) /\ entitled(row, e, y)' = entitled(row, e, y)
      BY <1>1, <1>3, <1>16 DEF entitled
    <3> QED BY <1>2, <1>3, <3>1, <3>2
  <2>2. CASE d # c
    <3> PICK v : v = clerk[d]
      OBVIOUS
    <3>1. clerk'[d] = v /\ holds(d)
      BY <1>14, <2>2
    <3>2. v.employee \in Takers /\ v.year \in Years
      BY <3>1 DEF holds, BalanceInv, BalancesTyped, WorkTyped
    <3>3. /\ balance[v.employee][v.year].exists => v.row = balance[v.employee][v.year]
          /\ v.available + used(v.employee, v.year) <= entitled(v.row, v.employee, v.year)
      BY <3>1 DEF BalanceInv, HeldStands
    <3>4. used(v.employee, v.year)' = used(v.employee, v.year)
          /\ entitled(v.row, v.employee, v.year)' = entitled(v.row, v.employee, v.year)
      BY <1>3, <1>16, <3>2 DEF entitled
    <3> QED BY <1>3, <3>1, <3>3, <3>4
  <2> QED BY <2>1, <2>2
<1> QED BY <1>13, <1>15, <1>17, <1>18 DEF BalanceInv

(* A commit on the row that c holds: it writes the row, delta more minutes *)
(* on it and the minutes of what it inserts, which the available ones      *)
(* allow; the requests on other rows stay as they are.                     *)
Committed(c, e, y, row, left, delta, minutes) ==
  /\ holds(c) /\ clerk[c].employee = e /\ clerk[c].year = y /\ clerk[c].row = row /\ clerk[c].available = left
  /\ delta \in Int /\ minutes \in Nat /\ left + delta >= minutes
  /\ clerk' = [clerk EXCEPT ![c] = NoWork]
  /\ balance' = [balance EXCEPT ![e][y] = row]
  /\ adjusted' = [adjusted EXCEPT ![e][y] = @ + delta]
  /\ adjusted[e][y] + delta \in -MaxAdjusted..MaxAdjusted
  /\ used(e, y)' <= used(e, y) + minutes
  /\ \A f \in Takers, z \in Years : used(f, z)' \in Nat
  /\ \A f \in Takers, z \in Years : ~(f = e /\ z = y) =>
       counted(f, z)' = counted(f, z) /\ used(f, z)' <= used(f, z)

LEMMA CommittedStep ==
  ASSUME QuotaInv, BalanceInv, NEW c \in Clerks, NEW e, NEW y, NEW row, NEW left, NEW delta, NEW minutes,
         Committed(c, e, y, row, left, delta, minutes)
  PROVE  BalanceInv'
<1>1. /\ e \in Takers /\ y \in Years /\ row \in BalanceRow /\ row.exists /\ left \in Int
      /\ left + used(e, y) <= entitled(row, e, y)
  BY DEF Committed, holds, BalanceInv, BalancesTyped, WorkTyped, HeldStands
<1>2. /\ delta \in Int /\ minutes \in Nat /\ left + delta >= minutes
      /\ used(e, y)' <= used(e, y) + minutes /\ used(e, y)' \in Nat /\ used(e, y) \in Nat
  <2>1. used(e, y) \in Nat
    BY <1>1, CountedRows
  <2>2. used(e, y)' \in Nat
    BY <1>1 DEF Committed
  <2> QED BY <2>1, <2>2 DEF Committed
<1>3. clerk'[c] = NoWork /\ \A d \in Clerks : d # c => clerk'[d] = clerk[d]
  BY DEF Committed, QuotaInv, RequestsTyped
<1>4. /\ \A f \in Takers, z \in Years : balance'[f][z] = IF f = e /\ z = y THEN row ELSE balance[f][z]
      /\ balance' \in [Takers -> [Years -> BalanceRow]]
  BY <1>1 DEF Committed, BalanceInv, BalancesTyped
<1>5. /\ \A f \in Takers, z \in Years : adjusted'[f][z] = IF f = e /\ z = y THEN adjusted[e][y] + delta ELSE adjusted[f][z]
      /\ adjusted' \in [Takers -> [Years -> -MaxAdjusted..MaxAdjusted]]
  BY <1>1 DEF Committed, BalanceInv, BalancesTyped
<1>6. BalancesTyped'
  BY <1>3, <1>4, <1>5 DEF BalanceInv, BalancesTyped, NoWork
<1>7. \A d \in Clerks : holds(d)' =>
        d # c /\ holds(d) /\ clerk'[d] = clerk[d] /\ ~(clerk[d].employee = e /\ clerk[d].year = y)
  BY <1>3 DEF holds, NoWork, Committed, BalanceInv, HoldersApart
<1>8. HoldersApart'
  BY <1>7 DEF BalanceInv, HoldersApart
<1>9. EmptyUntilMade'
  <2> SUFFICES ASSUME NEW f \in Takers, NEW z \in Years, ~balance'[f][z].exists
               PROVE  adjusted'[f][z] = 0 /\ counted(f, z)' = {}
    BY DEF EmptyUntilMade
  <2>1. ~(f = e /\ z = y) /\ balance'[f][z] = balance[f][z] /\ adjusted'[f][z] = adjusted[f][z]
    BY <1>1, <1>4, <1>5
  <2>2. counted(f, z)' = counted(f, z)
    BY <2>1 DEF Committed
  <2> QED BY <2>1, <2>2 DEF BalanceInv, EmptyUntilMade
<1>10. ASSUME NEW f \in Takers, NEW z \in Years, NEW other \in BalanceRow, ~(f = e /\ z = y)
       PROVE  /\ entitled(other, f, z)' = entitled(other, f, z) /\ entitled(other, f, z) \in Int
              /\ used(f, z)' <= used(f, z) /\ used(f, z)' \in Nat /\ used(f, z) \in Nat
  <2>1. entitled(other, f, z)' = entitled(other, f, z) /\ entitled(other, f, z) \in Int
    BY <1>5, <1>10, EntitledInt DEF entitled, BalanceInv
  <2>2. used(f, z)' <= used(f, z) /\ used(f, z)' \in Nat
    BY <1>10 DEF Committed
  <2> QED BY <2>1, <2>2, CountedRows
<1>11. Covered'
  <2> SUFFICES ASSUME NEW f \in Takers, NEW z \in Years, balance'[f][z].exists
               PROVE  used(f, z)' <= entitled(balance[f][z], f, z)'
    BY DEF Covered
  <2>1. CASE f = e /\ z = y
    <3>1. row \in BalanceRow /\ balance'[f][z] = row /\ adjusted'[f][z] = adjusted[e][y] + delta
      BY <1>1, <1>4, <1>5, <2>1
    <3>2. row.entitlement \in Nat /\ row.carryOver \in Nat /\ adjusted[e][y] \in Int
      BY <1>1, <3>1, EntitledInt DEF BalanceInv
    <3>3. left + used(e, y) <= row.entitlement + row.carryOver + adjusted[e][y]
      BY <1>1 DEF entitled
    <3>4. used(e, y)' <= row.entitlement + row.carryOver + (adjusted[e][y] + delta)
      BY <1>1, <1>2, <3>2, <3>3
    <3> QED BY <2>1, <3>1, <3>4 DEF entitled
  <2>2. CASE ~(f = e /\ z = y)
    <3> PICK other : other = balance[f][z]
      OBVIOUS
    <3>1. other \in BalanceRow /\ balance'[f][z] = other
      BY <1>4, <2>2 DEF BalanceInv, BalancesTyped
    <3>2. used(f, z) <= entitled(other, f, z)
      BY <3>1 DEF BalanceInv, Covered
    <3>3. used(f, z)' <= entitled(other, f, z)'
      BY <1>10, <2>2, <3>1, <3>2
    <3> QED BY <3>1, <3>3 DEF entitled
  <2> QED BY <2>1, <2>2
<1>12. HeldStands'
  <2> SUFFICES ASSUME NEW d \in Clerks, holds(d)'
               PROVE  (LET v == clerk[d]
                       IN /\ balance[v.employee][v.year].exists => v.row = balance[v.employee][v.year]
                          /\ v.available + used(v.employee, v.year) <= entitled(v.row, v.employee, v.year))'
    BY DEF HeldStands
  <2> PICK v : v = clerk[d]
    OBVIOUS
  <2> PICK f : f = v.employee
    OBVIOUS
  <2> PICK z : z = v.year
    OBVIOUS
  <2> PICK other : other = v.row
    OBVIOUS
  <2>1. holds(d) /\ clerk'[d] = v /\ ~(f = e /\ z = y)
    BY <1>7
  <2>2. f \in Takers /\ z \in Years /\ other \in BalanceRow /\ v.available \in Int
    BY <2>1 DEF holds, BalanceInv, BalancesTyped, WorkTyped
  <2>3. (balance[f][z].exists => other = balance[f][z]) /\ v.available + used(f, z) <= entitled(other, f, z)
    BY <2>1 DEF BalanceInv, HeldStands
  <2>4. v.available + used(f, z)' <= entitled(other, f, z)'
    BY <1>10, <2>1, <2>2, <2>3
  <2>5. balance'[f][z] = balance[f][z]
    BY <1>4, <2>1, <2>2
  <2> QED BY <2>1, <2>3, <2>4, <2>5
<1> QED BY <1>6, <1>8, <1>9, <1>11, <1>12 DEF BalanceInv

(* The request that a creation inserts is one more, on its own row.        *)
LEMMA InsertedUse ==
  ASSUME QuotaInv, BalanceInv, NEW c \in Clerks, insertLeave(c), NEW e \in Takers, NEW y \in Years
  PROVE  LET w == clerk[c]
         IN IF w.policy.tracking /\ e = w.employee /\ y = w.year
              THEN used(e, y)' = used(e, y) + w.minutes /\ used(e, y)' \in Nat /\ w.minutes \in Nat
              ELSE counted(e, y)' = counted(e, y) /\ used(e, y)' = used(e, y) /\ used(e, y)' \in Nat
<1> PICK w : w = clerk[c]
  OBVIOUS
<1> PICK x : x = w.leave
  OBVIOUS
<1> PICK S : S = counted(e, y)
  OBVIOUS
<1> PICK T : T = counted(e, y)'
  OBVIOUS
<1>1. creating(c) /\ CreationTyped(w) /\ WorkTyped(w) /\ leave[x] = NoLeave /\ x \in Leaves
  BY DEF insertLeave, creating, QuotaInv, RequestsTyped, CreationTyped, BalanceInv, BalancesTyped
<1>2. leave'[x] = submitted(w) /\ \A q \in Leaves : q # x => leave'[q] = leave[q]
  BY <1>1 DEF insertLeave, QuotaInv, RequestsTyped
<1>3. /\ IsFiniteSet(S) /\ S \subseteq Leaves /\ \A q \in S : leave[q].minutes \in Nat
      /\ used(e, y) = minutesIn(leave, S) /\ used(e, y) \in Nat
  BY CountedRows
<1>4. used(e, y)' = minutesIn(leave', T)
  BY DEF used, minutesOf, minutesIn
<1>5. x \notin S /\ w.minutes \in Nat /\ leave'[x].minutes = w.minutes
  <2>1. leave[x].status \notin {"SUBMITTED", "APPROVED"}
    BY <1>1 DEF NoLeave
  <2>2. x \notin S
    BY <2>1 DEF counted, openLeaves
  <2>3. w.minutes \in Nat
    BY <1>1, QuotaAssumption DEF CreationTyped
  <2>4. leave'[x].minutes = w.minutes
    BY <1>2 DEF submitted
  <2> QED BY <2>2, <2>3, <2>4
<1>6. x \in T <=> w.policy.tracking /\ e = w.employee /\ y = w.year
  <2>1. w.year = yearOf(w.from)
    BY <1>1 DEF WorkTyped, creating
  <2> QED BY <1>1, <1>2, <2>1 DEF counted, openLeaves, submitted
<1>7. \A q \in Leaves : q # x => (q \in T <=> q \in S)
  BY <1>2 DEF counted, openLeaves
<1>8. T \subseteq Leaves
  BY DEF counted, openLeaves
<1>9. \A q \in S : leave'[q].minutes = leave[q].minutes
  BY <1>2, <1>3, <1>5
<1>10. CASE x \in T
  <2>1. T = S \cup {x}
    BY <1>3, <1>7, <1>8, <1>10
  <2>2. minutesIn(leave', T) = minutesIn(leave, S) + leave'[x].minutes
    BY <1>3, <1>5, <1>9, <2>1, MinutesMore
  <2>3. used(e, y)' = used(e, y) + w.minutes
    BY <1>3, <1>4, <1>5, <2>2
  <2> QED BY <1>3, <1>5, <1>6, <1>10, <2>3
<1>11. CASE x \notin T
  <2>1. T = S
    BY <1>3, <1>5, <1>7, <1>8, <1>11
  <2>2. minutesIn(leave', S) <= minutesIn(leave, S)
    BY <1>3, <1>9, MinutesFewer
  <2>3. \A q \in S : leave'[q].minutes \in Nat
    BY <1>3, <1>9
  <2>4. minutesIn(leave, S) <= minutesIn(leave', S)
    BY <1>3, <1>9, <2>3, MinutesFewer
  <2>5. minutesIn(leave', S) \in Nat
    BY <1>3, <2>3, MinutesNat
  <2>6. used(e, y)' = used(e, y)
    BY <1>3, <1>4, <2>1, <2>2, <2>4, <2>5
  <2> QED BY <1>3, <1>6, <1>11, <2>1, <2>6
<1> QED BY <1>10, <1>11

LEMMA InsertStep ==
  ASSUME QuotaInv, BalanceInv, NEW c \in Clerks, insertLeave(c) PROVE BalanceInv'
<1> PICK w : w = clerk[c]
  OBVIOUS
<1> PICK e : e = w.employee
  OBVIOUS
<1> PICK y : y = w.year
  OBVIOUS
<1>1. /\ WorkTyped(w) /\ CreationTyped(w) /\ e \in Takers /\ y \in Years /\ w.op = "create"
      /\ clerk' = [clerk EXCEPT ![c] = NoWork] /\ adjusted' = adjusted
  <2>1. w.op = "create" /\ clerk' = [clerk EXCEPT ![c] = NoWork] /\ adjusted' = adjusted
    BY DEF insertLeave
  <2>2. CreationTyped(w)
    BY <2>1 DEF creating, QuotaInv, RequestsTyped
  <2>3. WorkTyped(w)
    BY <2>1 DEF BalanceInv, BalancesTyped
  <2> QED BY <2>1, <2>2, <2>3 DEF WorkTyped
<1>2. clerk'[c] = NoWork /\ \A d \in Clerks : d # c => clerk'[d] = clerk[d]
  BY <1>1 DEF QuotaInv, RequestsTyped
<1>3. CASE w.policy.tracking
  <2> PICK row : row = w.row
    OBVIOUS
  <2> PICK left : left = w.available
    OBVIOUS
  <2> PICK minutes : minutes = w.minutes
    OBVIOUS
  <2> PICK delta : delta = 0
    OBVIOUS
  <2>1. /\ holds(c) /\ left >= minutes /\ left \in Int
        /\ balance' = [balance EXCEPT ![e][y] = row]
    BY <1>1, <1>3 DEF insertLeave, holds, WorkTyped
  <2>2. adjusted' = [adjusted EXCEPT ![e][y] = @ + delta] /\ adjusted[e][y] + delta \in -MaxAdjusted..MaxAdjusted
    <3>1. adjusted[e][y] + delta = adjusted[e][y] /\ adjusted[e][y] \in -MaxAdjusted..MaxAdjusted
      BY <1>1, QuotaAssumption DEF BalanceInv, BalancesTyped
    <3> QED BY <1>1, <3>1 DEF BalanceInv, BalancesTyped
  <2>3. minutes \in Nat /\ delta \in Int /\ left + delta >= minutes
    BY <1>1, <2>1, QuotaAssumption DEF CreationTyped
  <2>4. used(e, y)' = used(e, y) + minutes /\ used(e, y)' \in Nat
    BY <1>1, <1>3, InsertedUse
  <2>5. \A f \in Takers, z \in Years : used(f, z)' \in Nat
    BY InsertedUse
  <2>6. \A f \in Takers, z \in Years : ~(f = e /\ z = y) =>
          counted(f, z)' = counted(f, z) /\ used(f, z)' <= used(f, z)
    BY InsertedUse
  <2>7. used(e, y)' <= used(e, y) + minutes
    BY <2>4
  <2>8. Committed(c, e, y, row, left, delta, minutes)
    BY <1>1, <2>1, <2>2, <2>3, <2>5, <2>6, <2>7 DEF Committed
  <2> QED BY <2>8, CommittedStep
<1>4. CASE ~w.policy.tracking
  <2>1. balance' = balance
    BY <1>4 DEF insertLeave
  <2>2. \A f \in Takers, z \in Years : counted(f, z)' = counted(f, z)
    BY <1>4, InsertedUse
  <2>3. \A f \in Takers, z \in Years : \A q \in counted(f, z)' : q \in counted(f, z) /\ leave'[q].minutes = leave[q].minutes
    <3>1. \A q \in Leaves : q # w.leave => leave'[q] = leave[q]
      BY <1>1 DEF insertLeave, QuotaInv, RequestsTyped, CreationTyped
    <3>2. \A f \in Takers, z \in Years : w.leave \notin counted(f, z)
      BY DEF insertLeave, counted, openLeaves, NoLeave
    <3>3. \A f \in Takers, z \in Years : counted(f, z) \subseteq Leaves
      BY DEF counted, openLeaves
    <3> QED BY <2>2, <3>1, <3>2, <3>3
  <2>4. \A d \in Clerks : clerk'[d].op # "NONE" => WorkTyped(clerk'[d])
    BY <1>2 DEF NoWork, BalanceInv, BalancesTyped
  <2>5. \A d \in Clerks : holds(d)' => holds(d) /\ clerk'[d] = clerk[d]
    BY <1>2 DEF NoWork, holds
  <2>6. Gentle
    BY <1>1, <2>1, <2>3, <2>4, <2>5 DEF Gentle, BalanceInv, BalancesTyped
  <2> QED BY <2>6, GentleStep
<1> QED BY <1>3, <1>4

LEMMA AdjustStep ==
  ASSUME QuotaInv, BalanceInv, NEW c \in Clerks, insertAdjustment(c) PROVE BalanceInv'
<1> PICK w : w = clerk[c]
  OBVIOUS
<1> PICK e : e = w.employee
  OBVIOUS
<1> PICK y : y = w.year
  OBVIOUS
<1> PICK delta : delta = w.delta
  OBVIOUS
<1> PICK row : row = w.row
  OBVIOUS
<1> PICK left : left = w.available
  OBVIOUS
<1>1. /\ w.op = "adjust" /\ w.locked /\ left + delta >= 0
      /\ adjusted[e][y] + delta \in -MaxAdjusted..MaxAdjusted
      /\ adjusted' = [adjusted EXCEPT ![e][y] = @ + delta]
      /\ balance' = [balance EXCEPT ![e][y] = row]
      /\ clerk' = [clerk EXCEPT ![c] = NoWork] /\ leave' = leave
  BY DEF insertAdjustment
<1>2. WorkTyped(w)
  BY <1>1 DEF BalanceInv, BalancesTyped
<1>3. e \in Takers /\ y \in Years /\ delta \in Int
  BY <1>1, <1>2, QuotaAssumption DEF WorkTyped
<1>4. \A f \in Takers, z \in Years :
        /\ counted(f, z)' = counted(f, z) /\ used(f, z)' <= used(f, z)
        /\ used(f, z) \in Nat /\ used(f, z)' \in Nat
  <2> SUFFICES ASSUME NEW f \in Takers, NEW z \in Years
               PROVE  /\ counted(f, z)' = counted(f, z) /\ used(f, z)' = used(f, z)
                      /\ used(f, z) \in Nat
    OBVIOUS
  <2>1. counted(f, z)' = counted(f, z) /\ used(f, z)' = used(f, z)
    BY <1>1 DEF counted, openLeaves, used, minutesOf
  <2> QED BY <2>1, CountedRows
<1>5. used(e, y)' <= used(e, y) + 0
  BY <1>3, <1>4
<1>6. Committed(c, e, y, row, left, delta, 0)
  BY <1>1, <1>3, <1>4, <1>5 DEF Committed, holds
<1> QED BY <1>6, CommittedStep

(* A transaction that begins holds nothing yet. *)
Opened(c, op, e, y, more) ==
  /\ Begun(c, op, e, y, more) /\ UNCHANGED <<policy, balance, adjusted, leave>>
  /\ op \in {"create", "adjust"} /\ e \in Takers /\ y \in Years
  /\ "row" \notin DOMAIN more /\ "available" \notin DOMAIN more
  /\ op = "create" => "from" \in DOMAIN more /\ y = yearOf(more["from"])
  /\ op = "adjust" => "delta" \in DOMAIN more /\ more["delta"] \in Deltas

LEMMA OpenedStep ==
  ASSUME QuotaInv, BalanceInv, NEW c \in Clerks, NEW op, NEW e, NEW y, NEW more, Opened(c, op, e, y, more)
  PROVE  BalanceInv'
<1> PICK w : w = clerk'[c]
  OBVIOUS
<1>1. /\ w.op = op /\ w.employee = e /\ w.year = y /\ w.locked = FALSE /\ DOMAIN w = WorkFields \cup DOMAIN more
      /\ \A field \in DOMAIN more : w[field] = more[field]
      /\ \A d \in Clerks : d # c => clerk'[d] = clerk[d]
  BY DEF Opened, Begun
<1>2. op = "create" => y = yearOf(w.from)
  BY <1>1 DEF Opened
<1>3. op = "adjust" => "delta" \in DOMAIN w /\ w.delta \in Deltas
  BY <1>1 DEF Opened
<1>4. "row" \notin DOMAIN w /\ "available" \notin DOMAIN w
  BY <1>1 DEF Opened, WorkFields
<1>5. WorkTyped(w)
  BY <1>1, <1>2, <1>3, <1>4 DEF WorkTyped, Opened
<1>6. \A d \in Clerks : clerk'[d].op # "NONE" => WorkTyped(clerk'[d])
  BY <1>1, <1>5 DEF BalanceInv, BalancesTyped
<1>7. \A d \in Clerks : holds(d)' => holds(d) /\ clerk'[d] = clerk[d]
  BY <1>1 DEF holds
<1>8. \A f \in Takers, z \in Years : counted(f, z)' = counted(f, z)
  BY DEF Opened, counted, openLeaves
<1>9. Gentle
  BY <1>6, <1>7, <1>8 DEF Opened, Gentle, BalanceInv, BalancesTyped
<1> QED BY <1>9, GentleStep

LEMMA BeginStep ==
  ASSUME QuotaInv, BalanceInv, NEW c \in Clerks, NEW e \in Takers,
         \/ \E q \in {p \in Leaves : leave[p] = NoLeave}, from, to \in 0..LastDay, m \in Minutes :
              beginLeave(c, e, q, from, to, m)
         \/ \E y \in Years, delta \in Deltas : beginAdjust(c, e, y, delta)
  PROVE  BalanceInv'
<1>1. clerk = [d \in Clerks |-> clerk[d]]
  BY DEF QuotaInv, RequestsTyped
<1>2. ASSUME NEW q, NEW from \in 0..LastDay, NEW to, NEW m, beginLeave(c, e, q, from, to, m) PROVE BalanceInv'
  <2> PICK more : more = [leave |-> q, from |-> from, to |-> to, minutes |-> m]
    OBVIOUS
  <2>1. DOMAIN more = {"leave", "from", "to", "minutes"} /\ more["from"] = from
    OBVIOUS
  <2>2. begin(c, "create", e, yearOf(from), more) /\ UNCHANGED <<policy, balance, adjusted, leave>>
    BY <1>2 DEF beginLeave, begin
  <2>3. Begun(c, "create", e, yearOf(from), more)
    BY <1>1, <2>1, <2>2, BegunFields DEF WorkFields
  <2>4. yearOf(from) \in Years
    BY DEF yearOf, Years
  <2>5. Opened(c, "create", e, yearOf(from), more)
    BY <2>1, <2>2, <2>3, <2>4 DEF Opened
  <2> QED BY <2>5, OpenedStep
<1>3. ASSUME NEW y \in Years, NEW delta \in Deltas, beginAdjust(c, e, y, delta) PROVE BalanceInv'
  <2> PICK more : more = [delta |-> delta]
    OBVIOUS
  <2>1. DOMAIN more = {"delta"} /\ more["delta"] = delta
    OBVIOUS
  <2>2. begin(c, "adjust", e, y, more) /\ UNCHANGED <<policy, balance, adjusted, leave>>
    BY <1>3 DEF beginAdjust, begin
  <2>3. Begun(c, "adjust", e, y, more)
    BY <1>1, <2>1, <2>2, BegunFields DEF WorkFields
  <2>4. Opened(c, "adjust", e, y, more)
    BY <2>1, <2>2, <2>3 DEF Opened
  <2> QED BY <2>4, OpenedStep
<1> QED BY <1>2, <1>3

(* Whatever becomes of a request, it is not counted anew. *)
NoneAnew ==
  \A e \in Takers, y \in Years :
    \A p \in counted(e, y)' : p \in counted(e, y) /\ leave'[p].minutes = leave[p].minutes

Decided(q, status) ==
  leave[q].status \in {"SUBMITTED", "APPROVED"} /\ leave' = [leave EXCEPT ![q].status = status]

LEMMA DecidedCount ==
  ASSUME QuotaInv, NEW q \in Leaves, NEW status, Decided(q, status) PROVE NoneAnew
<1>1. leave[q] \in LeaveRow /\ leave' = [leave EXCEPT ![q].status = status]
  BY DEF Decided, QuotaInv, RequestsTyped, NoLeave
<1>2. /\ leave'[q].employee = leave[q].employee /\ leave'[q].from = leave[q].from
      /\ leave'[q].minutes = leave[q].minutes /\ leave'[q].tracked = leave[q].tracked
      /\ \A p \in Leaves : p # q => leave'[p] = leave[p]
  BY <1>1 DEF QuotaInv, RequestsTyped, LeaveRow
<1>3. ASSUME NEW e \in Takers, NEW y \in Years, NEW p \in counted(e, y)'
      PROVE  p \in counted(e, y) /\ leave'[p].minutes = leave[p].minutes
  <2>1. /\ p \in Leaves /\ leave'[p].status \in {"SUBMITTED", "APPROVED"} /\ leave'[p].employee = e
        /\ yearOf(leave'[p].from) = y /\ leave'[p].tracked
    BY DEF counted, openLeaves, yearOf
  <2>2. /\ leave[p].status \in {"SUBMITTED", "APPROVED"} /\ leave[p].employee = e
        /\ yearOf(leave[p].from) = y /\ leave[p].tracked /\ leave'[p].minutes = leave[p].minutes
    BY <1>1, <1>2, <2>1 DEF Decided
  <2> QED BY <2>1, <2>2 DEF counted, openLeaves
<1> QED BY <1>3 DEF NoneAnew

(* The clerks go on with what they do. *)
LEMMA ClerksStay ==
  ASSUME BalanceInv, UNCHANGED clerk
  PROVE  /\ \A c \in Clerks : clerk'[c].op # "NONE" => WorkTyped(clerk'[c])
         /\ \A c \in Clerks : holds(c)' => holds(c) /\ clerk'[c] = clerk[c]
  BY DEF BalanceInv, BalancesTyped, holds

(* An approval makes up the row that nobody holds, or leaves it.           *)
LEMMA ReviewBalances ==
  ASSUME QuotaInv, BalanceInv, NEW q \in Leaves, NEW decision, reviewLeave(q, decision) PROVE BalanceInv'
<1> PICK e : e = leave[q].employee
  OBVIOUS
<1> PICK y : y = yearOf(leave[q].from)
  OBVIOUS
<1> PICK row : row = ensured(policy, e, y)
  OBVIOUS
<1>1. /\ leave[q].status = "SUBMITTED" /\ leave' = [leave EXCEPT ![q].status = decision]
      /\ UNCHANGED <<adjusted, clerk>>
      /\ balance' = balance \/ (~held(e, y) /\ balance' = [balance EXCEPT ![e][y] = row])
  BY DEF reviewLeave
<1>2. leave[q] \in LeaveRow
  BY <1>1 DEF QuotaInv, RequestsTyped, NoLeave
<1>3. e \in Takers /\ y \in Years
  BY <1>2 DEF LeaveRow, Years, yearOf
<1>4. row \in BalanceRow /\ row.exists /\ (balance[e][y].exists => row = balance[e][y])
  BY <1>3, EnsuredRow
<1>5. /\ balance' \in [Takers -> [Years -> BalanceRow]]
      /\ \A f \in Takers, z \in Years :
           \/ balance'[f][z] = balance[f][z]
           \/ ~balance[f][z].exists /\ balance'[f][z].exists /\ ~held(f, z)
  <2>1. balance \in [Takers -> [Years -> BalanceRow]]
    BY DEF BalanceInv, BalancesTyped
  <2>2. CASE balance' = balance
    BY <2>1, <2>2
  <2>3. CASE ~held(e, y) /\ balance' = [balance EXCEPT ![e][y] = row]
    <3>1. \A f \in Takers, z \in Years : balance'[f][z] = IF f = e /\ z = y THEN row ELSE balance[f][z]
      BY <1>3, <2>1, <2>3
    <3>2. balance' \in [Takers -> [Years -> BalanceRow]]
      BY <1>3, <1>4, <2>1, <2>3
    <3> QED BY <1>3, <1>4, <2>3, <3>1, <3>2
  <2> QED BY <1>1, <2>2, <2>3
<1>6. NoneAnew
  <2>1. Decided(q, decision)
    BY <1>1 DEF Decided
  <2> QED BY <2>1, DecidedCount
<1>7. /\ \A c \in Clerks : clerk'[c].op # "NONE" => WorkTyped(clerk'[c])
      /\ \A c \in Clerks : holds(c)' => holds(c) /\ clerk'[c] = clerk[c]
  BY <1>1, ClerksStay
<1>8. Gentle
  BY <1>1, <1>5, <1>6, <1>7 DEF Gentle, NoneAnew
<1> QED BY <1>8, GentleStep

LEMMA NextBalances == ASSUME QuotaInv, BalanceInv, [QuotaNext]_quotaVars PROVE BalanceInv'
<1>1. balance \in [Takers -> [Years -> BalanceRow]]
  BY DEF BalanceInv, BalancesTyped
<1>2. ASSUME UNCHANGED <<adjusted, leave, balance>>,
             \A c \in Clerks : clerk'[c].op # "NONE" => WorkTyped(clerk'[c]),
             \A c \in Clerks : holds(c)' => holds(c) /\ clerk'[c] = clerk[c]
      PROVE  BalanceInv'
  <2>1. \A e \in Takers, y \in Years : counted(e, y)' = counted(e, y)
    BY <1>2 DEF counted, openLeaves
  <2>2. Gentle
    BY <1>1, <1>2, <2>1 DEF Gentle
  <2> QED BY <2>2, GentleStep
<1>3. ASSUME NEW c \in Clerks, rollBackWork(c) PROVE BalanceInv'
  <2>1. clerk'[c] = NoWork /\ \A d \in Clerks : d # c => clerk'[d] = clerk[d]
    BY <1>3 DEF rollBackWork, QuotaInv, RequestsTyped
  <2> QED BY <1>2, <1>3, <2>1 DEF rollBackWork, NoWork, holds, BalanceInv, BalancesTyped
<1>4. ASSUME NEW q \in Leaves, cancelLeave(q) PROVE BalanceInv'
  <2>1. /\ leave[q].status \in {"SUBMITTED", "APPROVED"} /\ leave' = [leave EXCEPT ![q].status = "CANCELLED"]
        /\ UNCHANGED <<adjusted, balance, clerk>>
    BY <1>4 DEF cancelLeave
  <2>2. NoneAnew
    <3>1. Decided(q, "CANCELLED")
      BY <2>1 DEF Decided
    <3> QED BY <3>1, DecidedCount
  <2>3. /\ \A c \in Clerks : clerk'[c].op # "NONE" => WorkTyped(clerk'[c])
        /\ \A c \in Clerks : holds(c)' => holds(c) /\ clerk'[c] = clerk[c]
    BY <2>1, ClerksStay
  <2>4. Gentle
    BY <1>1, <2>1, <2>2, <2>3 DEF Gentle, NoneAnew
  <2> QED BY <2>4, GentleStep
<1>5. ASSUME NEW y \in Years, initializeBalances(y) PROVE BalanceInv'
  <2>1. /\ UNCHANGED <<adjusted, leave, clerk>> /\ \A e \in Takers : ~held(e, y)
        /\ balance' = [e \in Takers |-> [balance[e] EXCEPT ![y] = ensured(policy, e, y)]]
    BY <1>5 DEF initializeBalances
  <2>2. \A e \in Takers : LET row == ensured(policy, e, y)
                          IN row \in BalanceRow /\ row.exists /\ (balance[e][y].exists => row = balance[e][y])
    BY EnsuredRow
  <2>3. \A e \in Takers, z \in Years : balance'[e][z] = IF z = y THEN ensured(policy, e, y) ELSE balance[e][z]
    BY <1>1, <2>1
  <2>4. balance' \in [Takers -> [Years -> BalanceRow]]
    <3>1. \A e \in Takers : [balance[e] EXCEPT ![y] = ensured(policy, e, y)] \in [Years -> BalanceRow]
      BY <1>1, <2>2
    <3> QED BY <2>1, <3>1
  <2>5. \A e \in Takers, z \in Years : counted(e, z)' = counted(e, z)
    BY <2>1 DEF counted, openLeaves
  <2>6. \A e \in Takers, z \in Years :
          \/ balance'[e][z] = balance[e][z]
          \/ ~balance[e][z].exists /\ balance'[e][z].exists /\ ~held(e, z)
    BY <2>1, <2>2, <2>3
  <2>7. Gentle
    BY <2>1, <2>4, <2>5, <2>6, ClerksStay DEF Gentle
  <2> QED BY <2>7, GentleStep
<1>6. ASSUME NEW p \in [tracking: BOOLEAN, carryOver: BOOLEAN], updatePolicy(p) PROVE BalanceInv'
  BY <1>2, <1>6, ClerksStay DEF updatePolicy
<1>7. CASE UNCHANGED quotaVars
  BY <1>2, <1>7, ClerksStay DEF quotaVars
<1> QED BY <1>3, <1>4, <1>5, <1>6, <1>7, BeginStep, HoldStep, InsertStep, AdjustStep, ReviewBalances
        DEF QuotaNext

(* Requests that were checked against a balance never use more than it     *)
(* holds, although creations, approvals and adjustments of any number of   *)
(* employees overlap and the policy changes under them                     *)
(* (LeaveService.createForEmployee, adjustBalance, ensureBalance).         *)
THEOREM QuotaStands == QuotaSpec => []QuotaNotOverdrawn
<1>1. QuotaInit => QuotaInv /\ BalanceInv
  BY InitQuotaInv, InitBalances
<1>2. QuotaInv /\ BalanceInv /\ [QuotaNext]_quotaVars => QuotaInv' /\ BalanceInv'
  BY NextQuotaInv, NextBalances
<1>3. QuotaInv /\ BalanceInv => QuotaNotOverdrawn
  BY BalanceImpliesProperty
<1> QED BY <1>1, <1>2, <1>3, PTL DEF QuotaSpec

(* Policies, balances, requests and transactions keep their types. *)
THEOREM QuotaTypes == QuotaSpec => []QuotaTypeOK
<1>1. QuotaInit => QuotaInv /\ BalanceInv
  BY InitQuotaInv, InitBalances
<1>2. QuotaInv /\ BalanceInv /\ [QuotaNext]_quotaVars => QuotaInv' /\ BalanceInv'
  BY NextQuotaInv, NextBalances
<1>3. QuotaInv /\ BalanceInv => QuotaTypeOK
  BY DEF QuotaInv, RequestsTyped, BalanceInv, BalancesTyped, WorkTyped, QuotaTypeOK
<1> QED BY <1>1, <1>2, <1>3, PTL DEF QuotaSpec

=============================================================================
