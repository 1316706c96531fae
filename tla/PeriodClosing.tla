------------------------------ MODULE PeriodClosing ------------------------------
(***************************************************************************)
(* Closing and reopening an attendance month against everything that       *)
(* changes a request of that month: the transactions of leave,             *)
(* explanations and reporting, one step per statement that locks or        *)
(* decides, interleaved as PostgreSQL at READ COMMITTED interleaves them.  *)
(* A statement sees what was committed before it; what a transaction       *)
(* writes is seen when it commits, which also releases its locks.          *)
(*                                                                         *)
(* Locks: the advisory lock of an employee's leave (or explanation) route, *)
(* the attendance_periods rows (taken in month order, or by inserting a    *)
(* month that has no row yet) and the rows of the requests.                *)
(*                                                                         *)
(* Two writers take no lock at all: createAdjustment and record.           *)
(***************************************************************************)
EXTENDS Integers, FiniteSets

CONSTANTS
  Workers,        \* the database sessions of the backend
  Months,         \* by number, which is the order their rows are locked in
  Leaves,         \* leave requests and
  Explanations,   \* explanations, by id: the order a batch locks them in
  Employees,
  OwnerOf,        \* the employee of each request
  Span,           \* the months each request falls in
  Handlers,       \* the handlers the environment calls
  NoWorker,       \* the holder of a free lock
  NoEmployee,     \* of a handler that is about no employee
  MaxAdjustments  \* bound: adjustments of one month

Items == Leaves \cup Explanations

ASSUME PeriodAssumption ==
  /\ Months \subseteq Nat
  /\ Items \subseteq Nat
  /\ IsFiniteSet(Months) /\ IsFiniteSet(Items)
  /\ Leaves \cap Explanations = {}
  /\ OwnerOf \in [Items -> Employees]
  /\ Span \in [Items -> SUBSET Months]
  /\ NoWorker \notin Workers
  /\ MaxAdjustments \in Nat

VARIABLES
  period,       \* committed status of each month, "NONE" without a row
  status,       \* committed status of each request, "NONE" without a row
  monthLock, rowLock, advisory,   \* who holds what
  pc,           \* the statement each worker is about to execute
  op,           \* the handler it executes
  emp,          \* the employee whose requests it is about
  months,       \* the months it has to lock
  rows,         \* the requests it is about
  adjustments,  \* how many adjustments each month has
  incomplete    \* months with a check-in that has no check-out

locks == <<monthLock, rowLock, advisory>>
session == <<op, emp, months, rows>>
vars == <<period, status, locks, pc, session, adjustments, incomplete>>

------------------------------------------------------------------------------
(* The handlers, by the statements they consist of *)

LeaveHandlers ==
  {"createLeave", "processLeave", "cancelLeave", "rerouteLeave", "setLeaveRoute"}
ExplanationHandlers ==
  {"submitExplanation", "respondExplanation", "processExplanation",
   "rerouteExplanation", "setExplanationRoute"}
MonthHandlers == {"lockPeriod", "reopenPeriod", "createAdjustment"}
BatchHandlers == {"setLeaveRoute", "setExplanationRoute"}
AllHandlers == LeaveHandlers \cup ExplanationHandlers \cup MonthHandlers

(* Those that refuse to work in a locked month. *)
Gated == LeaveHandlers \cup {"submitExplanation", "respondExplanation", "processExplanation"}

Statements ==
  {"idle", "blockers", "readPeriod", "advisory", "insert", "months", "rows",
   "recount", "commit"}

first(h) ==
  CASE h = "lockPeriod" -> "blockers"
    [] h = "reopenPeriod" -> "months"
    [] h = "createAdjustment" -> "readPeriod"
    [] h = "processExplanation" -> "insert"
    [] h = "rerouteExplanation" -> "rows"
    [] OTHER -> "advisory"

(* cancel and reroute lock the request before the months, the others after. *)
afterAdvisory(h) ==
  IF h \in {"cancelLeave", "rerouteLeave", "setExplanationRoute"} THEN "rows" ELSE "insert"

afterMonths(h) ==
  CASE h = "lockPeriod" -> "recount"
    [] h \in {"processLeave", "setLeaveRoute", "respondExplanation", "processExplanation"}
         -> "rows"
    [] OTHER -> "commit"

(* Mutants: a cancellation that does not look at the period, and a reroute *)
(* of explanations that does, after it locked the row.                     *)
afterRowsUnchecked(h) == IF h = "rerouteLeave" THEN "insert" ELSE "commit"
afterRowsReversed(h) ==
  IF h \in {"cancelLeave", "rerouteLeave", "rerouteExplanation"} THEN "insert" ELSE "commit"

afterRows(h) == IF h \in {"cancelLeave", "rerouteLeave"} THEN "insert" ELSE "commit"

openStatus(s) == s \in {"REQUESTED", "SUBMITTED"}

(* The status a request must have for the handler to accept it. *)
accepts(h, s) ==
  CASE h \in {"createLeave", "submitExplanation"} -> s = "NONE"
    [] h = "respondExplanation" -> s = "REQUESTED"
    [] h = "cancelLeave" -> s \in {"SUBMITTED", "APPROVED"}
    [] h \in {"rerouteExplanation", "setExplanationRoute"} -> openStatus(s)
    [] OTHER -> s = "SUBMITTED"

(* The status it then gets; process confirms or decides. *)
outcomes(h, s) ==
  CASE h \in {"createLeave", "submitExplanation", "respondExplanation"} -> {"SUBMITTED"}
    [] h \in {"processLeave", "processExplanation"} -> {"SUBMITTED", "APPROVED", "REJECTED"}
    [] h = "cancelLeave" -> {"CANCELLED"}
    [] OTHER -> {s}

kindOf(h) == IF h \in LeaveHandlers THEN "leave" ELSE "explanation"
key(w) == <<kindOf(op[w]), emp[w]>>

(* Mutant: one handler for both kinds of request. *)
itemsOfEither(h) == Items

itemsOf(h) == IF h \in LeaveHandlers THEN Leaves ELSE Explanations

(* What a default route applies to: the open requests of the employee. *)
pending(h, e) == {i \in itemsOf(h) : OwnerOf[i] = e /\ openStatus(status[i])}

(* Mutant: a batch lock without ORDER BY. *)
anyOf(S) == S

least(S) == {x \in S : \A y \in S : x <= y}

heldMonths(w) == {m \in Months : monthLock[m] = w}
heldRows(w) == {i \in Items : rowLock[i] = w}
missing(w) == {m \in months[w] \ heldMonths(w) : period[m] = "NONE"}

------------------------------------------------------------------------------
(* Statements *)

Init ==
  /\ period \in [Months -> {"NONE", "OPEN"}]
  /\ status \in [Items -> {"NONE", "REQUESTED"}]
  /\ \A i \in Leaves : status[i] = "NONE"
  /\ monthLock = [m \in Months |-> NoWorker]
  /\ rowLock = [i \in Items |-> NoWorker]
  /\ advisory = [k \in {"leave", "explanation"} \X Employees |-> NoWorker]
  /\ pc = [w \in Workers |-> "idle"]
  /\ op = [w \in Workers |-> "lockPeriod"]
  /\ emp = [w \in Workers |-> NoEmployee]
  /\ months = [w \in Workers |-> {}]
  /\ rows = [w \in Workers |-> {}]
  /\ adjustments = [m \in Months |-> 0]
  /\ incomplete = {}

start(w, h, e, ms, is) ==
  /\ pc[w] = "idle"
  /\ h \in Handlers
  /\ pc' = [pc EXCEPT ![w] = first(h)]
  /\ op' = [op EXCEPT ![w] = h]
  /\ emp' = [emp EXCEPT ![w] = e]
  /\ months' = [months EXCEPT ![w] = ms]
  /\ rows' = [rows EXCEPT ![w] = is]
  /\ UNCHANGED <<period, status, locks, adjustments, incomplete>>

Begin(w) ==
  \/ \E h \in (LeaveHandlers \cup ExplanationHandlers) \ BatchHandlers :
       \E i \in itemsOf(h) : start(w, h, OwnerOf[i], Span[i], {i})
  \/ \E h \in BatchHandlers, e \in Employees : start(w, h, e, {}, {})
  \/ \E h \in MonthHandlers, m \in Months : start(w, h, NoEmployee, {m}, {})

goto(w, statement) == pc' = [pc EXCEPT ![w] = statement]

(* Mutant: the set of pending requests is read without the advisory lock. *)
TakeNoAdvisory(w) ==
  /\ pc[w] = "advisory"
  /\ goto(w, afterAdvisory(op[w]))
  /\ months' = IF op[w] = "setLeaveRoute"
               THEN [months EXCEPT ![w] = UNION {Span[i] : i \in pending(op[w], emp[w])}]
               ELSE months
  /\ rows' = IF op[w] = "setExplanationRoute"
             THEN [rows EXCEPT ![w] = pending(op[w], emp[w])]
             ELSE rows
  /\ UNCHANGED <<period, status, locks, op, emp, adjustments, incomplete>>

(* pg_advisory_xact_lock; setDefaultRoute of leave then selects the months *)
(* of the pending requests.                                                *)
TakeAdvisory(w) ==
  /\ pc[w] = "advisory"
  /\ advisory[key(w)] = NoWorker
  /\ advisory' = [advisory EXCEPT ![key(w)] = w]
  /\ goto(w, afterAdvisory(op[w]))
  /\ months' = IF op[w] = "setLeaveRoute"
               THEN [months EXCEPT ![w] = UNION {Span[i] : i \in pending(op[w], emp[w])}]
               ELSE months
  /\ rows' = IF op[w] = "setExplanationRoute"
             THEN [rows EXCEPT ![w] = pending(op[w], emp[w])]
             ELSE rows
  /\ UNCHANGED <<period, status, monthLock, rowLock, op, emp, adjustments, incomplete>>

(* INSERT ... ON CONFLICT DO NOTHING: a month without a row is inserted,   *)
(* and waits for whoever is inserting it.                                  *)
InsertMonth(w) ==
  /\ pc[w] = "insert"
  /\ \E m \in least(missing(w)) :
       /\ monthLock[m] = NoWorker
       /\ monthLock' = [monthLock EXCEPT ![m] = w]
  /\ UNCHANGED <<period, status, rowLock, advisory, pc, session, adjustments, incomplete>>

InsertDone(w) ==
  /\ pc[w] = "insert"
  /\ missing(w) = {}
  /\ goto(w, "months")
  /\ UNCHANGED <<period, status, locks, session, adjustments, incomplete>>

(* SELECT ... ORDER BY period_month FOR UPDATE *)
LockMonth(w) ==
  /\ pc[w] = "months"
  /\ \E m \in least(months[w] \ heldMonths(w)) :
       /\ period[m] # "NONE"
       /\ monthLock[m] = NoWorker
       /\ monthLock' = [monthLock EXCEPT ![m] = w]
  /\ UNCHANGED <<period, status, rowLock, advisory, pc, session, adjustments, incomplete>>

(* reopenPeriod wants a locked month, everyone else none. *)
periodsPermit(w) ==
  \A m \in months[w] : (period[m] = "LOCKED") = (op[w] = "reopenPeriod")

CheckPeriods(w) ==
  /\ pc[w] = "months"
  /\ months[w] \subseteq heldMonths(w)
  /\ periodsPermit(w)
  /\ goto(w, afterMonths(op[w]))
  /\ rows' = IF op[w] = "setLeaveRoute"
             THEN [rows EXCEPT ![w] = pending(op[w], emp[w])]
             ELSE rows
  /\ UNCHANGED <<period, status, locks, op, emp, months, adjustments, incomplete>>

(* SELECT ... FOR UPDATE of the requests, a batch in the order of their id *)
LockRow(w) ==
  /\ pc[w] = "rows"
  /\ \E i \in least(rows[w] \ heldRows(w)) :
       /\ rowLock[i] = NoWorker
       /\ accepts(op[w], status[i])
       /\ rowLock' = [rowLock EXCEPT ![i] = w]
  /\ UNCHANGED <<period, status, monthLock, advisory, pc, session, adjustments, incomplete>>

(* A row that left the set while the batch waited for its lock is skipped. *)
SkipRow(w) ==
  /\ pc[w] = "rows"
  /\ op[w] \in BatchHandlers
  /\ \E i \in least(rows[w] \ heldRows(w)) :
       /\ rowLock[i] = NoWorker
       /\ ~accepts(op[w], status[i])
       /\ rows' = [rows EXCEPT ![w] = @ \ {i}]
  /\ UNCHANGED <<period, status, locks, pc, op, emp, months, adjustments, incomplete>>

RowsDone(w) ==
  /\ pc[w] = "rows"
  /\ rows[w] \subseteq heldRows(w)
  /\ goto(w, afterRows(op[w]))
  /\ UNCHANGED <<period, status, locks, session, adjustments, incomplete>>

openIn(m) == \E i \in Items : m \in Span[i] /\ openStatus(status[i])

(* The checks lockPeriod makes before its transaction begins. *)
Blockers(w) ==
  /\ pc[w] = "blockers"
  /\ \A m \in months[w] : ~openIn(m) /\ m \notin incomplete
  /\ goto(w, "insert")
  /\ UNCHANGED <<period, status, locks, session, adjustments, incomplete>>

(* Mutant: the counts made before the transaction are trusted. *)
RecountSkipped(w) ==
  /\ pc[w] = "recount"
  /\ goto(w, "commit")
  /\ UNCHANGED <<period, status, locks, session, adjustments, incomplete>>

(* The counts it repeats under the lock of the month. *)
Recount(w) ==
  /\ pc[w] = "recount"
  /\ \A m \in months[w] : ~openIn(m)
  /\ goto(w, "commit")
  /\ UNCHANGED <<period, status, locks, session, adjustments, incomplete>>

(* assertPeriodOpen of createAdjustment: a plain read. *)
ReadPeriod(w) ==
  /\ pc[w] = "readPeriod"
  /\ \A m \in months[w] : period[m] # "LOCKED"
  /\ goto(w, "commit")
  /\ UNCHANGED <<period, status, locks, session, adjustments, incomplete>>

(* Mutant: an advisory lock of the session, which outlives its transaction. *)
releaseRowLocks(w) ==
  /\ monthLock' = [m \in Months |-> IF monthLock[m] = w THEN NoWorker ELSE monthLock[m]]
  /\ rowLock' = [i \in Items |-> IF rowLock[i] = w THEN NoWorker ELSE rowLock[i]]
  /\ UNCHANGED advisory
  /\ goto(w, "idle")
  /\ op' = [op EXCEPT ![w] = "lockPeriod"]
  /\ emp' = [emp EXCEPT ![w] = NoEmployee]
  /\ months' = [months EXCEPT ![w] = {}]
  /\ rows' = [rows EXCEPT ![w] = {}]

release(w) ==
  /\ monthLock' = [m \in Months |-> IF monthLock[m] = w THEN NoWorker ELSE monthLock[m]]
  /\ rowLock' = [i \in Items |-> IF rowLock[i] = w THEN NoWorker ELSE rowLock[i]]
  /\ advisory' = [k \in DOMAIN advisory |-> IF advisory[k] = w THEN NoWorker ELSE advisory[k]]
  /\ goto(w, "idle")
  /\ op' = [op EXCEPT ![w] = "lockPeriod"]
  /\ emp' = [emp EXCEPT ![w] = NoEmployee]
  /\ months' = [months EXCEPT ![w] = {}]
  /\ rows' = [rows EXCEPT ![w] = {}]

(* What the transaction wrote becomes visible: the month rows it inserted, *)
(* the period it locked or reopened, the request it created or changed.    *)
periodAfter(w, m) ==
  IF m \in months[w] /\ op[w] \in {"lockPeriod", "reopenPeriod"}
  THEN IF op[w] = "lockPeriod" THEN "LOCKED" ELSE "OPEN"
  ELSE IF period[m] = "NONE" /\ monthLock[m] = w THEN "OPEN" ELSE period[m]

Commit(w) ==
  /\ pc[w] = "commit"
  /\ period' = [m \in Months |-> periodAfter(w, m)]
  /\ IF op[w] \in MonthHandlers \cup BatchHandlers
     THEN status' = status
     ELSE \E i \in rows[w] :
            /\ accepts(op[w], status[i])
            /\ \E s \in outcomes(op[w], status[i]) : status' = [status EXCEPT ![i] = s]
  /\ IF op[w] = "createAdjustment"
     THEN \E m \in months[w] :
            /\ adjustments[m] < MaxAdjustments
            /\ adjustments' = [adjustments EXCEPT ![m] = @ + 1]
     ELSE adjustments' = adjustments
  /\ release(w)
  /\ UNCHANGED incomplete

(* A handler that throws (or whose session is lost) rolls back. *)
Rollback(w) ==
  /\ pc[w] # "idle"
  /\ release(w)
  /\ UNCHANGED <<period, status, adjustments, incomplete>>

(* What it throws on for certain: there is no other way on from there. *)
refused(w) ==
  \/ pc[w] = "blockers" /\ \E m \in months[w] : openIn(m) \/ m \in incomplete
  \/ pc[w] = "recount" /\ \E m \in months[w] : openIn(m)
  \/ pc[w] = "readPeriod" /\ \E m \in months[w] : period[m] = "LOCKED"
  \/ pc[w] = "months" /\ months[w] \subseteq heldMonths(w) /\ ~periodsPermit(w)
  \/ pc[w] = "months" /\ \E m \in months[w] \ heldMonths(w) : period[m] = "NONE"
  \/ /\ pc[w] = "rows"
     /\ op[w] \notin BatchHandlers
     /\ \E i \in rows[w] : rowLock[i] = NoWorker /\ ~accepts(op[w], status[i])
  \/ /\ pc[w] = "commit"
     /\ op[w] \notin MonthHandlers \cup BatchHandlers
     /\ \E i \in rows[w] : ~accepts(op[w], status[i])
  \/ /\ pc[w] = "commit"
     /\ op[w] = "createAdjustment"
     /\ \E m \in months[w] : adjustments[m] >= MaxAdjustments

Refuse(w) == refused(w) /\ Rollback(w)

Execute(w) ==
  \/ TakeAdvisory(w)
  \/ InsertMonth(w) \/ InsertDone(w) \/ LockMonth(w) \/ CheckPeriods(w)
  \/ LockRow(w) \/ SkipRow(w) \/ RowsDone(w)
  \/ Blockers(w) \/ Recount(w) \/ ReadPeriod(w)
  \/ Commit(w) \/ Refuse(w)

(* record: a check-in leaves its day incomplete until the check-out.  It   *)
(* inserts an event and looks at no period.                                *)
CheckIn(m) ==
  /\ "record" \in Handlers
  /\ incomplete' = incomplete \cup {m}
  /\ UNCHANGED <<period, status, locks, pc, session, adjustments>>

CheckOut(m) ==
  /\ m \in incomplete
  /\ incomplete' = incomplete \ {m}
  /\ UNCHANGED <<period, status, locks, pc, session, adjustments>>

Next ==
  \/ \E w \in Workers : Begin(w) \/ Execute(w) \/ Rollback(w)
  \/ \E m \in Months : CheckIn(m) \/ CheckOut(m)

Spec == Init /\ [][Next]_vars

(* The server executes every statement of a transaction it has begun, and  *)
(* PostgreSQL queues the waiters of a lock: none is passed over for ever.  *)
FairSpec == Spec /\ \A w \in Workers : SF_vars(Execute(w))

------------------------------------------------------------------------------
(* Properties *)

LeaveStatuses == {"NONE", "SUBMITTED", "APPROVED", "REJECTED", "CANCELLED"}
ExplanationStatuses == {"NONE", "REQUESTED", "SUBMITTED", "APPROVED", "REJECTED"}

TypeOK ==
  /\ period \in [Months -> {"NONE", "OPEN", "LOCKED"}]
  /\ status \in [Items -> LeaveStatuses \cup ExplanationStatuses]
  /\ \A i \in Leaves : status[i] \in LeaveStatuses
  /\ \A i \in Explanations : status[i] \in ExplanationStatuses
  /\ monthLock \in [Months -> Workers \cup {NoWorker}]
  /\ rowLock \in [Items -> Workers \cup {NoWorker}]
  /\ advisory \in [{"leave", "explanation"} \X Employees -> Workers \cup {NoWorker}]
  /\ pc \in [Workers -> Statements]
  /\ op \in [Workers -> AllHandlers]
  /\ emp \in [Workers -> Employees \cup {NoEmployee}]
  /\ months \in [Workers -> SUBSET Months]
  /\ rows \in [Workers -> SUBSET Items]
  /\ adjustments \in [Months -> 0 .. MaxAdjustments]
  /\ incomplete \subseteq Months

(* A locked month has no open request: none slips in between the counts of *)
(* lockPeriod and its commit, whoever else is in the middle of creating,   *)
(* answering, rerouting or deciding a request of that month.               *)
LockedMonthSettled ==
  \A m \in Months : period[m] = "LOCKED" => ~openIn(m)

(* The months a gated handler has checked stay its own and unlocked until  *)
(* it commits, for every request it is about to write: a default route     *)
(* locks months in advance for a set of requests it selects again later.   *)
WritesUnderItsMonths ==
  \A w \in Workers :
    pc[w] = "commit" /\ op[w] \in Gated =>
      \A i \in rows[w] : \A m \in Span[i] :
        monthLock[m] = w /\ period[m] # "LOCKED"

(* Who a worker's next statement has to wait for. *)
waitsFor(w) ==
  CASE pc[w] = "advisory" -> {advisory[key(w)]}
    [] pc[w] = "insert" -> {monthLock[m] : m \in least(missing(w))}
    [] pc[w] = "months" -> {monthLock[m] : m \in least(months[w] \ heldMonths(w))}
    [] pc[w] = "rows" -> {rowLock[i] : i \in least(rows[w] \ heldRows(w))}
    [] OTHER -> {}

(* No deadlock: there is never a set of transactions each of which waits   *)
(* for another of them, whatever order requests, months and default routes *)
(* are locked in.                                                          *)
NoLockCycle ==
  \A S \in SUBSET Workers :
    S # {} => \E w \in S : waitsFor(w) \cap S = {}

(* Every transaction that begins ends, by commit or by rollback. *)
TransactionsEnd ==
  \A w \in Workers : pc[w] # "idle" ~> pc[w] = "idle"

(* Statement by statement, the transactions implement the abstract gate. *)
Gate == INSTANCE PeriodGate WITH
          locked <- {m \in Months : period[m] = "LOCKED"},
          Statuses <- LeaveStatuses \cup ExplanationStatuses

ImplementsGate == Gate!GateSpec

(* Claimed by FLOWS.md: no adjustment is accepted after the month is       *)
(* locked.  createAdjustment reads the period and inserts later, without   *)
(* a lock in between.                                                      *)
NoAdjustmentInLockedMonth ==
  [][\A m \in Months : adjustments'[m] # adjustments[m] => period[m] # "LOCKED"]_vars

(* Claimed by FLOWS.md: a month is locked after incomplete check-outs are  *)
(* resolved.  lockPeriod counts them before its transaction and not again. *)
LockedWithoutIncompleteDays ==
  [][\A m \in Months :
       period[m] # "LOCKED" /\ period'[m] = "LOCKED" => m \notin incomplete]_vars

=============================================================================
