--------------------------- MODULE PeriodClosingProofs ---------------------------
(***************************************************************************)
(* Proofs about PeriodClosing, for any number of sessions, months,         *)
(* employees and requests.  The inductive invariant Inv says of every      *)
(* session where its handler can be (Located), what it is about            *)
(* (SessionOK), that it has its employee's advisory lock (HasAdvisory),    *)
(* and that the months it has checked are its own and still as it found    *)
(* them (CheckedOK).  The last part adds the order in which a session      *)
(* takes its locks (LocksOK), and shows that no sessions wait for one      *)
(* another.                                                                *)
(***************************************************************************)
EXTENDS PeriodClosing, FiniteSetTheorems, WellFoundedInduction, TLAPS

RequestHandlers == (LeaveHandlers \cup ExplanationHandlers) \ BatchHandlers

(* Which handlers are ever at which statement. *)
Located(w) ==
  /\ pc[w] \in {"blockers", "recount"} => op[w] = "lockPeriod"
  /\ pc[w] = "readPeriod" => op[w] = "createAdjustment"
  /\ pc[w] \in {"advisory", "rows"} => op[w] \notin MonthHandlers
  /\ pc[w] = "advisory" => op[w] # "rerouteExplanation"
  /\ pc[w] = "rows" => op[w] \notin {"createLeave", "submitExplanation"}
  /\ pc[w] \in {"insert", "months"} =>
       op[w] \in Gated \cup {"lockPeriod", "reopenPeriod"}

(* A default route of leave knows the months of all pending requests until *)
(* it has locked them, and only requests of these months after.            *)
SessionOK(w) ==
  pc[w] # "idle" =>
    /\ op[w] \in MonthHandlers => \E m \in Months : months[w] = {m}
    /\ op[w] \notin MonthHandlers => emp[w] \in Employees
    /\ op[w] \in RequestHandlers =>
         \E i \in itemsOf(op[w]) :
           rows[w] = {i} /\ months[w] = Span[i] /\ emp[w] = OwnerOf[i]
    /\ op[w] = "setLeaveRoute" /\ pc[w] \in {"insert", "months"} =>
         \A i \in Leaves : OwnerOf[i] = emp[w] /\ openStatus(status[i])
                           => Span[i] \subseteq months[w]
    /\ op[w] = "setLeaveRoute" /\ pc[w] \in {"rows", "commit"} =>
         \A i \in rows[w] : Span[i] \subseteq months[w]

HasAdvisory(w) ==
  pc[w] \notin {"idle", "advisory"} /\ op[w] \in LeaveHandlers =>
    advisory[<<"leave", emp[w]>>] = w

(* Past the check of its months. *)
Checked(w) ==
  \/ pc[w] = "recount"
  \/ pc[w] = "rows" /\ afterMonths(op[w]) = "rows"
  \/ pc[w] = "commit" /\ op[w] \in Gated \cup {"lockPeriod", "reopenPeriod"}

CheckedOK(w) ==
  /\ Checked(w) =>
       \A m \in months[w] :
         /\ monthLock[m] = w
         /\ (period[m] = "LOCKED") = (op[w] = "reopenPeriod")
  /\ pc[w] = "commit" /\ op[w] = "lockPeriod" => \A m \in months[w] : ~openIn(m)

WorkerOK(w) == Located(w) /\ SessionOK(w) /\ HasAdvisory(w) /\ CheckedOK(w)

Inv ==
  /\ TypeOK
  /\ \A w \in Workers : WorkerOK(w)
  /\ LockedMonthSettled

------------------------------------------------------------------------------
(* The handlers and their statements *)

(* Where a handler starts and goes on, as far as the proofs depend on it.  *)
LEMMA Flow ==
  ASSUME NEW h \in AllHandlers
  PROVE  /\ {first(h), afterAdvisory(h), afterMonths(h), afterRows(h)} \subseteq Statements
         /\ first(h) \in {"blockers", "readPeriod", "advisory", "insert", "months", "rows"}
         /\ first(h) = "blockers" <=> h = "lockPeriod"
         /\ first(h) = "readPeriod" <=> h = "createAdjustment"
         /\ first(h) = "months" <=> h = "reopenPeriod"
         /\ first(h) = "insert" <=> h = "processExplanation"
         /\ first(h) = "rows" <=> h = "rerouteExplanation"
         /\ afterAdvisory(h) \in {"rows", "insert"}
         /\ afterAdvisory(h) = "rows"
              <=> h \in {"cancelLeave", "rerouteLeave", "setExplanationRoute"}
         /\ afterMonths(h) \in {"recount", "rows", "commit"}
         /\ afterMonths(h) = "recount" <=> h = "lockPeriod"
         /\ afterMonths(h) = "rows"
              <=> h \in {"processLeave", "setLeaveRoute", "respondExplanation",
                         "processExplanation"}
         /\ afterRows(h) \in {"insert", "commit"}
         /\ afterRows(h) = "insert" <=> h \in {"cancelLeave", "rerouteLeave"}
<1>1. h \in {"createLeave", "processLeave", "cancelLeave", "rerouteLeave", "setLeaveRoute",
             "submitExplanation", "respondExplanation", "processExplanation",
             "rerouteExplanation", "setExplanationRoute",
             "lockPeriod", "reopenPeriod", "createAdjustment"}
  BY DEF AllHandlers, LeaveHandlers, ExplanationHandlers, MonthHandlers
<1>2. /\ first(h) \in {"blockers", "readPeriod", "advisory", "insert", "months", "rows"}
      /\ first(h) = "blockers" <=> h = "lockPeriod"
      /\ first(h) = "readPeriod" <=> h = "createAdjustment"
      /\ first(h) = "months" <=> h = "reopenPeriod"
      /\ first(h) = "insert" <=> h = "processExplanation"
      /\ first(h) = "rows" <=> h = "rerouteExplanation"
  BY <1>1 DEF first
<1>3. /\ afterAdvisory(h) \in {"rows", "insert"}
      /\ afterAdvisory(h) = "rows"
           <=> h \in {"cancelLeave", "rerouteLeave", "setExplanationRoute"}
  BY <1>1 DEF afterAdvisory
<1>4. /\ afterMonths(h) \in {"recount", "rows", "commit"}
      /\ afterMonths(h) = "recount" <=> h = "lockPeriod"
      /\ afterMonths(h) = "rows"
           <=> h \in {"processLeave", "setLeaveRoute", "respondExplanation",
                      "processExplanation"}
  BY <1>1 DEF afterMonths
<1>5. /\ afterRows(h) \in {"insert", "commit"}
      /\ afterRows(h) = "insert" <=> h \in {"cancelLeave", "rerouteLeave"}
  BY <1>1 DEF afterRows
<1> QED BY <1>2, <1>3, <1>4, <1>5 DEF Statements

(* What a handler may make of the status of a request it is about. *)
LEMMA Outcomes ==
  ASSUME NEW h \in RequestHandlers, NEW s, accepts(h, s), NEW t \in outcomes(h, s)
  PROVE  /\ h \in LeaveHandlers => s \in LeaveStatuses /\ t \in LeaveStatuses
         /\ h \in ExplanationHandlers => s \in ExplanationStatuses /\ t \in ExplanationStatuses
         /\ t # s => h \in Gated
<1>1. h \in {"createLeave", "processLeave", "cancelLeave", "rerouteLeave",
             "submitExplanation", "respondExplanation", "processExplanation",
             "rerouteExplanation"}
  BY DEF RequestHandlers, LeaveHandlers, ExplanationHandlers, BatchHandlers
<1>2. h \in LeaveHandlers => s \in LeaveStatuses /\ t \in LeaveStatuses
  BY <1>1 DEF accepts, outcomes, openStatus, LeaveHandlers, LeaveStatuses
<1>3. h \in ExplanationHandlers => s \in ExplanationStatuses /\ t \in ExplanationStatuses
  BY <1>1 DEF accepts, outcomes, openStatus, ExplanationHandlers, ExplanationStatuses
<1>4. t # s => h \in Gated
  BY <1>1 DEF outcomes, Gated, LeaveHandlers
<1> QED BY <1>2, <1>3, <1>4

------------------------------------------------------------------------------
(* Type correctness, step by step *)

(* The tables the model starts with are well typed.                        *)
LEMMA TypeInit == Init => TypeOK
BY PeriodAssumption
DEF Init, TypeOK, Items, LeaveStatuses, ExplanationStatuses, Statements, AllHandlers,
    MonthHandlers

(* The end of a transaction leaves the locks and its session well typed.   *)
LEMMA ReleaseType ==
  ASSUME TypeOK, NEW w \in Workers, release(w)
  PROVE  /\ monthLock' \in [Months -> Workers \cup {NoWorker}]
         /\ rowLock' \in [Items -> Workers \cup {NoWorker}]
         /\ advisory' \in [{"leave", "explanation"} \X Employees -> Workers \cup {NoWorker}]
         /\ pc' \in [Workers -> Statements]
         /\ op' \in [Workers -> AllHandlers]
         /\ emp' \in [Workers -> Employees \cup {NoEmployee}]
         /\ months' \in [Workers -> SUBSET Months]
         /\ rows' \in [Workers -> SUBSET Items]
BY DEF TypeOK, release, goto, Statements, AllHandlers, MonthHandlers

(* Only a request handler at its commit changes a status, and only that of *)
(* its request; and only the month it has locked changes its period.       *)
LEMMA CommitWrites ==
  ASSUME TypeOK, NEW w \in Workers, WorkerOK(w), Commit(w)
  PROVE  /\ \/ status' = status
            \/ \E i \in itemsOf(op[w]) :
                 \E s \in LeaveStatuses \cup ExplanationStatuses :
                   /\ op[w] \in RequestHandlers
                   /\ rows[w] = {i} /\ months[w] = Span[i] /\ emp[w] = OwnerOf[i]
                   /\ s \in outcomes(op[w], status[i]) /\ accepts(op[w], status[i])
                   /\ op[w] \in Gated
                   /\ status' = [status EXCEPT ![i] = s]
         /\ status' \in [Items -> LeaveStatuses \cup ExplanationStatuses]
         /\ \A i \in Leaves : status'[i] \in LeaveStatuses
         /\ \A i \in Explanations : status'[i] \in ExplanationStatuses
<1>1. CASE op[w] \in MonthHandlers \cup BatchHandlers
  BY <1>1 DEF Commit, TypeOK
<1>2. CASE op[w] \notin MonthHandlers \cup BatchHandlers
  <2>1. op[w] \in RequestHandlers
    BY <1>2 DEF TypeOK, AllHandlers, RequestHandlers
  <2>2. PICK i \in itemsOf(op[w]) :
          rows[w] = {i} /\ months[w] = Span[i] /\ emp[w] = OwnerOf[i]
    BY <2>1 DEF Commit, WorkerOK, SessionOK
  <2>3. PICK s \in outcomes(op[w], status[i]) :
          accepts(op[w], status[i]) /\ status' = [status EXCEPT ![i] = s]
    BY <1>2, <2>2 DEF Commit
  <2>4. /\ op[w] \in LeaveHandlers => s \in LeaveStatuses
        /\ op[w] \in ExplanationHandlers => s \in ExplanationStatuses
        /\ s # status[i] => op[w] \in Gated
    BY <2>1, <2>3, Outcomes
  <2>5. op[w] \in LeaveHandlers \/ op[w] \in ExplanationHandlers
    BY <2>1 DEF RequestHandlers
  <2>6. /\ op[w] \in LeaveHandlers => i \in Leaves
        /\ op[w] \in ExplanationHandlers => i \in Explanations
    BY <2>2 DEF itemsOf, LeaveHandlers, ExplanationHandlers
  <2>7. /\ status' \in [Items -> LeaveStatuses \cup ExplanationStatuses]
        /\ \A j \in Leaves : status'[j] \in LeaveStatuses
        /\ \A j \in Explanations : status'[j] \in ExplanationStatuses
    BY <2>3, <2>4, <2>5, <2>6, PeriodAssumption DEF TypeOK, Items
  <2>8. s = status[i] => status' = status
    BY <2>3, <2>5, <2>6 DEF TypeOK, Items
  <2> QED BY <2>1, <2>2, <2>3, <2>4, <2>5, <2>7, <2>8
<1> QED BY <1>1, <1>2

(* Every statement keeps the tables, the locks and the sessions well       *)
(* typed.                                                                  *)
LEMMA TypeStep ==
  ASSUME TypeOK, \A w \in Workers : WorkerOK(w), [Next]_vars
  PROVE  TypeOK'
<1> USE DEF goto, session, locks
<1>1. ASSUME NEW w \in Workers, Begin(w) PROVE TypeOK'
  <2>1. PICK h \in AllHandlers, e \in Employees \cup {NoEmployee},
             ms \in SUBSET Months, is \in SUBSET Items : start(w, h, e, ms, is)
    <3>1. CASE \E h \in (LeaveHandlers \cup ExplanationHandlers) \ BatchHandlers :
                 \E i \in itemsOf(h) : start(w, h, OwnerOf[i], Span[i], {i})
      <4>0. PICK h \in (LeaveHandlers \cup ExplanationHandlers) \ BatchHandlers :
                   \E i \in itemsOf(h) : start(w, h, OwnerOf[i], Span[i], {i})
        BY <3>1
      <4>1. PICK i \in itemsOf(h) : start(w, h, OwnerOf[i], Span[i], {i})
        BY <4>0
      <4>2. i \in Items
        BY DEF itemsOf, Items
      <4>3. h \in AllHandlers /\ OwnerOf[i] \in Employees /\ Span[i] \in SUBSET Months
            /\ {i} \in SUBSET Items
        BY <4>2, PeriodAssumption DEF AllHandlers
      <4> QED BY <4>1, <4>3
    <3>2. CASE \E h \in BatchHandlers, e \in Employees : start(w, h, e, {}, {})
      <4>1. BatchHandlers \subseteq AllHandlers
        BY DEF BatchHandlers, AllHandlers, LeaveHandlers, ExplanationHandlers
      <4> QED BY <3>2, <4>1
    <3>3. CASE \E h \in MonthHandlers, m \in Months : start(w, h, NoEmployee, {m}, {})
      <4>1. MonthHandlers \subseteq AllHandlers
        BY DEF AllHandlers
      <4>2. PICK h \in MonthHandlers, m \in Months : start(w, h, NoEmployee, {m}, {})
        BY <3>3
      <4> QED BY <4>1, <4>2
    <3> QED BY <1>1, <3>1, <3>2, <3>3 DEF Begin
  <2>2. first(h) \in Statements
    BY Flow
  <2> QED BY <2>1, <2>2 DEF start, TypeOK
<1>2. ASSUME NEW w \in Workers, TakeAdvisory(w) PROVE TypeOK'
  <2>1. afterAdvisory(op[w]) \in Statements
    BY Flow DEF TypeOK
  <2>2. pending(op[w], emp[w]) \subseteq Items
    BY DEF pending, itemsOf, Items
  <2>3. UNION {Span[i] : i \in pending(op[w], emp[w])} \in SUBSET Months
    BY <2>2, PeriodAssumption
  <2>4. months' \in [Workers -> SUBSET Months] /\ rows' \in [Workers -> SUBSET Items]
    BY <1>2, <2>2, <2>3 DEF TakeAdvisory, TypeOK
  <2> QED BY <1>2, <2>1, <2>4 DEF TakeAdvisory, TypeOK
<1>3. ASSUME NEW w \in Workers, InsertMonth(w) PROVE TypeOK'
  BY <1>3 DEF InsertMonth, TypeOK
<1>4. ASSUME NEW w \in Workers, InsertDone(w) PROVE TypeOK'
  BY <1>4 DEF InsertDone, TypeOK, Statements
<1>5. ASSUME NEW w \in Workers, LockMonth(w) PROVE TypeOK'
  BY <1>5 DEF LockMonth, TypeOK
<1>6. ASSUME NEW w \in Workers, CheckPeriods(w) PROVE TypeOK'
  <2>1. afterMonths(op[w]) \in Statements
    BY Flow DEF TypeOK
  <2>2. pending(op[w], emp[w]) \subseteq Items
    BY DEF pending, itemsOf, Items
  <2>3. rows' \in [Workers -> SUBSET Items]
    BY <1>6, <2>2 DEF CheckPeriods, TypeOK
  <2> QED BY <1>6, <2>1, <2>3 DEF CheckPeriods, TypeOK
<1>7. ASSUME NEW w \in Workers, LockRow(w) PROVE TypeOK'
  BY <1>7 DEF LockRow, TypeOK
<1>8. ASSUME NEW w \in Workers, SkipRow(w) PROVE TypeOK'
  BY <1>8 DEF SkipRow, TypeOK
<1>9. ASSUME NEW w \in Workers, RowsDone(w) PROVE TypeOK'
  <2>1. afterRows(op[w]) \in Statements
    BY Flow DEF TypeOK
  <2> QED BY <1>9, <2>1 DEF RowsDone, TypeOK
<1>10. ASSUME NEW w \in Workers, Blockers(w) \/ Recount(w) \/ ReadPeriod(w) PROVE TypeOK'
  BY <1>10 DEF Blockers, Recount, ReadPeriod, TypeOK, Statements
<1>11. ASSUME NEW w \in Workers, Commit(w) PROVE TypeOK'
  <2>1. period' \in [Months -> {"NONE", "OPEN", "LOCKED"}]
    BY <1>11 DEF Commit, periodAfter, TypeOK
  <2>2. /\ status' \in [Items -> LeaveStatuses \cup ExplanationStatuses]
        /\ \A i \in Leaves : status'[i] \in LeaveStatuses
        /\ \A i \in Explanations : status'[i] \in ExplanationStatuses
    BY <1>11, CommitWrites
  <2>3. adjustments' \in [Months -> 0 .. MaxAdjustments]
    <3>1. CASE op[w] = "createAdjustment"
      <4>1. PICK m \in months[w] : /\ adjustments[m] < MaxAdjustments
                                   /\ adjustments' = [adjustments EXCEPT ![m] = @ + 1]
        BY <1>11, <3>1 DEF Commit
      <4>2. m \in Months /\ adjustments[m] \in 0 .. MaxAdjustments
        BY DEF TypeOK
      <4>3. adjustments[m] + 1 \in 0 .. MaxAdjustments
        BY <4>1, <4>2, PeriodAssumption
      <4> QED BY <4>1, <4>2, <4>3 DEF TypeOK
    <3>2. CASE op[w] # "createAdjustment"
      BY <1>11, <3>2 DEF Commit, TypeOK
    <3> QED BY <3>1, <3>2
  <2>4. release(w) /\ incomplete' = incomplete
    BY <1>11 DEF Commit
  <2> QED BY <2>1, <2>2, <2>3, <2>4, ReleaseType DEF TypeOK
<1>12. ASSUME NEW w \in Workers, Rollback(w) PROVE TypeOK'
  <2>1. release(w) /\ UNCHANGED <<period, status, adjustments, incomplete>>
    BY <1>12 DEF Rollback
  <2> QED BY <2>1, ReleaseType DEF TypeOK
<1>13. ASSUME NEW m \in Months, CheckIn(m) \/ CheckOut(m) PROVE TypeOK'
  BY <1>13 DEF CheckIn, CheckOut, TypeOK
<1>14. CASE UNCHANGED vars
  BY <1>14 DEF vars, TypeOK
<1> QED
  BY <1>1, <1>2, <1>3, <1>4, <1>5, <1>6, <1>7, <1>8, <1>9, <1>10, <1>11, <1>12, <1>13, <1>14
  DEF Next, Execute, Refuse

------------------------------------------------------------------------------
(* What a step of one session leaves alone of another *)

(* Its program, the months and advisory locks it holds, and every request  *)
(* that falls in such a month or belongs to such an employee.              *)
Framed(v) ==
  /\ pc'[v] = pc[v] /\ op'[v] = op[v] /\ emp'[v] = emp[v]
  /\ months'[v] = months[v] /\ rows'[v] = rows[v]
  /\ \A m \in Months : monthLock[m] = v => monthLock'[m] = v /\ period'[m] = period[m]
  /\ \A k \in {"leave", "explanation"} \X Employees : advisory[k] = v => advisory'[k] = v
  /\ \A i \in Items :
       \/ status'[i] = status[i]
       \/ /\ \A m \in Span[i] : monthLock[m] # v
          /\ i \in Leaves => advisory[<<"leave", OwnerOf[i]>>] # v

(* What a framed step of another session leaves alone is enough for the    *)
(* invariant of a session.                                                 *)
LEMMA Frame ==
  ASSUME TypeOK, NEW v \in Workers, WorkerOK(v), Framed(v)
  PROVE  WorkerOK(v)'
<1>1. Located(v)'
  BY DEF Framed, WorkerOK, Located
<1>2. HasAdvisory(v)'
  <2> SUFFICES ASSUME pc[v] \notin {"idle", "advisory"}, op[v] \in LeaveHandlers
               PROVE  advisory'[<<"leave", emp[v]>>] = v
    BY DEF Framed, HasAdvisory
  <2>1. advisory[<<"leave", emp[v]>>] = v
    BY DEF WorkerOK, HasAdvisory
  <2>2. emp[v] \in Employees
    BY DEF WorkerOK, SessionOK, LeaveHandlers, MonthHandlers
  <2> QED BY <2>1, <2>2 DEF Framed
<1>3. SessionOK(v)'
  <2>1. ASSUME pc[v] # "idle", op[v] = "setLeaveRoute", pc[v] \in {"insert", "months"},
               NEW i \in Leaves, OwnerOf[i] = emp[v], openStatus(status'[i])
        PROVE  Span[i] \subseteq months[v]
    <3>1. advisory[<<"leave", OwnerOf[i]>>] = v
      BY <2>1 DEF WorkerOK, HasAdvisory, LeaveHandlers
    <3>2. status'[i] = status[i]
      BY <3>1 DEF Framed, Items
    <3> QED BY <2>1, <3>2 DEF WorkerOK, SessionOK
  <2> QED BY <2>1 DEF Framed, WorkerOK, SessionOK, openStatus
<1>4. CheckedOK(v)'
  <2>1. ASSUME Checked(v), NEW m \in months[v]
        PROVE  /\ m \in Months /\ monthLock[m] = v /\ monthLock'[m] = v
               /\ period'[m] = period[m]
               /\ (period[m] = "LOCKED") = (op[v] = "reopenPeriod")
    BY <2>1 DEF Framed, WorkerOK, CheckedOK, TypeOK
  <2>2. ASSUME pc[v] = "commit", op[v] = "lockPeriod", NEW m \in months[v]
        PROVE  ~(\E i \in Items : m \in Span[i] /\ openStatus(status'[i]))
    <3>1. monthLock[m] = v
      BY <2>1, <2>2 DEF Checked
    <3>2. ~openIn(m)
      BY <2>2 DEF WorkerOK, CheckedOK
    <3>3. \A i \in Items : m \in Span[i] => status'[i] = status[i]
      BY <3>1 DEF Framed
    <3> QED BY <3>2, <3>3 DEF openIn
  <2> QED BY <2>1, <2>2 DEF Framed, CheckedOK, Checked, openIn
<1> QED BY <1>1, <1>2, <1>3, <1>4 DEF WorkerOK

(* What a request handler writes at its commit, it writes under the locks  *)
(* of the months of the request and, for leave, of its employee.           *)
LEMMA CommitHolds ==
  ASSUME TypeOK, NEW w \in Workers, WorkerOK(w), Commit(w), status' # status
  PROVE  \E i \in Items, s \in LeaveStatuses \cup ExplanationStatuses :
           /\ status' = [status EXCEPT ![i] = s]
           /\ \A m \in Span[i] : monthLock[m] = w /\ period[m] # "LOCKED"
           /\ i \in Leaves => advisory[<<"leave", OwnerOf[i]>>] = w
           /\ op[w] \in Gated
<1>1. PICK i \in itemsOf(op[w]) :
        \E s \in LeaveStatuses \cup ExplanationStatuses :
          /\ op[w] \in RequestHandlers
          /\ rows[w] = {i} /\ months[w] = Span[i] /\ emp[w] = OwnerOf[i]
          /\ op[w] \in Gated
          /\ status' = [status EXCEPT ![i] = s]
  BY CommitWrites
<1>2. i \in Items
  BY DEF itemsOf, Items
<1>3. pc[w] = "commit"
  BY DEF Commit
<1>4. op[w] # "reopenPeriod"
  BY <1>1 DEF RequestHandlers, LeaveHandlers, ExplanationHandlers
<1>5. \A m \in Span[i] : monthLock[m] = w /\ period[m] # "LOCKED"
  BY <1>1, <1>3, <1>4 DEF WorkerOK, CheckedOK, Checked
<1>6. i \in Leaves => advisory[<<"leave", OwnerOf[i]>>] = w
  <2>1. i \in Leaves => op[w] \in LeaveHandlers
    BY <1>1, PeriodAssumption DEF itemsOf
  <2> QED BY <1>1, <1>3, <2>1 DEF WorkerOK, HasAdvisory
<1> QED BY <1>1, <1>2, <1>5, <1>6

(* A commit changes the period of no month another session has locked. *)
LEMMA CommitPeriods ==
  ASSUME TypeOK, NEW w \in Workers, WorkerOK(w), Commit(w), NEW m \in Months,
         period'[m] # period[m]
  PROVE  /\ monthLock[m] = w
         /\ \/ op[w] = "lockPeriod" /\ months[w] = {m} /\ period'[m] = "LOCKED"
            \/ op[w] = "reopenPeriod" /\ months[w] = {m} /\ period'[m] = "OPEN"
            \/ period[m] = "NONE" /\ period'[m] = "OPEN"
<1>1. pc[w] = "commit" /\ period'[m] = periodAfter(w, m)
  BY DEF Commit
<1>2. CASE m \in months[w] /\ op[w] \in {"lockPeriod", "reopenPeriod"}
  <2>1. months[w] = {m}
    BY <1>1, <1>2 DEF WorkerOK, SessionOK, MonthHandlers
  <2>2. monthLock[m] = w
    BY <1>1, <1>2 DEF WorkerOK, CheckedOK, Checked
  <2> QED BY <1>1, <1>2, <2>1, <2>2 DEF periodAfter
<1>3. CASE ~(m \in months[w] /\ op[w] \in {"lockPeriod", "reopenPeriod"})
  BY <1>1, <1>3 DEF periodAfter
<1> QED BY <1>2, <1>3

(* A statement of one session is a framed step for every other: the locks  *)
(* of the others stop it from touching what they rely on.                  *)
LEMMA OthersFramed ==
  ASSUME TypeOK, NEW w \in Workers, WorkerOK(w), NEW v \in Workers, v # w,
         Begin(w) \/ Execute(w) \/ Rollback(w)
  PROVE  Framed(v)
<1> USE DEF goto, session, locks
<1>0. v # NoWorker
  BY PeriodAssumption
<1>1. CASE Begin(w)
  <2>1. PICK h, e, ms, is : start(w, h, e, ms, is)
    BY <1>1 DEF Begin
  <2> QED BY <2>1 DEF start, TypeOK, Framed
<1>2. CASE TakeAdvisory(w)
  BY <1>0, <1>2 DEF TakeAdvisory, TypeOK, Framed
<1>3. CASE InsertMonth(w) \/ LockMonth(w)
  BY <1>0, <1>3 DEF InsertMonth, LockMonth, TypeOK, Framed
<1>4. CASE InsertDone(w) \/ CheckPeriods(w) \/ RowsDone(w)
  BY <1>4 DEF InsertDone, CheckPeriods, RowsDone, TypeOK, Framed
<1>5. CASE LockRow(w) \/ SkipRow(w)
  BY <1>5 DEF LockRow, SkipRow, TypeOK, Framed
<1>6. CASE Blockers(w) \/ Recount(w) \/ ReadPeriod(w)
  BY <1>6 DEF Blockers, Recount, ReadPeriod, TypeOK, Framed
<1>7. ASSUME release(w)
      PROVE  /\ pc'[v] = pc[v] /\ op'[v] = op[v] /\ emp'[v] = emp[v]
             /\ months'[v] = months[v] /\ rows'[v] = rows[v]
             /\ \A m \in Months : monthLock[m] = v => monthLock'[m] = v
             /\ \A k \in {"leave", "explanation"} \X Employees :
                  advisory[k] = v => advisory'[k] = v
  BY <1>7 DEF release, TypeOK
<1>8. CASE Commit(w)
  <2>1. release(w)
    BY <1>8 DEF Commit
  <2>2. \A m \in Months : monthLock[m] = v => period'[m] = period[m]
    BY <1>8, CommitPeriods
  <2>3. \A i \in Items :
          \/ status'[i] = status[i]
          \/ /\ \A m \in Span[i] : monthLock[m] # v
             /\ i \in Leaves => advisory[<<"leave", OwnerOf[i]>>] # v
    <3>1. CASE status' = status
      BY <3>1
    <3>2. CASE status' # status
      <4>1. PICK j \in Items, s \in LeaveStatuses \cup ExplanationStatuses :
              /\ status' = [status EXCEPT ![j] = s]
              /\ \A m \in Span[j] : monthLock[m] = w
              /\ j \in Leaves => advisory[<<"leave", OwnerOf[j]>>] = w
        BY <1>8, <3>2, CommitHolds
      <4>2. \A i \in Items : i # j => status'[i] = status[i]
        BY <4>1 DEF TypeOK
      <4> QED BY <4>1, <4>2
    <3> QED BY <3>1, <3>2
  <2> QED BY <1>7, <2>1, <2>2, <2>3 DEF Framed
<1>9. CASE Rollback(w)
  BY <1>7, <1>9 DEF Rollback, Framed
<1> QED
  BY <1>1, <1>2, <1>3, <1>4, <1>5, <1>6, <1>8, <1>9 DEF Execute, Refuse

------------------------------------------------------------------------------
(* What a step does to the session that takes it *)

(* Every statement of a session preserves the invariant of that session.   *)
LEMMA OwnStep ==
  ASSUME TypeOK, NEW w \in Workers, WorkerOK(w), Begin(w) \/ Execute(w) \/ Rollback(w)
  PROVE  WorkerOK(w)'
<1> USE DEF goto, session, locks
<1>0. op[w] \in AllHandlers
  BY DEF TypeOK
<1>1. CASE Begin(w)
  <2>1. ASSUME NEW h \in AllHandlers, NEW e, NEW ms, NEW is, start(w, h, e, ms, is),
               h \notin MonthHandlers => e \in Employees,
               h \in MonthHandlers => \E m \in Months : ms = {m},
               h \in RequestHandlers =>
                 \E i \in itemsOf(h) : is = {i} /\ ms = Span[i] /\ e = OwnerOf[i]
        PROVE  WorkerOK(w)'
    <3>1. /\ pc'[w] = first(h) /\ op'[w] = h /\ emp'[w] = e /\ months'[w] = ms
          /\ rows'[w] = is
      BY <2>1 DEF start, TypeOK
    <3>2. Located(w)'
      BY <3>1, Flow
      DEF Located, MonthHandlers, Gated, LeaveHandlers, AllHandlers, ExplanationHandlers
    <3>3. SessionOK(w)'
      BY <2>1, <3>1, Flow DEF SessionOK
    <3>4. HasAdvisory(w)'
      BY <3>1, Flow DEF HasAdvisory, LeaveHandlers
    <3>5. CheckedOK(w)'
      BY <3>1, Flow DEF CheckedOK, Checked
    <3> QED BY <3>2, <3>3, <3>4, <3>5 DEF WorkerOK
  <2>2. CASE \E h \in (LeaveHandlers \cup ExplanationHandlers) \ BatchHandlers :
               \E i \in itemsOf(h) : start(w, h, OwnerOf[i], Span[i], {i})
    <3>1. PICK h \in (LeaveHandlers \cup ExplanationHandlers) \ BatchHandlers :
                 \E i \in itemsOf(h) : start(w, h, OwnerOf[i], Span[i], {i})
      BY <2>2
    <3>2. PICK i \in itemsOf(h) : start(w, h, OwnerOf[i], Span[i], {i})
      BY <3>1
    <3>3. OwnerOf[i] \in Employees
      BY PeriodAssumption DEF itemsOf, Items
    <3>4. h \in AllHandlers /\ h \notin MonthHandlers
      BY DEF AllHandlers, LeaveHandlers, ExplanationHandlers, MonthHandlers
    <3> QED BY <2>1, <3>2, <3>3, <3>4
  <2>3. CASE \E h \in BatchHandlers, e \in Employees : start(w, h, e, {}, {})
    <3>1. BatchHandlers \subseteq AllHandlers \ (MonthHandlers \cup RequestHandlers)
      BY DEF BatchHandlers, AllHandlers, LeaveHandlers, ExplanationHandlers, MonthHandlers,
             RequestHandlers
    <3> QED BY <2>1, <2>3, <3>1
  <2>4. CASE \E h \in MonthHandlers, m \in Months : start(w, h, NoEmployee, {m}, {})
    <3>1. MonthHandlers \subseteq AllHandlers \ RequestHandlers
      BY DEF AllHandlers, LeaveHandlers, ExplanationHandlers, MonthHandlers, RequestHandlers
    <3>2. PICK h \in MonthHandlers, m \in Months : start(w, h, NoEmployee, {m}, {})
      BY <2>4
    <3> QED BY <2>1, <3>1, <3>2
  <2> QED BY <1>1, <2>2, <2>3, <2>4 DEF Begin
<1>2. CASE TakeAdvisory(w)
  <2>1. /\ pc[w] = "advisory" /\ pc'[w] = afterAdvisory(op[w])
        /\ op'[w] = op[w] /\ emp'[w] = emp[w] /\ status' = status
        /\ op[w] # "setLeaveRoute" => months'[w] = months[w]
        /\ op[w] # "setExplanationRoute" => rows'[w] = rows[w]
    BY <1>2 DEF TakeAdvisory, TypeOK
  <2>2. op[w] \notin MonthHandlers /\ emp[w] \in Employees
    BY <2>1 DEF WorkerOK, Located, SessionOK
  <2>3. advisory'[key(w)] = w
    BY <1>2, <2>2 DEF TakeAdvisory, TypeOK, key, kindOf
  <2>4. ASSUME op[w] = "setLeaveRoute",
               NEW i \in Leaves, OwnerOf[i] = emp[w], openStatus(status[i])
        PROVE  Span[i] \subseteq months'[w]
    <3>1. i \in pending(op[w], emp[w])
      BY <2>4 DEF pending, itemsOf, LeaveHandlers
    <3>2. months'[w] = UNION {Span[j] : j \in pending(op[w], emp[w])}
      BY <1>2, <2>4 DEF TakeAdvisory, TypeOK
    <3> QED BY <3>1, <3>2
  <2>5. SessionOK(w)'
    <3>1. op[w] = "setLeaveRoute" => pc'[w] \notin {"rows", "commit"}
      BY <1>0, <2>1, Flow
    <3>2. op[w] \in RequestHandlers => op[w] \notin {"setLeaveRoute", "setExplanationRoute"}
      BY DEF RequestHandlers, BatchHandlers
    <3> QED BY <2>1, <2>2, <2>4, <3>1, <3>2 DEF WorkerOK, SessionOK, openStatus
  <2>6. Located(w)'
    <3>1. afterAdvisory(op[w]) = "rows" => op[w] \notin {"createLeave", "submitExplanation"}
      BY <1>0, Flow
    <3>2. afterAdvisory(op[w]) = "insert" => op[w] \in Gated
      BY <1>0, <2>1, <2>2, Flow
      DEF Gated, AllHandlers, ExplanationHandlers, LeaveHandlers, MonthHandlers, WorkerOK,
          Located
    <3> QED BY <1>0, <2>1, <2>2, <3>1, <3>2, Flow DEF Located
  <2>7. HasAdvisory(w)'
    BY <2>1, <2>3 DEF HasAdvisory, key, kindOf
  <2>8. CheckedOK(w)'
    BY <1>0, <2>1, Flow DEF CheckedOK, Checked
  <2> QED BY <2>5, <2>6, <2>7, <2>8 DEF WorkerOK
<1>3. CASE InsertMonth(w) \/ LockMonth(w)
  <2>1. /\ pc[w] \in {"insert", "months"}
        /\ UNCHANGED <<period, status, advisory, pc, op, emp, months, rows>>
    BY <1>3 DEF InsertMonth, LockMonth
  <2> QED BY <2>1 DEF WorkerOK, Located, SessionOK, HasAdvisory, CheckedOK, Checked, openStatus
<1>4. CASE InsertDone(w)
  <2>1. /\ pc[w] = "insert" /\ pc'[w] = "months"
        /\ UNCHANGED <<period, status, advisory, op, emp, months, rows>>
    BY <1>4 DEF InsertDone, TypeOK
  <2> QED BY <2>1 DEF WorkerOK, Located, SessionOK, HasAdvisory, CheckedOK, Checked, openStatus
<1>5. CASE CheckPeriods(w)
  <2>1. /\ pc[w] = "months" /\ pc'[w] = afterMonths(op[w])
        /\ months[w] \subseteq heldMonths(w) /\ periodsPermit(w)
        /\ op[w] # "setLeaveRoute" => rows'[w] = rows[w]
        /\ op[w] = "setLeaveRoute" => rows'[w] = pending(op[w], emp[w])
        /\ UNCHANGED <<period, status, monthLock, advisory, op, emp, months>>
    BY <1>5 DEF CheckPeriods, TypeOK
  <2>2. pc'[w] \in {"recount", "rows", "commit"}
    BY <1>0, <2>1, Flow
  <2>3. Located(w)'
    <3>1. pc'[w] = "rows" => op[w] \notin MonthHandlers \cup {"createLeave", "submitExplanation"}
      BY <1>0, <2>1, Flow DEF MonthHandlers
    <3>2. pc'[w] = "recount" => op[w] = "lockPeriod"
      BY <1>0, <2>1, Flow
    <3> QED BY <2>1, <2>2, <3>1, <3>2 DEF Located
  <2>4. SessionOK(w)'
    <3>1. op[w] = "setLeaveRoute" => \A i \in rows'[w] : Span[i] \subseteq months[w]
      BY <2>1 DEF pending, itemsOf, LeaveHandlers, WorkerOK, SessionOK
    <3>2. op[w] \in RequestHandlers => op[w] # "setLeaveRoute"
      BY DEF RequestHandlers, BatchHandlers
    <3> QED BY <2>1, <2>2, <3>1, <3>2 DEF WorkerOK, SessionOK
  <2>5. HasAdvisory(w)'
    BY <2>1 DEF WorkerOK, HasAdvisory
  <2>6. CheckedOK(w)'
    <3>1. \A m \in months[w] :
            monthLock[m] = w /\ (period[m] = "LOCKED") = (op[w] = "reopenPeriod")
      BY <2>1 DEF heldMonths, periodsPermit
    <3>2. pc'[w] = "commit" => op[w] # "lockPeriod"
      BY <1>0, <2>1, Flow
    <3> QED BY <2>1, <3>1, <3>2 DEF CheckedOK
  <2> QED BY <2>3, <2>4, <2>5, <2>6 DEF WorkerOK
<1>6. CASE LockRow(w)
  <2>1. UNCHANGED <<period, status, monthLock, advisory, pc, op, emp, months, rows>>
    BY <1>6 DEF LockRow
  <2> QED
    BY <2>1
    DEF WorkerOK, Located, SessionOK, HasAdvisory, CheckedOK, Checked, openIn, openStatus
<1>7. CASE SkipRow(w)
  <2>1. /\ pc[w] = "rows" /\ op[w] \in BatchHandlers
        /\ rows'[w] \subseteq rows[w]
        /\ UNCHANGED <<period, status, monthLock, advisory, pc, op, emp, months>>
    BY <1>7 DEF SkipRow, TypeOK
  <2>2. op[w] \notin RequestHandlers
    BY <2>1 DEF RequestHandlers
  <2> QED
    BY <2>1, <2>2
    DEF WorkerOK, Located, SessionOK, HasAdvisory, CheckedOK, Checked, openIn, openStatus
<1>8. CASE RowsDone(w)
  <2>1. /\ pc[w] = "rows" /\ pc'[w] = afterRows(op[w])
        /\ UNCHANGED <<period, status, monthLock, advisory, op, emp, months, rows>>
    BY <1>8 DEF RowsDone, TypeOK
  <2>2. /\ op[w] \notin MonthHandlers \cup {"createLeave", "submitExplanation"}
        /\ pc'[w] \in {"insert", "commit"}
        /\ pc'[w] = "insert" <=> op[w] \in {"cancelLeave", "rerouteLeave"}
    BY <1>0, <2>1, Flow DEF WorkerOK, Located
  <2>3. Located(w)'
    BY <2>1, <2>2 DEF Located, Gated, LeaveHandlers
  <2>4. SessionOK(w)'
    BY <2>1, <2>2 DEF WorkerOK, SessionOK, openStatus
  <2>5. HasAdvisory(w)'
    BY <2>1 DEF WorkerOK, HasAdvisory
  <2>6. CheckedOK(w)'
    <3>1. Checked(w)' => Checked(w)
      <4>1. op[w] \in Gated /\ pc'[w] = "commit" => afterMonths(op[w]) = "rows"
        BY <1>0, <2>2, Flow DEF Gated, LeaveHandlers
      <4>2. op[w] \notin {"lockPeriod", "reopenPeriod"}
        BY <2>2 DEF MonthHandlers
      <4> QED BY <2>1, <2>2, <4>1, <4>2 DEF Checked
    <3>2. op[w] # "lockPeriod"
      BY <2>2 DEF MonthHandlers
    <3> QED BY <2>1, <3>1, <3>2 DEF WorkerOK, CheckedOK
  <2> QED BY <2>3, <2>4, <2>5, <2>6 DEF WorkerOK
<1>9. CASE Blockers(w)
  <2>1. /\ pc[w] = "blockers" /\ pc'[w] = "insert" /\ op[w] = "lockPeriod"
        /\ UNCHANGED <<period, status, monthLock, advisory, op, emp, months, rows>>
    BY <1>9 DEF Blockers, TypeOK, WorkerOK, Located
  <2> QED
    BY <2>1
    DEF WorkerOK, Located, SessionOK, HasAdvisory, CheckedOK, Checked, LeaveHandlers
<1>10. CASE Recount(w)
  <2>1. /\ pc[w] = "recount" /\ pc'[w] = "commit" /\ op[w] = "lockPeriod"
        /\ \A m \in months[w] : ~openIn(m)
        /\ UNCHANGED <<period, status, monthLock, advisory, op, emp, months, rows>>
    BY <1>10 DEF Recount, TypeOK, WorkerOK, Located
  <2> QED
    BY <2>1
    DEF WorkerOK, Located, SessionOK, HasAdvisory, CheckedOK, Checked, LeaveHandlers, openIn
<1>11. CASE ReadPeriod(w)
  <2>1. /\ pc[w] = "readPeriod" /\ pc'[w] = "commit" /\ op[w] = "createAdjustment"
        /\ UNCHANGED <<period, status, monthLock, advisory, op, emp, months, rows>>
    BY <1>11 DEF ReadPeriod, TypeOK, WorkerOK, Located
  <2> QED
    BY <2>1
    DEF WorkerOK, Located, SessionOK, HasAdvisory, CheckedOK, Checked, LeaveHandlers,
        ExplanationHandlers, Gated
<1>12. CASE Commit(w) \/ Rollback(w)
  <2>1. pc'[w] = "idle"
    BY <1>12 DEF Commit, Rollback, release, TypeOK
  <2> QED BY <2>1 DEF WorkerOK, Located, SessionOK, HasAdvisory, CheckedOK, Checked
<1> QED
  BY <1>1, <1>2, <1>3, <1>4, <1>5, <1>6, <1>7, <1>8, <1>9, <1>10, <1>11, <1>12
  DEF Execute, Refuse

------------------------------------------------------------------------------
(* The invariant *)

(* The invariant holds of the initial tables, where every session is idle. *)
LEMMA InvInit == Init => Inv
<1> SUFFICES ASSUME Init PROVE Inv
  OBVIOUS
<1>1. TypeOK
  BY TypeInit
<1>2. \A w \in Workers : WorkerOK(w)
  BY DEF Init, WorkerOK, Located, SessionOK, HasAdvisory, CheckedOK, Checked
<1>3. LockedMonthSettled
  BY DEF Init, LockedMonthSettled
<1> QED BY <1>1, <1>2, <1>3 DEF Inv

(* A commit that locks a month finds it settled, and one that changes a    *)
(* request holds its months, none of them locked.                          *)
LEMMA SettledStep ==
  ASSUME Inv, NEW w \in Workers, Commit(w)
  PROVE  LockedMonthSettled'
<1>0. TypeOK /\ WorkerOK(w) /\ LockedMonthSettled
  BY DEF Inv
<1> SUFFICES ASSUME NEW m \in Months, period'[m] = "LOCKED",
                    NEW i \in Items, m \in Span[i], openStatus(status'[i])
             PROVE  FALSE
  BY DEF LockedMonthSettled, openIn, openStatus
<1>1. ~openIn(m)
  <2>1. CASE period[m] = "LOCKED"
    BY <1>0, <2>1 DEF LockedMonthSettled
  <2>2. CASE period[m] # "LOCKED"
    <3>1. op[w] = "lockPeriod" /\ months[w] = {m}
      BY <1>0, <2>2, CommitPeriods
    <3>2. pc[w] = "commit"
      BY DEF Commit
    <3> QED BY <1>0, <3>1, <3>2 DEF WorkerOK, CheckedOK
  <2> QED BY <2>1, <2>2
<1>2. status' # status
  BY <1>1 DEF openIn
<1>3. PICK j \in Items, s \in LeaveStatuses \cup ExplanationStatuses :
        /\ status' = [status EXCEPT ![j] = s]
        /\ \A n \in Span[j] : monthLock[n] = w /\ period[n] # "LOCKED"
        /\ op[w] \in Gated
  BY <1>0, <1>2, CommitHolds
<1>4. i = j
  BY <1>1, <1>3 DEF openIn, TypeOK, Inv
<1>5. period[m] # "LOCKED"
  BY <1>3, <1>4
<1>6. op[w] = "lockPeriod"
  BY <1>0, <1>5, CommitPeriods
<1> QED BY <1>3, <1>6 DEF Gated, LeaveHandlers

(* Every statement of every session, check-in and check-out preserves the  *)
(* invariant.                                                              *)
LEMMA InvStep == Inv /\ [Next]_vars => Inv'
<1> SUFFICES ASSUME Inv, [Next]_vars PROVE Inv'
  OBVIOUS
<1>0. TypeOK /\ LockedMonthSettled /\ \A w \in Workers : WorkerOK(w)
  BY DEF Inv
<1>1. TypeOK'
  BY <1>0, TypeStep
<1>2. ASSUME NEW w \in Workers, Begin(w) \/ Execute(w) \/ Rollback(w) PROVE Inv'
  <2>1. \A v \in Workers : WorkerOK(v)'
    BY <1>0, <1>2, OwnStep, OthersFramed, Frame
  <2>2. LockedMonthSettled'
    <3>1. CASE Commit(w)
      BY <3>1, SettledStep
    <3>2. CASE ~Commit(w)
      <4>1. UNCHANGED <<period, status>>
        BY <1>2, <3>2
        DEF Begin, start, Execute, Refuse, Rollback, TakeAdvisory, InsertMonth, InsertDone,
            LockMonth, CheckPeriods, LockRow, SkipRow, RowsDone, Blockers, Recount, ReadPeriod
      <4> QED BY <1>0, <4>1 DEF LockedMonthSettled, openIn, openStatus
    <3> QED BY <3>1, <3>2
  <2> QED BY <1>1, <2>1, <2>2 DEF Inv
<1>3. CASE UNCHANGED <<period, status, locks, pc, session>>
  <2>1. \A v \in Workers : Framed(v)
    BY <1>3 DEF Framed, locks, session
  <2>2. \A v \in Workers : WorkerOK(v)'
    BY <1>0, <2>1, Frame
  <2>3. LockedMonthSettled'
    BY <1>0, <1>3 DEF LockedMonthSettled, openIn, openStatus
  <2> QED BY <1>1, <2>2, <2>3 DEF Inv
<1> QED BY <1>2, <1>3 DEF Next, CheckIn, CheckOut, vars

(* In every reachable state each session holds the locks its next          *)
(* statement relies on, and locked months are settled.                     *)
THEOREM Invariance == Spec => []Inv
BY InvInit, InvStep, PTL DEF Spec

------------------------------------------------------------------------------
(* What the invariant gives *)

(* Type correctness of the tables, the locks and the sessions. *)
THEOREM TypeCorrect == Spec => []TypeOK
<1>1. Inv => TypeOK
  BY DEF Inv
<1> QED BY <1>1, Invariance, PTL

(* A locked month has no open request, whatever was going on in it. *)
THEOREM LockedIsSettled == Spec => []LockedMonthSettled
<1>1. Inv => LockedMonthSettled
  BY DEF Inv
<1> QED BY <1>1, Invariance, PTL

(* Whatever a gated handler is about to write falls in months it holds and *)
(* none of which is locked.                                                *)
THEOREM WritesAreCovered == Spec => []WritesUnderItsMonths
<1>1. Inv => WritesUnderItsMonths
  <2> SUFFICES ASSUME Inv, NEW w \in Workers, pc[w] = "commit", op[w] \in Gated,
                      NEW i \in rows[w], NEW m \in Span[i]
               PROVE  monthLock[m] = w /\ period[m] # "LOCKED"
    BY DEF WritesUnderItsMonths
  <2>1. WorkerOK(w)
    BY DEF Inv
  <2>2. op[w] \in RequestHandlers \/ op[w] = "setLeaveRoute"
    BY DEF Gated, RequestHandlers, LeaveHandlers, ExplanationHandlers, BatchHandlers
  <2>3. Span[i] \subseteq months[w]
    BY <2>1, <2>2 DEF WorkerOK, SessionOK
  <2>4. op[w] # "reopenPeriod"
    BY DEF Gated, LeaveHandlers
  <2> QED BY <2>1, <2>3, <2>4 DEF WorkerOK, CheckedOK, Checked
<1> QED BY <1>1, Invariance, PTL

(* The transactions implement the gate: a commit of lockPeriod, of         *)
(* reopenPeriod or of a request handler is one of its steps, every other   *)
(* statement a stuttering step.                                            *)
THEOREM Refinement == Spec => ImplementsGate
<1> DEFINE closed == {m \in Months : period[m] = "LOCKED"}
<1>1. Init => Gate!GateInit
  <2> SUFFICES ASSUME Init PROVE Gate!GateInit
    OBVIOUS
  <2>1. status \in [Items -> LeaveStatuses \cup ExplanationStatuses]
    BY TypeInit DEF TypeOK
  <2>2. closed = {}
    BY DEF Init
  <2> QED BY <2>1, <2>2 DEF Gate!GateInit
<1>2. Inv /\ [Next]_vars => [Gate!GateNext]_(Gate!gateVars)
  <2> SUFFICES ASSUME Inv, [Next]_vars
               PROVE  Gate!GateNext \/ UNCHANGED Gate!gateVars
    OBVIOUS
  <2>1. CASE UNCHANGED <<period, status>>
    BY <2>1 DEF Gate!gateVars
  <2>2. ASSUME NEW w \in Workers, Commit(w)
        PROVE  Gate!GateNext \/ UNCHANGED Gate!gateVars
    <3>0. TypeOK /\ WorkerOK(w) /\ pc[w] = "commit"
      BY <2>2 DEF Inv, Commit
    <3>1. CASE status' # status
      <4>1. PICK i \in Items, s \in LeaveStatuses \cup ExplanationStatuses :
              /\ status' = [status EXCEPT ![i] = s]
              /\ \A m \in Span[i] : monthLock[m] = w /\ period[m] # "LOCKED"
              /\ op[w] \in Gated
        BY <2>2, <3>0, <3>1, CommitHolds
      <4>2. op[w] \notin {"lockPeriod", "reopenPeriod"}
        BY <4>1 DEF Gated, LeaveHandlers
      <4>3. closed' = closed
        BY <2>2, <3>0, <4>2, CommitPeriods
      <4>4. Gate!Change(i, s)
        BY <4>1, <4>3 DEF Gate!Change
      <4> QED BY <4>4 DEF Gate!GateNext
    <3>2. CASE status' = status /\ op[w] = "lockPeriod"
      <4>1. PICK m \in Months : months[w] = {m}
        BY <3>0, <3>2 DEF WorkerOK, SessionOK, MonthHandlers
      <4>2. period'[m] = "LOCKED"
        BY <2>2, <3>0, <3>2, <4>1 DEF Commit, periodAfter
      <4>3. \A n \in Months \ {m} : period'[n] = "LOCKED" <=> period[n] = "LOCKED"
        BY <2>2, <3>0, <3>2, <4>1, CommitPeriods
      <4>4. closed' = closed \cup {m}
        BY <4>2, <4>3
      <4>5. ~openIn(m)
        BY <3>0, <3>2, <4>1 DEF WorkerOK, CheckedOK
      <4>6. Gate!settled(m)
        BY <4>5 DEF Gate!settled, Gate!openStatus, openIn, openStatus
      <4>7. Gate!Lock(m)
        BY <3>2, <4>4, <4>6 DEF Gate!Lock
      <4> QED BY <4>7 DEF Gate!GateNext
    <3>3. CASE status' = status /\ op[w] = "reopenPeriod"
      <4>1. PICK m \in Months : months[w] = {m}
        BY <3>0, <3>3 DEF WorkerOK, SessionOK, MonthHandlers
      <4>2. period'[m] = "OPEN"
        BY <2>2, <3>0, <3>3, <4>1 DEF Commit, periodAfter, TypeOK
      <4>3. \A n \in Months \ {m} : period'[n] = "LOCKED" <=> period[n] = "LOCKED"
        BY <2>2, <3>0, <3>3, <4>1, CommitPeriods
      <4>4. closed' = closed \ {m}
        BY <4>2, <4>3
      <4>5. m \in closed
        BY <3>0, <3>3, <4>1 DEF WorkerOK, CheckedOK, Checked
      <4>6. Gate!Reopen(m)
        BY <3>3, <4>4, <4>5 DEF Gate!Reopen
      <4> QED BY <4>6 DEF Gate!GateNext
    <3>4. CASE status' = status /\ op[w] \notin {"lockPeriod", "reopenPeriod"}
      <4>1. closed' = closed
        BY <2>2, <3>0, <3>4, CommitPeriods
      <4> QED BY <3>4, <4>1 DEF Gate!gateVars
    <3> QED BY <3>1, <3>2, <3>3, <3>4
  <2>3. ASSUME NEW w \in Workers, Begin(w) \/ Execute(w) \/ Rollback(w), ~Commit(w)
        PROVE  UNCHANGED <<period, status>>
    BY <2>3
    DEF Begin, start, Execute, Refuse, Rollback, TakeAdvisory, InsertMonth, InsertDone,
        LockMonth, CheckPeriods, LockRow, SkipRow, RowsDone, Blockers, Recount, ReadPeriod
  <2>4. UNCHANGED <<period, status>> \/ \E w \in Workers : Commit(w)
    BY <2>3 DEF Next, CheckIn, CheckOut, vars
  <2> QED BY <2>1, <2>2, <2>4
<1> QED BY <1>1, <1>2, Invariance, PTL DEF Spec, ImplementsGate, Gate!GateSpec

------------------------------------------------------------------------------
(* The order in which locks are taken *)

RouteKeys == {"leave", "explanation"} \X Employees

Unheld(w) == heldMonths(w) = {} /\ heldRows(w) = {} /\ \A k \in RouteKeys : advisory[k] # w

EmptyHanded(w) == pc[w] \in {"idle", "blockers", "readPeriod", "advisory"} => Unheld(w)

NoRoute(w) == op[w] \in MonthHandlers => \A k \in RouteKeys : advisory[k] # w

RowsFirst == {"cancelLeave", "rerouteLeave"}

(* The months a session inserts, in their order; then the ones that were   *)
(* there, in theirs.                                                       *)
MonthsAscend(w) ==
  /\ heldMonths(w) \subseteq months[w]
  /\ pc[w] = "rows" /\ op[w] \in RowsFirst => heldMonths(w) = {}
  /\ pc[w] = "insert" => \A m \in heldMonths(w) : period[m] = "NONE" /\ \A n \in missing(w) : m < n
  /\ pc[w] = "months" =>
       /\ op[w] # "reopenPeriod" => missing(w) = {}
       /\ \A m \in heldMonths(w), n \in months[w] \ heldMonths(w) : period[m] # "NONE" => m < n

RowsAscend(w) ==
  /\ heldRows(w) \subseteq rows[w]
  /\ \A i \in rows[w] : i \in itemsOf(op[w]) /\ OwnerOf[i] = emp[w]
  /\ pc[w] \in {"insert", "months"} /\ op[w] \notin RowsFirst => heldRows(w) = {}
  /\ pc[w] = "rows" => \A i \in heldRows(w), j \in rows[w] \ heldRows(w) : i < j

LocksOK(w) == EmptyHanded(w) /\ NoRoute(w) /\ MonthsAscend(w) /\ RowsAscend(w)

LockInv == Inv /\ \A w \in Workers : LocksOK(w)

LEMMA LockInit == Init => LockInv
<1> SUFFICES ASSUME Init PROVE LockInv
  OBVIOUS
<1>1. ASSUME NEW w \in Workers PROVE LocksOK(w)
  <2>1. Unheld(w)
    BY PeriodAssumption DEF Init, Unheld, heldMonths, heldRows, RouteKeys
  <2>2. pc[w] = "idle" /\ rows[w] = {}
    BY DEF Init
  <2> QED BY <2>1, <2>2 DEF LocksOK, EmptyHanded, NoRoute, MonthsAscend, RowsAscend, Unheld
<1> QED BY <1>1, InvInit DEF LockInv

(* What a step of one session leaves alone of the locks of another.        *)
LocksFramed(v) ==
  /\ pc'[v] = pc[v] /\ op'[v] = op[v] /\ emp'[v] = emp[v] /\ months'[v] = months[v] /\ rows'[v] = rows[v]
  /\ heldMonths(v)' = heldMonths(v) /\ heldRows(v)' = heldRows(v)
  /\ \A k \in RouteKeys : advisory'[k] = v => advisory[k] = v
  /\ \A m \in heldMonths(v) : period'[m] = period[m]
  /\ \A m \in Months : period'[m] = "NONE" => period[m] = "NONE"

LEMMA LocksFrame ==
  ASSUME TypeOK, NEW v \in Workers, LocksOK(v), LocksFramed(v) PROVE LocksOK(v)'
<1>1. missing(v)' \subseteq missing(v)
  BY DEF LocksFramed, missing, TypeOK
<1>2. EmptyHanded(v)' /\ NoRoute(v)'
  BY DEF LocksFramed, LocksOK, EmptyHanded, NoRoute, Unheld
<1>3. MonthsAscend(v)'
  BY <1>1 DEF LocksFramed, LocksOK, MonthsAscend
<1>4. RowsAscend(v)'
  BY DEF LocksFramed, LocksOK, RowsAscend
<1> QED BY <1>2, <1>3, <1>4 DEF LocksOK

LEMMA OthersLocks ==
  ASSUME TypeOK, NEW w \in Workers, WorkerOK(w), NEW v \in Workers, v # w,
         Begin(w) \/ Execute(w) \/ Rollback(w)
  PROVE  LocksFramed(v)
<1> USE DEF goto, session, locks
<1>0. v # NoWorker /\ Framed(v)
  BY PeriodAssumption, OthersFramed
<1>1. \A m \in heldMonths(v) : period'[m] = period[m]
  BY <1>0 DEF Framed, heldMonths
<1>2. /\ \A m \in Months : monthLock'[m] = v <=> monthLock[m] = v
      /\ \A i \in Items : rowLock'[i] = v <=> rowLock[i] = v
      /\ \A k \in RouteKeys : advisory'[k] = v => advisory[k] = v
  <2>1. CASE Begin(w)
    BY <2>1 DEF Begin, start
  <2>2. CASE TakeAdvisory(w)
    BY <1>0, <2>2 DEF TakeAdvisory, TypeOK, RouteKeys
  <2>3. CASE InsertMonth(w) \/ LockMonth(w)
    BY <1>0, <2>3 DEF InsertMonth, LockMonth, TypeOK
  <2>4. CASE InsertDone(w) \/ CheckPeriods(w) \/ SkipRow(w) \/ RowsDone(w) \/ Blockers(w) \/ Recount(w) \/ ReadPeriod(w)
    BY <2>4 DEF InsertDone, CheckPeriods, SkipRow, RowsDone, Blockers, Recount, ReadPeriod
  <2>5. CASE LockRow(w)
    BY <1>0, <2>5 DEF LockRow, TypeOK
  <2>6. CASE Commit(w) \/ Rollback(w)
    <3>1. release(w)
      BY <2>6 DEF Commit, Rollback
    <3> QED BY <1>0, <3>1 DEF release, TypeOK, RouteKeys
  <2> QED BY <2>1, <2>2, <2>3, <2>4, <2>5, <2>6 DEF Execute, Refuse
<1>3. \A m \in Months : period'[m] = "NONE" => period[m] = "NONE"
  <2>1. CASE Commit(w)
    BY <2>1, CommitPeriods
  <2>2. CASE ~Commit(w)
    <3>1. period' = period
      BY <2>2
      DEF Begin, start, Execute, Refuse, Rollback, TakeAdvisory, InsertMonth, InsertDone,
          LockMonth, CheckPeriods, LockRow, SkipRow, RowsDone, Blockers, Recount, ReadPeriod
    <3> QED BY <3>1
  <2> QED BY <2>1, <2>2
<1>4. heldMonths(v)' = heldMonths(v) /\ heldRows(v)' = heldRows(v)
  BY <1>2 DEF heldMonths, heldRows
<1> QED BY <1>0, <1>1, <1>2, <1>3, <1>4 DEF LocksFramed, Framed

LEMMA OwnLocks ==
  ASSUME TypeOK, NEW w \in Workers, WorkerOK(w), LocksOK(w), Begin(w) \/ Execute(w) \/ Rollback(w)
  PROVE  LocksOK(w)'
<1> USE DEF goto, session, locks
<1>0. op[w] \in AllHandlers /\ w # NoWorker /\ months[w] \subseteq Nat /\ rows[w] \subseteq Nat
  BY PeriodAssumption DEF TypeOK
<1>1. CASE Begin(w)
  <2>1. ASSUME NEW h \in AllHandlers, NEW e, NEW ms, NEW is, start(w, h, e, ms, is),
               \A i \in is : i \in itemsOf(h) /\ OwnerOf[i] = e, h = "reopenPeriod" => \E m : ms = {m}
        PROVE  LocksOK(w)'
    <3>1. /\ pc[w] = "idle" /\ pc'[w] = first(h) /\ op'[w] = h /\ emp'[w] = e /\ months'[w] = ms
          /\ rows'[w] = is
      BY <2>1 DEF start, TypeOK
    <3>2. Unheld(w)
      BY <3>1 DEF LocksOK, EmptyHanded
    <3>3. Unheld(w)'
      BY <2>1, <3>2 DEF start, Unheld, heldMonths, heldRows
    <3>4. heldMonths(w)' = {} /\ heldRows(w)' = {}
      BY <3>3 DEF Unheld
    <3>5. first(h) = "months" => h = "reopenPeriod"
      BY Flow
    <3>6. MonthsAscend(w)'
      BY <3>1, <3>4, <3>5 DEF MonthsAscend
    <3>7. RowsAscend(w)'
      BY <2>1, <3>1, <3>4 DEF RowsAscend
    <3> QED BY <3>3, <3>6, <3>7 DEF LocksOK, EmptyHanded, NoRoute, Unheld
  <2>2. ASSUME NEW h \in (LeaveHandlers \cup ExplanationHandlers) \ BatchHandlers,
               NEW i \in itemsOf(h), start(w, h, OwnerOf[i], Span[i], {i})
        PROVE  LocksOK(w)'
    <3>1. h \in AllHandlers /\ h # "reopenPeriod"
      BY DEF AllHandlers, LeaveHandlers, ExplanationHandlers
    <3> QED BY <2>1, <2>2, <3>1
  <2>3. ASSUME NEW h \in BatchHandlers, NEW e, start(w, h, e, {}, {}) PROVE LocksOK(w)'
    <3>1. h \in AllHandlers /\ h # "reopenPeriod"
      BY DEF AllHandlers, LeaveHandlers, ExplanationHandlers, BatchHandlers
    <3> QED BY <2>1, <2>3, <3>1
  <2>4. ASSUME NEW h \in MonthHandlers, NEW m \in Months, start(w, h, NoEmployee, {m}, {}) PROVE LocksOK(w)'
    <3>1. h \in AllHandlers
      BY DEF AllHandlers
    <3> QED BY <2>1, <2>4, <3>1
  <2> QED BY <1>1, <2>2, <2>3, <2>4 DEF Begin
<1>2. CASE TakeAdvisory(w)
  <2>1. /\ pc[w] = "advisory" /\ pc'[w] = afterAdvisory(op[w]) /\ op'[w] = op[w] /\ emp'[w] = emp[w]
        /\ rows'[w] = rows[w] \/ rows'[w] = pending(op[w], emp[w])
        /\ UNCHANGED <<monthLock, rowLock, status>>
    BY <1>2 DEF TakeAdvisory, TypeOK
  <2>2. heldMonths(w)' = {} /\ heldRows(w)' = {}
    BY <2>1 DEF LocksOK, EmptyHanded, Unheld, heldMonths, heldRows
  <2>3. pc'[w] \in {"rows", "insert"} /\ op[w] \notin MonthHandlers
    BY <1>0, <2>1, Flow DEF WorkerOK, Located
  <2>4. MonthsAscend(w)'
    BY <2>2, <2>3 DEF MonthsAscend
  <2>5. \A i \in rows'[w] : i \in itemsOf(op[w]) /\ OwnerOf[i] = emp[w]
    BY <2>1 DEF LocksOK, RowsAscend, pending
  <2>6. RowsAscend(w)'
    BY <2>1, <2>2, <2>5 DEF RowsAscend
  <2> QED BY <2>1, <2>3, <2>4, <2>6 DEF LocksOK, EmptyHanded, NoRoute
<1>3. CASE InsertMonth(w)
  <2> PICK m \in least(missing(w)) : monthLock[m] = NoWorker /\ monthLock' = [monthLock EXCEPT ![m] = w]
    BY <1>3 DEF InsertMonth
  <2>1. /\ pc[w] = "insert" /\ UNCHANGED <<period, rowLock, advisory, pc, op, emp, months, rows>>
    BY <1>3 DEF InsertMonth
  <2>2. /\ m \in missing(w) /\ m \in months[w] /\ m \in Months /\ period[m] = "NONE"
        /\ \A n \in missing(w) : m <= n
    BY DEF least, missing, TypeOK
  <2>3. heldMonths(w)' = heldMonths(w) \cup {m}
    BY <2>2 DEF heldMonths, TypeOK
  <2>4. missing(w)' = missing(w) \ {m}
    BY <2>1, <2>3 DEF missing
  <2>5. \A n \in missing(w) : n \in Nat
    BY <1>0 DEF missing
  <2>6. MonthsAscend(w)'
    BY <2>1, <2>2, <2>3, <2>4, <2>5 DEF LocksOK, MonthsAscend
  <2>7. heldRows(w)' = heldRows(w)
    BY <2>1 DEF heldRows
  <2> QED BY <2>1, <2>6, <2>7 DEF LocksOK, EmptyHanded, NoRoute, RowsAscend
<1>4. CASE InsertDone(w)
  <2>1. /\ pc[w] = "insert" /\ missing(w) = {} /\ pc'[w] = "months"
        /\ UNCHANGED <<period, monthLock, rowLock, advisory, op, emp, months, rows>>
    BY <1>4 DEF InsertDone, TypeOK
  <2>2. heldMonths(w)' = heldMonths(w) /\ missing(w)' = missing(w) /\ heldRows(w)' = heldRows(w)
    BY <2>1 DEF heldMonths, missing, heldRows
  <2> QED BY <2>1, <2>2 DEF LocksOK, EmptyHanded, NoRoute, MonthsAscend, RowsAscend
<1>5. CASE LockMonth(w)
  <2> PICK m \in least(months[w] \ heldMonths(w)) : monthLock' = [monthLock EXCEPT ![m] = w]
    BY <1>5 DEF LockMonth
  <2>1. /\ pc[w] = "months" /\ UNCHANGED <<period, rowLock, advisory, pc, op, emp, months, rows>>
    BY <1>5 DEF LockMonth
  <2>2. /\ m \in months[w] \ heldMonths(w) /\ m \in Months
        /\ \A n \in months[w] \ heldMonths(w) : m <= n
    BY DEF least, TypeOK
  <2>3. heldMonths(w)' = heldMonths(w) \cup {m}
    BY <2>2 DEF heldMonths, TypeOK
  <2>4. missing(w)' = missing(w) \ {m}
    BY <2>1, <2>3 DEF missing
  <2>5. MonthsAscend(w)'
    BY <1>0, <2>1, <2>2, <2>3, <2>4 DEF LocksOK, MonthsAscend
  <2>6. heldRows(w)' = heldRows(w)
    BY <2>1 DEF heldRows
  <2> QED BY <2>1, <2>5, <2>6 DEF LocksOK, EmptyHanded, NoRoute, RowsAscend
<1>6. CASE CheckPeriods(w)
  <2>1. /\ pc[w] = "months" /\ pc'[w] = afterMonths(op[w])
        /\ op[w] # "setLeaveRoute" => rows'[w] = rows[w]
        /\ op[w] = "setLeaveRoute" => rows'[w] = pending(op[w], emp[w])
        /\ UNCHANGED <<period, monthLock, rowLock, advisory, op, emp, months>>
    BY <1>6 DEF CheckPeriods, TypeOK
  <2>2. /\ pc'[w] \in {"recount", "rows", "commit"} /\ (pc'[w] = "rows" => op[w] \notin RowsFirst)
    BY <1>0, <2>1, Flow DEF RowsFirst
  <2>3. heldMonths(w)' = heldMonths(w) /\ heldRows(w)' = heldRows(w)
    BY <2>1 DEF heldMonths, heldRows
  <2>4. op[w] \notin RowsFirst => heldRows(w) = {}
    BY <2>1 DEF LocksOK, RowsAscend
  <2>5. \A i \in rows'[w] : i \in itemsOf(op[w]) /\ OwnerOf[i] = emp[w]
    BY <2>1 DEF LocksOK, RowsAscend, pending
  <2>6. heldRows(w) \subseteq rows'[w]
    BY <2>1, <2>4 DEF LocksOK, RowsAscend, RowsFirst
  <2>7. RowsAscend(w)'
    BY <2>1, <2>2, <2>3, <2>4, <2>5, <2>6 DEF RowsAscend
  <2>8. MonthsAscend(w)'
    BY <2>1, <2>2, <2>3 DEF LocksOK, MonthsAscend
  <2> QED BY <2>1, <2>2, <2>7, <2>8 DEF LocksOK, EmptyHanded, NoRoute
<1>7. CASE LockRow(w)
  <2> PICK i \in least(rows[w] \ heldRows(w)) : rowLock' = [rowLock EXCEPT ![i] = w]
    BY <1>7 DEF LockRow
  <2>1. pc[w] = "rows" /\ UNCHANGED <<period, monthLock, advisory, pc, op, emp, months, rows>>
    BY <1>7 DEF LockRow
  <2>2. /\ i \in rows[w] \ heldRows(w) /\ i \in Items /\ \A j \in rows[w] \ heldRows(w) : i <= j
    BY DEF least, TypeOK
  <2>3. heldRows(w)' = heldRows(w) \cup {i}
    BY <2>2 DEF heldRows, TypeOK
  <2>4. RowsAscend(w)'
    BY <1>0, <2>1, <2>2, <2>3 DEF LocksOK, RowsAscend
  <2>5. heldMonths(w)' = heldMonths(w)
    BY <2>1 DEF heldMonths
  <2> QED BY <2>1, <2>4, <2>5 DEF LocksOK, EmptyHanded, NoRoute, MonthsAscend
<1>8. CASE SkipRow(w)
  <2> PICK i \in least(rows[w] \ heldRows(w)) : rows' = [rows EXCEPT ![w] = @ \ {i}]
    BY <1>8 DEF SkipRow
  <2>1. pc[w] = "rows" /\ UNCHANGED <<period, monthLock, rowLock, advisory, pc, op, emp, months>>
    BY <1>8 DEF SkipRow
  <2>2. i \notin heldRows(w) /\ rows'[w] = rows[w] \ {i}
    BY DEF least, TypeOK
  <2>3. heldMonths(w)' = heldMonths(w) /\ heldRows(w)' = heldRows(w)
    BY <2>1 DEF heldMonths, heldRows
  <2>4. RowsAscend(w)'
    BY <2>1, <2>2, <2>3 DEF LocksOK, RowsAscend
  <2> QED BY <2>1, <2>3, <2>4 DEF LocksOK, EmptyHanded, NoRoute, MonthsAscend
<1>9. CASE RowsDone(w)
  <2>1. /\ pc[w] = "rows" /\ pc'[w] = afterRows(op[w])
        /\ UNCHANGED <<period, monthLock, rowLock, advisory, op, emp, months, rows>>
    BY <1>9 DEF RowsDone, TypeOK
  <2>2. pc'[w] \in {"insert", "commit"} /\ (pc'[w] = "insert" => op[w] \in RowsFirst)
    BY <1>0, <2>1, Flow DEF RowsFirst
  <2>3. heldMonths(w)' = heldMonths(w) /\ heldRows(w)' = heldRows(w)
    BY <2>1 DEF heldMonths, heldRows
  <2> QED BY <2>1, <2>2, <2>3 DEF LocksOK, EmptyHanded, NoRoute, MonthsAscend, RowsAscend
<1>10. CASE Blockers(w) \/ Recount(w) \/ ReadPeriod(w)
  <2>1. /\ pc[w] \in {"blockers", "recount", "readPeriod"}
        /\ pc'[w] \in {"insert", "commit"} /\ (pc'[w] = "insert" => pc[w] = "blockers")
        /\ UNCHANGED <<period, monthLock, rowLock, advisory, op, emp, months, rows>>
    BY <1>10 DEF Blockers, Recount, ReadPeriod, TypeOK
  <2>2. heldMonths(w)' = heldMonths(w) /\ heldRows(w)' = heldRows(w)
    BY <2>1 DEF heldMonths, heldRows
  <2>3. pc[w] = "blockers" => heldMonths(w) = {} /\ heldRows(w) = {}
    BY DEF LocksOK, EmptyHanded, Unheld
  <2> QED BY <2>1, <2>2, <2>3 DEF LocksOK, EmptyHanded, NoRoute, MonthsAscend, RowsAscend
<1>11. CASE Commit(w) \/ Rollback(w)
  <2>1. release(w)
    BY <1>11 DEF Commit, Rollback
  <2>2. pc'[w] = "idle" /\ rows'[w] = {}
    BY <2>1 DEF release, TypeOK
  <2>3. heldMonths(w)' = {} /\ heldRows(w)' = {} /\ \A k \in RouteKeys : advisory'[k] # w
    BY <1>0, <2>1 DEF release, heldMonths, heldRows, TypeOK, RouteKeys
  <2> QED BY <2>2, <2>3 DEF LocksOK, EmptyHanded, NoRoute, MonthsAscend, RowsAscend, Unheld
<1> QED
  BY <1>1, <1>2, <1>3, <1>4, <1>5, <1>6, <1>7, <1>8, <1>9, <1>10, <1>11 DEF Execute, Refuse

LEMMA LockStep == LockInv /\ [Next]_vars => LockInv'
<1> SUFFICES ASSUME LockInv, [Next]_vars PROVE LockInv'
  OBVIOUS
<1>0. Inv /\ TypeOK /\ \A w \in Workers : WorkerOK(w) /\ LocksOK(w)
  BY DEF LockInv, Inv
<1>1. Inv'
  BY <1>0, InvStep
<1>2. ASSUME NEW w \in Workers, Begin(w) \/ Execute(w) \/ Rollback(w), NEW v \in Workers PROVE LocksOK(v)'
  <2>1. CASE v = w
    BY <1>0, <1>2, <2>1, OwnLocks
  <2>2. CASE v # w
    BY <1>0, <1>2, <2>2, OthersLocks, LocksFrame
  <2> QED BY <2>1, <2>2
<1>3. CASE UNCHANGED <<period, status, locks, pc, session>>
  <2>1. \A v \in Workers : LocksFramed(v)
    BY <1>3 DEF LocksFramed, locks, session, heldMonths, heldRows
  <2> QED BY <1>0, <1>1, <2>1, LocksFrame DEF LockInv
<1> QED BY <1>1, <1>2, <1>3 DEF LockInv, Next, CheckIn, CheckOut, vars

(* A finite set of numbers has a greatest member: one with the fewest      *)
(* greater ones.                                                           *)
Less == {p \in Nat \X Nat : p[1] < p[2]}

LEMMA Greatest ==
  ASSUME NEW T \in SUBSET Nat, IsFiniteSet(T), T # {} PROVE \E x \in T : \A y \in T : y <= x
<1> DEFINE above(x) == {y \in T : x < y}
<1>1. \A x \in T : IsFiniteSet(above(x)) /\ Cardinality(above(x)) \in Nat
  BY FS_Subset, FS_CardinalityType
<1> PICK Counts : Counts = {Cardinality(above(x)) : x \in T}
  OBVIOUS
<1>2. Counts \in SUBSET Nat /\ Counts # {}
  BY <1>1
<1>3. IsWellFoundedOn(Less, Nat)
  BY NatLessThanWellFounded DEF OpToRel, Less
<1>4. PICK n \in Counts : \A k \in Counts : ~(<<k, n>> \in Less)
  BY <1>2, <1>3, WFMin
<1>5. PICK x \in T : n = Cardinality(above(x))
  OBVIOUS
<1>6. ASSUME NEW y \in T, x < y PROVE FALSE
  <2>1. y \in above(x) /\ above(y) \subseteq above(x) \ {y}
    <3>1. \A z \in T : z \in Nat
      OBVIOUS
    <3>2. \A z \in T : y < z => x < z /\ z # y
      BY <1>6, <3>1
    <3> QED BY <1>6, <3>2
  <2> HIDE DEF above
  <2>2. IsFiniteSet(above(x) \ {y}) /\ Cardinality(above(x) \ {y}) = Cardinality(above(x)) - 1
    BY <1>1, <2>1, FS_RemoveElement
  <2>3. Cardinality(above(y)) <= Cardinality(above(x) \ {y})
    BY <2>1, <2>2, FS_Subset
  <2>4. Cardinality(above(y)) \in Nat /\ Cardinality(above(x)) \in Nat
    BY <1>1
  <2>5. Cardinality(above(y)) < n /\ Cardinality(above(y)) \in Counts
    BY <1>5, <2>2, <2>3, <2>4
  <2> QED BY <1>2, <1>4, <2>5 DEF Less
<1> QED BY <1>6

(* Sessions that all wait for one another. *)
Stuck(S) == S \subseteq Workers /\ \A w \in S : waitsFor(w) \cap S # {}

(* Who is waited for holds a lock that is waited for. *)
LEMMA Holder ==
  ASSUME LockInv, NEW w \in Workers, NEW v \in waitsFor(w), v \in Workers
  PROVE  /\ pc[v] \in {"insert", "months", "rows", "recount", "commit"}
         /\ \/ pc[w] = "advisory" /\ \E k \in RouteKeys : advisory[k] = v
            \/ pc[w] = "insert" /\ \E m \in least(missing(w)) : m \in heldMonths(v)
            \/ pc[w] = "months" /\ \E m \in least(months[w] \ heldMonths(w)) : m \in heldMonths(v)
            \/ pc[w] = "rows" /\ \E i \in least(rows[w] \ heldRows(w)) : i \in heldRows(v)
<1>0. TypeOK /\ WorkerOK(w) /\ LocksOK(v)
  BY DEF LockInv, Inv
<1>1. \/ pc[w] = "advisory" /\ v = advisory[key(w)]
      \/ pc[w] = "insert" /\ \E m \in least(missing(w)) : v = monthLock[m]
      \/ pc[w] = "months" /\ \E m \in least(months[w] \ heldMonths(w)) : v = monthLock[m]
      \/ pc[w] = "rows" /\ \E i \in least(rows[w] \ heldRows(w)) : v = rowLock[i]
  BY DEF waitsFor
<1>2. \A m \in Months : v = monthLock[m] => m \in heldMonths(v)
  BY DEF heldMonths
<1>3. \A i \in Items : v = rowLock[i] => i \in heldRows(v)
  BY DEF heldRows
<1>4. least(missing(w)) \subseteq Months /\ least(months[w] \ heldMonths(w)) \subseteq Months
      /\ least(rows[w] \ heldRows(w)) \subseteq Items
  BY <1>0 DEF least, missing, TypeOK
<1>5. pc[w] = "advisory" => key(w) \in RouteKeys
  BY <1>0 DEF WorkerOK, Located, SessionOK, key, kindOf, RouteKeys
<1>6. \/ pc[w] = "advisory" /\ \E k \in RouteKeys : advisory[k] = v
      \/ pc[w] = "insert" /\ \E m \in least(missing(w)) : m \in heldMonths(v)
      \/ pc[w] = "months" /\ \E m \in least(months[w] \ heldMonths(w)) : m \in heldMonths(v)
      \/ pc[w] = "rows" /\ \E i \in least(rows[w] \ heldRows(w)) : i \in heldRows(v)
  BY <1>1, <1>2, <1>3, <1>4, <1>5
<1>7. ~Unheld(v)
  BY <1>6 DEF Unheld
<1>8. pc[v] \in {"insert", "months", "rows", "recount", "commit"}
  BY <1>0, <1>7 DEF LocksOK, EmptyHanded, TypeOK, Statements
<1> QED BY <1>6, <1>8

(* A row that one session holds and another waits for is an explanation:   *)
(* those who lock leave have the lock of its employee.                     *)
LEMMA LeaveRowsUncontended ==
  ASSUME LockInv, NEW w \in Workers, NEW v \in Workers, v # w, pc[w] = "rows",
         NEW i \in rows[w], i \in heldRows(v)
  PROVE  i \in Explanations /\ op[v] \notin LeaveHandlers
<1>0. TypeOK /\ WorkerOK(w) /\ WorkerOK(v) /\ LocksOK(w) /\ LocksOK(v)
  BY DEF LockInv, Inv
<1>1. i \in itemsOf(op[w]) /\ OwnerOf[i] = emp[w] /\ i \in itemsOf(op[v]) /\ OwnerOf[i] = emp[v]
  BY <1>0 DEF LocksOK, RowsAscend
<1>2. pc[v] \notin {"idle", "advisory"}
  BY <1>0 DEF LocksOK, EmptyHanded, Unheld
<1>3. ~(op[w] \in LeaveHandlers /\ op[v] \in LeaveHandlers)
  BY <1>0, <1>1, <1>2 DEF WorkerOK, HasAdvisory
<1> QED BY <1>1, <1>3, PeriodAssumption DEF itemsOf

(* Rows come last and ascend, months that were there before them, months   *)
(* that are inserted first of all: among the locks of one kind that a      *)
(* stuck set waits for, the holder of the greatest waits for a greater.    *)
LEMMA NobodyStuck == ASSUME LockInv, NEW S, Stuck(S) PROVE S = {}
<1>0. /\ TypeOK /\ S \subseteq Workers
      /\ \A w \in S : WorkerOK(w) /\ EmptyHanded(w) /\ NoRoute(w) /\ MonthsAscend(w) /\ RowsAscend(w)
  BY DEF LockInv, Inv, LocksOK, Stuck
<1>1. \A w \in S : \E v \in S :
        /\ pc[v] \in {"insert", "months", "rows", "recount", "commit"}
        /\ \/ pc[w] = "advisory" /\ \E k \in RouteKeys : advisory[k] = v
           \/ pc[w] = "insert" /\ \E m \in least(missing(w)) : m \in heldMonths(v)
           \/ pc[w] = "months" /\ \E m \in least(months[w] \ heldMonths(w)) : m \in heldMonths(v)
           \/ pc[w] = "rows" /\ \E i \in least(rows[w] \ heldRows(w)) : i \in heldRows(v)
  <2> SUFFICES ASSUME NEW w \in S
               PROVE  \E v \in S :
                        /\ pc[v] \in {"insert", "months", "rows", "recount", "commit"}
                        /\ \/ pc[w] = "advisory" /\ \E k \in RouteKeys : advisory[k] = v
                           \/ pc[w] = "insert" /\ \E m \in least(missing(w)) : m \in heldMonths(v)
                           \/ pc[w] = "months" /\ \E m \in least(months[w] \ heldMonths(w)) : m \in heldMonths(v)
                           \/ pc[w] = "rows" /\ \E i \in least(rows[w] \ heldRows(w)) : i \in heldRows(v)
    OBVIOUS
  <2>1. PICK v \in S : v \in waitsFor(w)
    BY DEF Stuck
  <2> QED BY <1>0, <2>1, Holder
<1> DEFINE inRows(i) == \E w \in S : /\ pc[w] = "rows" /\ i \in least(rows[w] \ heldRows(w))
                                     /\ \E v \in S : i \in heldRows(v)
<1>2. \A i \in Items : ~inRows(i)
  <2> PICK T : T = {i \in Items : inRows(i)}
    OBVIOUS
  <2> SUFFICES ASSUME T # {} PROVE FALSE
    OBVIOUS
  <2>1. T \in SUBSET Nat /\ IsFiniteSet(T)
    BY PeriodAssumption, FS_Subset
  <2>2. PICK i \in T : \A j \in T : j <= i
    BY <2>1, Greatest
  <2>3. PICK w \in S : /\ pc[w] = "rows" /\ i \in least(rows[w] \ heldRows(w))
                       /\ \E v \in S : i \in heldRows(v)
    OBVIOUS
  <2>4. PICK v \in S : i \in heldRows(v)
    BY <2>3
  <2>5. v # w /\ i \in rows[w]
    BY <2>3, <2>4 DEF least
  <2>6. op[v] \notin LeaveHandlers
    BY <1>0, <2>3, <2>4, <2>5, LeaveRowsUncontended
  <2>7. pc[v] = "rows"
    BY <1>0, <1>1, <2>4, <2>6 DEF EmptyHanded, Unheld, RowsAscend, RowsFirst, LeaveHandlers
  <2>8. PICK j \in least(rows[v] \ heldRows(v)) : \E u \in S : j \in heldRows(u)
    BY <1>1, <2>7
  <2>9. j \in rows[v] \ heldRows(v) /\ j \in Items
    BY <1>0 DEF least, TypeOK
  <2>10. j \in T /\ i < j
    BY <1>0, <2>4, <2>7, <2>8, <2>9 DEF RowsAscend
  <2> QED BY <2>1, <2>2, <2>10
<1>3. \A w \in S : pc[w] # "rows"
  <2>1. \A w \in S : least(rows[w] \ heldRows(w)) \subseteq Items
    BY <1>0 DEF least, TypeOK
  <2> QED BY <1>1, <1>2, <2>1
<1>4. \A w \in S, m \in Months :
        m \in heldMonths(w) =>
          \/ pc[w] = "insert" /\ period[m] = "NONE"
          \/ /\ pc[w] = "months" /\ op[w] # "reopenPeriod"
             /\ \A n \in months[w] \ heldMonths(w) : period[n] # "NONE" /\ (period[m] # "NONE" => m < n)
  <2> SUFFICES ASSUME NEW w \in S, NEW m \in Months, m \in heldMonths(w)
               PROVE  \/ pc[w] = "insert" /\ period[m] = "NONE"
                      \/ /\ pc[w] = "months" /\ op[w] # "reopenPeriod"
                         /\ \A n \in months[w] \ heldMonths(w) : period[n] # "NONE" /\ (period[m] # "NONE" => m < n)
    OBVIOUS
  <2>1. pc[w] \in {"insert", "months"}
    BY <1>0, <1>1, <1>3 DEF EmptyHanded, Unheld
  <2>2. CASE pc[w] = "insert"
    BY <1>0, <2>2 DEF MonthsAscend
  <2>3. CASE pc[w] = "months"
    <3>1. op[w] # "reopenPeriod"
      <4> SUFFICES ASSUME op[w] = "reopenPeriod" PROVE FALSE
        OBVIOUS
      <4>1. PICK x \in Months : months[w] = {x}
        BY <1>0, <2>3 DEF WorkerOK, SessionOK, MonthHandlers
      <4>2. months[w] \ heldMonths(w) = {}
        BY <1>0, <4>1 DEF MonthsAscend
      <4> QED BY <1>1, <2>3, <4>2 DEF least
    <3>2. missing(w) = {}
      BY <1>0, <2>3, <3>1 DEF MonthsAscend
    <3> QED BY <1>0, <2>3, <3>1, <3>2 DEF MonthsAscend, missing
  <2> QED BY <2>1, <2>2, <2>3
<1>5. \A w \in S : /\ least(missing(w)) \subseteq missing(w) /\ missing(w) \subseteq Months
                   /\ least(months[w] \ heldMonths(w)) \subseteq months[w] \ heldMonths(w)
                   /\ months[w] \subseteq Months
  BY <1>0 DEF least, missing, TypeOK
<1> DEFINE inMonths(m) == \E w \in S : /\ pc[w] = "months" /\ m \in least(months[w] \ heldMonths(w))
                                       /\ \E v \in S : m \in heldMonths(v)
<1>6. \A m \in Months : inMonths(m) => period[m] = "NONE"
  <2> PICK T : T = {m \in Months : inMonths(m) /\ period[m] # "NONE"}
    OBVIOUS
  <2> SUFFICES ASSUME T # {} PROVE FALSE
    OBVIOUS
  <2>1. T \in SUBSET Nat /\ IsFiniteSet(T)
    BY PeriodAssumption, FS_Subset
  <2>2. PICK m \in T : \A n \in T : n <= m
    BY <2>1, Greatest
  <2>3. PICK v \in S : m \in heldMonths(v)
    OBVIOUS
  <2>4. /\ pc[v] = "months"
        /\ \A n \in months[v] \ heldMonths(v) : period[n] # "NONE" /\ m < n
    BY <1>4, <2>3
  <2>5. PICK n \in least(months[v] \ heldMonths(v)) : \E u \in S : n \in heldMonths(u)
    BY <1>1, <2>4
  <2>6. n \in T /\ m < n
    BY <1>5, <2>4, <2>5
  <2>7. n <= m /\ m \in Nat /\ n \in Nat
    BY <2>1, <2>2, <2>6
  <2> QED BY <2>6, <2>7
<1>7. \A w \in S, m \in Months : m \in heldMonths(w) => pc[w] = "insert" /\ period[m] = "NONE"
  <2> SUFFICES ASSUME NEW w \in S, NEW m \in Months, m \in heldMonths(w), pc[w] = "months",
                      \A n \in months[w] \ heldMonths(w) : period[n] # "NONE"
               PROVE  FALSE
    BY <1>4
  <2>1. PICK n \in least(months[w] \ heldMonths(w)) : \E u \in S : n \in heldMonths(u)
    BY <1>1
  <2>2. inMonths(n) /\ n \in Months /\ period[n] # "NONE"
    BY <1>5, <2>1
  <2> QED BY <1>6, <2>2
<1> DEFINE inInserts(m) == \E w \in S : /\ pc[w] = "insert" /\ m \in least(missing(w))
                                        /\ \E v \in S : m \in heldMonths(v)
<1>8. \A m \in Months : ~inInserts(m)
  <2> PICK T : T = {m \in Months : inInserts(m)}
    OBVIOUS
  <2> SUFFICES ASSUME T # {} PROVE FALSE
    OBVIOUS
  <2>1. T \in SUBSET Nat /\ IsFiniteSet(T)
    BY PeriodAssumption, FS_Subset
  <2>2. PICK m \in T : \A n \in T : n <= m
    BY <2>1, Greatest
  <2>3. PICK v \in S : m \in heldMonths(v)
    OBVIOUS
  <2>4. pc[v] = "insert"
    BY <1>7, <2>3
  <2>5. PICK n \in least(missing(v)) : \E u \in S : n \in heldMonths(u)
    BY <1>1, <2>4
  <2>6. n \in T /\ m < n
    BY <1>0, <1>5, <2>3, <2>4, <2>5 DEF MonthsAscend
  <2>7. n <= m /\ m \in Nat /\ n \in Nat
    BY <2>1, <2>2, <2>6
  <2> QED BY <2>6, <2>7
<1>9. \A w \in S : pc[w] # "insert"
  BY <1>1, <1>5, <1>8
<1>10. ASSUME NEW w \in S PROVE FALSE
  <2>1. PICK v \in S :
          /\ pc[v] \in {"insert", "months", "rows", "recount", "commit"}
          /\ \/ pc[w] = "advisory" /\ \E k \in RouteKeys : advisory[k] = v
             \/ pc[w] = "months" /\ \E m \in least(months[w] \ heldMonths(w)) : m \in heldMonths(v)
    <3>1. pc[w] # "rows" /\ pc[w] # "insert"
      BY <1>3, <1>9
    <3> QED BY <1>1, <3>1
  <2>2. pc[v] = "months"
    BY <1>1, <1>3, <1>9, <2>1
  <2>3. \A m \in Months : m \notin heldMonths(v)
    BY <1>7, <1>9
  <2>4. pc[w] = "advisory" /\ \E k \in RouteKeys : advisory[k] = v
    BY <1>5, <2>1, <2>3
  <2>5. PICK n \in least(months[v] \ heldMonths(v)) : \E u \in S : n \in heldMonths(u)
    BY <1>1, <2>2
  <2>6. \E u \in S : pc[u] = "insert"
    BY <1>5, <1>7, <2>5
  <2> QED BY <1>9, <2>6
<1> QED BY <1>10

(* No set of sessions ever waits for one another in a circle: requests,    *)
(* months and default routes are locked in orders that fit together,       *)
(* although cancellations lock the request first and the others last.      *)
THEOREM NoDeadlock == Spec => []NoLockCycle
<1>1. LockInv => NoLockCycle
  <2> SUFFICES ASSUME LockInv, NEW S \in SUBSET Workers, \A w \in S : waitsFor(w) \cap S # {}
               PROVE  S = {}
    BY DEF NoLockCycle
  <2>1. Stuck(S)
    BY DEF Stuck
  <2> QED BY <2>1, NobodyStuck
<1> QED BY <1>1, LockInit, LockStep, PTL DEF Spec

=============================================================================
