------------------------------- MODULE LeaveQuota -------------------------------
(***************************************************************************)
(* Leave balances under one leave policy (LeaveService): entitlement,      *)
(* carry-over, adjustments, and the requests that use them.  A transaction *)
(* that depends on a balance reads the policy, ensures and locks the row   *)
(* of the balance and reads its usage, then writes; creation also holds    *)
(* the advisory lock of the employee.  What is read stays read: policies   *)
(* change and other transactions commit in between.                        *)
(* Minutes are small numbers; how a duration follows from a schedule, the  *)
(* notice, the approval route and the periods are left out.                *)
(***************************************************************************)
EXTENDS Integers, FiniteSetsExt, TLC

CONSTANTS
  Takers,           \* employees
  Leaves,           \* ids of leave requests: how many are created is bounded
  Clerks,           \* transactions under way at once (a bound)
  DaysPerYear, LastDay,
  Entitlement,      \* annualEntitlementMinutes of the policy
  MaxCarryOver,
  Minutes,          \* durations that are tried (a bound)
  Deltas,           \* adjustments that are tried (a bound)
  MaxAdjusted       \* bound of the sum of adjustments

ASSUME QuotaAssumption ==
  /\ DaysPerYear \in Nat \ {0} /\ LastDay \in Nat
  /\ Entitlement \in Nat /\ MaxCarryOver \in Nat /\ MaxAdjusted \in Nat
  /\ Minutes \subseteq Nat \ {0} /\ Deltas \subseteq Int \ {0} /\ IsFiniteSet(Leaves)

VARIABLES
  policy,     \* its two switches
  balance,    \* employee_leave_balances: the row of each employee and year
  adjusted,   \* the sum of leave_balance_adjustments of each row
  leave,      \* the leave_requests
  clerk       \* the transaction of each clerk

quotaVars == <<policy, balance, adjusted, leave, clerk>>

Years == {d \div DaysPerYear : d \in 0..LastDay}
NoRow == [entitlement |-> 0, carryOver |-> 0, exists |-> FALSE]
BalanceRow == [entitlement: {0, Entitlement}, carryOver: 0..MaxCarryOver, exists: BOOLEAN]
NoLeave == [status |-> "NONE"]
(* tracked: history, whether its creation found balance tracking on        *)
LeaveRow == [status: {"SUBMITTED", "APPROVED", "REJECTED", "CANCELLED"}, employee: Takers,
             from: 0..LastDay, to: 0..LastDay, minutes: Minutes, tracked: BOOLEAN]
NoWork == [op |-> "NONE"]

(* Balances, requests and the switches of the policy keep their types.     *)
QuotaTypeOK ==
  /\ policy \in [tracking: BOOLEAN, carryOver: BOOLEAN]
  /\ balance \in [Takers -> [Years -> BalanceRow]]
  /\ adjusted \in [Takers -> [Years -> -MaxAdjusted..MaxAdjusted]]
  /\ leave \in [Leaves -> LeaveRow \cup {NoLeave}]
  /\ \A c \in Clerks : clerk[c].op \in {"NONE", "create", "adjust"}

QuotaInit ==
  /\ policy \in [tracking: BOOLEAN, carryOver: {FALSE}]
  /\ balance = [e \in Takers |-> [y \in Years |-> NoRow]]
  /\ adjusted = [e \in Takers |-> [y \in Years |-> 0]]
  /\ leave = [q \in Leaves |-> NoLeave]
  /\ clerk = [c \in Clerks |-> NoWork]

------------------------------------------------------------------------------
(* What is left of a balance *)

yearOf(day) == day \div DaysPerYear
openLeaves(e) ==
  {q \in Leaves : leave[q].status \in {"SUBMITTED", "APPROVED"} /\ leave[q].employee = e}
minutesOf(ids) == SumFunction([q \in ids |-> leave[q].minutes])
balanceUsage(e, y) == minutesOf({q \in openLeaves(e) : yearOf(leave[q].from) = y})
availableLeaveMinutes(row, e, y) == row.entitlement + row.carryOver + adjusted[e][y] - balanceUsage(e, y)

atMost(n, bound) == IF n > bound THEN bound ELSE n
carryOver(p, e, y) ==
  IF ~p.carryOver \/ y - 1 \notin Years \/ ~balance[e][y - 1].exists THEN 0
  ELSE LET remaining == availableLeaveMinutes(balance[e][y - 1], e, y - 1)
       IN atMost(IF remaining > 0 THEN remaining ELSE 0, MaxCarryOver)

(* A missing row is made up of the policy as the transaction read it.      *)
ensured(p, e, y) ==
  IF balance[e][y].exists THEN balance[e][y]
  ELSE [entitlement |-> Entitlement, carryOver |-> carryOver(p, e, y), exists |-> TRUE]

(* Mutant: the balance is read without FOR UPDATE *)
neverHeld(e, y) == FALSE

(* A row that another transaction locked or is about to insert is waited for. *)
held(e, y) == \E c \in Clerks : clerk[c].op # "NONE" /\ clerk[c].locked /\ clerk[c].employee = e /\ clerk[c].year = y

(* Mutant: creation takes no advisory lock *)
nobodyFiling(e) == TRUE

routeLockFree(e) == \A c \in Clerks : clerk[c].op = "create" => clerk[c].employee # e

------------------------------------------------------------------------------
(* The transactions *)

(* The record r with the fields of more besides its own.                   *)
extend(r, more) == [f \in DOMAIN r \cup DOMAIN more |-> IF f \in DOMAIN r THEN r[f] ELSE more[f]]

begin(c, op, e, y, more) ==
  /\ clerk[c] = NoWork
  /\ clerk' = [clerk EXCEPT ![c] =
       extend([op |-> op, employee |-> e, year |-> y, policy |-> policy, locked |-> FALSE], more)]
  /\ UNCHANGED <<policy, balance, adjusted, leave>>

(* Two requests of one employee never cover the same day; those that were  *)
(* rejected or cancelled do not count.                                     *)
overlapping(e, from, to) == {q \in openLeaves(e) : leave[q].from <= to /\ leave[q].to >= from}

beginLeave(c, e, q, from, to, minutes) ==
  /\ routeLockFree(e)
  /\ from <= to /\ (policy.tracking => yearOf(from) = yearOf(to))
  /\ overlapping(e, from, to) = {}
  /\ begin(c, "create", e, yearOf(from), [leave |-> q, from |-> from, to |-> to, minutes |-> minutes])

beginAdjust(c, e, y, delta) ==
  /\ policy.tracking
  /\ begin(c, "adjust", e, y, [delta |-> delta])

(* ensureBalance and balanceUsage; the new row is written with the commit. *)
ensureBalance(c) ==
  LET w == clerk[c]
  IN /\ w.op # "NONE" /\ ~w.locked /\ w.policy.tracking
     /\ ~held(w.employee, w.year)
     /\ LET row == ensured(w.policy, w.employee, w.year)
        IN clerk' = [clerk EXCEPT ![c] =
             extend([w EXCEPT !.locked = TRUE],
                    [row |-> row, available |-> availableLeaveMinutes(row, w.employee, w.year)])]
     /\ UNCHANGED <<policy, balance, adjusted, leave>>

submitted(w) ==
  [status |-> "SUBMITTED", employee |-> w.employee, from |-> w.from, to |-> w.to,
   minutes |-> w.minutes, tracked |-> w.policy.tracking]

insertLeave(c) ==
  LET w == clerk[c]
  IN /\ w.op = "create" /\ leave[w.leave] = NoLeave
     /\ IF w.policy.tracking
          THEN /\ w.locked
               /\ w.available >= w.minutes
               /\ balance' = [balance EXCEPT ![w.employee][w.year] = w.row]
          ELSE UNCHANGED balance
     /\ leave' = [leave EXCEPT ![w.leave] = submitted(w)]
     /\ clerk' = [clerk EXCEPT ![c] = NoWork]
     /\ UNCHANGED <<policy, adjusted>>

insertAdjustment(c) ==
  LET w == clerk[c]
  IN /\ w.op = "adjust" /\ w.locked
     /\ w.available + w.delta >= 0
     /\ adjusted[w.employee][w.year] + w.delta \in -MaxAdjusted..MaxAdjusted
     /\ adjusted' = [adjusted EXCEPT ![w.employee][w.year] = @ + w.delta]
     /\ balance' = [balance EXCEPT ![w.employee][w.year] = w.row]
     /\ clerk' = [clerk EXCEPT ![c] = NoWork]
     /\ UNCHANGED <<policy, leave>>

(* A refusal, or a failure: nothing of the transaction stays.              *)
rollBackWork(c) ==
  /\ clerk[c] # NoWork
  /\ clerk' = [clerk EXCEPT ![c] = NoWork]
  /\ UNCHANGED <<policy, balance, adjusted, leave>>

(* The decision of the workflow; an approval is checked against a balance  *)
(* that counts the request already.                                        *)
reviewLeave(q, decision) ==
  LET e == leave[q].employee
      y == yearOf(leave[q].from)
      row == ensured(policy, e, y)
  IN /\ leave[q].status = "SUBMITTED"
     /\ routeLockFree(e)
     /\ IF decision = "APPROVED" /\ policy.tracking
          THEN /\ ~held(e, y)
               /\ availableLeaveMinutes(row, e, y) >= 0
               /\ balance' = [balance EXCEPT ![e][y] = row]
          ELSE UNCHANGED balance
     /\ leave' = [leave EXCEPT ![q].status = decision]
     /\ UNCHANGED <<policy, adjusted, clerk>>

(* Under a policy that lets approved leave be cancelled.                   *)
cancelLeave(q) ==
  /\ leave[q].status \in {"SUBMITTED", "APPROVED"}
  /\ routeLockFree(leave[q].employee)
  /\ leave' = [leave EXCEPT ![q].status = "CANCELLED"]
  /\ UNCHANGED <<policy, balance, adjusted, clerk>>

initializeBalances(y) ==
  /\ policy.tracking
  /\ \A e \in Takers : ~held(e, y)
  /\ balance' = [e \in Takers |-> [balance[e] EXCEPT ![y] = ensured(policy, e, y)]]
  /\ UNCHANGED <<policy, adjusted, leave, clerk>>

validatePolicy(p) == p.carryOver => p.tracking
updatePolicy(p) ==
  /\ p # policy /\ validatePolicy(p)
  /\ policy' = p
  /\ UNCHANGED <<balance, adjusted, leave, clerk>>

QuotaNext ==
  \/ \E c \in Clerks, e \in Takers :
       \/ \E q \in {p \in Leaves : leave[p] = NoLeave}, from, to \in 0..LastDay, m \in Minutes :
            beginLeave(c, e, q, from, to, m)
       \/ \E y \in Years, delta \in Deltas : beginAdjust(c, e, y, delta)
  \/ \E c \in Clerks : ensureBalance(c) \/ insertLeave(c) \/ insertAdjustment(c) \/ rollBackWork(c)
  \/ \E q \in Leaves : cancelLeave(q) \/ \E d \in {"APPROVED", "REJECTED"} : reviewLeave(q, d)
  \/ \E y \in Years : initializeBalances(y)
  \/ \E p \in [tracking: BOOLEAN, carryOver: BOOLEAN] : updatePolicy(p)

QuotaSpec == QuotaInit /\ [][QuotaNext]_quotaVars

------------------------------------------------------------------------------
(* The requests that were checked against a balance never use more than it *)
(* holds, although creations, approvals, adjustments and the creation of   *)
(* the row itself overlap and the policy changes under them                *)
(* (createForEmployee, adjustBalance, ensureBalance).                      *)
QuotaNotOverdrawn ==
  \A e \in Takers, y \in Years :
    LET counted == {q \in openLeaves(e) : yearOf(leave[q].from) = y /\ leave[q].tracked}
    IN counted # {} \/ balance[e][y].exists =>
         /\ balance[e][y].exists
         /\ balance[e][y].entitlement + balance[e][y].carryOver + adjusted[e][y] >= minutesOf(counted)

(* No two pending or approved requests of an employee share a day, whoever *)
(* creates them at the same time (createForEmployee).                      *)
NoOverlappingLeave ==
  \A p, q \in Leaves :
    p # q /\ {leave[p].status, leave[q].status} \subseteq {"SUBMITTED", "APPROVED"}
      /\ leave[p].employee = leave[q].employee
    => leave[p].to < leave[q].from \/ leave[q].to < leave[p].from

=============================================================================
