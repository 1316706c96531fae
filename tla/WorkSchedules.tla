------------------------------ MODULE WorkSchedules ------------------------------
(***************************************************************************)
(* Which work schedule an employee follows on a day: those assigned to him *)
(* and those of his department (WorkSchedulesService, resolveSchedule).    *)
(* assign takes no lock: it is cut between the statements that close the   *)
(* open assignment and look for an overlap, and the insert with the        *)
(* commit.  What a closed row locks, another assign waits for.  The times, *)
(* tolerances and weekdays of a schedule are one value that an update      *)
(* replaces.                                                               *)
(***************************************************************************)
EXTENDS Integers, FiniteSets

CONSTANTS
  Schedules,
  Owners,       \* what a schedule is assigned to: an employee or a department
  homeOf,       \* the department of each employee among the owners
  Planners,     \* calls of assign under way at once (a bound)
  LastDate,
  MaxRows,      \* bound of the assignments made
  NoPlan

ASSUME ScheduleAssumption ==
  /\ DOMAIN homeOf \subseteq Owners /\ \A e \in DOMAIN homeOf : homeOf[e] \in Owners \ DOMAIN homeOf
  /\ LastDate \in Nat /\ MaxRows \in Nat /\ NoPlan \notin Schedules

VARIABLES
  inUse,        \* the schedules that are active
  planned,      \* employee_schedules and department_schedules
  planning      \* the transaction of each planner

scheduleVars == <<inUse, planned, planning>>

Dates == 0..LastDate
Open == LastDate + 1                    \* effective_to IS NULL
PlanRow == [owner: Owners, schedule: Schedules, from: Dates, to: Dates \cup {Open}]

(* Schedules, assignments and the transactions under way keep their types. *)
ScheduleTypeOK ==
  /\ inUse \subseteq Schedules
  /\ planned \subseteq PlanRow /\ \A r \in planned : r.from <= r.to
  /\ planning \in [Planners -> [row: PlanRow, closed: SUBSET PlanRow] \cup {NoPlan}]

ScheduleInit == inUse = {} /\ planned = {} /\ planning = [p \in Planners |-> NoPlan]

plansOf(owner) == {r \in planned : r.owner = owner}
covers(r, date) == r.from <= date /\ date <= r.to

(* Mutant: rows that have ended are closed again *)
reopened(owner, from) == {r \in plansOf(owner) : r.from < from}

openBefore(owner, from) == {r \in plansOf(owner) : r.to = Open /\ r.from < from}

closedAt(rows, from) == {[r EXCEPT !.to = from - 1] : r \in rows}
(* Mutant: the end of the range is not compared with its beginning *)
anyRange(row) == TRUE

validateRange(row) == row.from <= row.to
findOverlap(row, rows) == {r \in rows : r.from <= row.to /\ r.to >= row.from}
underWay == {p \in Planners : planning[p] # NoPlan}
rowsLocked == UNION {planning[p].closed : p \in underWay}

closePreviousOpenAssignment(p, row) ==
  LET closing == openBefore(row.owner, row.from)
      kept == (plansOf(row.owner) \ closing) \cup closedAt(closing, row.from)
  IN /\ planning[p] = NoPlan
     /\ validateRange(row) /\ row.schedule \in inUse
     /\ closing \cap rowsLocked = {}
     /\ findOverlap(row, kept) = {}
     /\ planning' = [planning EXCEPT ![p] = [row |-> row, closed |-> closing]]
     /\ UNCHANGED <<inUse, planned>>

assign(p) ==
  LET plan == planning[p]
  IN /\ plan # NoPlan
     /\ \A r \in plansOf(plan.row.owner) : <<r.schedule, r.from>> # <<plan.row.schedule, plan.row.from>>
     /\ planned' = (planned \ plan.closed) \cup closedAt(plan.closed, plan.row.from) \cup {plan.row}
     /\ Cardinality(planned') <= MaxRows
     /\ planning' = [planning EXCEPT ![p] = NoPlan]
     /\ UNCHANGED inUse

rollBackAssign(p) ==
  /\ planning[p] # NoPlan
  /\ planning' = [planning EXCEPT ![p] = NoPlan]
  /\ UNCHANGED <<inUse, planned>>

(* create, and update of the flag: an assignment outlives the use of its   *)
(* schedule, and is not followed meanwhile.                                *)
updateSchedule(s) ==
  /\ inUse' = IF s \in inUse THEN inUse \ {s} ELSE inUse \cup {s}
  /\ UNCHANGED <<planned, planning>>

ScheduleNext ==
  \/ \E p \in Planners : assign(p) \/ rollBackAssign(p) \/ \E row \in PlanRow : closePreviousOpenAssignment(p, row)
  \/ \E s \in Schedules : updateSchedule(s)

ScheduleSpec == ScheduleInit /\ [][ScheduleNext]_scheduleVars

------------------------------------------------------------------------------
(* The schedules an owner's rows name for a date; the newest row wins, and *)
(* an employee's own rows go before those of his department.               *)
followed(rows, date) ==
  LET now == {r \in rows : covers(r, date) /\ r.schedule \in inUse}
  IN {r.schedule : r \in {x \in now : \A y \in now : x.from >= y.from}}
resolveSchedule(e, date) ==
  LET own == followed(plansOf(e), date)
  IN IF own # {} THEN own ELSE followed(plansOf(homeOf[e]), date)

(* An assignment never rewrites the days before its own first day, which   *)
(* were lived under another schedule: not when it closes an open row, and  *)
(* not when two of one employee are made at the same time (assign,         *)
(* closePreviousOpenAssignment, resolveSchedule).                          *)
pastScheduleKept ==
  \A p \in underWay : planned' # planned /\ planning'[p] = NoPlan =>
    \A e \in DOMAIN homeOf, d \in 0..(planning[p].row.from - 1) :
      resolveSchedule(e, d)' = resolveSchedule(e, d)

=============================================================================
