----------------------------- MODULE MCPeriodClosing -----------------------------
(* Small instances of PeriodClosing.  Leave 1 falls in the later month     *)
(* only and leave 2 in both, so that the order of ids is not the order of  *)
(* dates; explanation 3 is of the earlier month.                           *)
EXTENDS PeriodClosing, TLC

CONSTANTS e1, e2

OneOwner == [i \in Items |-> e1]
MCSpan == [i \in Items |-> IF i = 1 THEN {2} ELSE IF i = 2 THEN {1, 2} ELSE {1}]
(* Leaves 1 and 2 of one employee, in the reverse order of their ids, and  *)
(* leave 3 of another over both months.                                    *)
TwoOwners == [i \in Items |-> IF i = 3 THEN e2 ELSE e1]
CrossedSpan == [i \in Items |-> IF i = 1 THEN {2} ELSE IF i = 2 THEN {1} ELSE {1, 2}]
SingleMonth == [i \in Items |-> {1}]

(* Every handler that takes locks; *)
Transactions == LeaveHandlers \cup ExplanationHandlers \cup {"lockPeriod", "reopenPeriod"}
(* with those that take none; *)
Everything == AllHandlers \cup {"record"}
(* the leave handlers that take the most locks, in both orders; *)
LeaveTransactions == {"createLeave", "cancelLeave", "setLeaveRoute", "lockPeriod"}
(* adjustments and check-ins against the closing of the month. *)
Unlocked == {"createAdjustment", "record", "lockPeriod", "reopenPeriod"}

(* Sessions are interchangeable. *)
AnySession == Permutations(Workers)
=============================================================================
