------------------------------- MODULE PeriodGate -------------------------------
(***************************************************************************)
(* What closing an attendance month promises, without a word on            *)
(* transactions and locks: a month is locked only when no explanation or   *)
(* leave request of that month is still open, and while it is locked no    *)
(* request of that month changes.                                          *)
(***************************************************************************)
CONSTANTS
  Months,
  Items,       \* leave requests and explanations
  Statuses,
  Span         \* the months each item falls in

VARIABLES
  locked,      \* the months that are closed
  status       \* of each item, "NONE" before it exists

gateVars == <<locked, status>>

openStatus(s) == s \in {"REQUESTED", "SUBMITTED"}

settled(m) == \A i \in Items : m \in Span[i] => ~openStatus(status[i])

GateInit ==
  /\ status \in [Items -> Statuses]
  /\ locked \in SUBSET {m \in Months : settled(m)}

Change(i, s) ==
  /\ Span[i] \cap locked = {}
  /\ status' = [status EXCEPT ![i] = s]
  /\ UNCHANGED locked

Lock(m) ==
  /\ settled(m)
  /\ locked' = locked \cup {m}
  /\ UNCHANGED status

Reopen(m) ==
  /\ m \in locked
  /\ locked' = locked \ {m}
  /\ UNCHANGED status

GateNext ==
  \/ \E i \in Items, s \in Statuses : Change(i, s)
  \/ \E m \in Months : Lock(m) \/ Reopen(m)

GateSpec == GateInit /\ [][GateNext]_gateVars

=============================================================================
