----------------------------- MODULE AttendanceDay -----------------------------
(***************************************************************************)
(* The check-ins and check-outs of employees (modules/attendance).  A call *)
(* of record takes the time, reads the events of that day, and inserts its *)
(* own later, without a lock, so two calls of one employee interleave.     *)
(* Positions, risk flags and minutes are left out; times are ticks of a    *)
(* bounded clock, and a day is DayLength of them.                          *)
(***************************************************************************)

EXTENDS Integers, FiniteSets

CONSTANTS
  Staff,       \* employees
  Office,      \* stands for the trip of an event that belongs to no trip
  DayLength,
  LastTick,    \* bound of the clock
  MaxCalls     \* bound: calls of record under way at once

ASSUME DayAssumption ==
  /\ DayLength \in Nat \ {0} /\ LastTick \in Nat /\ MaxCalls \in Nat

VARIABLES
  clock,
  events,      \* attendance_events
  checking     \* calls of record that passed their check

dayVars == <<clock, events, checking>>

EventType == {"CHECK_IN", "CHECK_OUT"}
OfficeEvent == [employee: Staff, type: EventType, time: 0..LastTick, trip: {Office}]

dayOf(time) == time \div DayLength
eventsOf(e, day) == {v \in events : v.employee = e /\ dayOf(v.time) = day}
newest(vs) == CHOOSE v \in vs : \A w \in vs : v.time >= w.time

DayInit == clock = 0 /\ events = {} /\ checking = {}

Event(e, type, trip) == [employee |-> e, type |-> type, time |-> clock, trip |-> trip]
Tick == clock < LastTick /\ clock' = clock + 1

(* Mutant: the last event is looked for on any day *)
lastEventEver(e) ==
  LET all == {v \in events : v.employee = e} IN IF all = {} THEN "NONE" ELSE newest(all).type

lastEvent(e) ==
  LET today == eventsOf(e, dayOf(clock)) IN IF today = {} THEN "NONE" ELSE newest(today).type

(* The first half of record.                                               *)
checkEvent(e, type) ==
  /\ Cardinality(checking) < MaxCalls
  /\ IF type = "CHECK_IN" THEN lastEvent(e) # "CHECK_IN" ELSE lastEvent(e) = "CHECK_IN"
  /\ Tick
  /\ checking' = checking \cup {Event(e, type, Office)}
  /\ UNCHANGED events

(* The second half of record.                                              *)
saveEvent(v) ==
  /\ events' = events \cup {v}
  /\ checking' = checking \ {v}
  /\ UNCHANGED clock

NextDay ==
  /\ clock' = DayLength * (dayOf(clock) + 1) /\ clock' <= LastTick
  /\ UNCHANGED <<events, checking>>

OfficeStep ==
  \/ \E e \in Staff, type \in EventType : checkEvent(e, type)
  \/ \E v \in checking : saveEvent(v)
  \/ NextDay

(* What getToday and list report of a day.                                 *)
checkedInAt(e, day) == {v.time : v \in {w \in eventsOf(e, day) : w.type = "CHECK_IN"}}
checkedOutAt(e, day) == {v.time : v \in {w \in eventsOf(e, day) : w.type = "CHECK_OUT"}}
dayStatus(e, day) ==
  IF checkedOutAt(e, day) # {} THEN "CHECKED_OUT"
  ELSE IF checkedInAt(e, day) # {} THEN "CHECKED_IN" ELSE "NOT_CHECKED_IN"

(* An employee's day that record alone wrote never counts as checked out   *)
(* without a check-in to count from, although calls overlap and a night's  *)
(* check-in is not one of the next day (record, getToday).                 *)
OfficeDayBegins ==
  \A e \in Staff, day \in 0..dayOf(LastTick) :
    /\ \A v \in eventsOf(e, day) : v.trip = Office
    /\ dayStatus(e, day) = "CHECKED_OUT"
    => checkedInAt(e, day) # {}

=============================================================================
