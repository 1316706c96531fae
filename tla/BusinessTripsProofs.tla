--------------------------- MODULE BusinessTripsProofs -------------------------
(***************************************************************************)
(* Proof that the status of a trip says what its members did, for any      *)
(* number of trips and employees.  A member's start or completion is two   *)
(* steps, and the second one writes the status from what the first read,   *)
(* so the inductive invariant says that this is still so (ReadIsCurrent),  *)
(* for which no two may be at work on one trip (TripsApart).  The second   *)
(* part proves that the attendance events agree with it and with the days  *)
(* of the office.                                                          *)
(***************************************************************************)
EXTENDS BusinessTrips, FiniteSetTheorems, WellFoundedInduction, TLAPS

RowsTyped ==
  /\ trip \in [Trips -> TripRow \cup {NoTrip}]
  /\ member \in [Trips -> [Staff -> Participation \cup {NoTrip}]]
  /\ tripTx \in [Staff -> TripTx \cup {NoTrip}]

TripsApart ==
  \A e, f \in Staff :
    tripTx[e] # NoTrip /\ tripTx[f] # NoTrip /\ tripTx[e].trip = tripTx[f].trip => e = f

(* What the transaction of e has read of its trip t still stands.          *)
Current(e, t) ==
  /\ trip[t] # NoTrip
  /\ tripTx[e].status = trip[t].status
  /\ tripTx[e].others = {member[t][f] : f \in membersOf(t) \ {e}}
  /\ tripTx[e].op = "start" => canStartBusinessTripMember(trip[t].status, member[t][e])
  /\ tripTx[e].op = "complete" => member[t][e] = "IN_PROGRESS"

ReadIsCurrent == \A e \in Staff : tripTx[e] # NoTrip => Current(e, tripTx[e].trip)

(* What a status says, of one member after the other. *)
Explained(t, status) ==
  /\ status \in {"DRAFT", "ASSIGNED"} => \A e \in membersOf(t) : member[t][e] = "ASSIGNED"
  /\ status = "IN_PROGRESS" =>
       /\ \A e \in membersOf(t) : member[t][e] # "CANCELLED"
       /\ \E e \in membersOf(t) : member[t][e] # "ASSIGNED"
       /\ \E e \in membersOf(t) : member[t][e] # "COMPLETED"
  /\ status = "COMPLETED" => \A e \in membersOf(t) : member[t][e] = "COMPLETED"
  /\ status = "CANCELLED" => \A e \in membersOf(t) : member[t][e] \in {"CANCELLED", "COMPLETED"}

TripsExplained ==
  \A t \in Trips : trip[t] # NoTrip =>
    trip[t].responsible \in membersOf(t) /\ Explained(t, trip[t].status)

TripInv == RowsTyped /\ TripsApart /\ ReadIsCurrent /\ TripsExplained

(* A trip with a member has the status its members explain.                *)
LEMMA ExplainedStatus ==
  ASSUME RowsTyped, NEW t \in Trips, trip[t] # NoTrip,
         membersOf(t) # {}, Explained(t, trip[t].status)
  PROVE  StatusMatchesMembers(t)
<1> DEFINE parts == {member[t][e] : e \in membersOf(t)}
<1>1. trip[t].status \in TripStatus
  BY TripAssumption DEF RowsTyped, TripRow
<1>2. \A e \in membersOf(t) : member[t][e] \in Participation
  BY DEF RowsTyped, membersOf
<1>3. parts # {}
  OBVIOUS
<1>4. CASE trip[t].status \in {"DRAFT", "ASSIGNED"}
  <2>1. parts = {"ASSIGNED"}
    BY <1>3, <1>4 DEF Explained
  <2> QED BY <2>1, <1>4 DEF StatusMatchesMembers
<1>5. CASE trip[t].status = "IN_PROGRESS"
  <2>1. parts \subseteq {"ASSIGNED", "IN_PROGRESS", "COMPLETED"}
    BY <1>2, <1>5 DEF Explained, Participation
  <2>2. parts # {"ASSIGNED"}
    BY <1>5 DEF Explained
  <2>3. parts # {"COMPLETED"}
    BY <1>5 DEF Explained
  <2> QED BY <2>1, <2>2, <2>3, <1>5 DEF StatusMatchesMembers
<1>6. CASE trip[t].status = "COMPLETED"
  <2>1. parts = {"COMPLETED"}
    BY <1>3, <1>6 DEF Explained
  <2> QED BY <2>1, <1>6 DEF StatusMatchesMembers
<1>7. CASE trip[t].status = "CANCELLED"
  <2>1. parts \subseteq {"CANCELLED", "COMPLETED"}
    BY <1>7 DEF Explained
  <2> QED BY <2>1, <1>7 DEF StatusMatchesMembers
<1> QED BY <1>1, <1>4, <1>5, <1>6, <1>7 DEF TripStatus

LEMMA TripInvImplies == ASSUME TripInv PROVE TripStatusMatchesMembers
<1> SUFFICES ASSUME NEW t \in Trips, trip[t] # NoTrip
             PROVE  trip[t].responsible \in membersOf(t) /\ StatusMatchesMembers(t)
  BY DEF TripStatusMatchesMembers
<1>1. trip[t].responsible \in membersOf(t) /\ Explained(t, trip[t].status)
  BY DEF TripInv, TripsExplained
<1> QED BY <1>1, ExplainedStatus DEF TripInv

LEMMA InitTripInv == ASSUME TripInit PROVE TripInv
<1>1. trip \in [Trips -> {NoTrip}] /\ tripTx \in [Staff -> {NoTrip}]
  BY DEF TripInit
<1>2. RowsTyped
  BY DEF TripInit, RowsTyped
<1> QED BY <1>1, <1>2 DEF TripInv, TripsApart, ReadIsCurrent, TripsExplained

(* What nothing of a trip changes leaves its explanation as it was.        *)
LEMMA SameTripExplained ==
  ASSUME RowsTyped, NEW t \in Trips, TripsExplained, trip'[t] # NoTrip,
         trip'[t] = trip[t], member'[t] = member[t]
  PROVE  trip'[t].responsible \in membersOf(t)' /\ Explained(t, trip[t].status)'
<1>1. \A e \in Staff : member'[t][e] = member[t][e]
  OBVIOUS
<1>2. membersOf(t)' = membersOf(t)
  BY <1>1 DEF membersOf
<1>3. trip[t].responsible \in membersOf(t) /\ Explained(t, trip[t].status)
  BY DEF TripsExplained
<1> QED BY <1>2, <1>3 DEF Explained, membersOf

(* A transaction keeps what it read as long as its trip stays as it is.    *)
LEMMA ReadStaysCurrent ==
  ASSUME RowsTyped, ReadIsCurrent, NEW e \in Staff, tripTx[e] # NoTrip, tripTx'[e] = tripTx[e],
         trip'[tripTx[e].trip] = trip[tripTx[e].trip],
         member'[tripTx[e].trip] = member[tripTx[e].trip]
  PROVE  Current(e, tripTx[e].trip)'
<1> DEFINE t == tripTx[e].trip
<1>1. membersOf(t)' = membersOf(t)
  BY DEF membersOf
<1>2. Current(e, t)
  BY DEF ReadIsCurrent
<1>3. {member'[t][f] : f \in membersOf(t)' \ {e}} = {member[t][f] : f \in membersOf(t) \ {e}}
  BY <1>1
<1> QED BY <1>1, <1>2, <1>3 DEF Current

(* A step on one trip: no transaction that goes on is at work on it, and   *)
(* its row and its members become what the step makes of them.             *)
LEMMA TripRowStep ==
  ASSUME TripInv, NEW t \in Trips,
         tripTx' \in [Staff -> TripTx \cup {NoTrip}],
         \A e \in Staff : tripTx'[e] # NoTrip => tripTx'[e] = tripTx[e] /\ tripTx[e].trip # t,
         NEW row \in TripRow, NEW parts \in [Staff -> Participation \cup {NoTrip}],
         trip' = [trip EXCEPT ![t] = row], member' = [member EXCEPT ![t] = parts],
         row.responsible \in membersOf(t)', Explained(t, row.status)'
  PROVE  TripInv'
<1>1. RowsTyped'
  BY DEF TripInv, RowsTyped
<1>2. TripsApart'
  BY DEF TripInv, TripsApart
<1>3. \A s \in Trips : s # t => trip'[s] = trip[s] /\ member'[s] = member[s]
  BY DEF TripInv, RowsTyped
<1>4. ReadIsCurrent'
  <2> SUFFICES ASSUME NEW e \in Staff, tripTx'[e] # NoTrip PROVE Current(e, tripTx[e].trip)'
    BY DEF ReadIsCurrent
  <2>1. tripTx'[e] = tripTx[e] /\ tripTx[e].trip # t
    OBVIOUS
  <2>2. tripTx[e].trip \in Trips
    BY <2>1 DEF TripInv, RowsTyped, TripTx
  <2>3. Current(e, tripTx[e].trip)'
    BY <2>1, <2>2, <1>3, ReadStaysCurrent DEF TripInv
  <2> QED BY <2>1, <2>3
<1>5. TripsExplained'
  <2> SUFFICES ASSUME NEW s \in Trips, trip'[s] # NoTrip
               PROVE  trip'[s].responsible \in membersOf(s)' /\ Explained(s, trip[s].status)'
    BY DEF TripsExplained
  <2>1. CASE s = t
    <3>1. trip'[t] = row
      BY DEF TripInv, RowsTyped
    <3> QED BY <2>1, <3>1 DEF Explained
  <2>2. CASE s # t
    BY <2>2, <1>3, SameTripExplained DEF TripInv
  <2> QED BY <2>1, <2>2
<1> QED BY <1>1, <1>2, <1>4, <1>5 DEF TripInv

(* A step that touches no trip and no transaction. *)
LEMMA ElsewhereStep ==
  ASSUME TripInv, UNCHANGED <<trip, member, tripTx>> PROVE TripInv'
<1>1. ReadIsCurrent'
  BY DEF TripInv, ReadIsCurrent, Current, membersOf, canStartBusinessTripMember
<1> QED BY <1>1 DEF TripInv, RowsTyped, TripsApart, TripsExplained, Explained, membersOf

(* All that were chosen are asked, the others are not members.             *)
LEMMA AssignedMembers ==
  ASSUME RowsTyped, NEW t \in Trips, NEW ids \in SUBSET Staff, member' = assigned(t, ids)
  PROVE  /\ member' = [member EXCEPT ![t] = [e \in Staff |-> IF e \in ids THEN "ASSIGNED" ELSE NoTrip]]
         /\ [e \in Staff |-> IF e \in ids THEN "ASSIGNED" ELSE NoTrip] \in [Staff -> Participation \cup {NoTrip}]
         /\ membersOf(t)' = ids
         /\ \A e \in ids : member'[t][e] = "ASSIGNED"
<1>1. member'[t] = [e \in Staff |-> IF e \in ids THEN "ASSIGNED" ELSE NoTrip]
  BY DEF assigned, RowsTyped
<1>2. "ASSIGNED" # NoTrip
  BY TripAssumption DEF Participation
<1> QED BY <1>1, <1>2 DEF assigned, membersOf, Participation

LEMMA CreateStep ==
  ASSUME TripInv, NEW t \in Trips, NEW ids \in SUBSET Staff, NEW e \in Staff, NEW photo \in BOOLEAN,
         createTrip(t, ids, e, photo)
  PROVE  TripInv'
<1> DEFINE row == [status |-> "DRAFT", responsible |-> e, requiresPhoto |-> photo]
           parts == [f \in Staff |-> IF f \in ids THEN "ASSIGNED" ELSE NoTrip]
<1>1. row \in TripRow
  BY DEF TripRow, TripStatus
<1>2. trip' = [trip EXCEPT ![t] = row] /\ member' = assigned(t, ids) /\ e \in ids /\ tripTx' = tripTx
  BY DEF createTrip, assertMembers
<1>3. /\ member' = [member EXCEPT ![t] = parts] /\ parts \in [Staff -> Participation \cup {NoTrip}]
      /\ membersOf(t)' = ids /\ \A f \in ids : member'[t][f] = "ASSIGNED"
  BY <1>2, AssignedMembers DEF TripInv
<1>4. \A f \in Staff : tripTx[f] # NoTrip => tripTx[f].trip # t
  BY DEF createTrip, TripInv, ReadIsCurrent, Current
<1>5. Explained(t, row.status)'
  BY <1>3 DEF Explained
<1>6. tripTx' \in [Staff -> TripTx \cup {NoTrip}]
  BY <1>2 DEF TripInv, RowsTyped
<1> HIDE DEF row, parts
<1>7. row.responsible \in membersOf(t)'
  BY <1>2, <1>3 DEF row
<1> QED BY <1>1, <1>2, <1>3, <1>4, <1>5, <1>6, <1>7, TripRowStep

LEMMA UpdateStep ==
  ASSUME TripInv, NEW t \in Trips, NEW ids \in SUBSET Staff, NEW e \in Staff, NEW photo \in BOOLEAN,
         updateTrip(t, ids, e, photo)
  PROVE  TripInv'
<1> PICK row : row = [trip[t] EXCEPT !.responsible = e, !.requiresPhoto = photo]
  OBVIOUS
<1> DEFINE parts == [f \in Staff |-> IF f \in ids THEN "ASSIGNED" ELSE NoTrip]
<1>1. trip[t] \in TripRow /\ trip[t].status = "DRAFT"
  BY DEF updateTrip, TripInv, RowsTyped
<1>2. row \in TripRow /\ row.status = "DRAFT" /\ row.responsible = e
  BY <1>1 DEF TripRow
<1>3. trip' = [trip EXCEPT ![t] = row] /\ member' = assigned(t, ids) /\ e \in ids /\ tripTx' = tripTx
  BY <1>1 DEF updateTrip, assertMembers, TripRow, TripInv, RowsTyped
<1>4. /\ member' = [member EXCEPT ![t] = parts] /\ parts \in [Staff -> Participation \cup {NoTrip}]
      /\ membersOf(t)' = ids /\ \A f \in ids : member'[t][f] = "ASSIGNED"
  BY <1>3, AssignedMembers DEF TripInv
<1>5. \A f \in Staff : tripTx[f] # NoTrip => tripTx[f].trip # t
  BY DEF updateTrip, unlocked
<1>6. tripTx' \in [Staff -> TripTx \cup {NoTrip}]
  BY <1>3 DEF TripInv, RowsTyped
<1> HIDE DEF parts
<1>7. Explained(t, row.status)'
  BY <1>2, <1>4 DEF Explained
<1>8. row.responsible \in membersOf(t)'
  BY <1>2, <1>3, <1>4
<1> QED BY <1>2, <1>3, <1>4, <1>5, <1>6, <1>7, <1>8, TripRowStep

LEMMA TransitionStep ==
  ASSUME TripInv, NEW t \in Trips, NEW to \in {"ASSIGNED", "CANCELLED"}, transitionTrip(t, to)
  PROVE  TripInv'
<1> PICK row : row = [trip[t] EXCEPT !.status = to]
  OBVIOUS
<1> PICK parts : parts = member'[t]
  OBVIOUS
<1>1. trip[t] \in TripRow /\ member[t] \in [Staff -> Participation \cup {NoTrip}]
  BY DEF transitionTrip, TripInv, RowsTyped
<1>2. row \in TripRow /\ row.status = to /\ row.responsible = trip[t].responsible
  BY <1>1 DEF TripRow, TripStatus
<1>3. trip' = [trip EXCEPT ![t] = row] /\ tripTx' = tripTx
  BY DEF transitionTrip, TripInv, RowsTyped
<1>4. trip[t].responsible \in membersOf(t) /\ Explained(t, trip[t].status)
  BY DEF transitionTrip, TripInv, TripsExplained
<1>5. \A f \in Staff : tripTx[f] # NoTrip => tripTx[f].trip # t
  BY DEF transitionTrip, unlocked
<1>6. tripTx' \in [Staff -> TripTx \cup {NoTrip}]
  BY <1>3 DEF TripInv, RowsTyped
<1>7. CASE to = "ASSIGNED"
  <2>1. trip[t].status = "DRAFT" /\ member' = member
    BY <1>7 DEF transitionTrip, canTransitionBusinessTrip
  <2>2. member' = [member EXCEPT ![t] = parts] /\ parts \in [Staff -> Participation \cup {NoTrip}]
    BY <2>1, <1>1 DEF TripInv, RowsTyped
  <2>3. row.responsible \in membersOf(t)' /\ Explained(t, row.status)'
    BY <2>1, <1>2, <1>4, <1>7 DEF Explained, membersOf
  <2> QED BY <1>2, <1>3, <1>5, <1>6, <2>2, <2>3, TripRowStep
<1>8. CASE to = "CANCELLED"
  <2> DEFINE left(e) == IF member[t][e] \in {NoTrip, "COMPLETED"} THEN member[t][e] ELSE "CANCELLED"
  <2>1. member' = [member EXCEPT ![t] = [e \in Staff |-> left(e)]]
    BY <1>8 DEF transitionTrip
  <2>2. parts = [e \in Staff |-> left(e)]
    BY <2>1 DEF TripInv, RowsTyped
  <2>3. parts \in [Staff -> Participation \cup {NoTrip}]
    BY <2>2, <1>1 DEF Participation
  <2>4. member' = [member EXCEPT ![t] = parts]
    BY <2>1, <2>2
  <2>5. \A e \in Staff : member'[t][e] = left(e)
    BY <2>2
  <2>6. "CANCELLED" # NoTrip
    BY TripAssumption DEF Participation
  <2>7. membersOf(t)' = membersOf(t) /\ \A e \in membersOf(t) : member'[t][e] \in {"CANCELLED", "COMPLETED"}
    BY <2>5, <2>6 DEF membersOf
  <2>8. row.responsible \in membersOf(t)' /\ Explained(t, row.status)'
    BY <2>7, <1>2, <1>4, <1>8 DEF Explained
  <2> QED BY <1>2, <1>3, <1>5, <1>6, <2>3, <2>4, <2>8, TripRowStep
<1> QED BY <1>7, <1>8

(* Beginning a transaction: the trip is free, and is read as it is.        *)
LEMMA TripLockStep ==
  ASSUME TripInv, NEW e \in Staff, NEW t \in Trips, NEW op \in {"start", "complete"}, opened(e, op, t),
         op = "start" => canStartBusinessTripMember(trip[t].status, member[t][e]),
         op = "complete" => canCompleteBusinessTripMember(member[t][e])
  PROVE  TripInv'
<1> DEFINE others == {member[t][f] : f \in membersOf(t) \ {e}}
           tx == [op |-> op, trip |-> t, status |-> trip[t].status, others |-> others]
<1>1. trip[t] \in TripRow /\ UNCHANGED <<trip, member>> /\ tripTx' = [tripTx EXCEPT ![e] = tx]
  BY DEF opened, TripInv, RowsTyped
<1>2. others \subseteq Participation
  BY DEF membersOf, TripInv, RowsTyped
<1>3. tx \in TripTx
  <2> HIDE DEF others
  <2> QED BY <1>1, <1>2 DEF TripTx, TripRow
<1>4. RowsTyped'
  BY <1>1, <1>3 DEF TripInv, RowsTyped
<1>5. tripTx'[e] = tx /\ \A f \in Staff : f # e => tripTx'[f] = tripTx[f]
  BY <1>1 DEF TripInv, RowsTyped
<1>6. \A f \in Staff : tripTx[f] # NoTrip => tripTx[f].trip # t
  BY DEF opened, unlocked
<1>7. TripsApart'
  BY <1>5, <1>6 DEF TripInv, TripsApart
<1>8. \A s \in Trips : membersOf(s)' = membersOf(s)
  BY <1>1 DEF membersOf
<1>9. ReadIsCurrent'
  <2> SUFFICES ASSUME NEW f \in Staff, tripTx'[f] # NoTrip PROVE Current(f, tripTx[f].trip)'
    BY DEF ReadIsCurrent
  <2>1. CASE f = e
    <3>1. tripTx'[e].trip = t /\ tripTx'[e].status = trip[t].status /\ tripTx'[e].op = op /\ tripTx'[e].others = others
      BY <1>5
    <3>2. trip[t] # NoTrip
      BY DEF opened
    <3>3. others = {member'[t][g] : g \in membersOf(t)' \ {e}}
      BY <1>1, <1>8
    <3> HIDE DEF others
    <3> QED BY <2>1, <3>1, <3>2, <3>3, <1>1 DEF Current, canCompleteBusinessTripMember, canStartBusinessTripMember
  <2>2. CASE f # e
    <3>1. tripTx[f] # NoTrip /\ tripTx'[f] = tripTx[f]
      BY <2>2, <1>5
    <3>2. Current(f, tripTx[f].trip)'
      BY <3>1, <1>1, ReadStaysCurrent DEF TripInv
    <3> QED BY <3>1, <3>2
  <2> QED BY <2>1, <2>2
<1>10. TripsExplained'
  BY <1>1, <1>8 DEF TripInv, TripsExplained, Explained
<1> QED BY <1>4, <1>7, <1>9, <1>10 DEF TripInv

(* The last half of a start or a completion: the member's part is done,    *)
(* the trip gets a status that its members explain.                        *)
LEMMA TripCommitStep ==
  ASSUME TripInv, NEW e \in Staff, tripTx[e] # NoTrip, NEW t \in Trips, t = tripTx[e].trip,
         NEW done \in {"IN_PROGRESS", "COMPLETED"}, NEW status \in TripStatus,
         trip' = [trip EXCEPT ![t].status = status],
         member' = [member EXCEPT ![t][e] = done], tripTx' = [tripTx EXCEPT ![e] = NoTrip],
         Explained(t, status)'
  PROVE  TripInv'
<1> PICK row : row = [trip[t] EXCEPT !.status = status]
  OBVIOUS
<1> PICK parts : parts = [member[t] EXCEPT ![e] = done]
  OBVIOUS
<1>1. Current(e, t)
  BY DEF TripInv, ReadIsCurrent
<1>2. trip[t] \in TripRow /\ member[t] \in [Staff -> Participation \cup {NoTrip}] /\ tripTx[e] \in TripTx
  BY <1>1 DEF TripInv, RowsTyped, Current
<1>4. row \in TripRow /\ row.status = status /\ row.responsible = trip[t].responsible
  BY <1>2 DEF TripRow
<1>5. trip' = [trip EXCEPT ![t] = row] /\ member' = [member EXCEPT ![t] = parts]
  BY DEF TripInv, RowsTyped
<1>6. parts \in [Staff -> Participation \cup {NoTrip}]
  BY <1>2 DEF Participation
<1>7. tripTx' \in [Staff -> TripTx \cup {NoTrip}]
  BY DEF TripInv, RowsTyped
<1>8. \A f \in Staff : tripTx'[f] # NoTrip => tripTx'[f] = tripTx[f] /\ tripTx[f].trip # t
  <2> SUFFICES ASSUME NEW f \in Staff, tripTx'[f] # NoTrip PROVE tripTx'[f] = tripTx[f] /\ tripTx[f].trip # t
    OBVIOUS
  <2>1. f # e /\ tripTx'[f] = tripTx[f]
    BY DEF TripInv, RowsTyped
  <2> QED BY <2>1 DEF TripInv, TripsApart
<1>9. trip[t].responsible \in membersOf(t)
  BY <1>1 DEF TripInv, TripsExplained, Current
<1>10. \A f \in Staff : member[t][f] # NoTrip => member'[t][f] # NoTrip
  BY TripAssumption DEF TripInv, RowsTyped, Participation
<1>11. row.responsible \in membersOf(t)' /\ Explained(t, row.status)'
  BY <1>4, <1>9, <1>10 DEF membersOf
<1> QED BY <1>4, <1>5, <1>6, <1>7, <1>8, <1>11, TripRowStep

(* After a commit the members are the same, and so are the others' parts.  *)
LEMMA PartsAfter ==
  ASSUME RowsTyped, NEW t \in Trips, NEW e \in membersOf(t), NEW done \in Participation,
         member' = [member EXCEPT ![t][e] = done]
  PROVE  /\ membersOf(t)' = membersOf(t) /\ member'[t][e] = done
         /\ \A f \in membersOf(t) : f # e => member'[t][f] = member[t][f]
<1>1. done # NoTrip
  BY TripAssumption
<1> QED BY <1>1 DEF RowsTyped, membersOf

LEMMA StartStep ==
  ASSUME TripInv, NEW e \in Staff, startTrip(e) PROVE TripInv'
<1> PICK t : t = tripTx[e].trip
  OBVIOUS
<1>1. tripTx[e] \in TripTx /\ tripTx[e] # NoTrip /\ t \in Trips /\ Current(e, t) /\ tripTx[e].op = "start"
  BY DEF startTrip, TripInv, RowsTyped, ReadIsCurrent, TripTx
<1>2. trip[t] \in TripRow /\ trip[t].status \in {"ASSIGNED", "IN_PROGRESS"} /\ tripTx[e].status = trip[t].status
      /\ member[t][e] = "ASSIGNED"
  BY <1>1 DEF Current, canStartBusinessTripMember, TripInv, RowsTyped
<1>3. e \in membersOf(t)
  BY <1>2, TripAssumption DEF membersOf, Participation
<1>4. trip' = [trip EXCEPT ![t].status = "IN_PROGRESS"]
  BY <1>1, <1>2 DEF startTrip, TripInv, RowsTyped, TripRow
<1>5. member' = [member EXCEPT ![t][e] = "IN_PROGRESS"] /\ tripTx' = [tripTx EXCEPT ![e] = NoTrip]
  BY DEF startTrip
<1>6. /\ membersOf(t)' = membersOf(t) /\ member'[t][e] = "IN_PROGRESS"
      /\ \A f \in membersOf(t) : f # e => member'[t][f] = member[t][f]
  BY <1>1, <1>3, <1>5, PartsAfter DEF TripInv, Participation
<1>7. Explained(t, trip[t].status)
  BY <1>1 DEF TripInv, TripsExplained, Current
<1>8. Explained(t, "IN_PROGRESS")'
  BY <1>2, <1>3, <1>6, <1>7 DEF Explained
<1>9. "IN_PROGRESS" \in TripStatus
  BY DEF TripStatus
<1> QED BY <1>1, <1>4, <1>5, <1>8, <1>9, TripCommitStep

LEMMA CompleteStep ==
  ASSUME TripInv, NEW e \in Staff, completeTrip(e) PROVE TripInv'
<1> PICK t : t = tripTx[e].trip
  OBVIOUS
<1>1. tripTx[e] \in TripTx /\ tripTx[e] # NoTrip /\ t \in Trips /\ Current(e, t) /\ tripTx[e].op = "complete"
  BY DEF completeTrip, TripInv, RowsTyped, ReadIsCurrent, TripTx
<1>2. trip[t] \in TripRow /\ member[t][e] = "IN_PROGRESS"
  BY <1>1 DEF Current, TripInv, RowsTyped
<1>3. e \in membersOf(t)
  BY <1>2, TripAssumption DEF membersOf, Participation
<1>4. Explained(t, trip[t].status)
  BY <1>1 DEF TripInv, TripsExplained, Current
<1>5. trip[t].status = "IN_PROGRESS"
  BY <1>2, <1>3, <1>4 DEF Explained, TripRow, TripStatus
<1>6. member' = [member EXCEPT ![t][e] = "COMPLETED"] /\ tripTx' = [tripTx EXCEPT ![e] = NoTrip]
  BY DEF completeTrip
<1>7. /\ membersOf(t)' = membersOf(t) /\ member'[t][e] = "COMPLETED"
      /\ \A f \in membersOf(t) : f # e => member'[t][f] = member[t][f]
  BY <1>1, <1>3, <1>6, PartsAfter DEF TripInv, Participation
<1>8. tripTx[e].others = {member[t][f] : f \in membersOf(t) \ {e}}
  BY <1>1 DEF Current
<1>9. CASE shouldCompleteBusinessTrip(tripTx[e].others)
  <2>1. \A f \in membersOf(t) \ {e} : member[t][f] = "COMPLETED"
    BY <1>8, <1>9 DEF shouldCompleteBusinessTrip
  <2>2. Explained(t, "COMPLETED")'
    BY <2>1, <1>7 DEF Explained
  <2>3. trip' = [trip EXCEPT ![t].status = "COMPLETED"]
    BY <1>9 DEF completeTrip
  <2> QED BY <2>2, <2>3, <1>1, <1>6, TripCommitStep DEF TripStatus
<1>10. CASE ~shouldCompleteBusinessTrip(tripTx[e].others)
  <2>1. \E f \in membersOf(t) \ {e} : member[t][f] # "COMPLETED"
    BY <1>8, <1>10 DEF shouldCompleteBusinessTrip
  <2>2. Explained(t, "IN_PROGRESS")'
    BY <2>1, <1>3, <1>4, <1>5, <1>7 DEF Explained
  <2>3. trip' = [trip EXCEPT ![t].status = "IN_PROGRESS"]
    BY <1>1, <1>2, <1>5, <1>10 DEF completeTrip, TripInv, RowsTyped, TripRow
  <2> QED BY <2>2, <2>3, <1>1, <1>6, TripCommitStep DEF TripStatus
<1> QED BY <1>9, <1>10

LEMMA RollBackStep ==
  ASSUME TripInv, NEW e \in Staff, rollBackTrip(e) PROVE TripInv'
<1>1. UNCHANGED <<trip, member>> /\ \A f \in Staff : tripTx'[f] # NoTrip => tripTx'[f] = tripTx[f]
  BY DEF rollBackTrip, TripInv, RowsTyped
<1>2. RowsTyped' /\ TripsApart'
  BY <1>1 DEF rollBackTrip, TripInv, RowsTyped, TripsApart
<1>3. ReadIsCurrent'
  BY <1>1, ReadStaysCurrent DEF TripInv, ReadIsCurrent
<1>4. TripsExplained'
  BY <1>1 DEF TripInv, TripsExplained, Explained, membersOf
<1> QED BY <1>2, <1>3, <1>4 DEF TripInv

LEMMA NextTripInv == ASSUME TripInv, [TripNext]_tripVars PROVE TripInv'
<1>1. CASE TripStep
  <2>1. ASSUME NEW e \in Staff, NEW t \in Trips, lockToStart(e, t) PROVE TripInv'
    BY <2>1, TripLockStep DEF lockToStart
  <2>2. ASSUME NEW e \in Staff, NEW t \in Trips, NEW image \in BOOLEAN, NEW captured \in BOOLEAN,
               lockToComplete(e, t, image, captured)
        PROVE  TripInv'
    BY <2>2, TripLockStep DEF lockToComplete
  <2>3. ASSUME NEW e \in Staff, changeWorking(e) PROVE TripInv'
    BY <2>3, ElsewhereStep DEF changeWorking
  <2> QED BY <1>1, <2>1, <2>2, <2>3, CreateStep, UpdateStep, TransitionStep, StartStep, CompleteStep, RollBackStep
          DEF TripStep
<1>2. CASE OfficeStep /\ UNCHANGED <<trip, member, working, tripTx>>
  BY <1>2, ElsewhereStep
<1>3. CASE UNCHANGED tripVars
  BY <1>3, ElsewhereStep DEF tripVars
<1> QED BY <1>1, <1>2, <1>3 DEF TripNext

(* The status of every trip matches what its members did, whoever starts   *)
(* and completes at the same time and whatever the Admin does in between   *)
(* (BusinessTripsService.start, complete, transition, update).             *)
THEOREM StatusFollowsMembers == TripSpec => []TripStatusMatchesMembers
<1>1. TripInit => TripInv
  BY InitTripInv
<1>2. TripInv /\ [TripNext]_tripVars => TripInv'
  BY NextTripInv
<1>3. TripInv => TripStatusMatchesMembers
  BY TripInvImplies
<1> QED BY <1>1, <1>2, <1>3, PTL DEF TripSpec

------------------------------------------------------------------------------
(* The events of trips and of the office *)

happened(t, e, type) == {v \in events : v.trip = t /\ v.employee = e /\ v.type = type}

(* All that happened, or is about to be saved, lies in the past.           *)
EventsTyped ==
  /\ clock \in 0..LastTick
  /\ checking \subseteq OfficeEvent /\ events \subseteq AnyEvent
  /\ \A v \in events \cup checking : v.time < clock

EmptyUntilDrafted == \A t \in Trips, e \in Staff : trip[t] = NoTrip => member[t][e] = NoTrip

(* What has happened in one part of a trip, given its status.              *)
Witnessed(ins, outs, part) ==
  /\ \A v, w \in ins : v = w
  /\ \A v, w \in outs : v = w
  /\ part \in {"IN_PROGRESS", "COMPLETED"} => ins # {}
  /\ part \in {"ASSIGNED", NoTrip} => ins = {}
  /\ outs # {} <=> part = "COMPLETED"
  /\ \A v \in ins, w \in outs : v.time < w.time

PartsWitnessed ==
  \A t \in Trips, e \in Staff :
    Witnessed(happened(t, e, "CHECK_IN"), happened(t, e, "CHECK_OUT"), member[t][e])

(* A check-out of the office, saved or about to be, follows a check-in of  *)
(* its day.                                                                *)
OutsFollowIns ==
  \A v \in events \cup checking : v.type = "CHECK_OUT" /\ v.trip = Office =>
    \E w \in events : w.employee = v.employee /\ w.type = "CHECK_IN" /\ dayOf(w.time) = dayOf(v.time)

EventInv == EventsTyped /\ EmptyUntilDrafted /\ PartsWitnessed /\ OutsFollowIns

LEMMA AtMostOne ==
  ASSUME NEW vs, \A v, w \in vs : v = w PROVE Cardinality({v.time : v \in vs}) <= 1
<1> DEFINE times == {v.time : v \in vs}
<1>1. CASE times = {}
  BY <1>1, FS_EmptySet
<1>2. CASE times # {}
  <2>1. PICK x : x \in times
    BY <1>2
  <2>2. times = {x}
    BY <2>1
  <2>3. Cardinality(times) = 1
    BY <2>2, FS_Singleton
  <2> QED BY <2>3
<1> QED BY <1>1, <1>2

LEMMA WitnessedParts == ASSUME EventInv PROVE TripEventsMatchParticipation
<1> SUFFICES ASSUME NEW t \in Trips, NEW e \in Staff
             PROVE  LET ins == tripTimes(t, e, "CHECK_IN")
                        outs == tripTimes(t, e, "CHECK_OUT")
                    IN /\ Cardinality(ins) <= 1 /\ Cardinality(outs) <= 1
                       /\ member[t][e] \in {"IN_PROGRESS", "COMPLETED"} => ins # {}
                       /\ member[t][e] \in {"ASSIGNED", NoTrip} => ins = {}
                       /\ outs # {} <=> member[t][e] = "COMPLETED"
                       /\ \A i \in ins, o \in outs : i < o
  BY DEF TripEventsMatchParticipation
<1> PICK ins : ins = happened(t, e, "CHECK_IN")
  OBVIOUS
<1> PICK outs : outs = happened(t, e, "CHECK_OUT")
  OBVIOUS
<1>1. Witnessed(ins, outs, member[t][e])
  BY DEF EventInv, PartsWitnessed
<1>2. tripTimes(t, e, "CHECK_IN") = {v.time : v \in ins} /\ tripTimes(t, e, "CHECK_OUT") = {v.time : v \in outs}
  BY DEF tripTimes, happened
<1>3. Cardinality(tripTimes(t, e, "CHECK_IN")) <= 1 /\ Cardinality(tripTimes(t, e, "CHECK_OUT")) <= 1
  BY <1>1, <1>2, AtMostOne DEF Witnessed
<1> QED BY <1>1, <1>2, <1>3 DEF Witnessed

LEMMA FollowedOuts == ASSUME EventInv PROVE OfficeDayBegins
<1> SUFFICES ASSUME NEW e \in Staff, NEW day \in 0..dayOf(LastTick),
                    \A v \in eventsOf(e, day) : v.trip = Office, dayStatus(e, day) = "CHECKED_OUT"
             PROVE  checkedInAt(e, day) # {}
  BY DEF OfficeDayBegins
<1>1. checkedOutAt(e, day) # {}
  BY DEF dayStatus
<1>2. PICK v \in eventsOf(e, day) : v.type = "CHECK_OUT"
  BY <1>1 DEF checkedOutAt
<1>3. PICK w \in events : w.employee = e /\ w.type = "CHECK_IN" /\ dayOf(w.time) = day
  BY <1>2 DEF eventsOf, EventInv, OutsFollowIns
<1> QED BY <1>3 DEF checkedInAt, eventsOf

LEMMA InitEvents == ASSUME TripInit PROVE EventInv
<1>1. \A t \in Trips, e \in Staff : member[t][e] = NoTrip /\ trip[t] = NoTrip
  BY DEF TripInit
<1>2. events = {} /\ checking = {} /\ clock = 0
  BY DEF TripInit, DayInit
<1>3. PartsWitnessed
  BY <1>1, <1>2, TripAssumption DEF PartsWitnessed, Witnessed, happened, Participation
<1> QED BY <1>1, <1>2, <1>3, DayAssumption DEF EventInv, EventsTyped, EmptyUntilDrafted, OutsFollowIns

(* A set of times has a latest one. *)
Less == {p \in Nat \X Nat : p[1] < p[2]}

LEMMA LeastNat == ASSUME NEW T \in SUBSET Nat, T # {} PROVE \E x \in T : \A y \in T : x <= y
<1>1. IsWellFoundedOn(Less, Nat)
  BY NatLessThanWellFounded DEF OpToRel, Less
<1>2. PICK x \in T : \A y \in T : ~(<<y, x>> \in Less)
  BY <1>1, WFMin
<1>3. ASSUME NEW y \in T PROVE x <= y
  <2>1. y < x => <<y, x>> \in Less
    BY DEF Less
  <2> QED BY <1>2, <2>1
<1> QED BY <1>3

LEMMA NewestIsOne ==
  ASSUME NEW vs, vs # {}, \A v \in vs : v.time \in 0..LastTick PROVE newest(vs) \in vs
<1> DEFINE T == {LastTick - v.time : v \in vs}
<1>1. T \in SUBSET Nat /\ T # {}
  BY DayAssumption
<1>2. PICK x \in T : \A y \in T : x <= y
  <2> HIDE DEF T
  <2> QED BY <1>1, LeastNat
<1>3. PICK v \in vs : x = LastTick - v.time
  OBVIOUS
<1>4. \A w \in vs : v.time >= w.time
  <2> SUFFICES ASSUME NEW w \in vs PROVE v.time >= w.time
    OBVIOUS
  <2>1. LastTick - w.time \in T /\ v.time \in Int /\ w.time \in Int
    OBVIOUS
  <2>2. LastTick - v.time <= LastTick - w.time
    BY <1>2, <1>3, <2>1
  <2> HIDE DEF T
  <2> QED BY <2>1, <2>2, DayAssumption
<1>5. \E u \in vs : \A w \in vs : u.time >= w.time
  BY <1>4
<1> QED BY <1>5 DEF newest

(* A part may change like this while nothing happens in it.                *)
Quiet(old, new) ==
  \/ new = old
  \/ {old, new} \subseteq {"ASSIGNED", NoTrip}
  \/ old # "COMPLETED" /\ new = "CANCELLED"

LEMMA QuietParts ==
  ASSUME PartsWitnessed,
         \A t \in Trips, e \in Staff : Quiet(member[t][e], member'[t][e]),
         \A v \in events' : v \in events \/ v.trip \notin Trips, events \subseteq events'
  PROVE  PartsWitnessed'
<1> SUFFICES ASSUME NEW t \in Trips, NEW e \in Staff
             PROVE  Witnessed(happened(t, e, "CHECK_IN")', happened(t, e, "CHECK_OUT")', member'[t][e])
  BY DEF PartsWitnessed
<1>1. happened(t, e, "CHECK_IN")' = happened(t, e, "CHECK_IN") /\ happened(t, e, "CHECK_OUT")' = happened(t, e, "CHECK_OUT")
  BY DEF happened
<1>2. Witnessed(happened(t, e, "CHECK_IN"), happened(t, e, "CHECK_OUT"), member[t][e])
  BY DEF PartsWitnessed
<1>3. NoTrip \notin {"ASSIGNED", "IN_PROGRESS", "COMPLETED", "CANCELLED"}
  BY TripAssumption DEF Participation
<1> HIDE DEF happened
<1>4. Quiet(member[t][e], member'[t][e])
  OBVIOUS
<1> QED BY <1>1, <1>2, <1>3, <1>4 DEF Witnessed, Quiet

(* The office: a call of record that reads, one that saves, the night.     *)
LEMMA OfficeEvents ==
  ASSUME EventInv, OfficeStep, UNCHANGED <<trip, member>> PROVE EventInv'
<1>1. EmptyUntilDrafted'
  BY DEF EventInv, EmptyUntilDrafted
<1>2. \A t \in Trips, e \in Staff : Quiet(member[t][e], member'[t][e])
  BY DEF Quiet
<1>3. ASSUME NEW e \in Staff, NEW type \in EventType, checkEvent(e, type) PROVE EventInv'
  <2> PICK v : v = Event(e, type, Office)
    OBVIOUS
  <2>1. /\ v \in OfficeEvent /\ v.time = clock /\ v.type = type /\ v.employee = e
        /\ clock' = clock + 1 /\ clock' \in 0..LastTick /\ events' = events /\ checking' = checking \cup {v}
    BY <1>3, DayAssumption DEF checkEvent, Tick, Event, OfficeEvent, EventInv, EventsTyped
  <2>2. \A u \in events \cup checking : u.time \in 0..LastTick
    BY DEF EventInv, EventsTyped, OfficeEvent, AnyEvent
  <2>3. EventsTyped'
    BY <2>1, <2>2, DayAssumption DEF EventInv, EventsTyped
  <2>4. PartsWitnessed'
    BY <1>2, <2>1, QuietParts DEF EventInv
  <2>5. type = "CHECK_OUT" =>
          \E w \in events : w.employee = e /\ w.type = "CHECK_IN" /\ dayOf(w.time) = dayOf(clock)
    <3> SUFFICES ASSUME type = "CHECK_OUT"
                 PROVE  \E w \in events : w.employee = e /\ w.type = "CHECK_IN" /\ dayOf(w.time) = dayOf(clock)
      OBVIOUS
    <3> PICK now : now = eventsOf(e, dayOf(clock))
      OBVIOUS
    <3>1. lastEvent(e) = "CHECK_IN"
      BY <1>3 DEF checkEvent
    <3>2. now # {} /\ newest(now).type = "CHECK_IN"
      BY <3>1 DEF lastEvent
    <3>3. \A u \in now : u.time \in 0..LastTick
      BY <2>2 DEF eventsOf
    <3>4. newest(now) \in now
      BY <3>2, <3>3, NewestIsOne
    <3> QED BY <3>2, <3>4 DEF eventsOf
  <2>6. OutsFollowIns'
    BY <2>1, <2>5 DEF EventInv, OutsFollowIns
  <2> QED BY <1>1, <2>3, <2>4, <2>6 DEF EventInv
<1>4. ASSUME NEW v \in checking, saveEvent(v) PROVE EventInv'
  <2>1. events' = events \cup {v} /\ checking' = checking \ {v} /\ clock' = clock
    BY <1>4 DEF saveEvent
  <2>2. v \in OfficeEvent /\ v \in AnyEvent /\ v.trip \notin Trips
    BY TripAssumption DEF EventInv, EventsTyped, OfficeEvent, AnyEvent, NoTrip
  <2>3. EventsTyped'
    BY <2>1, <2>2 DEF EventInv, EventsTyped
  <2>4. PartsWitnessed'
    BY <1>2, <2>1, <2>2, QuietParts DEF EventInv
  <2>5. OutsFollowIns'
    BY <2>1 DEF EventInv, OutsFollowIns
  <2> QED BY <1>1, <2>3, <2>4, <2>5 DEF EventInv
<1>5. ASSUME NextDay PROVE EventInv'
  <2>1. clock' = DayLength * ((clock \div DayLength) + 1) /\ clock' <= LastTick /\ UNCHANGED <<events, checking>>
    BY <1>5 DEF NextDay, dayOf
  <2>2. clock \in Nat
    BY DEF EventInv, EventsTyped
  <2>3. clock < clock' /\ clock' \in Nat
    BY <2>1, <2>2, DayAssumption
  <2>4. \A u \in events \cup checking : u.time \in 0..LastTick
    BY DEF EventInv, EventsTyped, OfficeEvent, AnyEvent
  <2>5. EventsTyped'
    BY <2>1, <2>2, <2>3, <2>4, DayAssumption DEF EventInv, EventsTyped
  <2>6. PartsWitnessed'
    BY <1>2, <2>1, QuietParts DEF EventInv
  <2>7. OutsFollowIns'
    BY <2>1 DEF EventInv, OutsFollowIns
  <2> QED BY <1>1, <2>5, <2>6, <2>7 DEF EventInv
<1> QED BY <1>3, <1>4, <1>5 DEF OfficeStep

(* A step of a trip during which nothing happens. *)
LEMMA QuietEvents ==
  ASSUME EventInv, UNCHANGED dayVars, EmptyUntilDrafted',
         \A t \in Trips, e \in Staff : Quiet(member[t][e], member'[t][e])
  PROVE  EventInv'
<1>1. UNCHANGED <<clock, events, checking>>
  BY DEF dayVars
<1>2. PartsWitnessed'
  BY <1>1, QuietParts DEF EventInv
<1> QED BY <1>1, <1>2 DEF EventInv, EventsTyped, OutsFollowIns

LEMMA DraftEvents ==
  ASSUME TripInv, EventInv, NEW t \in Trips, NEW ids \in SUBSET Staff, NEW e \in Staff, NEW photo \in BOOLEAN,
         createTrip(t, ids, e, photo) \/ updateTrip(t, ids, e, photo)
  PROVE  EventInv'
<1>1. UNCHANGED dayVars /\ member' = assigned(t, ids)
  BY DEF createTrip, updateTrip
<1>2. \A s \in Trips, f \in Staff :
        member'[s][f] = IF s # t THEN member[s][f] ELSE IF f \in ids THEN "ASSIGNED" ELSE NoTrip
  BY <1>1 DEF assigned, TripInv, RowsTyped
<1>3. \A f \in Staff : member[t][f] \in {"ASSIGNED", NoTrip}
  <2>1. CASE createTrip(t, ids, e, photo)
    BY <2>1 DEF createTrip, EventInv, EmptyUntilDrafted
  <2>2. CASE updateTrip(t, ids, e, photo)
    BY <2>2 DEF updateTrip, TripInv, TripsExplained, Explained, membersOf
  <2> QED BY <2>1, <2>2
<1>4. \A s \in Trips, f \in Staff : Quiet(member[s][f], member'[s][f])
  BY <1>2, <1>3 DEF Quiet
<1>5. trip'[t] # NoTrip /\ \A s \in Trips : s # t => trip'[s] = trip[s]
  <2>1. PICK row \in TripRow : trip' = [trip EXCEPT ![t] = row]
    <3>1. CASE createTrip(t, ids, e, photo)
      <4>1. [status |-> "DRAFT", responsible |-> e, requiresPhoto |-> photo] \in TripRow
        BY DEF TripRow, TripStatus
      <4> QED BY <3>1, <4>1 DEF createTrip
    <3>2. CASE updateTrip(t, ids, e, photo)
      <4>1. trip[t] \in TripRow
        BY <3>2 DEF updateTrip, TripInv, RowsTyped
      <4>2. [trip[t] EXCEPT !.responsible = e, !.requiresPhoto = photo] \in TripRow
        BY <4>1 DEF TripRow
      <4> QED BY <3>2, <4>1, <4>2 DEF updateTrip, TripInv, RowsTyped, TripRow
    <3> QED BY <3>1, <3>2
  <2> QED BY <2>1, TripAssumption DEF TripInv, RowsTyped
<1>6. EmptyUntilDrafted'
  BY <1>2, <1>5 DEF EventInv, EmptyUntilDrafted
<1> QED BY <1>1, <1>4, <1>6, QuietEvents

LEMMA TransitionEvents ==
  ASSUME TripInv, EventInv, NEW t \in Trips, NEW to \in {"ASSIGNED", "CANCELLED"}, transitionTrip(t, to)
  PROVE  EventInv'
<1>1. UNCHANGED dayVars /\ trip[t] # NoTrip /\ \A s \in Trips : s # t => trip'[s] = trip[s]
  BY DEF transitionTrip, TripInv, RowsTyped
<1>2. \A s \in Trips, f \in Staff :
        /\ Quiet(member[s][f], member'[s][f])
        /\ s # t => member'[s][f] = member[s][f]
  <2>1. CASE to = "CANCELLED"
    <3>1. \A s \in Trips, f \in Staff :
            member'[s][f] = IF s = t /\ member[t][f] \notin {NoTrip, "COMPLETED"} THEN "CANCELLED" ELSE member[s][f]
      BY <2>1 DEF transitionTrip, TripInv, RowsTyped
    <3> QED BY <3>1 DEF Quiet
  <2>2. CASE to # "CANCELLED"
    BY <2>2 DEF transitionTrip, Quiet
  <2> QED BY <2>1, <2>2
<1>3. trip'[t] # NoTrip
  <2>1. trip[t] \in TripRow
    BY <1>1 DEF TripInv, RowsTyped
  <2>2. trip'[t] = [trip[t] EXCEPT !.status = to]
    BY DEF transitionTrip, TripInv, RowsTyped
  <2>3. trip'[t] \in TripRow
    BY <2>1, <2>2 DEF TripRow, TripStatus
  <2> QED BY <2>3, TripAssumption
<1>4. EmptyUntilDrafted'
  BY <1>1, <1>2, <1>3 DEF EventInv, EmptyUntilDrafted
<1> QED BY <1>1, <1>2, <1>4, QuietEvents

(* A commit records one event, of a part that is ready for it.             *)
Recorded(e, t, type, part) ==
  /\ Tick /\ UNCHANGED checking
  /\ events' = events \cup {Event(e, type, t)}
  /\ member' = [member EXCEPT ![t][e] = part]
  /\ \A s \in Trips : trip'[s] = NoTrip => trip[s] = NoTrip
  /\ trip[t] # NoTrip

LEMMA RecordedEvents ==
  ASSUME TripInv, EventInv, NEW e \in Staff, NEW t \in Trips, NEW type \in EventType, NEW part,
         Recorded(e, t, type, part),
         IF type = "CHECK_IN" THEN member[t][e] = "ASSIGNED" /\ part = "IN_PROGRESS"
                              ELSE member[t][e] = "IN_PROGRESS" /\ part = "COMPLETED"
  PROVE  EventInv'
<1> PICK v : v = Event(e, type, t)
  OBVIOUS
<1>1. /\ v.employee = e /\ v.type = type /\ v.time = clock /\ v.trip = t
      /\ events' = events \cup {v} /\ checking' = checking
      /\ clock' = clock + 1 /\ clock' \in 0..LastTick /\ clock \in 0..LastTick /\ v \in AnyEvent
  BY DayAssumption DEF Recorded, Event, Tick, AnyEvent, EventInv, EventsTyped
<1>2. \A u \in events \cup checking : u.time \in 0..LastTick /\ u.time < clock
  BY DEF EventInv, EventsTyped, OfficeEvent, AnyEvent
<1>3. EventsTyped'
  BY <1>1, <1>2, DayAssumption DEF EventInv, EventsTyped
<1>4. t # Office
  BY TripAssumption DEF NoTrip
<1>5. OutsFollowIns'
  BY <1>1, <1>4 DEF EventInv, OutsFollowIns
<1>6. \A s \in Trips, f \in Staff : member'[s][f] = IF s = t /\ f = e THEN part ELSE member[s][f]
  BY DEF Recorded, TripInv, RowsTyped
<1>7. EmptyUntilDrafted'
  BY <1>6 DEF EventInv, EmptyUntilDrafted, Recorded
<1>8. ASSUME NEW s \in Trips, NEW f \in Staff
      PROVE  Witnessed(happened(s, f, "CHECK_IN")', happened(s, f, "CHECK_OUT")', member'[s][f])
  <2>1. Witnessed(happened(s, f, "CHECK_IN"), happened(s, f, "CHECK_OUT"), member[s][f])
    BY DEF EventInv, PartsWitnessed
  <2>2. ASSUME NEW k \in EventType
        PROVE  happened(s, f, k)' = IF s = t /\ f = e /\ k = type THEN happened(s, f, k) \cup {v} ELSE happened(s, f, k)
    BY <1>1 DEF happened
  <2> PICK ins : ins = happened(s, f, "CHECK_IN")
    OBVIOUS
  <2> PICK outs : outs = happened(s, f, "CHECK_OUT")
    OBVIOUS
  <2>3. NoTrip \notin {"ASSIGNED", "IN_PROGRESS", "COMPLETED", "CANCELLED"}
    BY TripAssumption DEF Participation
  <2>4. \A u \in ins : u.time < clock
    BY <1>2 DEF happened
  <2>5. CASE ~(s = t /\ f = e)
    BY <1>6, <2>1, <2>2, <2>5 DEF EventType
  <2>6. CASE s = t /\ f = e /\ type = "CHECK_IN"
    <3>1. ins = {} /\ outs = {}
      BY <2>1, <2>6 DEF Witnessed
    <3>2. happened(s, f, "CHECK_IN")' = {v} /\ happened(s, f, "CHECK_OUT")' = {} /\ member'[s][f] = "IN_PROGRESS"
      BY <1>6, <2>2, <2>6, <3>1 DEF EventType
    <3> QED BY <2>3, <3>2 DEF Witnessed
  <2>7. CASE s = t /\ f = e /\ type = "CHECK_OUT"
    <3>1. ins # {} /\ outs = {} /\ \A u, w \in ins : u = w
      BY <2>1, <2>7 DEF Witnessed
    <3>2. happened(s, f, "CHECK_IN")' = ins /\ happened(s, f, "CHECK_OUT")' = {v} /\ member'[s][f] = "COMPLETED"
      BY <1>6, <2>2, <2>7, <3>1 DEF EventType
    <3>3. Witnessed(ins, {v}, "COMPLETED")
      BY <1>1, <2>3, <2>4, <3>1 DEF Witnessed
    <3> QED BY <3>2, <3>3
  <2> QED BY <2>5, <2>6, <2>7 DEF EventType
<1>9. PartsWitnessed'
  BY <1>8 DEF PartsWitnessed
<1> QED BY <1>3, <1>5, <1>7, <1>9 DEF EventInv

LEMMA CommitEvents ==
  ASSUME TripInv, EventInv, NEW e \in Staff, startTrip(e) \/ completeTrip(e) PROVE EventInv'
<1> PICK t : t = tripTx[e].trip
  OBVIOUS
<1>1. tripTx[e] \in TripTx /\ tripTx[e] # NoTrip /\ t \in Trips /\ Current(e, t)
  BY DEF startTrip, completeTrip, TripInv, RowsTyped, ReadIsCurrent, TripTx
<1>2. trip[t] \in TripRow /\ trip[t] # NoTrip
  BY <1>1 DEF Current, TripInv, RowsTyped
<1>3. \A s \in Trips : trip'[s] = NoTrip => trip[s] = NoTrip
  <2>1. ASSUME NEW status \in TripStatus, trip' = [trip EXCEPT ![t].status = status]
        PROVE  \A s \in Trips : trip'[s] = NoTrip => trip[s] = NoTrip
    <3>1. [trip[t] EXCEPT !.status = status] \in TripRow
      BY <1>2 DEF TripRow
    <3>2. \A s \in Trips : trip'[s] = IF s = t THEN [trip[t] EXCEPT !.status = status] ELSE trip[s]
      BY <2>1 DEF TripInv, RowsTyped
    <3> QED BY <3>1, <3>2, TripAssumption
  <2>2. trip' = trip \/ \E status \in TripStatus : trip' = [trip EXCEPT ![t].status = status]
    BY DEF startTrip, completeTrip, TripStatus
  <2> QED BY <2>1, <2>2
<1>4. CASE startTrip(e)
  <2>1. member[t][e] = "ASSIGNED"
    BY <1>1, <1>4 DEF startTrip, Current, canStartBusinessTripMember
  <2>2. Recorded(e, t, "CHECK_IN", "IN_PROGRESS")
    BY <1>2, <1>3, <1>4 DEF startTrip, Recorded
  <2> QED BY <1>1, <2>1, <2>2, RecordedEvents DEF EventType
<1>5. CASE completeTrip(e)
  <2>1. member[t][e] = "IN_PROGRESS"
    BY <1>1, <1>5 DEF completeTrip, Current
  <2>2. Recorded(e, t, "CHECK_OUT", "COMPLETED")
    BY <1>2, <1>3, <1>5 DEF completeTrip, Recorded
  <2> QED BY <1>1, <2>1, <2>2, RecordedEvents DEF EventType
<1> QED BY <1>4, <1>5

LEMMA NextEvents == ASSUME TripInv, EventInv, [TripNext]_tripVars PROVE EventInv'
<1>1. ASSUME UNCHANGED <<dayVars, trip, member>> PROVE EventInv'
  <2>1. EmptyUntilDrafted' /\ \A t \in Trips, e \in Staff : Quiet(member[t][e], member'[t][e])
    BY <1>1 DEF EventInv, EmptyUntilDrafted, Quiet
  <2> QED BY <1>1, <2>1, QuietEvents
<1>2. CASE TripStep
  <2>1. ASSUME NEW e \in Staff, NEW t \in Trips,
               lockToStart(e, t) \/ \E image, captured \in BOOLEAN : lockToComplete(e, t, image, captured)
        PROVE  EventInv'
    BY <1>1, <2>1 DEF lockToStart, lockToComplete, opened
  <2>2. ASSUME NEW e \in Staff, rollBackTrip(e) \/ changeWorking(e) PROVE EventInv'
    BY <1>1, <2>2 DEF rollBackTrip, changeWorking
  <2> QED BY <1>2, <2>1, <2>2, DraftEvents, TransitionEvents, CommitEvents DEF TripStep
<1>3. CASE OfficeStep /\ UNCHANGED <<trip, member, working, tripTx>>
  BY <1>3, OfficeEvents
<1>4. CASE UNCHANGED tripVars
  BY <1>1, <1>4 DEF tripVars
<1> QED BY <1>2, <1>3, <1>4 DEF TripNext

(* The attendance events agree with the work they stand for: one check-in  *)
(* and one later check-out of a trip's part as far as it has come, and no  *)
(* day of the office that ends without having begun (start, complete,      *)
(* AttendanceService.record).                                              *)
THEOREM EventsFollowWork == TripSpec => []EventsMatchWork
<1>1. TripInit => TripInv /\ EventInv
  BY InitTripInv, InitEvents
<1>2. TripInv /\ EventInv /\ [TripNext]_tripVars => (TripInv /\ EventInv)'
  BY NextTripInv, NextEvents
<1>3. TripInv /\ EventInv => EventsMatchWork
  BY WitnessedParts, FollowedOuts DEF EventsMatchWork
<1> QED BY <1>1, <1>2, <1>3, PTL DEF TripSpec

(* Trips, memberships, transactions and events keep their types.           *)
THEOREM TripTypes == TripSpec => []TripTypeOK
<1>1. TripInit => TripInv /\ EventInv /\ working \subseteq Staff
  BY InitTripInv, InitEvents DEF TripInit
<1>2. TripInv /\ EventInv /\ working \subseteq Staff /\ [TripNext]_tripVars => (TripInv /\ EventInv /\ working \subseteq Staff)'
  <2>1. ASSUME working \subseteq Staff, [TripNext]_tripVars PROVE working' \subseteq Staff
    <3>1. TripStep => working' \subseteq Staff
      <4>1. ASSUME NEW e \in Staff, changeWorking(e) PROVE working' \subseteq Staff
        BY <2>1, <4>1 DEF changeWorking
      <4>2. ASSUME NEW e \in Staff, startTrip(e) \/ completeTrip(e) \/ rollBackTrip(e) PROVE working' = working
        BY <4>2 DEF startTrip, completeTrip, rollBackTrip
      <4>3. ASSUME NEW e \in Staff, NEW t \in Trips, NEW image, NEW captured,
                   lockToStart(e, t) \/ lockToComplete(e, t, image, captured)
            PROVE  working' = working
        BY <4>3 DEF lockToStart, lockToComplete, opened
      <4>4. ASSUME NEW t \in Trips, NEW ids, NEW e, NEW photo, createTrip(t, ids, e, photo) \/ updateTrip(t, ids, e, photo)
            PROVE  working' = working
        BY <4>4 DEF createTrip, updateTrip
      <4>5. ASSUME NEW t \in Trips, NEW to, transitionTrip(t, to) PROVE working' = working
        BY <4>5 DEF transitionTrip
      <4> QED BY <2>1, <4>1, <4>2, <4>3, <4>4, <4>5 DEF TripStep
    <3> QED BY <2>1, <3>1 DEF TripNext, tripVars
  <2> QED BY <2>1, NextTripInv, NextEvents
<1>3. TripInv /\ EventInv /\ working \subseteq Staff => TripTypeOK
  BY DEF TripInv, EventInv, RowsTyped, EventsTyped, TripTypeOK
<1> QED BY <1>1, <1>2, <1>3, PTL DEF TripSpec

=============================================================================
