----------------------------- MODULE BusinessTrips -----------------------------
(***************************************************************************)
(* Business trips (modules/business-trips): an Admin drafts a trip, edits  *)
(* its members, assigns or cancels it; each member starts and completes    *)
(* his part, which checks him in and out.  Every handler is a transaction  *)
(* that first locks the row of the trip.  start and complete are two steps *)
(* here, the lock with what is read under it and the writes with the       *)
(* commit, so that what the lock keeps apart can be seen.                  *)
(* Customers, codes and the text of a trip are left out.                   *)
(***************************************************************************)

EXTENDS AttendanceDay

CONSTANTS Trips

NoTrip == Office      \* no row, no membership, no transaction

VARIABLES
  trip,       \* the row of each trip, or NoTrip
  member,     \* the participation of each employee, or NoTrip
  working,    \* active employees
  tripTx      \* the transaction of each employee: what he is doing to which trip

tripVars == <<dayVars, trip, member, working, tripTx>>

TripStatus == {"DRAFT", "ASSIGNED", "IN_PROGRESS", "COMPLETED", "CANCELLED"}
Participation == {"ASSIGNED", "IN_PROGRESS", "COMPLETED", "CANCELLED"}
TripRow == [status: TripStatus, responsible: Staff, requiresPhoto: BOOLEAN]
TripTx == [op: {"start", "complete"}, trip: Trips, status: TripStatus, others: SUBSET Participation]
AnyEvent == [employee: Staff, type: EventType, time: 0..LastTick, trip: Trips \cup {Office}]

ASSUME TripAssumption == NoTrip \notin Trips \cup TripRow \cup TripTx \cup Participation

(* Trips, memberships, transactions and events keep their types.           *)
TripTypeOK ==
  /\ clock \in 0..LastTick
  /\ checking \subseteq OfficeEvent
  /\ events \subseteq AnyEvent
  /\ trip \in [Trips -> TripRow \cup {NoTrip}]
  /\ member \in [Trips -> [Staff -> Participation \cup {NoTrip}]]
  /\ working \subseteq Staff
  /\ tripTx \in [Staff -> TripTx \cup {NoTrip}]

TripInit ==
  /\ DayInit
  /\ trip = [t \in Trips |-> NoTrip]
  /\ member = [t \in Trips |-> [e \in Staff |-> NoTrip]]
  /\ working = Staff
  /\ tripTx = [e \in Staff |-> NoTrip]

membersOf(t) == {e \in Staff : member[t][e] # NoTrip}

(* Mutant: the row of the trip is read without FOR UPDATE *)
neverLocked(t) == TRUE

unlocked(t) == t \notin {tripTx[e].trip : e \in {f \in Staff : tripTx[f] # NoTrip}}

assertMembers(ids, responsible) == responsible \in ids /\ ids \subseteq working
assigned(t, ids) ==
  [member EXCEPT ![t] = [e \in Staff |-> IF e \in ids THEN "ASSIGNED" ELSE NoTrip]]

createTrip(t, ids, responsible, photo) ==
  /\ trip[t] = NoTrip
  /\ assertMembers(ids, responsible)
  /\ trip' = [trip EXCEPT ![t] =
       [status |-> "DRAFT", responsible |-> responsible, requiresPhoto |-> photo]]
  /\ member' = assigned(t, ids)
  /\ UNCHANGED <<dayVars, working, tripTx>>

(* Members that the input leaves out stay, and are checked again.          *)
updateTrip(t, ids, responsible, photo) ==
  /\ trip[t] # NoTrip /\ unlocked(t)
  /\ trip[t].status = "DRAFT"
  /\ assertMembers(ids, responsible)
  /\ trip' = [trip EXCEPT ![t].responsible = responsible, ![t].requiresPhoto = photo]
  /\ member' = assigned(t, ids)
  /\ UNCHANGED <<dayVars, working, tripTx>>

canTransitionBusinessTrip(from, to) ==
  <<from, to>> \in {<<"DRAFT", "ASSIGNED">>, <<"DRAFT", "CANCELLED">>,
                    <<"ASSIGNED", "IN_PROGRESS">>, <<"ASSIGNED", "CANCELLED">>,
                    <<"IN_PROGRESS", "COMPLETED">>, <<"IN_PROGRESS", "CANCELLED">>}

(* An Admin may only ask for ASSIGNED and CANCELLED.                       *)
transitionTrip(t, to) ==
  /\ trip[t] # NoTrip /\ unlocked(t)
  /\ canTransitionBusinessTrip(trip[t].status, to)
  /\ trip' = [trip EXCEPT ![t].status = to]
  /\ member' = IF to = "CANCELLED"
       THEN [member EXCEPT ![t] = [e \in Staff |->
              IF member[t][e] \in {NoTrip, "COMPLETED"} THEN member[t][e] ELSE "CANCELLED"]]
       ELSE member
  /\ UNCHANGED <<dayVars, working, tripTx>>

(* Mutant: a member may start again what he started or completed *)
canStartAgain(status, participation) == status \in {"ASSIGNED", "IN_PROGRESS"}

canStartBusinessTripMember(status, participation) ==
  status \in {"ASSIGNED", "IN_PROGRESS"} /\ participation = "ASSIGNED"

canCompleteBusinessTripMember(participation) == participation = "IN_PROGRESS"

(* A photograph has a reference and a time or neither, and both when asked.*)
hasValidBusinessTripEvidence(requiresPhoto, image, captured) ==
  image = captured /\ (requiresPhoto => image)

opened(e, op, t) ==
  /\ tripTx[e] = NoTrip /\ e \in working
  /\ trip[t] # NoTrip /\ unlocked(t) /\ e \in membersOf(t)
  /\ tripTx' = [tripTx EXCEPT ![e] =
       [op |-> op, trip |-> t, status |-> trip[t].status,
        others |-> {member[t][f] : f \in membersOf(t) \ {e}}]]
  /\ UNCHANGED <<dayVars, trip, member, working>>

lockToStart(e, t) ==
  /\ opened(e, "start", t)
  /\ canStartBusinessTripMember(trip[t].status, member[t][e])

(* The statuses of the others are read after this member's row is written, *)
(* still under the lock of the trip.                                       *)
lockToComplete(e, t, image, captured) ==
  /\ opened(e, "complete", t)
  /\ canCompleteBusinessTripMember(member[t][e])
  /\ hasValidBusinessTripEvidence(trip[t].requiresPhoto, image, captured)

startTrip(e) ==
  LET t == tripTx[e].trip
  IN /\ tripTx[e] # NoTrip /\ tripTx[e].op = "start"
     /\ Tick
     /\ member' = [member EXCEPT ![t][e] = "IN_PROGRESS"]
     /\ events' = events \cup {Event(e, "CHECK_IN", t)}
     /\ trip' = IF tripTx[e].status = "ASSIGNED" THEN [trip EXCEPT ![t].status = "IN_PROGRESS"] ELSE trip
     /\ tripTx' = [tripTx EXCEPT ![e] = NoTrip]
     /\ UNCHANGED <<working, checking>>

shouldCompleteBusinessTrip(others) == others \subseteq {"COMPLETED"}

completeTrip(e) ==
  LET t == tripTx[e].trip
  IN /\ tripTx[e] # NoTrip /\ tripTx[e].op = "complete"
     /\ Tick
     /\ member' = [member EXCEPT ![t][e] = "COMPLETED"]
     /\ events' = events \cup {Event(e, "CHECK_OUT", t)}
     /\ trip' = IF shouldCompleteBusinessTrip(tripTx[e].others)
                  THEN [trip EXCEPT ![t].status = "COMPLETED"] ELSE trip
     /\ tripTx' = [tripTx EXCEPT ![e] = NoTrip]
     /\ UNCHANGED <<working, checking>>

(* A transaction that ends without a commit.                               *)
rollBackTrip(e) ==
  /\ tripTx[e] # NoTrip
  /\ tripTx' = [tripTx EXCEPT ![e] = NoTrip]
  /\ UNCHANGED <<dayVars, trip, member, working>>

changeWorking(e) ==
  /\ working' = IF e \in working THEN working \ {e} ELSE working \cup {e}
  /\ UNCHANGED <<dayVars, trip, member, tripTx>>

TripStep ==
  \/ \E t \in Trips, ids \in SUBSET Staff, e \in Staff, photo \in BOOLEAN :
       createTrip(t, ids, e, photo) \/ updateTrip(t, ids, e, photo)
  \/ \E t \in Trips, to \in {"ASSIGNED", "CANCELLED"} : transitionTrip(t, to)
  \/ \E e \in Staff, t \in Trips :
       lockToStart(e, t) \/ \E image, captured \in BOOLEAN : lockToComplete(e, t, image, captured)
  \/ \E e \in Staff : startTrip(e) \/ completeTrip(e) \/ rollBackTrip(e) \/ changeWorking(e)

TripNext == (OfficeStep /\ UNCHANGED <<trip, member, working, tripTx>>) \/ TripStep

TripSpec == TripInit /\ [][TripNext]_tripVars

------------------------------------------------------------------------------
(* The status of a trip says what its members did: nobody has begun before *)
(* it is in progress, it is completed exactly when all are, also when the  *)
(* last two complete at once, and a cancelled one has nobody under way.    *)
StatusMatchesMembers(t) ==
  LET parts == {member[t][e] : e \in membersOf(t)}
  IN CASE trip[t].status \in {"DRAFT", "ASSIGNED"} -> parts = {"ASSIGNED"}
       [] trip[t].status = "IN_PROGRESS" ->
            parts \subseteq {"ASSIGNED", "IN_PROGRESS", "COMPLETED"} /\ parts \notin {{"ASSIGNED"}, {"COMPLETED"}}
       [] trip[t].status = "COMPLETED" -> parts = {"COMPLETED"}
       [] trip[t].status = "CANCELLED" -> parts \subseteq {"CANCELLED", "COMPLETED"}
TripStatusMatchesMembers ==
  \A t \in Trips : trip[t] # NoTrip =>
    trip[t].responsible \in membersOf(t) /\ StatusMatchesMembers(t)

(* The attendance events of a trip follow the participation: one check-in  *)
(* once begun and one later check-out once completed, none otherwise, and  *)
(* none for people who are not members, whoever was replaced in the draft. *)
tripTimes(t, e, type) == {v.time : v \in {w \in events : w.trip = t /\ w.employee = e /\ w.type = type}}
TripEventsMatchParticipation ==
  \A t \in Trips, e \in Staff :
    LET ins == tripTimes(t, e, "CHECK_IN")
        outs == tripTimes(t, e, "CHECK_OUT")
    IN /\ Cardinality(ins) <= 1 /\ Cardinality(outs) <= 1
       /\ member[t][e] \in {"IN_PROGRESS", "COMPLETED"} => ins # {}
       /\ member[t][e] \in {"ASSIGNED", NoTrip} => ins = {}
       /\ outs # {} <=> member[t][e] = "COMPLETED"
       /\ \A i \in ins, o \in outs : i < o

(* The events of a day agree with the work they stand for, of trips and of *)
(* the office alike, since both write the same table (start, complete,     *)
(* AttendanceService.record).                                              *)
EventsMatchWork == TripEventsMatchParticipation /\ OfficeDayBegins

=============================================================================
