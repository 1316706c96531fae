------------------------------- MODULE TripsPage -------------------------------
(***************************************************************************)
(* The page of business trips of the Admin web (dashboard/business-trips/  *)
(* page.tsx), with the customers it keeps (BusinessTripsService).  What    *)
(* the Backend holds changes while the page shows what it last loaded.     *)
(* Of a trip only its status and its people are kept (BusinessTrips has    *)
(* the rest), of a customer whether it is in use.  Filters of the lists    *)
(* and histories are left out.                                             *)
(***************************************************************************)
EXTENDS FiniteSets

CONSTANTS
  Crew,            \* employees, all active
  Offices,         \* departments
  officeOf,        \* the primary one of each employee
  Tickets,         \* ids of trips
  Clinics,         \* ids of customers
  Nothing

ASSUME TripsPageAssumption ==
  officeOf \in [Crew -> Offices] /\ Nothing \notin Crew \cup Offices \cup Tickets \cup Clinics

VARIABLES
  ticket,          \* business_trips at the Backend
  clinic,          \* customers at the Backend
  shown,           \* what the page last loaded of both
  tripForm,        \* the editor of trips
  clinicForm,      \* the customer being edited
  tripAsked,       \* what the open dialog leads to
  tripWrite        \* the save under way; its buttons are disabled meanwhile

tripsPageVars == <<ticket, clinic, shown, tripForm, clinicForm, tripAsked, tripWrite>>

Ticket == [status: {"NONE", "DRAFT", "ASSIGNED", "IN_PROGRESS", "COMPLETED", "CANCELLED"},
           responsible: Crew \cup {Nothing}, team: SUBSET Crew]
NoTicket == [status |-> "NONE", responsible |-> Nothing, team |-> {}]
Clinic == {"NONE", "USED", "STOPPED"}
TripForm == [editing: Tickets \cup {Nothing}, office: Offices \cup {Nothing},
             responsible: Crew \cup {Nothing}, team: SUBSET Crew, dirty: BOOLEAN]
NoForm == [editing |-> Nothing, office |-> Nothing, responsible |-> Nothing, team |-> {}, dirty |-> FALSE]
TripQuestion == [next: {"none", "discard", "ASSIGNED", "CANCELLED"}, of: Tickets \cup {Nothing}, form: TripForm]
NoTripQuestion == [next |-> "none", of |-> Nothing, form |-> NoForm]
TripWrite == [kind: {"none", "trip", "ASSIGNED", "CANCELLED", "customer", "toggle"},
              of: Tickets \cup Clinics \cup {Nothing}, responsible: Crew \cup {Nothing},
              team: SUBSET Crew, at: {"sent", "loading"}]
NoTripWrite == [kind |-> "none", of |-> Nothing, responsible |-> Nothing, team |-> {}, at |-> "sent"]

(* The Backend and the page keep their types.                              *)
TripsPageTypeOK ==
  /\ ticket \in [Tickets -> Ticket] /\ clinic \in [Clinics -> Clinic]
  /\ shown \in [tickets: [Tickets -> Ticket], clinics: [Clinics -> Clinic]]
  /\ tripForm \in TripForm /\ clinicForm \in Clinics \cup {Nothing}
  /\ tripAsked \in TripQuestion /\ tripWrite \in TripWrite

TripsPageInit ==
  /\ ticket = [t \in Tickets |-> NoTicket] /\ clinic = [k \in Clinics |-> "NONE"]
  /\ shown = [tickets |-> ticket, clinics |-> clinic]
  /\ tripForm = NoForm /\ clinicForm = Nothing
  /\ tripAsked = NoTripQuestion /\ tripWrite = NoTripWrite

pageFree == tripAsked = NoTripQuestion
tripSaving == tripWrite.kind # "none"
backend == <<ticket, clinic>>

------------------------------------------------------------------------------
(* The editor of trips *)

candidateEmployees == {e \in Crew : tripForm.office \in {Nothing, officeOf[e]}}
responsibleOptions == candidateEmployees \cup {tripForm.responsible}

fill(form) ==
  /\ pageFree
  /\ tripForm' = form
  /\ UNCHANGED <<backend, shown, clinicForm, tripAsked, tripWrite>>

(* Any other field of the form.                                            *)
typeTrip == fill([tripForm EXCEPT !.dirty = TRUE])

(* A responsible who is not of the department is no longer shown.          *)
changeDepartment(d) ==
  fill([tripForm EXCEPT !.office = d, !.dirty = TRUE,
                        !.responsible = IF @ # Nothing /\ d \notin {Nothing, officeOf[@]} THEN Nothing ELSE @])

changeResponsible(e) ==
  /\ e \in responsibleOptions \cup {Nothing}
  /\ fill([tripForm EXCEPT !.responsible = e, !.dirty = TRUE, !.team = @ \cup ({e} \cap Crew)])

(* Mutant: any member may be unticked *)
mayUntickAny(e) == e \in candidateEmployees

mayToggle(e) == e \in candidateEmployees /\ e # tripForm.responsible

toggleMember(e) ==
  /\ mayToggle(e)
  /\ fill([tripForm EXCEPT !.dirty = TRUE, !.team = IF e \in @ THEN @ \ {e} ELSE @ \cup {e}])

(* What the editor becomes for a trip of the list; *)
editTrip(t) ==
  [editing |-> t, dirty |-> FALSE, responsible |-> shown.tickets[t].responsible, team |-> shown.tickets[t].team,
   office |-> IF shown.tickets[t].responsible = Nothing THEN Nothing ELSE officeOf[shown.tickets[t].responsible]]

resetTripEditor == NoForm

(* and how it gets there, past the unsaved changes of another: with the    *)
(* trip as it was shown when it was chosen.                                *)
confirmDiscardTrip(form) ==
  /\ pageFree
  /\ IF tripForm.dirty
       THEN tripAsked' = [next |-> "discard", of |-> Nothing, form |-> form] /\ UNCHANGED tripForm
       ELSE tripForm' = form /\ UNCHANGED tripAsked
  /\ UNCHANGED <<backend, shown, clinicForm, tripWrite>>

beginTripEdit(t) == shown.tickets[t].status = "DRAFT" /\ confirmDiscardTrip(editTrip(t))
cancelTripEdit == tripForm.editing # Nothing /\ confirmDiscardTrip(resetTripEditor)

------------------------------------------------------------------------------
(* Saves *)

sendTrip(kind, of, responsible, team) ==
  /\ ~tripSaving
  /\ tripWrite' = [kind |-> kind, of |-> of, responsible |-> responsible, team |-> team, at |-> "sent"]

saveTrip ==
  /\ pageFree /\ tripForm.responsible # Nothing /\ tripForm.team # {}
  /\ sendTrip("trip", tripForm.editing, tripForm.responsible, tripForm.team)
  /\ UNCHANGED <<backend, shown, tripForm, clinicForm, tripAsked>>

before(status) == IF status = "ASSIGNED" THEN {"DRAFT"} ELSE {"DRAFT", "ASSIGNED", "IN_PROGRESS"}

(* Assigning and cancelling ask first.                                     *)
transitionOf(t, status) ==
  /\ pageFree /\ ~tripSaving
  /\ shown.tickets[t].status \in before(status)
  /\ tripAsked' = [next |-> status, of |-> t, form |-> NoForm]
  /\ UNCHANGED <<backend, shown, tripForm, clinicForm, tripWrite>>

closeTripDialog(confirmed) ==
  /\ ~pageFree /\ tripAsked' = NoTripQuestion
  /\ tripForm' = IF confirmed /\ tripAsked.next = "discard" THEN tripAsked.form ELSE tripForm
  /\ IF confirmed /\ tripAsked.next \in {"ASSIGNED", "CANCELLED"}
       THEN sendTrip(tripAsked.next, tripAsked.of, Nothing, {}) ELSE UNCHANGED tripWrite
  /\ UNCHANGED <<backend, shown, clinicForm>>

beginCustomerEdit(k) ==
  /\ pageFree /\ shown.clinics[k] # "NONE" /\ clinicForm' = k
  /\ UNCHANGED <<backend, shown, tripForm, tripAsked, tripWrite>>

cancelCustomerEdit ==
  /\ pageFree /\ clinicForm # Nothing /\ clinicForm' = Nothing
  /\ UNCHANGED <<backend, shown, tripForm, tripAsked, tripWrite>>

saveCustomer ==
  /\ pageFree /\ sendTrip("customer", clinicForm, Nothing, {})
  /\ UNCHANGED <<backend, shown, tripForm, clinicForm, tripAsked>>

toggleCustomer(k) ==
  /\ pageFree /\ shown.clinics[k] # "NONE"
  /\ sendTrip("toggle", k, Nothing, {})
  /\ UNCHANGED <<backend, shown, tripForm, clinicForm, tripAsked>>

------------------------------------------------------------------------------
(* The Backend, and what the page does with its answer *)

assertTeam(responsible, team) == responsible \in team

(* A trip is created, or updated while it is a draft.                      *)
storeTrip(t) ==
  /\ assertTeam(tripWrite.responsible, tripWrite.team)
  /\ IF tripWrite.of = Nothing THEN ticket[t].status = "NONE"
     ELSE t = tripWrite.of /\ ticket[t].status = "DRAFT"
  /\ ticket' = [ticket EXCEPT ![t] =
       [status |-> "DRAFT", responsible |-> tripWrite.responsible, team |-> tripWrite.team]]
  /\ tripForm' = resetTripEditor
  /\ UNCHANGED <<clinic, clinicForm>>

storeStatus(t) ==
  /\ t = tripWrite.of
  /\ ticket[t].status \in before(tripWrite.kind)
  /\ ticket' = [ticket EXCEPT ![t].status = tripWrite.kind]
  /\ UNCHANGED <<clinic, tripForm, clinicForm>>

createCustomer(k) ==
  /\ tripWrite.of = Nothing /\ clinic[k] = "NONE"
  /\ clinic' = [clinic EXCEPT ![k] = "USED"]

(* The page sends the contrary of what it shows, or leaves it alone.       *)
updateCustomer(k) ==
  /\ tripWrite.of = k
  /\ clinic' = [clinic EXCEPT ![k] =
       IF tripWrite.kind = "customer" THEN @ ELSE IF shown.clinics[k] = "USED" THEN "STOPPED" ELSE "USED"]

storeCustomer(k) ==
  /\ createCustomer(k) \/ updateCustomer(k)
  /\ clinicForm' = IF tripWrite.kind = "customer" \/ clinicForm = k THEN Nothing ELSE clinicForm
  /\ UNCHANGED <<ticket, tripForm>>

stored ==
  /\ tripWrite.at = "sent"
  /\ \/ tripWrite.kind = "trip" /\ \E t \in Tickets : storeTrip(t)
     \/ tripWrite.kind \in {"ASSIGNED", "CANCELLED"} /\ \E t \in Tickets : storeStatus(t)
     \/ tripWrite.kind \in {"customer", "toggle"} /\ \E k \in Clinics : storeCustomer(k)
  /\ tripWrite' = [tripWrite EXCEPT !.at = "loading"]
  /\ UNCHANGED <<shown, tripAsked>>

(* Refused, or no answer.                                                  *)
notStored ==
  /\ tripSaving /\ tripWrite.at = "sent" /\ tripWrite' = NoTripWrite
  /\ UNCHANGED <<backend, shown, tripForm, clinicForm, tripAsked>>

loadTrips(answered) ==
  /\ tripWrite.at = "loading" /\ tripWrite' = NoTripWrite
  /\ shown' = IF answered THEN [tickets |-> ticket, clinics |-> clinic] ELSE shown
  /\ UNCHANGED <<backend, tripForm, clinicForm, tripAsked>>

(* The page of another Admin, or the members of the trip.                  *)
elsewhere(t) ==
  /\ \E status \in {"ASSIGNED", "IN_PROGRESS", "COMPLETED", "CANCELLED"} :
       /\ ticket[t].status \in CASE status = "IN_PROGRESS" -> {"ASSIGNED"}
                                 [] status = "COMPLETED" -> {"IN_PROGRESS"}
                                 [] OTHER -> before(status)
       /\ ticket' = [ticket EXCEPT ![t].status = status]
  /\ UNCHANGED <<clinic, shown, tripForm, clinicForm, tripAsked, tripWrite>>

TripsPageNext ==
  \/ typeTrip \/ saveTrip \/ cancelTripEdit \/ cancelCustomerEdit \/ saveCustomer \/ stored \/ notStored
  \/ \E d \in Offices \cup {Nothing} : changeDepartment(d)
  \/ \E e \in Crew \cup {Nothing} : changeResponsible(e) \/ (e \in Crew /\ toggleMember(e))
  \/ \E t \in Tickets : beginTripEdit(t) \/ elsewhere(t) \/ transitionOf(t, "ASSIGNED") \/ transitionOf(t, "CANCELLED")
  \/ \E k \in Clinics : beginCustomerEdit(k) \/ toggleCustomer(k)
  \/ \E yes \in BOOLEAN : closeTripDialog(yes) \/ loadTrips(yes)

TripsPageSpec == TripsPageInit /\ [][TripsPageNext]_tripsPageVars

------------------------------------------------------------------------------
(* The person responsible is always one of the members that are ticked,    *)
(* whatever departments are filtered, people unticked and trips opened     *)
(* while an answer is awaited, so that the Backend never refuses the team  *)
(* that the page offers (changeResponsible, toggleMember, beginTripEdit).  *)
ResponsibleIsMember ==
  /\ tripForm.responsible # Nothing => tripForm.responsible \in tripForm.team
  /\ tripWrite.kind = "trip" => assertTeam(tripWrite.responsible, tripWrite.team)

=============================================================================
