---------------------------- MODULE EmployeeLifecycle ----------------------------
(***************************************************************************)
(* The profile of an employee, his account, and his places in the          *)
(* organisation (EmployeesService).  update and changeStatus read the      *)
(* profile without a lock, and save writes every column in which what was  *)
(* read, with its changes, differs from the row by then: what another      *)
(* transaction committed in between is written back.  Both are cut there.  *)
(* Every profile has an account and a date of hiring here; names,          *)
(* positions, managers, branch scopes and passwords are left out.          *)
(***************************************************************************)
EXTENDS Integers, FiniteSets

CONSTANTS
  Profiles,      \* employees, created or not
  Units,         \* <<branch, department>> pairs
  Editors,       \* calls under way at once (a bound)
  FinalDay,      \* bound of the calendar
  MaxHomes,      \* bound of the rows of places
  NoProfile

ASSUME LifecycleAssumption == FinalDay \in Nat /\ MaxHomes \in Nat /\ NoProfile \notin Units

VARIABLES
  today,
  profile,       \* employees
  accountActive, \* users.is_active of the account of each
  home,          \* employee_organization_assignments
  edits        \* the transaction of each editor

lifecycleVars == <<today, profile, accountActive, home, edits>>

CalendarDays == 0..FinalDay
Unended == FinalDay + 1
ProfileRow == [active: BOOLEAN, unit: Units, hired: CalendarDays, endDate: CalendarDays \cup {Unended}]
HomeRow == [employee: Profiles, unit: Units, primary: BOOLEAN, from: CalendarDays, to: CalendarDays \cup {Unended}]
NoEdit == [op |-> "NONE"]

(* Profiles, accounts, places and transactions keep their types.           *)
LifecycleTypeOK ==
  /\ today \in CalendarDays
  /\ profile \in [Profiles -> ProfileRow \cup {NoProfile}]
  /\ accountActive \in [Profiles -> BOOLEAN]
  /\ home \subseteq HomeRow /\ \A h \in home : h.from <= h.to
  /\ \A d \in Editors : edits[d].op # "NONE" =>
       edits[d].employee \in Profiles /\ edits[d].row \in ProfileRow

LifecycleInit ==
  /\ today \in CalendarDays
  /\ profile = [e \in Profiles |-> NoProfile]
  /\ accountActive = [e \in Profiles |-> FALSE]
  /\ home = {}
  /\ edits = [d \in Editors |-> NoEdit]

homeOn(e, day) == {h.unit : h \in {g \in home : g.employee = e /\ g.from <= day /\ day <= g.to}}

validateAssignments(primary, units) == primary \in units
placed(e, primary, units, from) ==
  {[employee |-> e, unit |-> u, primary |-> u = primary, from |-> from, to |-> Unended] : u \in units}

createEmployee(e, primary, units, hired) ==
  /\ profile[e] = NoProfile
  /\ validateAssignments(primary, units)
  /\ profile' = [profile EXCEPT ![e] =
       [active |-> TRUE, unit |-> primary, hired |-> hired, endDate |-> Unended]]
  /\ accountActive' = [accountActive EXCEPT ![e] = TRUE]
  /\ home' = home \cup placed(e, primary, units, hired)
  /\ UNCHANGED <<today, edits>>

readProfile(d, e, edit) ==
  /\ edits[d] = NoEdit /\ profile[e] # NoProfile
  /\ edits' = [edits EXCEPT ![d] = edit]
  /\ UNCHANGED <<today, profile, accountActive, home>>

(* A change of places, or of the date of hiring.                           *)
readToMove(d, e, primary, units) ==
  /\ validateAssignments(primary, units)
  /\ readProfile(d, e, [op |-> "move", employee |-> e, row |-> [profile[e] EXCEPT !.unit = primary],
                        units |-> units])
readToEdit(d, e, hired) ==
  readProfile(d, e, [op |-> "edit", employee |-> e, row |-> [profile[e] EXCEPT !.hired = hired]])

ended(h, day) == [h EXCEPT !.to = IF h.from < day THEN day - 1 ELSE h.from]

(* Mutant: the new places begin on the date of hiring *)
movedSinceHiring(e, row, units) ==
  LET current == {h \in home : h.employee = e /\ h.to = Unended}
  IN (home \ current) \cup {ended(h, today) : h \in current} \cup placed(e, row.unit, units, row.hired)

moved(e, row, units) ==
  LET current == {h \in home : h.employee = e /\ h.to = Unended}
  IN (home \ current) \cup {ended(h, today) : h \in current} \cup placed(e, row.unit, units, today)

updateEmployee(d) ==
  LET t == edits[d]
  IN /\ t.op \in {"move", "edit"}
     /\ profile' = [profile EXCEPT ![t.employee] = t.row]
     /\ home' = IF t.op = "move" THEN moved(t.employee, t.row, t.units) ELSE home
     /\ edits' = [edits EXCEPT ![d] = NoEdit]
     /\ UNCHANGED <<today, accountActive>>

readToChangeStatus(d, e, effective) ==
  LET row == profile[e]
  IN /\ effective <= today
     /\ IF row.active THEN effective >= row.hired
        ELSE row.endDate # Unended => effective >= row.endDate
     /\ readProfile(d, e, [op |-> "status", employee |-> e,
          row |-> [row EXCEPT !.active = ~row.active, !.endDate = IF row.active THEN effective ELSE Unended]])

changeEmployeeStatus(d) ==
  LET t == edits[d]
  IN /\ t.op = "status"
     /\ profile' = [profile EXCEPT ![t.employee] = t.row]
     /\ accountActive' = [accountActive EXCEPT ![t.employee] = t.row.active]
     /\ edits' = [edits EXCEPT ![d] = NoEdit]
     /\ UNCHANGED <<today, home>>

rollBackEdit(d) ==
  /\ edits[d] # NoEdit
  /\ edits' = [edits EXCEPT ![d] = NoEdit]
  /\ UNCHANGED <<today, profile, accountActive, home>>

NewDay ==
  /\ today' = today + 1 /\ today' \in CalendarDays
  /\ UNCHANGED <<profile, accountActive, home, edits>>

LifecycleNext ==
  \/ \E e \in Profiles, primary \in Units, units \in SUBSET Units :
       \/ \E hired \in CalendarDays : createEmployee(e, primary, units, hired)
       \/ \E d \in Editors : readToMove(d, e, primary, units)
  \/ \E d \in Editors, e \in Profiles, day \in CalendarDays :
       readToEdit(d, e, day) \/ (profile[e] # NoProfile /\ readToChangeStatus(d, e, day))
  \/ \E d \in Editors : \/ updateEmployee(d) /\ Cardinality(home') <= MaxHomes
                        \/ changeEmployeeStatus(d) \/ rollBackEdit(d)
  \/ NewDay

LifecycleSpec == LifecycleInit /\ [][LifecycleNext]_lifecycleVars

------------------------------------------------------------------------------
(* Where an employee has worked on the days before today is never          *)
(* rewritten: not by a change of places, and not by two at once (update,   *)
(* saveAssignments).  Reports of closed days follow the places of the day. *)
pastHomesKept ==
  \A e \in Profiles : profile[e] # NoProfile =>
    \A day \in 0..(today - 1) : homeOn(e, day)' = homeOn(e, day)

(* A profile is active exactly when its account is: leaving locks both,    *)
(* and coming back opens both.                                             *)
ProfileAndAccountAgree ==
  \A e \in Profiles : profile[e] # NoProfile => profile[e].active = accountActive[e]

=============================================================================
