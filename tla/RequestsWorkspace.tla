--------------------------- MODULE RequestsWorkspace ---------------------------
(***************************************************************************)
(* The workspace of requests of the Admin web, as an Admin sees it:        *)
(* leave-workflow-workspace.tsx and explanations-workspace.tsx, which are  *)
(* one program but for three things: leave copies the routes of            *)
(* explanations, explanations may still wait for their employee, and a     *)
(* decision that fails also closes the drawer of explanations.             *)
(* Of a request only its step and routeVersion are kept, of a default      *)
(* route its version, of the form of a route whose it is and what the      *)
(* Admin saw; a version stands for the team and the people saved with it.  *)
(* The rules of the Backend are LeaveWorkflow's and Explanations'; here it *)
(* checks the version and the step, and no right lapses.  The dialog and   *)
(* the drawer cover the page.  Filters and audit entries are left out.     *)
(***************************************************************************)
EXTENDS Naturals, FiniteSets

CONSTANTS
  Routed,          \* employees with a default route or without
  Filed,           \* requests
  filedBy,         \* the employee of each
  Reading,         \* loads of the lists, under way at once
  MaxEdition,      \* bound of the versions
  Unloaded         \* no list, no request, no target

ASSUME WorkspaceAssumption ==
  /\ filedBy \in [Filed -> Routed] /\ MaxEdition \in Nat \ {0}
  /\ Routed \cap Filed = {} /\ Unloaded \notin Routed \cup Filed

VARIABLES
  workspace,       \* which of the two
  edition,         \* at the Backend: the version of every route (0: none) and request
  step,            \* at the Backend: approvalStage of every request
  items, routes,   \* the lists the page shows
  reading,         \* the loads under way, and what each has read
  area,            \* view: the queue or the routes
  detail,          \* detailId
  routeForm,       \* the editor of routes: editing or employeeId, and the fields
  call             \* what a click has begun: its dialog, its call, its load

workspaceVars == <<workspace, edition, step, items, routes, reading, area, detail, routeForm, call>>
atBackend == <<workspace, edition, step>>
lists == <<items, routes, reading>>

Targets == Routed \cup Filed
NextStep == {"EMPLOYEE_RESPONSE", "WAITING_ROUTING", "LEADER_CONFIRMATION", "HEAD_APPROVAL", "COMPLETED"}
Row == [version: 1..MaxEdition, step: NextStep]
Routes == [Routed -> 0..MaxEdition]
Read == [of: {"none", "first", "focus", "own"}, items: [Filed -> Row] \cup {Unloaded}, routes: Routes \cup {Unloaded}]
NoRead == [of |-> "none", items |-> Unloaded, routes |-> Unloaded]
read(of) == [NoRead EXCEPT !.of = of]
(* seen: the version whose values the fields were given;                   *)
(* of: whose route these values are; complete: all fields are chosen.      *)
RouteForm == [target: Targets \cup {Unloaded}, seen: 0..MaxEdition, of: Targets \cup {Unloaded}, complete: BOOLEAN]
EmptyForm == [target |-> Unloaded, seen |-> 0, of |-> Unloaded, complete |-> FALSE]
Call == [kind: {"none", "route", "CONFIRM", "DECIDE", "history", "copy", "refresh"},
         at: {"asking", "sent", "stored", "loading"}, target: Targets \cup {Unloaded},
         expectedVersion: 0..MaxEdition, seen: 0..MaxEdition, of: Targets \cup {Unloaded}]
NoCall == [kind |-> "none", at |-> "sent", target |-> Unloaded, expectedVersion |-> 0, seen |-> 0, of |-> Unloaded]

(* The Backend and the page keep their types.                              *)
WorkspaceTypeOK ==
  /\ workspace \in {"leave", "explanations"}
  /\ edition \in [Targets -> 0..MaxEdition] /\ step \in [Filed -> NextStep]
  /\ items \in [Filed -> Row] \cup {Unloaded} /\ routes \in Routes \cup {Unloaded}
  /\ reading \in [Reading -> Read] /\ area \in {"QUEUE", "ROUTES"} /\ detail \in Filed \cup {Unloaded}
  /\ routeForm \in RouteForm /\ call \in Call

firstSteps == IF workspace = "leave" THEN {"WAITING_ROUTING", "LEADER_CONFIRMATION"}
              ELSE {"EMPLOYEE_RESPONSE", "WAITING_ROUTING", "LEADER_CONFIRMATION"}

WorkspaceInit ==
  /\ workspace \in {"leave", "explanations"}
  /\ edition \in [Targets -> 0..1] /\ (\A i \in Filed : edition[i] = 1)
  /\ step \in [Filed -> firstSteps]
  /\ items = Unloaded /\ routes = Unloaded
  /\ \E c \in Reading : reading = [d \in Reading |-> IF d = c THEN read("first") ELSE NoRead]
  /\ area = "QUEUE" /\ detail = Unloaded /\ routeForm = EmptyForm /\ call = NoCall

------------------------------------------------------------------------------
(* What the page allows *)

(* Mutant: copying a route does not make the page busy *)
busyUnlessCopying == call.kind \notin {"none", "copy"}

pageBusy == call.kind # "none"

drawer == detail # Unloaded /\ items # Unloaded
drawerOf(i) == ~pageBusy /\ items # Unloaded /\ detail = i
openItem(i) == items # Unloaded /\ items[i].step # "COMPLETED"
queue == ~pageBusy /\ ~drawer /\ area = "QUEUE" /\ items # Unloaded
(* Only an Admin has this view, which he is known to be after a load.      *)
editor == ~pageBusy /\ ~drawer /\ area = "ROUTES" /\ routes # Unloaded

beginCall(kind, at, target, version) ==
  call' = [NoCall EXCEPT !.kind = kind, !.at = at, !.target = target, !.expectedVersion = version]

------------------------------------------------------------------------------
(* Loads of the lists *)

(* The lists go blank, the routes stay as they are.                        *)
startLoad(c, of) ==
  /\ reading[c].of = "none"
  /\ reading' = [reading EXCEPT ![c] = read(of)]
  /\ items' = Unloaded /\ detail' = Unloaded
  /\ UNCHANGED routes

(* When a call or its load fails, a route stays in the form, but a decision*)
(* is not to be sent again before the lists are loaded.                    *)
giveUp ==
  IF call.kind \in {"CONFIRM", "DECIDE"}
    THEN items' = Unloaded /\ detail' = IF workspace = "leave" THEN detail ELSE Unloaded
    ELSE UNCHANGED <<items, detail>>

focusLoad(c) ==
  /\ call.at # "asking" /\ startLoad(c, "focus")
  /\ UNCHANGED <<atBackend, area, routeForm, call>>

readLists(c) ==
  /\ reading[c].of # "none" /\ reading[c].items = Unloaded
  /\ reading' = [reading EXCEPT ![c].items = [i \in Filed |-> [version |-> edition[i], step |-> step[i]]],
                                ![c].routes = [e \in Routed |-> edition[e]]]
  /\ UNCHANGED <<atBackend, items, routes, area, detail, routeForm, call>>

(* The load of a click ends it, the others end whenever they do.           *)
loaded(c) ==
  /\ reading[c].items # Unloaded
  /\ items' = reading[c].items /\ routes' = reading[c].routes
  /\ reading' = [reading EXCEPT ![c] = NoRead]
  /\ call' = IF reading[c].of = "own" THEN NoCall ELSE call
  /\ UNCHANGED <<atBackend, area, detail, routeForm>>

loadFailed(c) ==
  /\ reading[c].of # "none"
  /\ reading' = [reading EXCEPT ![c] = NoRead]
  /\ IF reading[c].of = "own"
       THEN call' = NoCall /\ giveUp
       ELSE /\ items' = IF reading[c].of = "focus" /\ workspace = "leave" THEN Unloaded ELSE items
            /\ UNCHANGED <<call, detail>>
  /\ UNCHANGED <<atBackend, routes, area, routeForm>>

refresh(c) ==
  /\ ~pageBusy /\ ~drawer
  /\ startLoad(c, "own") /\ beginCall("refresh", "loading", Unloaded, 0)
  /\ UNCHANGED <<atBackend, area, routeForm>>

------------------------------------------------------------------------------
(* The queue and the drawer *)

showHistory(i) ==
  /\ queue /\ detail' = i /\ beginCall("history", "sent", i, 0)
  /\ UNCHANGED <<atBackend, lists, area, routeForm>>

(* The history of a request, or an error, has come.                        *)
historyShown ==
  /\ call.kind = "history" /\ call' = NoCall
  /\ UNCHANGED <<atBackend, lists, area, detail, routeForm>>

closeDetail ==
  /\ ~pageBusy /\ drawer /\ detail' = Unloaded
  /\ UNCHANGED <<atBackend, lists, area, routeForm, call>>

changeView(value) ==
  /\ ~pageBusy /\ ~drawer /\ (value = "ROUTES" => routes # Unloaded)
  /\ area' = value /\ detail' = Unloaded
  /\ UNCHANGED <<atBackend, lists, routeForm, call>>

(* canConfirm; canReview of the Head, or canAdminReview without a route.   *)
offered(action) ==
  IF action = "CONFIRM" THEN {"LEADER_CONFIRMATION"} ELSE {"HEAD_APPROVAL", "WAITING_ROUTING"}

process(i, action) ==
  /\ drawerOf(i) /\ items[i].step \in offered(action)
  /\ beginCall(action, "asking", i, items[i].version)
  /\ UNCHANGED <<atBackend, lists, area, detail, routeForm>>

------------------------------------------------------------------------------
(* The editor of routes *)

editItem(i) ==
  /\ drawerOf(i) /\ openItem(i)
  /\ routeForm' = [target |-> i, seen |-> items[i].version, of |-> i, complete |-> FALSE]
  /\ detail' = Unloaded /\ area' = "ROUTES"
  /\ UNCHANGED <<atBackend, lists, call>>

(* Another employee, with the route he has, or none of them.               *)
selectEmployee(e) ==
  /\ editor
  /\ routeForm' = IF e \in Routed THEN [target |-> e, seen |-> routes[e], of |-> e, complete |-> FALSE] ELSE EmptyForm
  /\ UNCHANGED <<atBackend, lists, area, detail, call>>

(* The fields that are left, and a reason.                                 *)
fillRoute ==
  /\ editor /\ routeForm.target # Unloaded
  /\ routeForm' = [routeForm EXCEPT !.complete = TRUE]
  /\ UNCHANGED <<atBackend, lists, area, detail, call>>

copyExplanationRoute ==
  /\ editor /\ workspace = "leave" /\ routeForm.target \in Routed
  /\ beginCall("copy", "sent", routeForm.target, 0)
  /\ UNCHANGED <<atBackend, lists, area, detail, routeForm>>

copied(found) ==
  /\ call.kind = "copy" /\ call' = NoCall
  /\ routeForm' = IF found THEN [routeForm EXCEPT !.of = call.target, !.complete = TRUE] ELSE routeForm
  /\ UNCHANGED <<atBackend, lists, area, detail>>

(* A request is sent with the version it was opened with, a default route  *)
(* with the one the page last loaded.                                      *)
versionToSend == IF routeForm.target \in Filed THEN routeForm.seen ELSE routes[routeForm.target]

saveRoute ==
  /\ editor /\ routeForm.complete
  /\ call' = [kind |-> "route", at |-> "asking", target |-> routeForm.target,
              expectedVersion |-> versionToSend, seen |-> routeForm.seen, of |-> routeForm.of]
  /\ UNCHANGED <<atBackend, lists, area, detail, routeForm>>

------------------------------------------------------------------------------
(* The dialog, the Backend and its answer *)

answerDialog(confirmed) ==
  /\ call.at = "asking"
  /\ call' = IF confirmed THEN [call EXCEPT !.at = "sent"] ELSE NoCall
  /\ UNCHANGED <<atBackend, lists, area, detail, routeForm>>

(* The next edition of the targets X, with the steps that become of them.  *)
written(X, next) ==
  /\ \A x \in X : edition[x] < MaxEdition
  /\ edition' = [x \in Targets |-> IF x \in X THEN edition[x] + 1 ELSE edition[x]]
  /\ step' = [i \in Filed |-> IF i \in X THEN next[i] ELSE step[i]]

rerouted == [i \in Filed |-> IF step[i] = "WAITING_ROUTING" THEN "LEADER_CONFIRMATION" ELSE step[i]]
pendingOf(e) == {i \in Filed : filedBy[i] = e /\ step[i] # "COMPLETED"}

putRoute(e) == written({e} \cup pendingOf(e), rerouted)
changeRoute(i) == step[i] # "COMPLETED" /\ written({i}, rerouted)
decided(i, action) ==
  /\ step[i] \in offered(action)
  /\ written({i}, [j \in Filed |-> IF action = "CONFIRM" THEN "HEAD_APPROVAL" ELSE "COMPLETED"])

save ==
  /\ call.at = "sent" /\ call.kind \in {"route", "CONFIRM", "DECIDE"}
  /\ edition[call.target] = call.expectedVersion
  /\ \/ call.target \in Routed /\ putRoute(call.target)
     \/ call.target \in Filed /\ call.kind = "route" /\ changeRoute(call.target)
     \/ call.kind # "route" /\ decided(call.target, call.kind)
  /\ call' = [call EXCEPT !.at = "stored"]
  /\ UNCHANGED <<workspace, lists, area, detail, routeForm>>

saved(c) ==
  /\ call.at = "stored" /\ startLoad(c, "own")
  /\ call' = [call EXCEPT !.at = "loading"]
  /\ routeForm' = IF call.kind = "route" THEN EmptyForm ELSE routeForm
  /\ UNCHANGED <<atBackend, area>>

(* Refused, or no answer.                                                  *)
saveFailed ==
  /\ call.at \in {"sent", "stored"} /\ call.kind \in {"route", "CONFIRM", "DECIDE"}
  /\ call' = NoCall /\ giveUp
  /\ UNCHANGED <<atBackend, routes, reading, area, routeForm>>

(* Another Admin, the reviewers and the employee.                          *)
byOthers ==
  /\ \/ \E e \in Routed : putRoute(e)
     \/ \E i \in Filed : changeRoute(i) \/ decided(i, "CONFIRM") \/ decided(i, "DECIDE")
     \/ \E i \in Filed, next \in {"LEADER_CONFIRMATION", "WAITING_ROUTING"} :
          step[i] = "EMPLOYEE_RESPONSE" /\ written({i}, [j \in Filed |-> next])
  /\ UNCHANGED <<workspace, lists, area, detail, routeForm, call>>

WorkspaceNext ==
  \/ \E c \in Reading : focusLoad(c) \/ readLists(c) \/ loaded(c) \/ loadFailed(c) \/ refresh(c) \/ saved(c)
  \/ \E i \in Filed : showHistory(i) \/ editItem(i) \/ process(i, "CONFIRM") \/ process(i, "DECIDE")
  \/ \E e \in Routed \cup {Unloaded} : selectEmployee(e)
  \/ \E yes \in BOOLEAN : answerDialog(yes) \/ copied(yes)
  \/ historyShown \/ closeDetail \/ changeView("QUEUE") \/ changeView("ROUTES")
  \/ fillRoute \/ copyExplanationRoute \/ saveRoute \/ save \/ saveFailed \/ byOthers

WorkspaceSpec == WorkspaceInit /\ [][WorkspaceNext]_workspaceVars

------------------------------------------------------------------------------
(* The values in the editor of routes, and those being saved, are of the   *)
(* employee or request they will be saved for, whatever is opened, copied, *)
(* loaded and answered meanwhile (selectEmployee, editItem, saveRoute,     *)
(* copyExplanationRoute).                                                  *)
RouteOfItsTarget ==
  /\ routeForm.of = routeForm.target
  /\ call.kind = "route" => call.of = call.target

(* Claimed by PROJECT.md: every change of a route checks the version       *)
(* against work from old data.  A save that the Backend accepts replaces   *)
(* the edition that the Admin had before him in the form.                  *)
RouteSavedAsSeen ==
  [][call.kind = "route" /\ call.at = "sent" /\ call'.at = "stored"
       => edition[call.target] = call.seen]_workspaceVars

=============================================================================
