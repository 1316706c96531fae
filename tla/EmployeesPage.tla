----------------------------- MODULE EmployeesPage -----------------------------
(***************************************************************************)
(* The page of employees of the Admin web (dashboard/employees/page.tsx,   *)
(* with useActionDialog and useUnsavedChanges).  A handler runs up to its  *)
(* first await; the answer of the Backend, or of the Admin to the dialog,  *)
(* comes later, after whatever else the Admin did on the page.             *)
(* Of an assignment only its branch, chosen or not, and its primary flag   *)
(* are kept, of the other fields whether they were typed in.  What the     *)
(* Backend does with a call is EmployeeLifecycle's; here it says yes or no.*)
(***************************************************************************)
EXTENDS Naturals, Sequences

CONSTANTS
  People,            \* the employees on the page
  Nobody,
  MaxAssignments,    \* bound: rows of the form
  MaxReads           \* bound: calls that load the list, under way at once

ASSUME PageAssumption == Nobody \notin People /\ MaxAssignments \in Nat \ {0} /\ MaxReads \in Nat

VARIABLES
  canManage,         \* "YES" once the session is known to be an Admin's
  list,              \* "LOADING", "ROWS" or "EMPTY"
  loads,             \* calls of load under way, besides the one of a save
  editing,           \* the employee of the edit panel
  editAssignments,   \* the rows of that panel
  typed,             \* the mounted form holds input it was not mounted with
  employeeDirty,
  statusEmployee,    \* the employee of the panel that changes the status
  historyOf,         \* the employee of the panel of history
  histories,         \* employees whose history is being fetched
  asked,             \* what the open dialog leads to
  write              \* the save under way; the buttons are disabled meanwhile

panels == <<editing, editAssignments, typed, employeeDirty, statusEmployee, historyOf>>
pageVars == <<canManage, list, loads, panels, histories, asked, write>>

Someone == People \cup {Nobody}
AssignmentDraft == [branchId: BOOLEAN, isPrimary: BOOLEAN]
Drafts == UNION {[1..n -> AssignmentDraft] : n \in 0..MaxAssignments}
Question == [next: {"none", "edit", "history", "status", "close", "leave"}, of: Someone]
NoQuestion == [next |-> "none", of |-> Nobody]
Write == [kind: {"none", "create", "edit", "status"}, of: Someone, rows: Drafts, at: {"sent", "loading"}]
NoWrite == [kind |-> "none", of |-> Nobody, rows |-> <<>>, at |-> "sent"]

(* The state of the page keeps its types.                                  *)
PageTypeOK ==
  /\ canManage \in {"UNKNOWN", "YES", "NO"} /\ list \in {"LOADING", "ROWS", "EMPTY"} /\ loads \in 0..MaxReads
  /\ {editing, statusEmployee, historyOf} \subseteq Someone
  /\ editAssignments \in Drafts /\ typed \in BOOLEAN /\ employeeDirty \in BOOLEAN
  /\ histories \subseteq People /\ asked \in Question /\ write \in Write

PageInit ==
  /\ canManage = "UNKNOWN" /\ list = "LOADING" /\ loads = 0
  /\ editing = Nobody /\ statusEmployee = Nobody /\ historyOf = Nobody
  /\ editAssignments = <<>> /\ typed = FALSE /\ employeeDirty = FALSE
  /\ histories = {} /\ asked = NoQuestion /\ write = NoWrite

primaries(rows) == {i \in DOMAIN rows : rows[i].isPrimary}

(* The current assignments the Backend sends for an employee.              *)
organizationAssignments ==
  {rows \in Drafts : (\A i \in DOMAIN rows : rows[i].branchId) /\ (rows = <<>> \/ \E i \in DOMAIN rows : primaries(rows) = {i})}

------------------------------------------------------------------------------
(* What is on the screen.  The dialog covers the page until it is closed.  *)

free == asked = NoQuestion
rowActions(e) == free /\ canManage = "YES" /\ list = "ROWS" /\ e \in People
editPanel == free /\ canManage = "YES" /\ editing # Nobody
statusPanel == free /\ canManage = "YES" /\ statusEmployee # Nobody
historyPanel == free /\ historyOf # Nobody
createForm == free /\ canManage = "YES" /\ editing = Nobody
saving == write.kind # "none"

------------------------------------------------------------------------------
(* Lists *)

(* The first load also learns whose session it is; on failure the page     *)
(* keeps saying that it loads.                                             *)
initialLoad(admin) ==
  /\ canManage = "UNKNOWN"
  /\ list' = "ROWS" /\ canManage' = IF admin THEN "YES" ELSE "NO"
  /\ UNCHANGED <<loads, panels, histories, asked, write>>

(* A search, a cleared search, another page.                               *)
fetchList ==
  /\ free /\ loads < MaxReads
  /\ list' = "LOADING" /\ loads' = loads + 1
  /\ UNCHANGED <<canManage, panels, histories, asked, write>>

load(answered) ==
  /\ loads > 0 /\ loads' = loads - 1
  /\ list' = IF answered THEN "ROWS" ELSE "EMPTY"
  /\ UNCHANGED <<canManage, panels, histories, asked, write>>

------------------------------------------------------------------------------
(* The edit panel *)

(* The form is mounted anew when it is of another employee.                *)
open(e, rows) ==
  /\ editing' = e /\ editAssignments' = rows
  /\ typed' = (typed /\ editing = e) /\ employeeDirty' = FALSE
  /\ statusEmployee' = Nobody /\ historyOf' = Nobody

openStatus(e) ==
  /\ statusEmployee' = e
  /\ editing' = Nobody /\ historyOf' = Nobody /\ typed' = FALSE /\ employeeDirty' = FALSE
  /\ UNCHANGED editAssignments

openHistory(e) ==
  /\ historyOf' = e /\ histories' = histories \cup {e}
  /\ editing' = Nobody /\ statusEmployee' = Nobody /\ typed' = FALSE /\ employeeDirty' = FALSE
  /\ UNCHANGED editAssignments

closeEdit ==
  /\ editing' = Nobody /\ employeeDirty' = FALSE /\ typed' = FALSE
  /\ UNCHANGED <<editAssignments, statusEmployee, historyOf>>

(* What a click goes on to do, at once or when the dialog is confirmed.    *)
proceed(next, e) ==
  \/ next = "edit" /\ (\E rows \in organizationAssignments : open(e, rows)) /\ UNCHANGED histories
  \/ next = "status" /\ openStatus(e) /\ UNCHANGED histories
  \/ next = "history" /\ openHistory(e)
  \/ next = "close" /\ closeEdit /\ UNCHANGED histories

confirmDiscardEmployee(next, e) ==
  /\ IF employeeDirty
       THEN asked' = [next |-> next, of |-> e] /\ UNCHANGED <<panels, histories>>
       ELSE proceed(next, e) /\ UNCHANGED asked
  /\ UNCHANGED <<canManage, list, loads, write>>

beginEdit(e) == rowActions(e) /\ confirmDiscardEmployee("edit", e)
viewHistory(e) == rowActions(e) /\ confirmDiscardEmployee("history", e)
beginStatusChange(e) == rowActions(e) /\ confirmDiscardEmployee("status", e)
cancelEdit == editPanel /\ confirmDiscardEmployee("close", Nobody)

(* A click on a link of the application while something is unsaved.        *)
interceptNavigation ==
  /\ free /\ employeeDirty
  /\ asked' = [next |-> "leave", of |-> Nobody]
  /\ UNCHANGED <<canManage, list, loads, panels, histories, write>>

(* Leaving the page ends it; coming back starts another.                   *)
leavePage ==
  /\ canManage' = "UNKNOWN" /\ list' = "LOADING" /\ loads' = 0
  /\ editing' = Nobody /\ statusEmployee' = Nobody /\ historyOf' = Nobody
  /\ editAssignments' = <<>> /\ typed' = FALSE /\ employeeDirty' = FALSE
  /\ histories' = {} /\ asked' = NoQuestion /\ write' = NoWrite

closeDialog(confirmed) ==
  /\ ~free
  /\ IF confirmed /\ asked.next = "leave" THEN leavePage
     ELSE /\ asked' = NoQuestion
          /\ IF confirmed THEN proceed(asked.next, asked.of) ELSE UNCHANGED <<panels, histories>>
          /\ UNCHANGED <<canManage, list, loads, write>>

onlyRows == UNCHANGED <<canManage, list, loads, editing, statusEmployee, historyOf, histories, asked, write>>

(* Any field of the form that is mounted.                                  *)
type ==
  /\ editPanel \/ createForm
  /\ typed' = TRUE /\ employeeDirty' = TRUE
  /\ UNCHANGED editAssignments /\ onlyRows

updateEditAssignment(i, value) ==
  /\ editPanel /\ i \in DOMAIN editAssignments
  /\ editAssignments' = [editAssignments EXCEPT ![i].branchId = value]
  /\ employeeDirty' = TRUE
  /\ UNCHANGED typed /\ onlyRows

makePrimary(i) ==
  /\ editPanel /\ i \in DOMAIN editAssignments
  /\ editAssignments' = [j \in DOMAIN editAssignments |-> [editAssignments[j] EXCEPT !.isPrimary = (j = i)]]
  /\ employeeDirty' = TRUE
  /\ UNCHANGED typed /\ onlyRows

addEditAssignment ==
  /\ editPanel /\ Len(editAssignments) < MaxAssignments
  /\ editAssignments' = Append(editAssignments, [branchId |-> FALSE, isPrimary |-> editAssignments = <<>>])
  /\ employeeDirty' = TRUE
  /\ UNCHANGED typed /\ onlyRows

without(rows, i) == [j \in 1..(Len(rows) - 1) |-> IF j < i THEN rows[j] ELSE rows[j + 1]]

(* Mutant: the primary assignment is removed without an heir *)
rowsLeft(i) == without(editAssignments, i)

rowsAfterRemoval(i) ==
  LET next == without(editAssignments, i)
  IN IF primaries(next) = {} THEN [next EXCEPT ![1].isPrimary = TRUE] ELSE next

removeEditAssignment(i) ==
  /\ editPanel /\ i \in DOMAIN editAssignments /\ Len(editAssignments) > 1
  /\ editAssignments' = rowsAfterRemoval(i)
  /\ employeeDirty' = TRUE
  /\ UNCHANGED typed /\ onlyRows

------------------------------------------------------------------------------
(* Saves *)

send(kind, e, rows) ==
  /\ ~saving
  /\ write' = [kind |-> kind, of |-> e, rows |-> rows, at |-> "sent"]
  /\ UNCHANGED <<canManage, list, loads, panels, histories, asked>>

submitCreate == createForm /\ typed /\ send("create", Nobody, <<>>)
submitEdit ==
  /\ editPanel /\ \A i \in DOMAIN editAssignments : editAssignments[i].branchId
  /\ send("edit", editing, editAssignments)
submitStatus == statusPanel /\ send("status", statusEmployee, <<>>)

(* A created employee is answered by an error: the handler resets          *)
(* event.currentTarget, which is null after an await, so the form stays as *)
(* it is and nothing is loaded.                                            *)
refused ==
  /\ write.at = "sent" /\ saving
  /\ write' = NoWrite
  /\ UNCHANGED <<canManage, list, loads, panels, histories, asked>>

saveAnswered ==
  /\ write.at = "sent" /\ write.kind \in {"edit", "status"}
  /\ write' = [write EXCEPT !.at = "loading"]
  /\ IF write.kind = "edit"
       THEN closeEdit
       ELSE statusEmployee' = Nobody /\ UNCHANGED <<editing, editAssignments, typed, employeeDirty, historyOf>>
  /\ UNCHANGED <<canManage, list, loads, histories, asked>>

reloaded(answered) ==
  /\ write.at = "loading"
  /\ write' = NoWrite
  /\ list' = IF answered THEN "ROWS" ELSE list
  /\ UNCHANGED <<canManage, loads, panels, histories, asked>>

(* The history of e arrives, whatever is open by then.                     *)
historyAnswered(e, answered) ==
  /\ e \in histories /\ histories' = histories \ {e}
  /\ historyOf' = IF answered THEN e ELSE Nobody
  /\ UNCHANGED <<canManage, list, loads, editing, editAssignments, typed, employeeDirty, statusEmployee, asked, write>>

closeStatus ==
  /\ statusPanel /\ statusEmployee' = Nobody
  /\ UNCHANGED <<canManage, list, loads, editing, editAssignments, typed, employeeDirty, historyOf, histories, asked, write>>

closeHistory ==
  /\ historyPanel /\ historyOf' = Nobody
  /\ UNCHANGED <<canManage, list, loads, editing, editAssignments, typed, employeeDirty, statusEmployee, histories, asked, write>>

PageNext ==
  \/ \E admin \in BOOLEAN : initialLoad(admin)
  \/ fetchList
  \/ \E yes \in BOOLEAN : load(yes) \/ reloaded(yes) \/ closeDialog(yes)
  \/ \E e \in People : beginEdit(e) \/ viewHistory(e) \/ beginStatusChange(e)
  \/ \E e \in People, yes \in BOOLEAN : historyAnswered(e, yes)
  \/ cancelEdit \/ interceptNavigation \/ type \/ addEditAssignment
  \/ \E i \in 1..MaxAssignments :
       makePrimary(i) \/ removeEditAssignment(i) \/ \E value \in BOOLEAN : updateEditAssignment(i, value)
  \/ submitCreate \/ submitEdit \/ submitStatus \/ refused \/ saveAnswered
  \/ closeStatus \/ closeHistory

PageSpec == PageInit /\ [][PageNext]_pageVars

------------------------------------------------------------------------------
(* Whatever rows are added, removed, marked and sent, in an edit or in the *)
(* next one, exactly one assignment is the primary one, which the Backend  *)
(* insists on (addEditAssignment, removeEditAssignment, makePrimary).      *)
OnePrimary(rows) == rows = <<>> \/ \E i \in DOMAIN rows : primaries(rows) = {i}
OnePrimaryAssignment ==
  /\ editing # Nobody => OnePrimary(editAssignments)
  /\ write.kind = "edit" => OnePrimary(write.rows)

=============================================================================
