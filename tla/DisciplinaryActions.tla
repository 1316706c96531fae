-------------------------- MODULE DisciplinaryActions --------------------------
(***************************************************************************)
(* Decisions about employees (modules/disciplinary-actions): drafted and   *)
(* edited, issued together with an announcement their employee must        *)
(* acknowledge, and revoked with another.  Each handler is one transaction *)
(* under the lock of the decision; announcements are those of              *)
(* Announcements, which every other action of that module may touch.       *)
(***************************************************************************)

EXTENDS Announcements

ActionType == {"WARNING", "SUSPENSION", "DISCIPLINARY_ACTION"}

CONSTANTS
  Decisions,
  Days,
  Kinds       \* the action types that are tried (a bound)

VARIABLE decision   \* the row of each decision, or None

decisionVars == <<noticeVars, decision>>

DecisionRow ==
  [status: {"DRAFT", "ISSUED", "REVOKED"}, actionType: ActionType, employee: Employees,
   from: Days, to: Days \cup {None},
   announcement: Notices \cup {None}, revocation: Notices \cup {None}]

ASSUME DecisionAssumption ==
  Days \subseteq Nat /\ Kinds \subseteq ActionType /\ None \notin Days \cup DecisionRow

(* The rows of decisions, and all they share with announcements, keep      *)
(* their types.                                                            *)
DecisionTypeOK == NoticeTypeOK /\ decision \in [Decisions -> DecisionRow \cup {None}]

DecisionInit == NoticeInit /\ decision = [k \in Decisions |-> None]

canTransitionDisciplinaryAction(from, to) ==
  <<from, to>> \in {<<"DRAFT", "ISSUED">>, <<"ISSUED", "REVOKED">>}

isValidDisciplinaryPeriod(type, from, to) ==
  IF to = None THEN type # "SUSPENSION" ELSE to >= from

createDecision(k, type, e, from, to) ==
  /\ decision[k] = None
  /\ isValidDisciplinaryPeriod(type, from, to)
  /\ decision' = [decision EXCEPT ![k] =
       [status |-> "DRAFT", actionType |-> type, employee |-> e, from |-> from, to |-> to,
        announcement |-> None, revocation |-> None]]
  /\ UNCHANGED noticeVars

(* Mutant: a decision is edited after it was issued *)
updateIssued(k, type, e, from, to) ==
  LET end == coalesce(to, decision[k].to)
  IN /\ decision[k] # None
     /\ isValidDisciplinaryPeriod(type, from, end)
     /\ decision' = [decision EXCEPT ![k].actionType = type, ![k].employee = e,
                                     ![k].from = from, ![k].to = end]
     /\ UNCHANGED noticeVars

(* An end day cannot be taken back: leaving it out keeps the stored one.   *)
updateDecision(k, type, e, from, to) ==
  LET end == coalesce(to, decision[k].to)
  IN /\ decision[k] # None /\ decision[k].status = "DRAFT"
     /\ isValidDisciplinaryPeriod(type, from, end)
     /\ decision' = [decision EXCEPT ![k].actionType = type, ![k].employee = e,
                                     ![k].from = from, ![k].to = end]
     /\ UNCHANGED noticeVars

employeeCanReceive(e) == e \in employed

issue(k) ==
  /\ decision[k] # None
  /\ canTransitionDisciplinaryAction(decision[k].status, "ISSUED")
  /\ isValidDisciplinaryPeriod(decision[k].actionType, decision[k].from, decision[k].to)
  /\ employeeCanReceive(decision[k].employee)
  /\ \E a \in Notices :
       /\ createPublishedIndividualWithinTransaction(a, decision[k].employee)
       /\ decision' = [decision EXCEPT ![k].status = "ISSUED", ![k].announcement = a]

revoke(k) ==
  /\ decision[k] # None
  /\ canTransitionDisciplinaryAction(decision[k].status, "REVOKED")
  /\ IF employeeCanReceive(decision[k].employee)
       THEN \E a \in Notices :
              /\ createPublishedIndividualWithinTransaction(a, decision[k].employee)
              /\ decision' = [decision EXCEPT ![k].status = "REVOKED", ![k].revocation = a]
       ELSE /\ decision' = [decision EXCEPT ![k].status = "REVOKED"]
            /\ UNCHANGED noticeVars

DecisionStep ==
  \E k \in Decisions :
    \/ \E type \in Kinds, e \in Employees, from \in Days, to \in Days \cup {None} :
         createDecision(k, type, e, from, to) \/ updateDecision(k, type, e, from, to)
    \/ issue(k) \/ revoke(k)

DecisionNext == (NoticeNext /\ UNCHANGED decision) \/ DecisionStep

DecisionSpec == DecisionInit /\ [][DecisionNext]_decisionVars

------------------------------------------------------------------------------
(* The announcements of a decision.                                        *)
linked(k) == {decision[k].announcement, decision[k].revocation} \ {None}

(* What a decision is linked to stays its own announcement: one for its    *)
(* employee alone, to be acknowledged, in his inbox unless an Admin        *)
(* withdrew it, and the announcement of no other decision (issue, revoke,  *)
(* and the announcement handlers that reach the same rows).                *)
DecisionReachedInbox ==
  /\ \A k \in Decisions : decision[k] # None =>
       /\ decision[k].status # "DRAFT" => decision[k].announcement # None
       /\ \A a \in linked(k) :
            /\ announcement[a].employee = decision[k].employee
            /\ announcement[a].requiresAck
            /\ inbox(a) = {decision[k].employee}
            /\ announcement[a].status = "WITHDRAWN" \/ a \in mine(decision[k].employee)
  /\ \A j, k \in Decisions : j # k /\ decision[j] # None /\ decision[k] # None =>
       linked(j) \cap linked(k) = {}

=============================================================================
