-------------------------------- MODULE MCNotices --------------------------------
(***************************************************************************)
(* Two employees, two phones and two announcements, checked from two sides *)
(* in one run: under "INBOX" announcements, their receipts and a decision  *)
(* change while nothing is delivered to phones; under "PUSH" sign-ins,     *)
(* registrations, tokens and deliveries change for one announcement, which *)
(* is drafted for e1, published and withdrawn.                             *)
(***************************************************************************)
EXTENDS DisciplinaryActions, TLC

CONSTANTS e1, e2, d1, p1, p2, t1, t2, t3, n1

VARIABLE focus

MCMembersOf == [d \in Departments |-> {e1}]
MCTokensOf == p1 :> {t1, t3} @@ p2 :> {t2}      \* the app on p1 is installed again
MCUsesOf == e1 :> {p1, p2} @@ e2 :> {p1}        \* both sign in on p1

(* Deliveries are interchangeable. *)
AnyDelivery == Permutations(Deliveries)

mcVars == <<decisionVars, focus>>

MCInit ==
  /\ DecisionInit
  /\ installed = (p1 :> t1 @@ p2 :> t2)
  /\ focus \in {"PUSH", "INBOX"}

MCNext ==
  /\ UNCHANGED focus
  /\ \/ focus = "INBOX" /\ ((InboxStep /\ UNCHANGED decision) \/ DecisionStep)
     \/ /\ focus = "PUSH"
        /\ UNCHANGED decision
        /\ \/ PhoneStep \/ DeliveryStep
           \/ createNotice(n1, "EMPLOYEE", None, e1, FALSE)
           \/ transition(n1, "PUBLISHED") \/ transition(n1, "WITHDRAWN")
           \/ changeStatus(e1)

MCSpec == MCInit /\ [][MCNext]_mcVars

=============================================================================
