----------------------------- MODULE Announcements -----------------------------
(***************************************************************************)
(* Announcements, their inbox rows, the phones registered for push, and    *)
(* the delivery of push after the commit (modules/announcements).          *)
(*                                                                         *)
(* Every handler is one transaction under the lock of the row it changes,  *)
(* and so one step.  A delivery is three: it looks the registered phones   *)
(* up, hands the messages to FCM, and stores the outcome; registrations,   *)
(* sign-ins, other deliveries and a crash of the process come in between.  *)
(* Text, times and the audit log are left out.                             *)
(***************************************************************************)

EXTENDS Integers, FiniteSets

CONSTANTS
  Employees,      \* employees, each with an account
  Departments,
  MembersOf,      \* who has an open assignment in each department
  Notices,        \* ids of announcements: how many are created is bounded
  Drafts,         \* those of them that Admins draft themselves (a bound)
  Phones,
  TokensOf,       \* the FCM tokens an installation on each phone gets in turn
  UsesOf,         \* the phones each employee ever signs in on (a bound)
  Deliveries,     \* how many deliveries are under way at once is bounded
  None

ASSUME NoticeAssumption ==
  /\ MembersOf \in [Departments -> SUBSET Employees]
  /\ Drafts \subseteq Notices
  /\ UsesOf \in [Employees -> SUBSET Phones]
  /\ \A p, q \in Phones : p # q => TokensOf[p] \cap TokensOf[q] = {}
  /\ \A p \in Phones : None \notin TokensOf[p] /\ TokensOf[p] # {}
  /\ None \notin Phones \cup Notices \cup Employees \cup Departments
  /\ Departments \cap Employees = {}

VARIABLES
  announcement,   \* the row of each announcement, or None
  recipient,      \* the row of each announcement_recipient, or None
  pushDevice,     \* the row of each account and phone, or None
  mobileOf,       \* the phone of the live MOBILE session of each account
  employed,       \* active employees, whose accounts are active too
  installed,      \* the token FCM knows each phone by
  delivery,       \* the deliveries under way
  handed,         \* history: <<announcement, employee, phone>> FCM accepted a message for
  reachable       \* history: those with a live session since the publication

inboxVars == <<announcement, recipient>>
phoneVars == <<pushDevice, mobileOf, employed, installed>>
noticeVars == <<inboxVars, phoneVars, delivery, handed, reachable>>

Tokens == UNION {TokensOf[p] : p \in Phones}
AudienceType == {"ALL", "DEPARTMENT", "EMPLOYEE"}

AnnouncementRow ==
  [status: {"DRAFT", "PUBLISHED", "CANCELLED", "WITHDRAWN"},
   audienceType: AudienceType, department: Departments \cup {None},
   employee: Employees \cup {None}, requiresAck: BOOLEAN]
RecipientRow ==
  [read: BOOLEAN, acknowledged: BOOLEAN,
   pushStatus: {"PENDING", "SENT", "SKIPPED", "FAILED"}, pushSent: BOOLEAN]    \* push_sent_at is set
PushDeviceRow == [token: Tokens, active: BOOLEAN]
ASSUME RowAssumption == None \notin AnnouncementRow \cup RecipientRow \cup PushDeviceRow
Registration == Employees \X Phones \X Tokens
Idle == [phase |-> "IDLE", of |-> None, to |-> {}, devices |-> {}, outcome |-> <<>>]

(* The rows, the phones and the deliveries under way keep their types.     *)
NoticeTypeOK ==
  /\ announcement \in [Notices -> AnnouncementRow \cup {None}]
  /\ recipient \in [Notices -> [Employees -> RecipientRow \cup {None}]]
  /\ pushDevice \in [Employees -> [Phones -> PushDeviceRow \cup {None}]]
  /\ mobileOf \in [Employees -> Phones \cup {None}]
  /\ employed \subseteq Employees
  /\ \A p \in Phones : installed[p] \in TokensOf[p]
  /\ \A d \in Deliveries :
       /\ delivery[d].phase \in {"IDLE", "LOOKUP", "SEND", "STORE"}
       /\ delivery[d].of \in Notices \cup {None}
       /\ delivery[d].to \subseteq Employees
       /\ delivery[d].devices \subseteq Registration
  /\ handed \cup reachable \subseteq Notices \X Employees \X Phones

NoticeInit ==
  /\ announcement = [a \in Notices |-> None]
  /\ recipient = [a \in Notices |-> [e \in Employees |-> None]]
  /\ pushDevice = [e \in Employees |-> [p \in Phones |-> None]]
  /\ mobileOf = [e \in Employees |-> None]
  /\ employed = Employees
  /\ installed \in [Phones -> Tokens] /\ \A p \in Phones : installed[p] \in TokensOf[p]
  /\ delivery = [d \in Deliveries |-> Idle]
  /\ handed = {} /\ reachable = {}

published(a) == announcement[a] # None /\ announcement[a].status = "PUBLISHED"
inbox(a) == {e \in Employees : recipient[a][e] # None}
mine(e) == {a \in Notices : published(a) /\ e \in inbox(a)}
liveFor(as) == {r \in Notices \X Employees \X Phones : r[1] \in as /\ r[3] = mobileOf[r[2]]}

------------------------------------------------------------------------------
(* Drafts and their publication, by Admins *)

canTransitionAnnouncement(from, to) ==
  <<from, to>> \in {<<"DRAFT", "PUBLISHED">>, <<"DRAFT", "CANCELLED">>, <<"PUBLISHED", "WITHDRAWN">>}

(* The target an audience keeps of a department and an employee; None when *)
(* the one it needs is missing.                                            *)
resolveAnnouncementTarget(type, department, employee) ==
  LET kept == [department |-> IF type = "DEPARTMENT" THEN department ELSE None,
               employee |-> IF type = "EMPLOYEE" THEN employee ELSE None]
  IN IF type = "ALL" \/ kept.department # None \/ kept.employee # None THEN kept ELSE None

assertTarget(target) == target # None /\ target.employee \in employed \cup {None}

(* Mutant: the two columns of a target are swapped *)
rowOfSwapped(status, type, target, ack) ==
  [status |-> status, audienceType |-> type, department |-> target.employee,
   employee |-> target.department, requiresAck |-> ack]

rowOf(status, type, target, ack) ==
  [status |-> status, audienceType |-> type, department |-> target.department,
   employee |-> target.employee, requiresAck |-> ack]

createNotice(a, type, department, employee, ack) ==
  LET target == resolveAnnouncementTarget(type, department, employee)
  IN /\ announcement[a] = None
     /\ assertTarget(target)
     /\ announcement' = [announcement EXCEPT ![a] = rowOf("DRAFT", type, target, ack)]
     /\ UNCHANGED <<recipient, phoneVars, delivery, handed, reachable>>

coalesce(given, kept) == IF given = None THEN kept ELSE given

(* Mutant: an announcement is edited after it was published *)
updatePublished(a, type, department, employee, ack) ==
  LET old == announcement[a]
      target == resolveAnnouncementTarget(type, coalesce(department, old.department),
                                          coalesce(employee, old.employee))
  IN /\ old # None /\ old.status # "CANCELLED"
     /\ assertTarget(target)
     /\ announcement' = [announcement EXCEPT ![a] = rowOf(old.status, type, target, ack)]
     /\ UNCHANGED <<recipient, phoneVars, delivery, handed, reachable>>

(* A type or a flag that the input leaves out is the stored one.           *)
updateNotice(a, type, department, employee, ack) ==
  LET old == announcement[a]
      target == resolveAnnouncementTarget(type, coalesce(department, old.department),
                                          coalesce(employee, old.employee))
  IN /\ old # None /\ old.status = "DRAFT"
     /\ assertTarget(target)
     /\ announcement' = [announcement EXCEPT ![a] = rowOf("DRAFT", type, target, ack)]
     /\ UNCHANGED <<recipient, phoneVars, delivery, handed, reachable>>

resolveRecipients(row) ==
  employed \cap CASE row.audienceType = "ALL" -> Employees
                  [] row.audienceType = "DEPARTMENT" -> MembersOf[row.department]
                  [] row.audienceType = "EMPLOYEE" -> {row.employee}

newRecipient == [read |-> FALSE, acknowledged |-> FALSE, pushStatus |-> "PENDING", pushSent |-> FALSE]
delivered(a, to) == [recipient EXCEPT ![a] = [e \in Employees |-> IF e \in to THEN newRecipient ELSE None]]

(* After a commit the handler goes on to deliver, unless the process dies. *)
deliver(a, to) ==
  \/ UNCHANGED delivery
  \/ \E d \in Deliveries :
       /\ delivery[d] = Idle
       /\ delivery' = [delivery EXCEPT ![d] = [Idle EXCEPT !.phase = "LOOKUP", !.of = a, !.to = to]]

transition(a, status) ==
  LET to == resolveRecipients(announcement[a])
  IN /\ announcement[a] # None
     /\ canTransitionAnnouncement(announcement[a].status, status)
     /\ announcement' = [announcement EXCEPT ![a].status = status]
     /\ IF status = "PUBLISHED"
          THEN /\ to # {}
               /\ recipient' = delivered(a, to)
               /\ reachable' = reachable \cup liveFor({a})
               /\ deliver(a, to)
          ELSE UNCHANGED <<recipient, reachable, delivery>>
     /\ UNCHANGED <<phoneVars, handed>>

(* The announcement of one employee that another module publishes inside   *)
(* its own transaction; it delivers after that transaction.                *)
createPublishedIndividualWithinTransaction(a, e) ==
  /\ announcement[a] = None
  /\ assertTarget([department |-> None, employee |-> e])
  /\ announcement' = [announcement EXCEPT ![a] =
       rowOf("PUBLISHED", "EMPLOYEE", [department |-> None, employee |-> e], TRUE)]
  /\ recipient' = delivered(a, {e})
  /\ reachable' = reachable \cup liveFor({a})
  /\ deliver(a, {e})
  /\ UNCHANGED <<phoneVars, handed>>

retryPush(a) ==
  LET unresolved == {e \in inbox(a) : recipient[a][e].pushStatus \in {"PENDING", "SKIPPED", "FAILED"}}
  IN /\ published(a)
     /\ unresolved # {}
     /\ deliver(a, unresolved)
     /\ UNCHANGED <<inboxVars, phoneVars, handed, reachable>>

------------------------------------------------------------------------------
(* The inbox, by its owner *)

markRead(e, a) ==
  /\ published(a) /\ e \in inbox(a)
  /\ recipient' = [recipient EXCEPT ![a][e].read = TRUE]
  /\ UNCHANGED <<announcement, phoneVars, delivery, handed, reachable>>

canAcknowledgeAnnouncement(row) == row.status = "PUBLISHED" /\ row.requiresAck

acknowledge(e, a) ==
  /\ announcement[a] # None
  /\ canAcknowledgeAnnouncement(announcement[a])
  /\ e \in inbox(a)
  /\ recipient' = [recipient EXCEPT ![a][e].read = TRUE, ![a][e].acknowledged = TRUE]
  /\ UNCHANGED <<announcement, phoneVars, delivery, handed, reachable>>

------------------------------------------------------------------------------
(* Sessions, phones and their tokens *)

signIn(e, p) ==
  /\ e \in employed
  /\ p \in UsesOf[e] \ {mobileOf[e]}
  /\ mobileOf' = [mobileOf EXCEPT ![e] = p]
  /\ reachable' = reachable \cup {<<a, e, p>> : a \in {b \in Notices : inbox(b) # {}}}
  /\ UNCHANGED <<inboxVars, pushDevice, employed, installed, delivery, handed>>

endSession(e) ==
  /\ mobileOf[e] # None
  /\ mobileOf' = [mobileOf EXCEPT ![e] = None]
  /\ UNCHANGED <<inboxVars, pushDevice, employed, installed, delivery, handed, reachable>>

(* A deactivated account loses its sessions and its registrations; an      *)
(* account that is active again gets neither back.                         *)
changeStatus(e) ==
  /\ IF e \in employed
       THEN /\ employed' = employed \ {e}
            /\ mobileOf' = [mobileOf EXCEPT ![e] = None]
            /\ pushDevice' = [pushDevice EXCEPT ![e] = [p \in Phones |->
                 IF pushDevice[e][p] = None THEN None ELSE [pushDevice[e][p] EXCEPT !.active = FALSE]]]
       ELSE /\ employed' = employed \cup {e}
            /\ UNCHANGED <<mobileOf, pushDevice>>
  /\ UNCHANGED <<inboxVars, installed, delivery, handed, reachable>>

registered(e, p, t) ==
  [f \in Employees |-> [q \in Phones |->
     IF f = e /\ q = p THEN [token |-> t, active |-> TRUE]
     ELSE IF pushDevice[f][q] # None /\ pushDevice[f][q].token = t THEN None
     ELSE pushDevice[f][q]]]

(* Mutant: a late registration needs no live session on its phone *)
registerLate(e, p, t) ==
  /\ e \in employed
  /\ t \in TokensOf[p]
  /\ pushDevice' = registered(e, p, t)
  /\ UNCHANGED <<inboxVars, mobileOf, employed, installed, delivery, handed, reachable>>

(* The token may be one the phone has had replaced since it was read.      *)
registerPushDevice(e, p, t) ==
  /\ mobileOf[e] = p /\ e \in employed
  /\ t \in TokensOf[p]
  /\ pushDevice' = registered(e, p, t)
  /\ UNCHANGED <<inboxVars, mobileOf, employed, installed, delivery, handed, reachable>>

unregisterPushDevice(e, p) ==
  /\ pushDevice[e][p] # None
  /\ pushDevice' = [pushDevice EXCEPT ![e][p].active = FALSE]
  /\ UNCHANGED <<inboxVars, mobileOf, employed, installed, delivery, handed, reachable>>

RefreshToken(p, t) ==
  /\ t \in TokensOf[p] \ {installed[p]}
  /\ installed' = [installed EXCEPT ![p] = t]
  /\ UNCHANGED <<inboxVars, pushDevice, mobileOf, employed, delivery, handed, reachable>>

------------------------------------------------------------------------------
(* A delivery *)

(* Mutant: the session of the phone is not asked for *)
activeRegistrations(to) ==
  {r \in Registration : /\ r[1] \in to \cap employed
                        /\ pushDevice[r[1]][r[2]] = [token |-> r[3], active |-> TRUE]}

pushTargets(to) ==
  {r \in Registration : /\ r[1] \in to \cap employed
                        /\ mobileOf[r[1]] = r[2]
                        /\ pushDevice[r[1]][r[2]] = [token |-> r[3], active |-> TRUE]}

outcomeForAll(d, status) ==
  [delivery EXCEPT ![d].phase = "STORE", ![d].outcome = [e \in delivery[d].to |-> status]]

(* Firebase may be disabled, and the query may fail.                       *)
LookUpDevices(d) ==
  LET devices == pushTargets(delivery[d].to)
  IN /\ delivery[d].phase = "LOOKUP"
     /\ \/ delivery' = outcomeForAll(d, "SKIPPED")
        \/ delivery' = outcomeForAll(d, "FAILED")
        \/ /\ devices # {}
           /\ delivery' = [delivery EXCEPT ![d].phase = "SEND", ![d].devices = devices]
     /\ UNCHANGED <<inboxVars, phoneVars, handed, reachable>>

(* Mutant: having a phone counts as delivered *)
outcomeOfPhones(d, accepted) ==
  [e \in delivery[d].to |->
     IF \E r \in delivery[d].devices : r[1] = e THEN "SENT" ELSE "SKIPPED"]

pushOutcome(d, accepted) ==
  [e \in delivery[d].to |->
     IF \E r \in accepted : r[1] = e THEN "SENT"
     ELSE IF \E r \in delivery[d].devices : r[1] = e THEN "FAILED" ELSE "SKIPPED"]

switchedOff(off) ==
  [e \in Employees |-> [p \in Phones |->
     IF pushDevice[e][p] # None /\ \E r \in off : r[1] = e /\ r[2] = p
       THEN [pushDevice[e][p] EXCEPT !.active = FALSE] ELSE pushDevice[e][p]]]

(* FCM accepts messages for tokens it still knows, and says which it does  *)
(* not know: their rows are switched off by id, all of them unless it      *)
(* fails half-way.                                                         *)
SendMessages(d) ==
  LET known == {r \in delivery[d].devices : installed[r[2]] = r[3]}
      unknown == delivery[d].devices \ known
  IN /\ delivery[d].phase = "SEND"
     /\ \E accepted \in SUBSET known, off \in SUBSET unknown :
          /\ handed' = handed \cup {<<delivery[d].of, r[1], r[2]>> : r \in accepted}
          /\ pushDevice' = switchedOff(off)
          /\ \/ /\ off = unknown
                /\ delivery' = [delivery EXCEPT ![d].phase = "STORE", ![d].outcome = pushOutcome(d, accepted)]
             \/ delivery' = outcomeForAll(d, "FAILED")
     /\ UNCHANGED <<inboxVars, mobileOf, employed, installed, reachable>>

(* The UPDATE of each recipient is unconditional, whatever another         *)
(* delivery stored before; the time of a message sent is kept.             *)
stored(row, status) == [row EXCEPT !.pushStatus = status, !.pushSent = @ \/ status = "SENT"]

(* An UPDATE that fails is logged.                                         *)
storeOutcome(d) ==
  LET a == delivery[d].of
  IN /\ delivery[d].phase = "STORE"
     /\ delivery' = [delivery EXCEPT ![d] = Idle]
     /\ \/ recipient' = [recipient EXCEPT ![a] = [e \in Employees |->
             IF e \in delivery[d].to /\ recipient[a][e] # None
               THEN stored(recipient[a][e], delivery[d].outcome[e]) ELSE recipient[a][e]]]
        \/ UNCHANGED recipient
     /\ UNCHANGED <<announcement, phoneVars, handed, reachable>>

Crash ==
  /\ delivery # [d \in Deliveries |-> Idle]
  /\ delivery' = [d \in Deliveries |-> Idle]
  /\ UNCHANGED <<inboxVars, phoneVars, handed, reachable>>

InboxStep ==
  \/ \E a \in Drafts, type \in AudienceType, ack \in BOOLEAN,
        department \in Departments \cup {None}, e \in Employees \cup {None} :
       createNotice(a, type, department, e, ack) \/ updateNotice(a, type, department, e, ack)
  \/ \E a \in Notices : \/ \E s \in {"PUBLISHED", "CANCELLED", "WITHDRAWN"} : transition(a, s)
                        \/ \E e \in Employees : markRead(e, a) \/ acknowledge(e, a)
  \/ \E e \in Employees : changeStatus(e)

PhoneStep ==
  \/ \E e \in Employees : \/ endSession(e)
                          \/ \E p \in Phones : signIn(e, p) \/ unregisterPushDevice(e, p)
                          \/ \E p \in Phones, t \in Tokens : registerPushDevice(e, p, t)
  \/ \E p \in Phones, t \in Tokens : RefreshToken(p, t)

DeliveryStep ==
  \/ \E a \in Notices : retryPush(a)
  \/ \E d \in Deliveries : LookUpDevices(d) \/ SendMessages(d) \/ storeOutcome(d)
  \/ Crash

NoticeNext == InboxStep \/ PhoneStep \/ DeliveryStep

NoticeSpec == NoticeInit /\ [][NoticeNext]_noticeVars

------------------------------------------------------------------------------
(* Nobody's inbox row disagrees with what was published: an announcement   *)
(* for one employee has that recipient and no other, an acknowledgement    *)
(* was asked for and its message read, and drafts have no recipients.      *)
(* Rows, drafts and flags are written by different handlers.               *)
ReceiptsMatchNotice ==
  \A a \in Notices :
    LET row == announcement[a] IN
      /\ inbox(a) # {} <=> row # None /\ row.status \in {"PUBLISHED", "WITHDRAWN"}
      /\ inbox(a) # {} /\ row.audienceType = "EMPLOYEE" => inbox(a) = {row.employee}
      /\ \A e \in inbox(a) : recipient[a][e].acknowledged => row.requiresAck /\ recipient[a][e].read

(* A recipient counted as SENT has a time of sending, and one with such a  *)
(* time, counted as FAILED by now or not, had a message accepted by FCM    *)
(* for a phone of his, whatever deliveries, retries, crashes and failed    *)
(* updates overlapped.  Acceptance is all it says, not that a phone showed *)
(* anything (deliverPublishedAnnouncementPush, PUSH_ACCEPTANCE.md:12).     *)
SentMeansAccepted ==
  \A a \in Notices : \A e \in inbox(a) :
    /\ recipient[a][e].pushStatus = "SENT" => recipient[a][e].pushSent
    /\ recipient[a][e].pushSent => \E p \in Phones : <<a, e, p>> \in handed

(* FCM is handed no message for a phone that had no live session of its    *)
(* employee since the publication: not a replaced one, not one he left     *)
(* (FirebaseAnnouncementPushSender.sendAnnouncement).                      *)
PushFollowsSession == handed \subseteq reachable

(* A registration is only taken from an account by another account with a  *)
(* live session on that very phone, never by a late one of the account     *)
(* that used it before (registerPushDevice).                               *)
RegistrationTakenByRight ==
  [][\A e \in Employees, p \in Phones :
       pushDevice[e][p] # None /\ pushDevice'[e][p] = None =>
         \E f \in Employees \ {e} : mobileOf[f] = p /\ pushDevice'[f][p] # None]_noticeVars

=============================================================================
