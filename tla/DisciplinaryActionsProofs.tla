------------------------ MODULE DisciplinaryActionsProofs ------------------------
(***************************************************************************)
(* Proofs about announcements, push and decisions, for any organisation    *)
(* and any number of announcements, phones, deliveries and decisions.  The *)
(* inductive invariant has a part for what is in the tables of the inbox   *)
(* (InboxInv), one for phones (PhonesInv), one for what a delivery under   *)
(* way knows, whatever happened since it was started (PushInv), and one    *)
(* for decisions and the announcements they point to (DecisionInv).        *)
(***************************************************************************)
EXTENDS DisciplinaryActions, TLAPS

(* A row has the column its audience needs. *)
AudienceFits(row) ==
  /\ row.audienceType = "EMPLOYEE" => row.employee \in Employees
  /\ row.audienceType = "DEPARTMENT" => row.department \in Departments

InboxInv ==
  /\ announcement \in [Notices -> AnnouncementRow \cup {None}]
  /\ recipient \in [Notices -> [Employees -> RecipientRow \cup {None}]]
  /\ \A a \in Notices : announcement[a] # None => AudienceFits(announcement[a])
  /\ ReceiptsMatchNotice

PhonesInv ==
  /\ pushDevice \in [Employees -> [Phones -> PushDeviceRow \cup {None}]]
  /\ \A e \in Employees, p \in Phones : pushDevice[e][p] # None => pushDevice[e][p].token \in TokensOf[p]
  /\ mobileOf \in [Employees -> Phones \cup {None}]
  /\ employed \subseteq Employees
  /\ installed \in [Phones -> Tokens]
  /\ \A p \in Phones : installed[p] \in TokensOf[p]

Result == {"SENT", "SKIPPED", "FAILED"}
Outcome == (UNION {[S -> Result] : S \in SUBSET Employees}) \cup {<<>>}
DeliveryRow ==
  [phase: {"IDLE", "LOOKUP", "SEND", "STORE"}, of: Notices \cup {None}, to: SUBSET Employees,
   devices: SUBSET Registration, outcome: Outcome]

(* A delivery is for recipients of its announcement; the phones it is      *)
(* about to send to had a session since the publication, and what it is    *)
(* about to store as SENT was accepted.                                    *)
DeliverySound(x) ==
  /\ x.phase # "IDLE" => x.of \in Notices /\ x.to \subseteq inbox(x.of)
  /\ x.phase = "SEND" => \A r \in x.devices : <<x.of, r[1], r[2]>> \in reachable
  /\ x.phase = "STORE" => /\ x.outcome \in [x.to -> Result]
                          /\ \A e \in x.to : x.outcome[e] = "SENT" => \E p \in Phones : <<x.of, e, p>> \in handed

(* Whoever has a session while an announcement is out is counted. *)
LiveIsReachable ==
  \A a \in Notices, e \in Employees :
    inbox(a) # {} /\ mobileOf[e] # None => <<a, e, mobileOf[e]>> \in reachable

PushInv ==
  /\ delivery \in [Deliveries -> DeliveryRow]
  /\ handed \cup reachable \subseteq Notices \X Employees \X Phones
  /\ \A d \in Deliveries : DeliverySound(delivery[d])
  /\ LiveIsReachable
  /\ SentMeansAccepted
  /\ PushFollowsSession

NoticeInv == InboxInv /\ PhonesInv /\ PushInv

(* The announcement a decision points to: for its employee alone, to be    *)
(* acknowledged, and out.                                                  *)
LinkSound(x, a) ==
  /\ a \in Notices /\ announcement[a] # None
  /\ announcement[a].status \in {"PUBLISHED", "WITHDRAWN"}
  /\ announcement[a].audienceType = "EMPLOYEE" /\ announcement[a].employee = x.employee
  /\ announcement[a].requiresAck

DecisionInv ==
  /\ decision \in [Decisions -> DecisionRow \cup {None}]
  /\ \A k \in Decisions : decision[k] # None =>
       /\ decision[k].status = "DRAFT" => linked(k) = {}
       /\ decision[k].status # "DRAFT" => decision[k].announcement # None
       /\ \A a \in linked(k) : LinkSound(decision[k], a)
  /\ \A j, k \in Decisions : j # k /\ decision[j] # None /\ decision[k] # None =>
       linked(j) \cap linked(k) = {}

IInv == NoticeInv /\ DecisionInv

------------------------------------------------------------------------------
(* Rows and inboxes *)

LEMMA InboxRow ==
  ASSUME InboxInv, NEW a \in Notices
  PROVE  /\ announcement[a] # None => announcement[a] \in AnnouncementRow
         /\ inbox(a) \subseteq Employees
         /\ \A e \in inbox(a) : recipient[a][e] \in RecipientRow
  BY DEF InboxInv, inbox

(* A target that is accepted makes a row that fits its audience. *)
LEMMA TargetRow ==
  ASSUME NEW type \in AudienceType, NEW department \in Departments \cup {None},
         NEW e \in Employees \cup {None}, NEW ack \in BOOLEAN,
         resolveAnnouncementTarget(type, department, e) # None
  PROVE  LET row == rowOf("DRAFT", type, resolveAnnouncementTarget(type, department, e), ack)
         IN row \in AnnouncementRow /\ row.status = "DRAFT" /\ AudienceFits(row)
<1> PICK target : target = resolveAnnouncementTarget(type, department, e)
  OBVIOUS
<1>1. target = [department |-> IF type = "DEPARTMENT" THEN department ELSE None,
                employee |-> IF type = "EMPLOYEE" THEN e ELSE None]
  BY DEF resolveAnnouncementTarget
<1>2. type = "ALL" \/ target.department # None \/ target.employee # None
  BY <1>1 DEF resolveAnnouncementTarget
<1> QED BY <1>1, <1>2 DEF rowOf, AnnouncementRow, AudienceType, AudienceFits

LEMMA CoalesceType ==
  ASSUME NEW S, NEW given \in S \cup {None}, NEW kept \in S \cup {None}
  PROVE  coalesce(given, kept) \in S \cup {None}
  BY DEF coalesce

LEMMA Drafted ==
  ASSUME InboxInv, NEW a \in Notices, inbox(a) = {}, NEW row \in AnnouncementRow,
         row.status = "DRAFT", AudienceFits(row),
         announcement' = [announcement EXCEPT ![a] = row], recipient' = recipient
  PROVE  InboxInv'
<1>1. announcement' \in [Notices -> AnnouncementRow \cup {None}]
      /\ recipient' \in [Notices -> [Employees -> RecipientRow \cup {None}]]
  BY DEF InboxInv
<1>2. \A b \in Notices : announcement'[b] = IF b = a THEN row ELSE announcement[b]
  BY DEF InboxInv
<1>3. \A b \in Notices : announcement'[b] # None => AudienceFits(announcement'[b])
  BY <1>2 DEF InboxInv
<1>4. ReceiptsMatchNotice'
  BY <1>2, RowAssumption DEF InboxInv, ReceiptsMatchNotice, inbox
<1> QED BY <1>1, <1>3, <1>4 DEF InboxInv, AudienceFits

(* Publication: an announcement that was not out goes to its recipients.   *)
Publication(a, row, to) ==
  /\ row \in AnnouncementRow /\ row.status = "PUBLISHED" /\ AudienceFits(row)
  /\ to \in SUBSET Employees /\ to # {}
  /\ row.audienceType = "EMPLOYEE" => to = {row.employee}
  /\ announcement' = [announcement EXCEPT ![a] = row]
  /\ recipient' = delivered(a, to)

LEMMA Published ==
  ASSUME InboxInv, NEW a \in Notices, NEW row, NEW to, Publication(a, row, to)
  PROVE  /\ InboxInv'
         /\ inbox(a)' = to
         /\ \A b \in Notices \ {a} : inbox(b)' = inbox(b)
         /\ \A b \in Notices, e \in Employees :
              recipient'[b][e] = IF b = a THEN IF e \in to THEN newRecipient ELSE None ELSE recipient[b][e]
<1> USE DEF Publication
<1>1. newRecipient \in RecipientRow /\ newRecipient # None /\ newRecipient.acknowledged = FALSE
  <2>1. newRecipient \in RecipientRow /\ newRecipient.acknowledged = FALSE
    BY DEF newRecipient, RecipientRow
  <2> QED BY <2>1, RowAssumption
<1>2. recipient' \in [Notices -> [Employees -> RecipientRow \cup {None}]]
  BY <1>1 DEF InboxInv, delivered
<1>3. \A b \in Notices, e \in Employees :
        recipient'[b][e] = IF b = a THEN IF e \in to THEN newRecipient ELSE None ELSE recipient[b][e]
  BY DEF InboxInv, delivered
<1>4. announcement' \in [Notices -> AnnouncementRow \cup {None}]
  BY DEF InboxInv
<1>5. \A b \in Notices : announcement'[b] = IF b = a THEN row ELSE announcement[b]
  BY DEF InboxInv
<1>6. \A b \in Notices : announcement'[b] # None => AudienceFits(announcement'[b])
  BY <1>5 DEF InboxInv
<1>7. inbox(a)' = to
  BY <1>1, <1>3 DEF inbox
<1>8. \A b \in Notices \ {a} : inbox(b)' = inbox(b)
  BY <1>3 DEF inbox
<1>9. ReceiptsMatchNotice'
  <2> SUFFICES ASSUME NEW b \in Notices
               PROVE /\ inbox(b)' # {} <=> announcement'[b] # None /\ announcement'[b].status \in {"PUBLISHED", "WITHDRAWN"}
                     /\ inbox(b)' # {} /\ announcement'[b].audienceType = "EMPLOYEE" => inbox(b)' = {announcement'[b].employee}
                     /\ \A e \in inbox(b)' : recipient'[b][e].acknowledged =>
                          announcement'[b].requiresAck /\ recipient'[b][e].read
    BY DEF ReceiptsMatchNotice
  <2>1. CASE b = a
    <3>1. \A e \in inbox(a)' : recipient'[a][e] = newRecipient
      BY <1>3, <1>7
    <3> QED BY <2>1, <3>1, <1>1, <1>5, <1>7, RowAssumption
  <2>2. CASE b # a
    <3>1. \A e \in inbox(b) : recipient'[b][e] = recipient[b][e]
      BY <2>2, <1>3, InboxRow
    <3>2. inbox(b)' = inbox(b) /\ announcement'[b] = announcement[b]
      BY <2>2, <1>5, <1>8
    <3> QED BY <3>1, <3>2 DEF InboxInv, ReceiptsMatchNotice
  <2> QED BY <2>1, <2>2
<1> QED BY <1>2, <1>3, <1>4, <1>6, <1>7, <1>8, <1>9 DEF InboxInv, AudienceFits

(* The status of an announcement that is not published changes. *)
LEMMA Restated ==
  ASSUME InboxInv, NEW a \in Notices, announcement[a] # None,
         NEW status \in {"CANCELLED", "WITHDRAWN"},
         canTransitionAnnouncement(announcement[a].status, status),
         announcement' = [announcement EXCEPT ![a].status = status], recipient' = recipient
  PROVE  InboxInv'
<1> PICK row : row = [announcement[a] EXCEPT !.status = status]
  OBVIOUS
<1>1. announcement[a] \in AnnouncementRow
  BY InboxRow
<1>2. /\ row \in AnnouncementRow /\ row.status = status
      /\ row.audienceType = announcement[a].audienceType /\ row.employee = announcement[a].employee
      /\ row.department = announcement[a].department /\ row.requiresAck = announcement[a].requiresAck
  BY <1>1 DEF AnnouncementRow
<1>3. announcement' = [announcement EXCEPT ![a] = row]
  BY DEF InboxInv
<1>4. \A b \in Notices : announcement'[b] = IF b = a THEN row ELSE announcement[b]
  BY <1>3 DEF InboxInv
<1>5. announcement' \in [Notices -> AnnouncementRow \cup {None}]
  BY <1>2, <1>3 DEF InboxInv
<1>6. \A b \in Notices : announcement'[b] # None => AudienceFits(announcement'[b])
  BY <1>2, <1>4 DEF InboxInv, AudienceFits
<1>7. announcement[a].status \in {"PUBLISHED", "WITHDRAWN"} <=> status \in {"PUBLISHED", "WITHDRAWN"}
  BY DEF canTransitionAnnouncement
<1>8. ReceiptsMatchNotice'
  <2> SUFFICES ASSUME NEW b \in Notices
               PROVE /\ inbox(b)' # {} <=> announcement'[b] # None /\ announcement'[b].status \in {"PUBLISHED", "WITHDRAWN"}
                     /\ inbox(b)' # {} /\ announcement'[b].audienceType = "EMPLOYEE" => inbox(b)' = {announcement'[b].employee}
                     /\ \A e \in inbox(b)' : recipient'[b][e].acknowledged =>
                          announcement'[b].requiresAck /\ recipient'[b][e].read
    BY DEF ReceiptsMatchNotice
  <2>1. inbox(b)' = inbox(b) /\ recipient'[b] = recipient[b]
    BY DEF inbox
  <2>2. CASE b = a
    <3>1. announcement'[b] = row /\ row # None
      BY <2>2, <1>2, <1>4, RowAssumption
    <3>2. inbox(b) # {} <=> announcement[b].status \in {"PUBLISHED", "WITHDRAWN"}
      BY <2>2 DEF InboxInv, ReceiptsMatchNotice
    <3> QED BY <2>1, <2>2, <3>1, <3>2, <1>2, <1>7 DEF InboxInv, ReceiptsMatchNotice
  <2>3. CASE b # a
    BY <2>1, <2>3, <1>4 DEF InboxInv, ReceiptsMatchNotice
  <2> QED BY <2>2, <2>3
<1> QED BY <1>5, <1>6, <1>8 DEF InboxInv, AudienceFits

(* Changes of receipts that leave out nobody and acknowledge nothing that  *)
(* was not to be acknowledged.                                             *)
LEMMA Receipted ==
  ASSUME InboxInv, announcement' = announcement,
         recipient' \in [Notices -> [Employees -> RecipientRow \cup {None}]],
         \A a \in Notices, e \in Employees :
           /\ recipient'[a][e] # None <=> recipient[a][e] # None
           /\ recipient[a][e] # None /\ recipient'[a][e].acknowledged =>
                announcement[a].requiresAck /\ recipient'[a][e].read
  PROVE  InboxInv' /\ \A a \in Notices : inbox(a)' = inbox(a)
<1>1. \A a \in Notices : inbox(a)' = inbox(a)
  BY DEF inbox
<1>2. ReceiptsMatchNotice'
  BY <1>1 DEF InboxInv, ReceiptsMatchNotice, inbox
<1> QED BY <1>1, <1>2 DEF InboxInv, AudienceFits

------------------------------------------------------------------------------
(* Deliveries under way *)

LEMMA DeliveryOK ==
  ASSUME PushInv, NEW d \in Deliveries
  PROVE  delivery[d] \in DeliveryRow /\ DeliverySound(delivery[d])
  BY DEF PushInv

(* What a delivery knows stays right while inboxes, and what was accepted  *)
(* and seen, only grow.                                                    *)
LEMMA DeliveryKept ==
  ASSUME NEW x, DeliverySound(x),
         handed \subseteq handed', reachable \subseteq reachable',
         \A a \in Notices : inbox(a) \subseteq inbox(a)'
  PROVE  DeliverySound(x)'
  BY DEF DeliverySound

(* PushInv after a step that leaves the deliveries alone, or starts one.   *)
LEMMA PushKept ==
  ASSUME PushInv, delivery' \in [Deliveries -> DeliveryRow],
         \A d \in Deliveries : delivery'[d] = delivery[d] \/ DeliverySound(delivery[d])',
         handed' = handed, reachable \subseteq reachable', reachable' \subseteq Notices \X Employees \X Phones,
         \A a \in Notices : inbox(a) \subseteq inbox(a)',
         LiveIsReachable', SentMeansAccepted'
  PROVE  PushInv'
<1>1. ASSUME NEW d \in Deliveries PROVE DeliverySound(delivery[d])'
  <2>1. CASE delivery'[d] = delivery[d]
    <3> PICK x : x = delivery[d]
      OBVIOUS
    <3>1. DeliverySound(x)
      BY DEF PushInv
    <3>2. DeliverySound(x)'
      BY <3>1, DeliveryKept
    <3> QED BY <2>1, <3>2
  <2> QED BY <2>1
<1>2. PushFollowsSession'
  BY DEF PushInv, PushFollowsSession
<1> QED BY <1>1, <1>2 DEF PushInv

(* A time of sending is what a delivery stored, or what was there before,  *)
(* and SENT comes with one.                                                *)
LEMMA SentKept ==
  ASSUME PushInv, handed \subseteq handed',
         \A a \in Notices, e \in Employees : recipient'[a][e] # None =>
           /\ recipient'[a][e].pushStatus = "SENT" => recipient'[a][e].pushSent
           /\ recipient'[a][e].pushSent =>
                \/ recipient[a][e] # None /\ recipient[a][e].pushSent
                \/ \E p \in Phones : <<a, e, p>> \in handed
  PROVE  SentMeansAccepted'
  BY DEF PushInv, SentMeansAccepted, inbox

(* The handler of a publication starts a delivery, unless the process dies.*)
LEMMA Started ==
  ASSUME PushInv, NEW a \in Notices, NEW to \in SUBSET Employees, deliver(a, to), to \subseteq inbox(a)'
  PROVE  /\ delivery' \in [Deliveries -> DeliveryRow]
         /\ \A d \in Deliveries : delivery'[d] = delivery[d] \/ DeliverySound(delivery[d])'
<1>1. CASE UNCHANGED delivery
  BY <1>1 DEF PushInv
<1>2. CASE ~UNCHANGED delivery
  <2>1. PICK d \in Deliveries :
          delivery' = [delivery EXCEPT ![d] = [Idle EXCEPT !.phase = "LOOKUP", !.of = a, !.to = to]]
    BY <1>2 DEF deliver
  <2> PICK x : x = [Idle EXCEPT !.phase = "LOOKUP", !.of = a, !.to = to]
    OBVIOUS
  <2>2. x = [phase |-> "LOOKUP", of |-> a, to |-> to, devices |-> {}, outcome |-> <<>>]
    BY DEF Idle
  <2>3. x \in DeliveryRow
    <3>1. <<>> \in Outcome
      BY DEF Outcome
    <3> QED BY <2>2, <3>1 DEF DeliveryRow
  <2>4. delivery' \in [Deliveries -> DeliveryRow]
    BY <2>1, <2>3 DEF PushInv
  <2>5. DeliverySound(x)'
    BY <2>2 DEF DeliverySound
  <2>6. \A c \in Deliveries : delivery'[c] = IF c = d THEN x ELSE delivery[c]
    BY <2>1 DEF PushInv
  <2> QED BY <2>4, <2>5, <2>6
<1> QED BY <1>1, <1>2

(* What a publication does to inboxes, phones and deliveries. *)
LEMMA PublicationKeeps ==
  ASSUME NoticeInv, NEW a \in Notices, inbox(a) = {}, NEW row, NEW to, Publication(a, row, to),
         reachable' = reachable \cup liveFor({a}), deliver(a, to), UNCHANGED <<phoneVars, handed>>
  PROVE  NoticeInv'
<1>1. /\ InboxInv' /\ inbox(a)' = to /\ \A b \in Notices \ {a} : inbox(b)' = inbox(b)
      /\ \A b \in Notices, e \in Employees :
           recipient'[b][e] = IF b = a THEN IF e \in to THEN newRecipient ELSE None ELSE recipient[b][e]
  <2>1. InboxInv
    BY DEF NoticeInv
  <2> QED BY <2>1, Published
<1>2. PhonesInv'
  BY DEF NoticeInv, PhonesInv, phoneVars
<1>3. /\ delivery' \in [Deliveries -> DeliveryRow]
      /\ \A d \in Deliveries : delivery'[d] = delivery[d] \/ DeliverySound(delivery[d])'
  BY <1>1, Started DEF NoticeInv, Publication
<1>4. reachable' \subseteq Notices \X Employees \X Phones
  BY DEF NoticeInv, PushInv, liveFor
<1>5. SentMeansAccepted'
  <2>1. newRecipient.pushStatus # "SENT" /\ newRecipient.pushSent = FALSE
    BY DEF newRecipient
  <2>2. \A b \in Notices, e \in Employees : recipient'[b][e] # None =>
          /\ recipient'[b][e].pushStatus = "SENT" => recipient'[b][e].pushSent
          /\ recipient'[b][e].pushSent =>
               \/ recipient[b][e] # None /\ recipient[b][e].pushSent
               \/ \E p \in Phones : <<b, e, p>> \in handed
    <3> SUFFICES ASSUME NEW b \in Notices, NEW e \in Employees, recipient'[b][e] # None
                 PROVE /\ recipient'[b][e].pushStatus = "SENT" => recipient'[b][e].pushSent
                       /\ recipient'[b][e].pushSent =>
                            \/ recipient[b][e] # None /\ recipient[b][e].pushSent
                            \/ \E p \in Phones : <<b, e, p>> \in handed
      OBVIOUS
    <3>1. CASE b = a
      BY <1>1, <2>1, <3>1
    <3>2. CASE b # a
      <4>1. recipient'[b][e] = recipient[b][e] /\ e \in inbox(b)
        BY <1>1, <3>2 DEF inbox
      <4>2. recipient[b][e].pushStatus = "SENT" => recipient[b][e].pushSent
        BY <4>1 DEF NoticeInv, PushInv, SentMeansAccepted
      <4> QED BY <4>1, <4>2
    <3> QED BY <3>1, <3>2
  <2> QED BY <2>2, SentKept DEF NoticeInv
<1>6. LiveIsReachable'
  BY <1>1 DEF NoticeInv, PhonesInv, PushInv, LiveIsReachable, liveFor, phoneVars
<1>7. PushInv'
  BY <1>1, <1>3, <1>4, <1>5, <1>6, PushKept DEF NoticeInv
<1> QED BY <1>1, <1>2, <1>7 DEF NoticeInv

------------------------------------------------------------------------------
(* Announcements and their inbox: one lemma per action *)

LEMMA InboxKept ==
  ASSUME InboxInv, UNCHANGED inboxVars PROVE InboxInv' /\ \A a \in Notices : inbox(a)' = inbox(a)
  BY DEF InboxInv, inboxVars, AudienceFits, ReceiptsMatchNotice, inbox

LEMMA PhonesKept ==
  ASSUME PhonesInv, UNCHANGED phoneVars PROVE PhonesInv'
  BY DEF PhonesInv, phoneVars

(* A step that leaves deliveries and recipients' pushes as they were. *)
LEMMA PushUntouched ==
  ASSUME PushInv, UNCHANGED <<delivery, handed, reachable>>, mobileOf' = mobileOf,
         \A a \in Notices : inbox(a)' = inbox(a),
         \A a \in Notices : \A e \in inbox(a) :
           /\ recipient'[a][e].pushStatus = recipient[a][e].pushStatus
           /\ recipient'[a][e].pushSent = recipient[a][e].pushSent
  PROVE  PushInv'
<1>1. SentMeansAccepted'
  <2> SUFFICES ASSUME NEW a \in Notices, NEW e \in inbox(a)'
               PROVE /\ recipient'[a][e].pushStatus = "SENT" => recipient'[a][e].pushSent
                     /\ recipient'[a][e].pushSent => \E p \in Phones : <<a, e, p>> \in handed'
    BY DEF SentMeansAccepted
  <2>1. e \in inbox(a) /\ handed' = handed
    OBVIOUS
  <2>2. /\ recipient[a][e].pushStatus = "SENT" => recipient[a][e].pushSent
        /\ recipient[a][e].pushSent => \E p \in Phones : <<a, e, p>> \in handed
    BY <2>1 DEF PushInv, SentMeansAccepted
  <2>3. recipient'[a][e].pushStatus = recipient[a][e].pushStatus
        /\ recipient'[a][e].pushSent = recipient[a][e].pushSent
    BY <2>1
  <2> QED BY <2>1, <2>2, <2>3
<1>2. LiveIsReachable'
  BY DEF PushInv, LiveIsReachable
<1> QED BY <1>1, <1>2, PushKept DEF PushInv

LEMMA CreateKeeps ==
  ASSUME NoticeInv, NEW a \in Notices, NEW type \in AudienceType, NEW department \in Departments \cup {None},
         NEW e \in Employees \cup {None}, NEW ack \in BOOLEAN, createNotice(a, type, department, e, ack)
  PROVE  NoticeInv'
<1> PICK row : row = rowOf("DRAFT", type, resolveAnnouncementTarget(type, department, e), ack)
  OBVIOUS
<1>1. row \in AnnouncementRow /\ row.status = "DRAFT" /\ AudienceFits(row)
  BY TargetRow DEF createNotice, assertTarget
<1>2. inbox(a) = {}
  BY DEF createNotice, NoticeInv, InboxInv, ReceiptsMatchNotice
<1>3. InboxInv'
  BY <1>1, <1>2, Drafted DEF createNotice, NoticeInv
<1>4. PhonesInv'
  BY PhonesKept DEF createNotice, NoticeInv
<1>5. PushInv'
  BY PushUntouched DEF createNotice, NoticeInv, inbox, phoneVars
<1> QED BY <1>3, <1>4, <1>5 DEF NoticeInv

LEMMA UpdateKeeps ==
  ASSUME NoticeInv, NEW a \in Notices, NEW type \in AudienceType, NEW department \in Departments \cup {None},
         NEW e \in Employees \cup {None}, NEW ack \in BOOLEAN, updateNotice(a, type, department, e, ack)
  PROVE  NoticeInv'
<1> PICK dep : dep = coalesce(department, announcement[a].department)
  OBVIOUS
<1> PICK emp : emp = coalesce(e, announcement[a].employee)
  OBVIOUS
<1>1. announcement[a] \in AnnouncementRow /\ announcement[a].status = "DRAFT"
  BY InboxRow DEF updateNotice, NoticeInv
<1>2. dep \in Departments \cup {None} /\ emp \in Employees \cup {None}
  BY <1>1, CoalesceType DEF AnnouncementRow
<1> PICK row : row = rowOf("DRAFT", type, resolveAnnouncementTarget(type, dep, emp), ack)
  OBVIOUS
<1>3. row \in AnnouncementRow /\ row.status = "DRAFT" /\ AudienceFits(row)
  BY <1>2, TargetRow DEF updateNotice, assertTarget
<1>4. inbox(a) = {}
  BY <1>1 DEF NoticeInv, InboxInv, ReceiptsMatchNotice
<1>5. InboxInv'
  BY <1>3, <1>4, Drafted DEF updateNotice, NoticeInv
<1>6. PhonesInv'
  BY PhonesKept DEF updateNotice, NoticeInv
<1>7. PushInv'
  BY PushUntouched DEF updateNotice, NoticeInv, inbox, phoneVars
<1> QED BY <1>5, <1>6, <1>7 DEF NoticeInv

LEMMA TransitionKeeps ==
  ASSUME NoticeInv, NEW a \in Notices, NEW status \in {"PUBLISHED", "CANCELLED", "WITHDRAWN"},
         transition(a, status)
  PROVE  NoticeInv'
<1>1. announcement[a] # None /\ announcement[a] \in AnnouncementRow
  BY InboxRow DEF transition, NoticeInv
<1>2. CASE status = "PUBLISHED"
  <2> PICK row : row = [announcement[a] EXCEPT !.status = "PUBLISHED"]
    OBVIOUS
  <2> PICK to : to = resolveRecipients(announcement[a])
    OBVIOUS
  <2>1. /\ row \in AnnouncementRow /\ row.status = "PUBLISHED"
        /\ row.audienceType = announcement[a].audienceType
        /\ row.employee = announcement[a].employee /\ row.department = announcement[a].department
    BY <1>1 DEF AnnouncementRow
  <2>2. AudienceFits(row)
    BY <1>1, <2>1 DEF NoticeInv, InboxInv, AudienceFits
  <2>3. to \subseteq Employees
    BY DEF resolveRecipients, NoticeInv, PhonesInv
  <2>4. to # {}
    BY <1>2 DEF transition
  <2>5. row.audienceType = "EMPLOYEE" => to = {row.employee}
    BY <2>1, <2>4 DEF resolveRecipients
  <2>6. announcement' = [announcement EXCEPT ![a] = row]
    BY <1>2 DEF transition, NoticeInv, InboxInv
  <2>7. inbox(a) = {}
    BY <1>1, <1>2 DEF transition, canTransitionAnnouncement, NoticeInv, InboxInv, ReceiptsMatchNotice
  <2>8. Publication(a, row, to)
    BY <1>2, <2>1, <2>2, <2>3, <2>4, <2>5, <2>6 DEF transition, Publication
  <2> QED BY <1>2, <2>7, <2>8, PublicationKeeps DEF transition
<1>3. CASE status # "PUBLISHED"
  <2>1. InboxInv'
    BY <1>1, <1>3, Restated DEF transition, NoticeInv
  <2>2. PhonesInv'
    BY PhonesKept DEF transition, NoticeInv
  <2>3. PushInv'
    BY <1>3, PushUntouched DEF transition, NoticeInv, inbox, phoneVars
  <2> QED BY <2>1, <2>2, <2>3 DEF NoticeInv
<1> QED BY <1>2, <1>3

LEMMA CreatePublishedKeeps ==
  ASSUME NoticeInv, NEW a \in Notices, NEW e \in Employees,
         createPublishedIndividualWithinTransaction(a, e)
  PROVE  NoticeInv'
<1> PICK row : row = rowOf("PUBLISHED", "EMPLOYEE", [department |-> None, employee |-> e], TRUE)
  OBVIOUS
<1>1. row \in AnnouncementRow /\ row.status = "PUBLISHED" /\ row.audienceType = "EMPLOYEE" /\ row.employee = e
  BY DEF rowOf, AnnouncementRow, AudienceType
<1>2. inbox(a) = {}
  BY DEF createPublishedIndividualWithinTransaction, NoticeInv, InboxInv, ReceiptsMatchNotice
<1>3. Publication(a, row, {e})
  BY <1>1 DEF createPublishedIndividualWithinTransaction, Publication, AudienceFits
<1> QED BY <1>2, <1>3, PublicationKeeps DEF createPublishedIndividualWithinTransaction

LEMMA RetryKeeps ==
  ASSUME NoticeInv, NEW a \in Notices, retryPush(a) PROVE NoticeInv'
<1> PICK to : to = {e \in inbox(a) : recipient[a][e].pushStatus \in {"PENDING", "SKIPPED", "FAILED"}}
  OBVIOUS
<1>1. InboxInv' /\ \A b \in Notices : inbox(b)' = inbox(b)
  BY InboxKept DEF retryPush, NoticeInv
<1>2. PhonesInv'
  BY PhonesKept DEF retryPush, NoticeInv
<1>3. deliver(a, to) /\ to \subseteq inbox(a)' /\ to \in SUBSET Employees
  BY <1>1 DEF retryPush, inbox
<1>4. /\ delivery' \in [Deliveries -> DeliveryRow]
      /\ \A d \in Deliveries : delivery'[d] = delivery[d] \/ DeliverySound(delivery[d])'
  BY <1>3, Started DEF NoticeInv
<1>5. SentMeansAccepted' /\ LiveIsReachable'
  BY <1>1 DEF retryPush, inboxVars, phoneVars, NoticeInv, PushInv, SentMeansAccepted, LiveIsReachable
<1>6. PushInv'
  BY <1>1, <1>4, <1>5, PushKept DEF retryPush, NoticeInv, PushInv
<1> QED BY <1>1, <1>2, <1>6 DEF NoticeInv

(* A receipt of one recipient changes, but not how his push went. *)
LEMMA ReceiptKeeps ==
  ASSUME NoticeInv, NEW a \in Notices, NEW e \in inbox(a), NEW r \in RecipientRow,
         recipient' = [recipient EXCEPT ![a][e] = r],
         r.pushStatus = recipient[a][e].pushStatus, r.pushSent = recipient[a][e].pushSent,
         r.acknowledged => announcement[a].requiresAck /\ r.read,
         UNCHANGED <<announcement, phoneVars, delivery, handed, reachable>>
  PROVE  NoticeInv'
<1>1. e \in Employees /\ r # None
  BY RowAssumption DEF inbox
<1>2. recipient' \in [Notices -> [Employees -> RecipientRow \cup {None}]]
  BY DEF NoticeInv, InboxInv, inbox
<1>3. \A b \in Notices, f \in Employees :
        recipient'[b][f] = IF b = a /\ f = e THEN r ELSE recipient[b][f]
  BY <1>1 DEF NoticeInv, InboxInv
<1>4. InboxInv' /\ \A b \in Notices : inbox(b)' = inbox(b)
  <2>1. \A b \in Notices, f \in Employees :
          /\ recipient'[b][f] # None <=> recipient[b][f] # None
          /\ recipient[b][f] # None /\ recipient'[b][f].acknowledged =>
               announcement[b].requiresAck /\ recipient'[b][f].read
    BY <1>1, <1>3 DEF NoticeInv, InboxInv, ReceiptsMatchNotice, inbox
  <2> QED BY <1>2, <2>1, Receipted DEF NoticeInv
<1>5. PhonesInv'
  BY PhonesKept DEF NoticeInv
<1>6. PushInv'
  <2>1. \A b \in Notices : \A f \in inbox(b) :
          /\ recipient'[b][f].pushStatus = recipient[b][f].pushStatus
          /\ recipient'[b][f].pushSent = recipient[b][f].pushSent
    BY <1>3 DEF inbox
  <2> QED BY <1>4, <2>1, PushUntouched DEF NoticeInv, phoneVars
<1> QED BY <1>4, <1>5, <1>6 DEF NoticeInv

LEMMA MarkReadKeeps ==
  ASSUME NoticeInv, NEW a \in Notices, NEW e \in Employees, markRead(e, a) PROVE NoticeInv'
<1> PICK r : r = [recipient[a][e] EXCEPT !.read = TRUE]
  OBVIOUS
<1>1. recipient[a][e] \in RecipientRow /\ e \in inbox(a)
  BY InboxRow DEF markRead, NoticeInv
<1>2. r \in RecipientRow /\ r.pushStatus = recipient[a][e].pushStatus
      /\ r.pushSent = recipient[a][e].pushSent /\ r.acknowledged = recipient[a][e].acknowledged /\ r.read = TRUE
  BY <1>1 DEF RecipientRow
<1>3. recipient' = [recipient EXCEPT ![a][e] = r]
  BY <1>1 DEF markRead, NoticeInv, InboxInv
<1>4. r.acknowledged => announcement[a].requiresAck /\ r.read
  BY <1>1, <1>2 DEF NoticeInv, InboxInv, ReceiptsMatchNotice
<1> QED BY <1>1, <1>2, <1>3, <1>4, ReceiptKeeps DEF markRead

LEMMA AcknowledgeKeeps ==
  ASSUME NoticeInv, NEW a \in Notices, NEW e \in Employees, acknowledge(e, a) PROVE NoticeInv'
<1> PICK r : r = [recipient[a][e] EXCEPT !.read = TRUE, !.acknowledged = TRUE]
  OBVIOUS
<1>1. recipient[a][e] \in RecipientRow /\ e \in inbox(a)
  BY InboxRow DEF acknowledge, NoticeInv
<1>2. r \in RecipientRow /\ r.pushStatus = recipient[a][e].pushStatus
      /\ r.pushSent = recipient[a][e].pushSent /\ r.read = TRUE
  BY <1>1 DEF RecipientRow
<1>3. recipient' = [recipient EXCEPT ![a][e] = r]
  BY <1>1 DEF acknowledge, NoticeInv, InboxInv
<1>4. announcement[a].requiresAck
  BY DEF acknowledge, canAcknowledgeAnnouncement
<1>5. r.acknowledged => announcement[a].requiresAck /\ r.read
  BY <1>2, <1>4
<1>6. UNCHANGED <<announcement, phoneVars, delivery, handed, reachable>>
  BY DEF acknowledge
<1> QED BY <1>1, <1>2, <1>3, <1>5, <1>6, ReceiptKeeps

------------------------------------------------------------------------------
(* Sessions, phones and their tokens: one lemma per action *)

(* A step of a phone that signs nobody in. *)
LEMMA PhoneStepKeeps ==
  ASSUME NoticeInv, PhonesInv', UNCHANGED <<inboxVars, delivery, handed, reachable>>,
         \A e \in Employees : mobileOf'[e] \in {mobileOf[e], None}
  PROVE  NoticeInv'
<1>1. InboxInv' /\ \A a \in Notices : inbox(a)' = inbox(a)
  BY InboxKept DEF NoticeInv
<1>2. SentMeansAccepted'
  BY <1>1 DEF NoticeInv, PushInv, SentMeansAccepted, inboxVars
<1>3. LiveIsReachable'
  BY <1>1 DEF NoticeInv, PushInv, LiveIsReachable
<1>4. PushInv'
  BY <1>1, <1>2, <1>3, PushKept DEF NoticeInv, PushInv
<1> QED BY <1>1, <1>4 DEF NoticeInv

LEMMA SignInKeeps ==
  ASSUME NoticeInv, NEW e \in Employees, NEW p \in Phones, signIn(e, p) PROVE NoticeInv'
<1>1. InboxInv' /\ \A a \in Notices : inbox(a)' = inbox(a)
  BY InboxKept DEF signIn, NoticeInv
<1>2. PhonesInv'
  BY DEF signIn, NoticeInv, PhonesInv
<1>3. SentMeansAccepted'
  BY <1>1 DEF signIn, NoticeInv, PushInv, SentMeansAccepted, inboxVars
<1> PICK new : new = {<<a, e, p>> : a \in {b \in Notices : inbox(b) # {}}}
  OBVIOUS
<1>4. reachable' = reachable \cup new
  BY DEF signIn
<1>5. \A a \in Notices : inbox(a) # {} => <<a, e, p>> \in new
  OBVIOUS
<1>6. new \subseteq Notices \X Employees \X Phones
  OBVIOUS
<1>7. LiveIsReachable'
  <2> SUFFICES ASSUME NEW a \in Notices, NEW f \in Employees, inbox(a) # {}, mobileOf'[f] # None
               PROVE  <<a, f, mobileOf'[f]>> \in reachable'
    BY <1>1 DEF LiveIsReachable
  <2>1. CASE f = e
    <3>1. mobileOf'[f] = p
      BY <2>1 DEF signIn, NoticeInv, PhonesInv
    <3> QED BY <2>1, <3>1, <1>4, <1>5
  <2>2. CASE f # e
    <3>1. mobileOf'[f] = mobileOf[f]
      BY <2>2 DEF signIn, NoticeInv, PhonesInv
    <3> QED BY <3>1, <1>4 DEF NoticeInv, PushInv, LiveIsReachable
  <2> QED BY <2>1, <2>2
<1>8. PushInv'
  BY <1>1, <1>3, <1>4, <1>6, <1>7, PushKept DEF signIn, NoticeInv, PushInv
<1> QED BY <1>1, <1>2, <1>8 DEF NoticeInv

LEMMA EndSessionKeeps ==
  ASSUME NoticeInv, NEW e \in Employees, endSession(e) PROVE NoticeInv'
<1>1. PhonesInv'
  BY DEF endSession, NoticeInv, PhonesInv
<1>2. \A f \in Employees : mobileOf'[f] \in {mobileOf[f], None}
  BY DEF endSession, NoticeInv, PhonesInv
<1> QED BY <1>1, <1>2, PhoneStepKeeps DEF endSession

(* A registration that is switched off keeps its token. *)
LEMMA SwitchedOff ==
  ASSUME PhonesInv, NEW e \in Employees, NEW p \in Phones, pushDevice[e][p] # None
  PROVE  LET row == [pushDevice[e][p] EXCEPT !.active = FALSE]
         IN row \in PushDeviceRow /\ row # None /\ row.token = pushDevice[e][p].token
<1> PICK row : row = [pushDevice[e][p] EXCEPT !.active = FALSE]
  OBVIOUS
<1>1. pushDevice[e][p] \in PushDeviceRow
  BY DEF PhonesInv
<1>2. row \in PushDeviceRow /\ row.token = pushDevice[e][p].token
  BY <1>1 DEF PushDeviceRow
<1>3. row # None
  BY <1>2, RowAssumption
<1> QED BY <1>2, <1>3

LEMMA ChangeStatusKeeps ==
  ASSUME NoticeInv, NEW e \in Employees, changeStatus(e) PROVE NoticeInv'
<1>1. CASE e \in employed
  <2> PICK rows : rows = [p \in Phones |->
        IF pushDevice[e][p] = None THEN None ELSE [pushDevice[e][p] EXCEPT !.active = FALSE]]
    OBVIOUS
  <2>1. pushDevice' = [pushDevice EXCEPT ![e] = rows]
    BY <1>1 DEF changeStatus
  <2>2. \A p \in Phones : rows[p] \in PushDeviceRow \cup {None}
    BY SwitchedOff DEF NoticeInv
  <2>3. \A p \in Phones : rows[p] # None => rows[p].token \in TokensOf[p]
    BY SwitchedOff DEF NoticeInv, PhonesInv
  <2>4. rows \in [Phones -> PushDeviceRow \cup {None}]
    BY <2>2
  <2>5. PhonesInv'
    BY <1>1, <2>1, <2>3, <2>4 DEF changeStatus, NoticeInv, PhonesInv
  <2>6. \A f \in Employees : mobileOf'[f] \in {mobileOf[f], None}
    BY <1>1 DEF changeStatus, NoticeInv, PhonesInv
  <2> QED BY <2>5, <2>6, PhoneStepKeeps DEF changeStatus
<1>2. CASE e \notin employed
  <2>1. PhonesInv'
    BY <1>2 DEF changeStatus, NoticeInv, PhonesInv
  <2> QED BY <1>2, <2>1, PhoneStepKeeps DEF changeStatus
<1> QED BY <1>1, <1>2

LEMMA RegisterKeeps ==
  ASSUME NoticeInv, NEW e \in Employees, NEW p \in Phones, NEW t \in Tokens, registerPushDevice(e, p, t)
  PROVE  NoticeInv'
<1>1. [token |-> t, active |-> TRUE] \in PushDeviceRow
  BY DEF PushDeviceRow
<1>2. PhonesInv'
  BY <1>1 DEF registerPushDevice, registered, NoticeInv, PhonesInv
<1> QED BY <1>2, PhoneStepKeeps DEF registerPushDevice

LEMMA UnregisterKeeps ==
  ASSUME NoticeInv, NEW e \in Employees, NEW p \in Phones, unregisterPushDevice(e, p) PROVE NoticeInv'
<1> PICK row : row = [pushDevice[e][p] EXCEPT !.active = FALSE]
  OBVIOUS
<1>1. row \in PushDeviceRow /\ row.token = pushDevice[e][p].token /\ pushDevice[e][p] # None
  BY SwitchedOff DEF unregisterPushDevice, NoticeInv
<1>2. pushDevice' = [pushDevice EXCEPT ![e][p] = row]
  BY DEF unregisterPushDevice, NoticeInv, PhonesInv
<1>3. PhonesInv'
  BY <1>1, <1>2 DEF unregisterPushDevice, NoticeInv, PhonesInv
<1> QED BY <1>3, PhoneStepKeeps DEF unregisterPushDevice

LEMMA RefreshKeeps ==
  ASSUME NoticeInv, NEW p \in Phones, NEW t \in Tokens, RefreshToken(p, t) PROVE NoticeInv'
<1>1. PhonesInv'
  BY DEF RefreshToken, NoticeInv, PhonesInv
<1> QED BY <1>1, PhoneStepKeeps DEF RefreshToken

------------------------------------------------------------------------------
(* Deliveries: one lemma per step *)

(* A step of one delivery, which may add to what was accepted. *)
LEMMA DeliveryMoves ==
  ASSUME NoticeInv, NEW d \in Deliveries, NEW x \in DeliveryRow, DeliverySound(x)',
         delivery' = [delivery EXCEPT ![d] = x],
         handed \subseteq handed', handed' \subseteq reachable, reachable' = reachable,
         UNCHANGED <<inboxVars, mobileOf>>
  PROVE  InboxInv' /\ PushInv'
<1>1. InboxInv' /\ \A a \in Notices : inbox(a)' = inbox(a)
  BY InboxKept DEF NoticeInv
<1>2. \A c \in Deliveries : delivery'[c] = IF c = d THEN x ELSE delivery[c]
  BY DEF NoticeInv, PushInv
<1>3. \A c \in Deliveries : DeliverySound(delivery[c])'
  <2> SUFFICES ASSUME NEW c \in Deliveries PROVE DeliverySound(delivery[c])'
    OBVIOUS
  <2>1. CASE c = d
    BY <2>1, <1>2
  <2>2. CASE c # d
    <3> PICK y : y = delivery[c]
      OBVIOUS
    <3>1. DeliverySound(y)
      BY DEF NoticeInv, PushInv
    <3>2. DeliverySound(y)'
      BY <3>1, <1>1, DeliveryKept
    <3> QED BY <2>2, <3>2, <1>2
  <2> QED BY <2>1, <2>2
<1>4. SentMeansAccepted'
  BY <1>1 DEF NoticeInv, PushInv, SentMeansAccepted, inboxVars
<1>5. LiveIsReachable'
  BY <1>1 DEF NoticeInv, PushInv, LiveIsReachable
<1>6. PushFollowsSession'
  BY DEF PushFollowsSession
<1>7. delivery' \in [Deliveries -> DeliveryRow] /\ handed' \cup reachable' \subseteq Notices \X Employees \X Phones
  BY DEF NoticeInv, PushInv
<1> QED BY <1>1, <1>3, <1>4, <1>5, <1>6, <1>7 DEF PushInv

(* The row of a delivery about to store what became of its messages.       *)
LEMMA StoreRow ==
  ASSUME NoticeInv, NEW d \in Deliveries, delivery[d].phase # "IDLE",
         NEW outcome \in [delivery[d].to -> Result],
         \A e \in delivery[d].to : outcome[e] = "SENT" => \E p \in Phones : <<delivery[d].of, e, p>> \in handed',
         \A a \in Notices : inbox(a)' = inbox(a),
         NEW x, x = [delivery[d] EXCEPT !.phase = "STORE", !.outcome = outcome]
  PROVE  x \in DeliveryRow /\ DeliverySound(x)'
<1>1. delivery[d] \in DeliveryRow /\ DeliverySound(delivery[d])
  BY DeliveryOK DEF NoticeInv
<1>2. outcome \in Outcome
  BY <1>1 DEF Outcome, DeliveryRow
<1>3. x \in DeliveryRow /\ x.phase = "STORE" /\ x.of = delivery[d].of /\ x.to = delivery[d].to /\ x.outcome = outcome
  BY <1>1, <1>2 DEF DeliveryRow
<1>4. DeliverySound(x)'
  BY <1>1, <1>3 DEF DeliverySound
<1> QED BY <1>3, <1>4

(* The same outcome for all, SENT to nobody. *)
LEMMA FailedForAll ==
  ASSUME NoticeInv, NEW d \in Deliveries, delivery[d].phase # "IDLE", NEW status \in {"SKIPPED", "FAILED"},
         delivery' = outcomeForAll(d, status),
         handed \subseteq handed', handed' \subseteq reachable, reachable' = reachable,
         UNCHANGED <<inboxVars, mobileOf>>
  PROVE  InboxInv' /\ PushInv'
<1> PICK outcome : outcome = [e \in delivery[d].to |-> status]
  OBVIOUS
<1> PICK x : x = [delivery[d] EXCEPT !.phase = "STORE", !.outcome = outcome]
  OBVIOUS
<1>1. outcome \in [delivery[d].to -> Result] /\ \A e \in delivery[d].to : outcome[e] # "SENT"
  BY DEF Result
<1>2. \A a \in Notices : inbox(a)' = inbox(a)
  BY InboxKept DEF NoticeInv
<1>3. x \in DeliveryRow /\ DeliverySound(x)'
  BY <1>1, <1>2, StoreRow
<1>4. delivery' = [delivery EXCEPT ![d] = x]
  BY DeliveryOK DEF outcomeForAll, NoticeInv, PushInv, DeliveryRow
<1> QED BY <1>3, <1>4, DeliveryMoves

LEMMA LookUpKeeps ==
  ASSUME NoticeInv, NEW d \in Deliveries, LookUpDevices(d) PROVE NoticeInv'
<1> PICK devices : devices = pushTargets(delivery[d].to)
  OBVIOUS
<1>1. delivery[d] \in DeliveryRow /\ DeliverySound(delivery[d]) /\ delivery[d].phase = "LOOKUP"
  BY DeliveryOK DEF LookUpDevices, NoticeInv
<1>2. UNCHANGED <<inboxVars, phoneVars, handed, reachable, mobileOf>> /\ handed \subseteq reachable
  BY DEF LookUpDevices, phoneVars, NoticeInv, PushInv, PushFollowsSession
<1>3. PhonesInv'
  BY <1>2, PhonesKept DEF NoticeInv
<1>4. CASE delivery' = outcomeForAll(d, "SKIPPED") \/ delivery' = outcomeForAll(d, "FAILED")
  BY <1>1, <1>2, <1>3, <1>4, FailedForAll DEF NoticeInv
<1>5. CASE delivery' = [delivery EXCEPT ![d].phase = "SEND", ![d].devices = devices]
  <2> PICK x : x = [delivery[d] EXCEPT !.phase = "SEND", !.devices = devices]
    OBVIOUS
  <2>1. \A r \in devices : r \in Registration /\ r[1] \in delivery[d].to /\ mobileOf[r[1]] = r[2]
    BY DEF pushTargets
  <2>2. x \in DeliveryRow /\ x.phase = "SEND" /\ x.of = delivery[d].of /\ x.to = delivery[d].to /\ x.devices = devices
    BY <1>1, <2>1 DEF DeliveryRow
  <2>3. \A r \in devices : <<x.of, r[1], r[2]>> \in reachable
    <3> SUFFICES ASSUME NEW r \in devices PROVE <<x.of, r[1], r[2]>> \in reachable
      OBVIOUS
    <3>1. x.of \in Notices /\ r[1] \in inbox(x.of) /\ r[1] \in Employees /\ r[2] \in Phones
      BY <1>1, <2>1, <2>2 DEF DeliverySound, Registration
    <3>2. mobileOf[r[1]] = r[2] /\ mobileOf[r[1]] # None
      BY <2>1, <3>1, NoticeAssumption
    <3> QED BY <3>1, <3>2 DEF NoticeInv, PushInv, LiveIsReachable
  <2>4. DeliverySound(x)'
    BY <1>1, <1>2, <2>2, <2>3, InboxKept DEF DeliverySound, NoticeInv
  <2>5. delivery' = [delivery EXCEPT ![d] = x]
    BY <1>1, <1>5 DEF NoticeInv, PushInv
  <2> QED BY <1>2, <1>3, <2>2, <2>4, <2>5, DeliveryMoves DEF NoticeInv
<1> QED BY <1>4, <1>5 DEF LookUpDevices

(* Registrations switched off stay what they were, but for their flag. *)
LEMMA SwitchingOffKeeps ==
  ASSUME PhonesInv, NEW off, pushDevice' = switchedOff(off), UNCHANGED <<mobileOf, employed, installed>>
  PROVE  PhonesInv'
<1>1. \A e \in Employees, p \in Phones :
        \/ pushDevice'[e][p] = pushDevice[e][p]
        \/ pushDevice[e][p] # None /\ pushDevice'[e][p] = [pushDevice[e][p] EXCEPT !.active = FALSE]
  BY DEF switchedOff
<1>2. \A e \in Employees, p \in Phones :
        /\ pushDevice'[e][p] \in PushDeviceRow \cup {None}
        /\ pushDevice'[e][p] # None => pushDevice'[e][p].token \in TokensOf[p]
  <2> SUFFICES ASSUME NEW e \in Employees, NEW p \in Phones
               PROVE /\ pushDevice'[e][p] \in PushDeviceRow \cup {None}
                     /\ pushDevice'[e][p] # None => pushDevice'[e][p].token \in TokensOf[p]
    OBVIOUS
  <2>1. CASE pushDevice'[e][p] = pushDevice[e][p]
    BY <2>1 DEF PhonesInv
  <2>2. CASE pushDevice[e][p] # None /\ pushDevice'[e][p] = [pushDevice[e][p] EXCEPT !.active = FALSE]
    BY <2>2, SwitchedOff DEF PhonesInv
  <2> QED BY <1>1, <2>1, <2>2
<1>3. pushDevice' \in [Employees -> [Phones -> PushDeviceRow \cup {None}]]
  <2> PICK new : new = pushDevice'
    OBVIOUS
  <2>1. new = [e \in Employees |-> [p \in Phones |-> new[e][p]]]
    BY DEF switchedOff
  <2>2. \A e \in Employees : [p \in Phones |-> new[e][p]] \in [Phones -> PushDeviceRow \cup {None}]
    BY <1>2
  <2> QED BY <2>1, <2>2
<1> QED BY <1>2, <1>3 DEF PhonesInv

LEMMA SendKeeps ==
  ASSUME NoticeInv, NEW d \in Deliveries, SendMessages(d) PROVE NoticeInv'
<1>1. PICK accepted \in SUBSET delivery[d].devices, off \in SUBSET delivery[d].devices :
        /\ handed' = handed \cup {<<delivery[d].of, r[1], r[2]>> : r \in accepted}
        /\ pushDevice' = switchedOff(off)
        /\ \/ delivery' = [delivery EXCEPT ![d].phase = "STORE", ![d].outcome = pushOutcome(d, accepted)]
           \/ delivery' = outcomeForAll(d, "FAILED")
  BY DEF SendMessages
<1>2. delivery[d] \in DeliveryRow /\ DeliverySound(delivery[d]) /\ delivery[d].phase = "SEND"
  BY DeliveryOK DEF SendMessages, NoticeInv
<1>3. UNCHANGED <<inboxVars, mobileOf, employed, installed, reachable>>
  BY DEF SendMessages
<1>4. handed \subseteq handed' /\ handed' \subseteq reachable
  BY <1>1, <1>2 DEF DeliverySound, NoticeInv, PushInv, PushFollowsSession
<1>5. PhonesInv'
  BY <1>1, <1>3, SwitchingOffKeeps DEF NoticeInv
<1>6. CASE delivery' = outcomeForAll(d, "FAILED")
  BY <1>2, <1>3, <1>4, <1>5, <1>6, FailedForAll DEF NoticeInv
<1>7. CASE delivery' = [delivery EXCEPT ![d].phase = "STORE", ![d].outcome = pushOutcome(d, accepted)]
  <2> PICK outcome : outcome = pushOutcome(d, accepted)
    OBVIOUS
  <2>1. outcome \in [delivery[d].to -> Result]
    BY DEF pushOutcome, Result
  <2>2. \A e \in delivery[d].to : outcome[e] = "SENT" => \E p \in Phones : <<delivery[d].of, e, p>> \in handed'
    <3> SUFFICES ASSUME NEW e \in delivery[d].to, outcome[e] = "SENT"
                 PROVE  \E p \in Phones : <<delivery[d].of, e, p>> \in handed'
      OBVIOUS
    <3>1. PICK r \in accepted : r[1] = e
      BY DEF pushOutcome
    <3>2. r[2] \in Phones
      BY <1>2 DEF DeliveryRow, Registration
    <3>3. <<delivery[d].of, e, r[2]>> \in handed'
      BY <1>1, <3>1
    <3> QED BY <3>2, <3>3
  <2> PICK x : x = [delivery[d] EXCEPT !.phase = "STORE", !.outcome = outcome]
    OBVIOUS
  <2>3. \A a \in Notices : inbox(a)' = inbox(a)
    BY <1>3, InboxKept DEF NoticeInv
  <2>4. x \in DeliveryRow /\ DeliverySound(x)'
    BY <1>2, <2>1, <2>2, <2>3, StoreRow
  <2>5. delivery' = [delivery EXCEPT ![d] = x]
    BY <1>2, <1>7 DEF NoticeInv, PushInv
  <2> QED BY <1>3, <1>4, <1>5, <2>4, <2>5, DeliveryMoves DEF NoticeInv
<1> QED BY <1>1, <1>6, <1>7

LEMMA IdleRow == Idle \in DeliveryRow /\ \A x : x = Idle => DeliverySound(x)'
<1>1. <<>> \in Outcome
  BY DEF Outcome
<1> QED BY <1>1 DEF Idle, DeliveryRow, DeliverySound

LEMMA StoreKeeps ==
  ASSUME NoticeInv, NEW d \in Deliveries, storeOutcome(d) PROVE NoticeInv'
<1> PICK a : a = delivery[d].of
  OBVIOUS
<1> PICK to : to = delivery[d].to
  OBVIOUS
<1> PICK outcome : outcome = delivery[d].outcome
  OBVIOUS
<1>1. /\ a \in Notices /\ to \subseteq inbox(a) /\ outcome \in [to -> Result]
      /\ \A e \in to : outcome[e] = "SENT" => \E p \in Phones : <<a, e, p>> \in handed
  BY DeliveryOK DEF storeOutcome, NoticeInv, DeliverySound
<1>2. UNCHANGED <<announcement, phoneVars, handed, reachable>> /\ delivery' = [delivery EXCEPT ![d] = Idle]
  BY DEF storeOutcome
<1>3. PhonesInv'
  BY <1>2, PhonesKept DEF NoticeInv
<1>4. /\ recipient' \in [Notices -> [Employees -> RecipientRow \cup {None}]]
      /\ \A b \in Notices, e \in Employees :
           \/ recipient'[b][e] = recipient[b][e]
           \/ /\ b = a /\ e \in to /\ recipient[b][e] # None
              /\ recipient'[b][e] \in RecipientRow
              /\ recipient'[b][e].pushStatus = outcome[e]
              /\ recipient'[b][e].pushSent = (recipient[b][e].pushSent \/ outcome[e] = "SENT")
              /\ recipient'[b][e].acknowledged = recipient[b][e].acknowledged
              /\ recipient'[b][e].read = recipient[b][e].read
  <2>1. CASE UNCHANGED recipient
    BY <2>1 DEF NoticeInv, InboxInv
  <2>2. CASE recipient' = [recipient EXCEPT ![a] = [e \in Employees |->
               IF e \in to /\ recipient[a][e] # None
                 THEN stored(recipient[a][e], outcome[e]) ELSE recipient[a][e]]]
    <3> PICK rows : rows = [e \in Employees |->
               IF e \in to /\ recipient[a][e] # None
                 THEN stored(recipient[a][e], outcome[e]) ELSE recipient[a][e]]
      OBVIOUS
    <3>1. \A e \in Employees :
            \/ rows[e] = recipient[a][e]
            \/ /\ e \in to /\ recipient[a][e] # None
               /\ rows[e] \in RecipientRow
               /\ rows[e].pushStatus = outcome[e]
               /\ rows[e].pushSent = (recipient[a][e].pushSent \/ outcome[e] = "SENT")
               /\ rows[e].acknowledged = recipient[a][e].acknowledged
               /\ rows[e].read = recipient[a][e].read
      <4> SUFFICES ASSUME NEW e \in Employees, e \in to, recipient[a][e] # None
                   PROVE  /\ rows[e] \in RecipientRow
                          /\ rows[e].pushStatus = outcome[e]
                          /\ rows[e].pushSent = (recipient[a][e].pushSent \/ outcome[e] = "SENT")
               /\ rows[e].pushSent = (recipient[a][e].pushSent \/ outcome[e] = "SENT")
                          /\ rows[e].acknowledged = recipient[a][e].acknowledged
                          /\ rows[e].read = recipient[a][e].read
        OBVIOUS
      <4>1. rows[e] = [recipient[a][e] EXCEPT !.pushStatus = outcome[e],
                                              !.pushSent = recipient[a][e].pushSent \/ outcome[e] = "SENT"]
        BY DEF stored
      <4>2. recipient[a][e] \in RecipientRow
        BY <1>1 DEF NoticeInv, InboxInv
      <4>3. outcome[e] \in Result
        BY <1>1
      <4> QED BY <4>1, <4>2, <4>3 DEF RecipientRow, Result
    <3>2. \A e \in Employees : rows[e] \in RecipientRow \cup {None}
      BY <1>1, <3>1 DEF NoticeInv, InboxInv
    <3>3. rows \in [Employees -> RecipientRow \cup {None}]
      BY <3>2
    <3> QED BY <1>1, <2>2, <3>1, <3>3 DEF NoticeInv, InboxInv
  <2> QED BY <2>1, <2>2 DEF storeOutcome
<1>5. \A b \in Notices, e \in Employees :
        /\ recipient'[b][e] # None <=> recipient[b][e] # None
        /\ recipient[b][e] # None /\ recipient'[b][e].acknowledged =>
             announcement[b].requiresAck /\ recipient'[b][e].read
  <2> SUFFICES ASSUME NEW b \in Notices, NEW e \in Employees
               PROVE /\ recipient'[b][e] # None <=> recipient[b][e] # None
                     /\ recipient[b][e] # None /\ recipient'[b][e].acknowledged =>
                          announcement[b].requiresAck /\ recipient'[b][e].read
    OBVIOUS
  <2>1. recipient'[b][e] # None <=> recipient[b][e] # None
    BY <1>4, RowAssumption
  <2>2. recipient[b][e] # None /\ recipient[b][e].acknowledged =>
          announcement[b].requiresAck /\ recipient[b][e].read
    BY DEF NoticeInv, InboxInv, ReceiptsMatchNotice, inbox
  <2> QED BY <1>4, <2>1, <2>2
<1>6. InboxInv' /\ \A b \in Notices : inbox(b)' = inbox(b)
  BY <1>2, <1>4, <1>5, Receipted DEF NoticeInv
<1>7. SentMeansAccepted'
  <2>1. \A b \in Notices, e \in Employees : recipient'[b][e] # None =>
          /\ recipient'[b][e].pushStatus = "SENT" => recipient'[b][e].pushSent
          /\ recipient'[b][e].pushSent =>
               \/ recipient[b][e] # None /\ recipient[b][e].pushSent
               \/ \E p \in Phones : <<b, e, p>> \in handed
    <3> SUFFICES ASSUME NEW b \in Notices, NEW e \in Employees, recipient'[b][e] # None
                 PROVE /\ recipient'[b][e].pushStatus = "SENT" => recipient'[b][e].pushSent
                       /\ recipient'[b][e].pushSent =>
                            \/ recipient[b][e] # None /\ recipient[b][e].pushSent
                            \/ \E p \in Phones : <<b, e, p>> \in handed
      OBVIOUS
    <3>1. CASE recipient'[b][e] = recipient[b][e]
      <4>1. e \in inbox(b)
        BY <3>1 DEF inbox
      <4>2. recipient[b][e].pushStatus = "SENT" => recipient[b][e].pushSent
        BY <4>1 DEF NoticeInv, PushInv, SentMeansAccepted
      <4> QED BY <3>1, <4>2
    <3>2. CASE /\ b = a /\ e \in to /\ recipient[b][e] # None
               /\ recipient'[b][e].pushStatus = outcome[e]
               /\ recipient'[b][e].pushSent = (recipient[b][e].pushSent \/ outcome[e] = "SENT")
      <4>1. recipient'[b][e].pushSent <=> recipient[b][e].pushSent \/ outcome[e] = "SENT"
        BY <3>2
      <4> QED BY <1>1, <3>2, <4>1
    <3> QED BY <1>4, <3>1, <3>2
  <2> QED BY <1>2, <2>1, SentKept DEF NoticeInv
<1>8. LiveIsReachable'
  BY <1>2, <1>6 DEF NoticeInv, PushInv, LiveIsReachable, phoneVars
<1>9. delivery' \in [Deliveries -> DeliveryRow]
      /\ \A c \in Deliveries : delivery'[c] = delivery[c] \/ DeliverySound(delivery[c])'
  <2>1. \A c \in Deliveries : delivery'[c] = IF c = d THEN Idle ELSE delivery[c]
    BY <1>2 DEF NoticeInv, PushInv
  <2>2. delivery' \in [Deliveries -> DeliveryRow]
    BY <1>2, IdleRow DEF NoticeInv, PushInv
  <2> QED BY <2>1, <2>2, IdleRow
<1>10. PushInv'
  BY <1>2, <1>6, <1>7, <1>8, <1>9, PushKept DEF NoticeInv, PushInv
<1> QED BY <1>3, <1>6, <1>10 DEF NoticeInv

LEMMA CrashKeeps ==
  ASSUME NoticeInv, Crash PROVE NoticeInv'
<1>1. UNCHANGED <<inboxVars, phoneVars, handed, reachable>> /\ delivery' = [d \in Deliveries |-> Idle]
  BY DEF Crash
<1>2. PhonesInv'
  BY <1>1, PhonesKept DEF NoticeInv
<1>3. InboxInv' /\ \A b \in Notices : inbox(b)' = inbox(b)
  BY <1>1, InboxKept DEF NoticeInv
<1>4. SentMeansAccepted' /\ LiveIsReachable'
  BY <1>1, <1>3 DEF inboxVars, phoneVars, NoticeInv, PushInv, SentMeansAccepted, LiveIsReachable
<1>5. delivery' \in [Deliveries -> DeliveryRow]
      /\ \A c \in Deliveries : delivery'[c] = delivery[c] \/ DeliverySound(delivery[c])'
  BY <1>1, IdleRow
<1>6. PushInv'
  BY <1>1, <1>3, <1>4, <1>5, PushKept DEF NoticeInv, PushInv
<1> QED BY <1>2, <1>3, <1>6 DEF NoticeInv

------------------------------------------------------------------------------
(* Every step *)

LEMMA NoticeInitially == NoticeInit => NoticeInv
<1> SUFFICES ASSUME NoticeInit PROVE NoticeInv
  OBVIOUS
<1>1. \A a \in Notices : inbox(a) = {}
  BY DEF NoticeInit, inbox
<1>2. InboxInv
  BY <1>1 DEF NoticeInit, InboxInv, ReceiptsMatchNotice
<1>3. PhonesInv
  BY DEF NoticeInit, PhonesInv
<1>4. delivery \in [Deliveries -> DeliveryRow] /\ \A d \in Deliveries : DeliverySound(delivery[d])
  BY IdleRow DEF NoticeInit, DeliverySound, Idle
<1>5. PushInv
  BY <1>1, <1>4 DEF NoticeInit, PushInv, LiveIsReachable, SentMeansAccepted, PushFollowsSession
<1> QED BY <1>2, <1>3, <1>5 DEF NoticeInv

LEMMA NoticeStep == NoticeInv /\ NoticeNext => NoticeInv'
<1> SUFFICES ASSUME NoticeInv, NoticeNext PROVE NoticeInv'
  OBVIOUS
<1>1. CASE InboxStep
  <2>1. ASSUME NEW a \in Drafts, NEW type \in AudienceType, NEW ack \in BOOLEAN,
               NEW department \in Departments \cup {None}, NEW e \in Employees \cup {None},
               createNotice(a, type, department, e, ack) \/ updateNotice(a, type, department, e, ack)
        PROVE  NoticeInv'
    <3>1. a \in Notices
      BY NoticeAssumption
    <3> QED BY <2>1, <3>1, CreateKeeps, UpdateKeeps
  <2>2. ASSUME NEW a \in Notices, NEW s \in {"PUBLISHED", "CANCELLED", "WITHDRAWN"}, transition(a, s)
        PROVE  NoticeInv'
    BY <2>2, TransitionKeeps
  <2>3. ASSUME NEW a \in Notices, NEW e \in Employees, markRead(e, a) \/ acknowledge(e, a)
        PROVE  NoticeInv'
    BY <2>3, MarkReadKeeps, AcknowledgeKeeps
  <2>4. ASSUME NEW e \in Employees, changeStatus(e) PROVE NoticeInv'
    BY <2>4, ChangeStatusKeeps
  <2> QED BY <1>1, <2>1, <2>2, <2>3, <2>4 DEF InboxStep
<1>2. CASE PhoneStep
  <2>1. ASSUME NEW e \in Employees, endSession(e) PROVE NoticeInv'
    BY <2>1, EndSessionKeeps
  <2>2. ASSUME NEW e \in Employees, NEW p \in Phones, signIn(e, p) \/ unregisterPushDevice(e, p) PROVE NoticeInv'
    BY <2>2, SignInKeeps, UnregisterKeeps
  <2>3. ASSUME NEW e \in Employees, NEW p \in Phones, NEW t \in Tokens, registerPushDevice(e, p, t) PROVE NoticeInv'
    BY <2>3, RegisterKeeps
  <2>4. ASSUME NEW p \in Phones, NEW t \in Tokens, RefreshToken(p, t) PROVE NoticeInv'
    BY <2>4, RefreshKeeps
  <2> QED BY <1>2, <2>1, <2>2, <2>3, <2>4 DEF PhoneStep
<1>3. CASE DeliveryStep
  BY <1>3, RetryKeeps, LookUpKeeps, SendKeeps, StoreKeeps, CrashKeeps DEF DeliveryStep
<1> QED BY <1>1, <1>2, <1>3 DEF NoticeNext

LEMMA NoticeStutter == NoticeInv /\ UNCHANGED noticeVars => NoticeInv'
<1> SUFFICES ASSUME NoticeInv, UNCHANGED noticeVars PROVE NoticeInv'
  OBVIOUS
<1>1. InboxInv' /\ \A a \in Notices : inbox(a)' = inbox(a)
  BY InboxKept DEF NoticeInv, noticeVars
<1>2. PhonesInv'
  BY PhonesKept DEF NoticeInv, noticeVars
<1>3. PushInv'
  BY <1>1, PushUntouched DEF NoticeInv, noticeVars, inboxVars, phoneVars
<1> QED BY <1>1, <1>2, <1>3 DEF NoticeInv

------------------------------------------------------------------------------
(* Decisions *)

(* Announcements that are out keep what a decision relies on, whatever is  *)
(* done to them: they are no drafts, and no handler edits them.            *)
OutKept ==
  \A a \in Notices :
    announcement[a] # None /\ announcement[a].status \in {"PUBLISHED", "WITHDRAWN"} =>
      /\ announcement'[a] # None
      /\ announcement'[a].status \in {"PUBLISHED", "WITHDRAWN"}
      /\ announcement'[a].audienceType = announcement[a].audienceType
      /\ announcement'[a].employee = announcement[a].employee
      /\ announcement'[a].requiresAck = announcement[a].requiresAck

LEMMA NoticeKeepsOut == NoticeInv /\ NoticeNext => OutKept
<1> SUFFICES ASSUME NoticeInv, NoticeNext PROVE OutKept
  OBVIOUS
<1>1. announcement' = announcement => OutKept
  BY DEF OutKept
<1>2. ASSUME NEW a \in Notices, NEW type, NEW department, NEW e, NEW ack,
             createNotice(a, type, department, e, ack) \/ updateNotice(a, type, department, e, ack)
      PROVE  OutKept
  <2>1. announcement[a] = None \/ announcement[a].status = "DRAFT"
    BY <1>2 DEF createNotice, updateNotice
  <2>2. \A b \in Notices \ {a} : announcement'[b] = announcement[b]
    BY <1>2 DEF createNotice, updateNotice, NoticeInv, InboxInv
  <2> QED BY <2>1, <2>2 DEF OutKept
<1>3. ASSUME NEW a \in Notices, NEW s \in {"PUBLISHED", "CANCELLED", "WITHDRAWN"}, transition(a, s)
      PROVE  OutKept
  <2>1. announcement[a] \in AnnouncementRow
    BY <1>3, InboxRow DEF transition, NoticeInv
  <2> PICK row : row = [announcement[a] EXCEPT !.status = s]
    OBVIOUS
  <2>2. /\ row \in AnnouncementRow /\ row.status = s /\ row.audienceType = announcement[a].audienceType
        /\ row.employee = announcement[a].employee /\ row.requiresAck = announcement[a].requiresAck
    BY <2>1 DEF AnnouncementRow
  <2>3. \A b \in Notices : announcement'[b] = IF b = a THEN row ELSE announcement[b]
    BY <1>3 DEF transition, NoticeInv, InboxInv
  <2>4. announcement[a].status = "PUBLISHED" \/ announcement[a].status = "WITHDRAWN" => s = "WITHDRAWN"
    BY <1>3 DEF transition, canTransitionAnnouncement
  <2> QED BY <2>2, <2>3, <2>4, RowAssumption DEF OutKept
<1>4. CASE InboxStep
  <2>1. ASSUME NEW a \in Notices, NEW e \in Employees, markRead(e, a) \/ acknowledge(e, a) PROVE OutKept
    BY <1>1, <2>1 DEF markRead, acknowledge
  <2>2. ASSUME NEW e \in Employees, changeStatus(e) PROVE OutKept
    BY <1>1, <2>2 DEF changeStatus, inboxVars
  <2> QED BY <1>2, <1>3, <1>4, <2>1, <2>2, NoticeAssumption DEF InboxStep
<1>5. CASE PhoneStep
  BY <1>1, <1>5 DEF PhoneStep, endSession, signIn, unregisterPushDevice, registerPushDevice, RefreshToken, inboxVars
<1>6. CASE DeliveryStep
  BY <1>1, <1>6 DEF DeliveryStep, retryPush, LookUpDevices, SendMessages, storeOutcome, Crash, inboxVars
<1> QED BY <1>4, <1>5, <1>6 DEF NoticeNext

(* Decisions that stay as they are stay sound. *)
LEMMA DecisionsKept ==
  ASSUME DecisionInv, OutKept, UNCHANGED decision PROVE DecisionInv'
<1>1. \A j \in Decisions : linked(j)' = linked(j)
  BY DEF linked
<1>2. ASSUME NEW j \in Decisions, decision[j] # None PROVE \A a \in linked(j) : LinkSound(decision[j], a)'
  BY <1>2 DEF DecisionInv, LinkSound, OutKept
<1> QED BY <1>1, <1>2 DEF DecisionInv

LEMMA DecisionRowOK ==
  ASSUME DecisionInv, NEW k \in Decisions, decision[k] # None
  PROVE  decision[k] \in DecisionRow
  BY DEF DecisionInv

(* A decision changes to a row whose announcements are sound, and new or   *)
(* its own.                                                                *)
linksOf(row) == {row.announcement, row.revocation} \ {None}

Rewritten(k, row) ==
  /\ row \in DecisionRow
  /\ decision' = [decision EXCEPT ![k] = row]
  /\ row.status = "DRAFT" => linksOf(row) = {}
  /\ row.status # "DRAFT" => row.announcement # None
  /\ \A a \in linksOf(row) : announcement[a] = None \/ (decision[k] # None /\ a \in linked(k))

LEMMA DecisionChanged ==
  ASSUME DecisionInv, OutKept, NEW k \in Decisions, NEW row, Rewritten(k, row),
         \A a \in linksOf(row) : LinkSound(row, a)'
  PROVE  DecisionInv'
<1> USE DEF Rewritten
<1> PICK own : own = linksOf(row)
  OBVIOUS
<1>1. decision' \in [Decisions -> DecisionRow \cup {None}]
  BY DEF DecisionInv
<1>2. \A j \in Decisions : decision'[j] = IF j = k THEN row ELSE decision[j]
  BY DEF DecisionInv
<1>3. linked(k)' = own /\ \A j \in Decisions \ {k} : linked(j)' = linked(j)
  BY <1>2 DEF linked, linksOf
<1>4. row # None
  BY DecisionAssumption
<1>5. ASSUME NEW j \in Decisions, decision'[j] # None
      PROVE  /\ decision'[j].status = "DRAFT" => linked(j)' = {}
             /\ decision'[j].status # "DRAFT" => decision'[j].announcement # None
             /\ \A a \in linked(j)' : LinkSound(decision[j], a)'
  <2>1. CASE j = k
    BY <2>1, <1>2, <1>3
  <2>2. CASE j # k
    <3>1. decision'[j] = decision[j] /\ linked(j)' = linked(j)
      BY <2>2, <1>2, <1>3
    <3>2. \A a \in linked(j) : LinkSound(decision[j], a)'
      BY <1>5, <3>1 DEF DecisionInv, LinkSound, OutKept
    <3> QED BY <1>5, <3>1, <3>2 DEF DecisionInv
  <2> QED BY <2>1, <2>2
<1>6. ASSUME NEW j \in Decisions, j # k, decision[j] # None PROVE linked(j) \cap own = {}
  <2>1. \A a \in linked(j) : announcement[a] # None
    BY <1>6 DEF DecisionInv, LinkSound
  <2>2. decision[k] # None => linked(j) \cap linked(k) = {}
    BY <1>6 DEF DecisionInv
  <2> QED BY <2>1, <2>2
<1>7. ASSUME NEW i \in Decisions, NEW j \in Decisions, i # j, decision'[i] # None, decision'[j] # None
      PROVE  linked(i)' \cap linked(j)' = {}
  <2>1. CASE i = k
    BY <2>1, <1>2, <1>3, <1>6, <1>7
  <2>2. CASE j = k
    BY <2>2, <1>2, <1>3, <1>6, <1>7
  <2>3. CASE i # k /\ j # k
    BY <2>3, <1>2, <1>3, <1>7 DEF DecisionInv
  <2> QED BY <2>1, <2>2, <2>3
<1> QED BY <1>1, <1>5, <1>7 DEF DecisionInv

LEMMA CreateDecisionKeeps ==
  ASSUME IInv, NEW k \in Decisions, NEW type \in Kinds, NEW e \in Employees, NEW from \in Days,
         NEW to \in Days \cup {None}, createDecision(k, type, e, from, to)
  PROVE  DecisionInv'
<1> PICK row : row = [status |-> "DRAFT", actionType |-> type, employee |-> e, from |-> from, to |-> to,
                      announcement |-> None, revocation |-> None]
  OBVIOUS
<1>1. row \in DecisionRow
  BY DecisionAssumption DEF DecisionRow
<1>2. OutKept
  BY DEF createDecision, noticeVars, inboxVars, OutKept
<1>3. decision' = [decision EXCEPT ![k] = row]
  BY DEF createDecision
<1>4. linksOf(row) = {} /\ row.status = "DRAFT"
  BY DEF linksOf
<1>5. Rewritten(k, row)
  BY <1>1, <1>3, <1>4 DEF Rewritten
<1> QED BY <1>2, <1>4, <1>5, DecisionChanged DEF IInv

LEMMA UpdateDecisionKeeps ==
  ASSUME IInv, NEW k \in Decisions, NEW type \in Kinds, NEW e \in Employees, NEW from \in Days,
         NEW to \in Days \cup {None}, updateDecision(k, type, e, from, to)
  PROVE  DecisionInv'
<1> PICK old : old = decision[k]
  OBVIOUS
<1> PICK end : end = coalesce(to, old.to)
  OBVIOUS
<1> PICK row : row = [old EXCEPT !.actionType = type, !.employee = e, !.from = from, !.to = end]
  OBVIOUS
<1>1. old \in DecisionRow /\ old.status = "DRAFT" /\ old # None
  BY DecisionRowOK DEF updateDecision, IInv
<1>2. end \in Days \cup {None}
  BY <1>1, CoalesceType DEF DecisionRow
<1>3. /\ row \in DecisionRow /\ row.status = "DRAFT"
      /\ row.announcement = old.announcement /\ row.revocation = old.revocation
  BY <1>1, <1>2, DecisionAssumption DEF DecisionRow
<1>4. OutKept
  BY DEF updateDecision, noticeVars, inboxVars, OutKept
<1>5. decision' = [decision EXCEPT ![k] = row]
  BY DEF updateDecision, IInv, DecisionInv
<1>6. linksOf(row) = {}
  BY <1>1, <1>3 DEF IInv, DecisionInv, linked, linksOf
<1>7. Rewritten(k, row)
  BY <1>3, <1>5, <1>6 DEF Rewritten
<1> QED BY <1>4, <1>6, <1>7, DecisionChanged DEF IInv

(* The announcement a decision is sent with, in the same transaction. *)
LEMMA SentWithDecision ==
  ASSUME NoticeInv, NEW a \in Notices, NEW e \in Employees,
         createPublishedIndividualWithinTransaction(a, e)
  PROVE  /\ NoticeInv' /\ OutKept /\ announcement[a] = None
         /\ \A x : x.employee = e => LinkSound(x, a)'
<1> PICK row : row = rowOf("PUBLISHED", "EMPLOYEE", [department |-> None, employee |-> e], TRUE)
  OBVIOUS
<1>1. /\ row \in AnnouncementRow /\ row.status = "PUBLISHED" /\ row.audienceType = "EMPLOYEE"
      /\ row.employee = e /\ row.requiresAck = TRUE
  BY DEF rowOf, AnnouncementRow, AudienceType
<1>2. announcement[a] = None /\ announcement' = [announcement EXCEPT ![a] = row]
  BY DEF createPublishedIndividualWithinTransaction
<1>3. \A b \in Notices : announcement'[b] = IF b = a THEN row ELSE announcement[b]
  BY <1>2 DEF NoticeInv, InboxInv
<1>4. OutKept
  BY <1>2, <1>3 DEF OutKept
<1>5. \A x : x.employee = e => LinkSound(x, a)'
  BY <1>1, <1>3, RowAssumption DEF LinkSound
<1> QED BY <1>2, <1>4, <1>5, CreatePublishedKeeps

(* What a sound decision points to keeps being sound when it moves on. *)
LEMMA OwnLinksKept ==
  ASSUME DecisionInv, OutKept, NEW k \in Decisions, decision[k] # None, NEW x, x.employee = decision[k].employee
  PROVE  \A a \in linked(k) : LinkSound(x, a)'
<1>1. \A a \in linked(k) : LinkSound(decision[k], a)
  BY DEF DecisionInv
<1> QED BY <1>1 DEF LinkSound, OutKept

LEMMA IssueKeeps ==
  ASSUME IInv, NEW k \in Decisions, issue(k) PROVE IInv'
<1> PICK old : old = decision[k]
  OBVIOUS
<1>1. old \in DecisionRow /\ old # None /\ old.status = "DRAFT" /\ old.employee \in Employees
  BY DecisionRowOK DEF issue, canTransitionDisciplinaryAction, IInv, DecisionRow
<1>2. PICK a \in Notices : /\ createPublishedIndividualWithinTransaction(a, old.employee)
                           /\ decision' = [decision EXCEPT ![k].status = "ISSUED", ![k].announcement = a]
  BY DEF issue
<1>3. NoticeInv' /\ OutKept /\ announcement[a] = None /\ \A x : x.employee = old.employee => LinkSound(x, a)'
  BY <1>1, <1>2, SentWithDecision DEF IInv
<1> PICK row : row = [old EXCEPT !.status = "ISSUED", !.announcement = a]
  OBVIOUS
<1>4. /\ row \in DecisionRow /\ row.status = "ISSUED" /\ row.employee = old.employee
      /\ row.announcement = a /\ row.revocation = old.revocation
  BY <1>1 DEF DecisionRow
<1>5. row.revocation = None /\ a # None
  BY <1>1, <1>4, NoticeAssumption DEF IInv, DecisionInv, linked
<1>6. linksOf(row) = {a}
  BY <1>4, <1>5 DEF linksOf
<1>7. decision' = [decision EXCEPT ![k] = row]
  BY <1>2 DEF IInv, DecisionInv
<1>8. LinkSound(row, a)'
  BY <1>3, <1>4
<1>9. Rewritten(k, row)
  <2>1. announcement[a] = None
    BY <1>3
  <2>2. \A b \in linksOf(row) : announcement[b] = None
    BY <1>6, <2>1
  <2>3. row.status # "DRAFT" /\ row.announcement # None
    BY <1>4, <1>5
  <2> QED BY <1>4, <1>7, <2>2, <2>3 DEF Rewritten
<1>10. DecisionInv'
  BY <1>3, <1>6, <1>8, <1>9, DecisionChanged DEF IInv
<1> QED BY <1>3, <1>10 DEF IInv

LEMMA RevokeKeeps ==
  ASSUME IInv, NEW k \in Decisions, revoke(k) PROVE IInv'
<1> PICK old : old = decision[k]
  OBVIOUS
<1>1. old \in DecisionRow /\ old # None /\ old.status = "ISSUED" /\ old.employee \in Employees
  BY DecisionRowOK DEF revoke, canTransitionDisciplinaryAction, IInv, DecisionRow
<1>2. old.announcement # None
  BY <1>1 DEF IInv, DecisionInv
<1>3. CASE employeeCanReceive(old.employee)
  <2>1. PICK a \in Notices : /\ createPublishedIndividualWithinTransaction(a, old.employee)
                             /\ decision' = [decision EXCEPT ![k].status = "REVOKED", ![k].revocation = a]
    BY <1>3 DEF revoke
  <2>2. NoticeInv' /\ OutKept /\ announcement[a] = None /\ \A x : x.employee = old.employee => LinkSound(x, a)'
    BY <1>1, <2>1, SentWithDecision DEF IInv
  <2> PICK row : row = [old EXCEPT !.status = "REVOKED", !.revocation = a]
    OBVIOUS
  <2>3. /\ row \in DecisionRow /\ row.status = "REVOKED" /\ row.employee = old.employee
        /\ row.announcement = old.announcement /\ row.revocation = a
    BY <1>1 DEF DecisionRow
  <2>4. decision' = [decision EXCEPT ![k] = row]
    BY <2>1 DEF IInv, DecisionInv
  <2>5. \A b \in linksOf(row) : b = a \/ b \in linked(k)
    BY <2>3 DEF linked, linksOf
  <2>6. \A b \in linksOf(row) : LinkSound(row, b)'
    BY <1>1, <2>2, <2>3, <2>5, OwnLinksKept DEF IInv
  <2>7. Rewritten(k, row)
    <3>1. announcement[a] = None
      BY <2>2
    <3>2. \A b \in linksOf(row) : announcement[b] = None \/ b \in linked(k)
      BY <2>5, <3>1
    <3>3. row.status # "DRAFT" /\ row.announcement # None
      BY <1>2, <2>3
    <3> QED BY <1>1, <2>3, <2>4, <3>2, <3>3 DEF Rewritten
  <2>8. DecisionInv'
    BY <2>2, <2>6, <2>7, DecisionChanged DEF IInv
  <2> QED BY <2>2, <2>8 DEF IInv
<1>4. CASE ~employeeCanReceive(old.employee)
  <2>1. decision' = [decision EXCEPT ![k].status = "REVOKED"] /\ UNCHANGED noticeVars
    BY <1>4 DEF revoke
  <2>2. OutKept
    BY <2>1 DEF noticeVars, inboxVars, OutKept
  <2>3. NoticeInv'
    BY <2>1, NoticeStutter DEF IInv
  <2> PICK row : row = [old EXCEPT !.status = "REVOKED"]
    OBVIOUS
  <2>4. /\ row \in DecisionRow /\ row.status = "REVOKED" /\ row.employee = old.employee
        /\ row.announcement = old.announcement /\ row.revocation = old.revocation
    BY <1>1 DEF DecisionRow
  <2>5. decision' = [decision EXCEPT ![k] = row]
    BY <2>1 DEF IInv, DecisionInv
  <2>6. linksOf(row) = linked(k)
    BY <2>4 DEF linked, linksOf
  <2>7. \A b \in linksOf(row) : LinkSound(row, b)'
    BY <1>1, <2>2, <2>4, <2>6, OwnLinksKept DEF IInv
  <2>8. Rewritten(k, row)
    BY <1>1, <1>2, <2>4, <2>5, <2>6 DEF Rewritten
  <2>9. DecisionInv'
    BY <2>2, <2>7, <2>8, DecisionChanged DEF IInv
  <2> QED BY <2>3, <2>9 DEF IInv
<1> QED BY <1>3, <1>4

------------------------------------------------------------------------------
(* The theorems *)

LEMMA Initially == DecisionInit => IInv
<1>1. DecisionInit => DecisionInv
  BY DEF DecisionInit, DecisionInv, linked
<1> QED BY <1>1, NoticeInitially DEF DecisionInit, IInv

LEMMA Inductive == IInv /\ [DecisionNext]_decisionVars => IInv'
<1> SUFFICES ASSUME IInv, [DecisionNext]_decisionVars PROVE IInv'
  OBVIOUS
<1>1. CASE UNCHANGED decisionVars
  <2>1. OutKept
    BY <1>1 DEF decisionVars, noticeVars, inboxVars, OutKept
  <2> QED BY <1>1, <2>1, NoticeStutter, DecisionsKept DEF decisionVars, IInv
<1>2. CASE NoticeNext /\ UNCHANGED decision
  BY <1>2, NoticeStep, NoticeKeepsOut, DecisionsKept DEF IInv
<1>3. CASE DecisionStep
  <2>1. ASSUME NEW k \in Decisions, NEW type \in Kinds, NEW e \in Employees, NEW from \in Days,
               NEW to \in Days \cup {None},
               createDecision(k, type, e, from, to) \/ updateDecision(k, type, e, from, to)
        PROVE  IInv'
    <3>1. DecisionInv'
      BY <2>1, CreateDecisionKeeps, UpdateDecisionKeeps
    <3>2. UNCHANGED noticeVars
      BY <2>1 DEF createDecision, updateDecision
    <3> QED BY <3>1, <3>2, NoticeStutter DEF IInv
  <2>2. ASSUME NEW k \in Decisions, issue(k) \/ revoke(k) PROVE IInv'
    BY <2>2, IssueKeeps, RevokeKeeps
  <2> QED BY <1>3, <2>1, <2>2 DEF DecisionStep
<1> QED BY <1>1, <1>2, <1>3 DEF DecisionNext

LEMMA AlwaysSound == DecisionSpec => []IInv
  BY Initially, Inductive, PTL DEF DecisionSpec

(* The rows, the phones and the deliveries under way keep their types.     *)
THEOREM DecisionTypes == DecisionSpec => []DecisionTypeOK
<1>1. IInv => DecisionTypeOK
  BY DEF IInv, NoticeInv, InboxInv, PhonesInv, PushInv, DecisionInv, DecisionTypeOK, NoticeTypeOK, DeliveryRow
<1> QED BY <1>1, AlwaysSound, PTL

(* Receipts agree with what was published, for any audience. *)
THEOREM ReceiptsMatch == DecisionSpec => []ReceiptsMatchNotice
<1>1. IInv => ReceiptsMatchNotice
  BY DEF IInv, NoticeInv, InboxInv
<1> QED BY <1>1, AlwaysSound, PTL

(* SENT comes with a time of sending, and such a time is only stored after *)
(* FCM accepted a message for a phone of the recipient, whatever delivery, *)
(* retry, crash or failed update comes between.                            *)
THEOREM SentMeansProviderAccepted == DecisionSpec => []SentMeansAccepted
<1>1. IInv => SentMeansAccepted
  BY DEF IInv, NoticeInv, PushInv
<1> QED BY <1>1, AlwaysSound, PTL

(* FCM accepts no message for a phone without a session of its employee    *)
(* since the publication.                                                  *)
THEOREM PushNeedsSession == DecisionSpec => []PushFollowsSession
<1>1. IInv => PushFollowsSession
  BY DEF IInv, NoticeInv, PushInv
<1> QED BY <1>1, AlwaysSound, PTL

(* A decision keeps the announcement it was issued with, its own.          *)
THEOREM DecisionsReachInbox == DecisionSpec => []DecisionReachedInbox
<1>1. IInv => DecisionReachedInbox
  <2> SUFFICES ASSUME IInv PROVE DecisionReachedInbox
    OBVIOUS
  <2>1. ASSUME NEW k \in Decisions, decision[k] # None, NEW a \in linked(k)
        PROVE  /\ announcement[a].employee = decision[k].employee
               /\ announcement[a].requiresAck
               /\ inbox(a) = {decision[k].employee}
               /\ announcement[a].status = "WITHDRAWN" \/ a \in mine(decision[k].employee)
    <3>1. LinkSound(decision[k], a)
      BY <2>1 DEF IInv, DecisionInv
    <3>2. inbox(a) = {decision[k].employee}
      BY <3>1 DEF LinkSound, IInv, NoticeInv, InboxInv, ReceiptsMatchNotice
    <3> QED BY <3>1, <3>2 DEF LinkSound, mine, published
  <2> QED BY <2>1 DEF IInv, DecisionInv, DecisionReachedInbox
<1> QED BY <1>1, AlwaysSound, PTL

(* Only a registration of another account with a live session on the phone *)
(* takes one away: the token it brings belongs to that very phone.         *)
THEOREM RegistrationsTakenByRight == DecisionSpec => RegistrationTakenByRight
<1>1. IInv /\ [DecisionNext]_decisionVars =>
        [\A e \in Employees, p \in Phones :
           pushDevice[e][p] # None /\ pushDevice'[e][p] = None =>
             \E f \in Employees \ {e} : mobileOf[f] = p /\ pushDevice'[f][p] # None]_noticeVars
  <2> SUFFICES ASSUME IInv, [DecisionNext]_decisionVars, ~UNCHANGED noticeVars,
                      NEW e \in Employees, NEW p \in Phones,
                      pushDevice[e][p] # None, pushDevice'[e][p] = None
               PROVE  \E f \in Employees \ {e} : mobileOf[f] = p /\ pushDevice'[f][p] # None
    OBVIOUS
  <2>1. PICK f \in Employees, q \in Phones, t \in Tokens : registerPushDevice(f, q, t)
    <3>1. pushDevice' # pushDevice
      OBVIOUS
    <3>2. DecisionStep => UNCHANGED pushDevice
      <4>1. ASSUME NEW k \in Decisions, issue(k) \/ revoke(k) PROVE UNCHANGED pushDevice
        BY <4>1 DEF issue, revoke, createPublishedIndividualWithinTransaction, noticeVars, phoneVars
      <4>2. ASSUME NEW k, NEW type, NEW g, NEW from, NEW to,
                   createDecision(k, type, g, from, to) \/ updateDecision(k, type, g, from, to)
            PROVE  UNCHANGED pushDevice
        BY <4>2 DEF createDecision, updateDecision, noticeVars, phoneVars
      <4> QED BY <4>1, <4>2 DEF DecisionStep
    <3>3. NoticeNext
      BY <3>1, <3>2 DEF DecisionNext, decisionVars, noticeVars, phoneVars
    <3>4. InboxStep => \E g \in Employees : changeStatus(g)
      BY <3>1 DEF InboxStep, createNotice, updateNotice, transition, markRead, acknowledge, phoneVars
    <3>5. ASSUME NEW g \in Employees, changeStatus(g) PROVE FALSE
      <4>1. pushDevice' = [pushDevice EXCEPT ![g] = [r \in Phones |->
              IF pushDevice[g][r] = None THEN None ELSE [pushDevice[g][r] EXCEPT !.active = FALSE]]]
        BY <3>1, <3>5 DEF changeStatus
      <4>2. pushDevice'[e][p] = [pushDevice[e][p] EXCEPT !.active = FALSE]
        BY <4>1 DEF IInv, NoticeInv, PhonesInv
      <4> QED BY <4>2, SwitchedOff DEF IInv, NoticeInv
    <3>6. ASSUME NEW g \in Employees, NEW r \in Phones, unregisterPushDevice(g, r) PROVE FALSE
      <4>1. pushDevice'[e][p] = [pushDevice[e][p] EXCEPT !.active = FALSE]
        BY <3>6 DEF unregisterPushDevice, IInv, NoticeInv, PhonesInv
      <4> QED BY <4>1, SwitchedOff DEF IInv, NoticeInv
    <3>7. ASSUME NEW d \in Deliveries, SendMessages(d) PROVE FALSE
      <4>1. pushDevice'[e][p] = [pushDevice[e][p] EXCEPT !.active = FALSE]
        BY <3>7 DEF SendMessages, switchedOff
      <4> QED BY <4>1, SwitchedOff DEF IInv, NoticeInv
    <3>8. DeliveryStep => FALSE
      BY <3>1, <3>7 DEF DeliveryStep, retryPush, LookUpDevices, storeOutcome, Crash, phoneVars
    <3>9. PhoneStep
      BY <3>3, <3>4, <3>5, <3>8 DEF NoticeNext
    <3> QED BY <3>1, <3>6, <3>9 DEF PhoneStep, endSession, signIn, RefreshToken
  <2>2. mobileOf[f] = q /\ t \in TokensOf[q] /\ pushDevice' = registered(f, q, t)
    BY <2>1 DEF registerPushDevice
  <2>3. pushDevice'[f][q] = [token |-> t, active |-> TRUE] /\ [token |-> t, active |-> TRUE] \in PushDeviceRow
    BY <2>2 DEF registered, PushDeviceRow
  <2>4. pushDevice'[f][q] # None
    BY <2>3, RowAssumption
  <2>5. pushDevice[e][p].token = t /\ ~(e = f /\ p = q)
    BY <2>2, <2>4 DEF registered
  <2>6. p = q
    BY <2>2, <2>5, NoticeAssumption DEF IInv, NoticeInv, PhonesInv
  <2> QED BY <2>2, <2>4, <2>5, <2>6
<1> QED BY <1>1, AlwaysSound, PTL DEF DecisionSpec, RegistrationTakenByRight

=============================================================================
