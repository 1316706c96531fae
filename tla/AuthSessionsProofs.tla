--------------------------- MODULE AuthSessionsProofs ---------------------------
(***************************************************************************)
(* Proofs about AuthSessions, for any number of accounts, sessions, calls  *)
(* and refresh tokens.  The inductive invariant Inv says what a call in    *)
(* progress is about (CallOK), that an account has one unrevoked session   *)
(* per channel and none when it is inactive, and what the app and a        *)
(* session of its own know of each other while no answer was lost          *)
(* (AppKnows).                                                             *)
(***************************************************************************)
EXTENDS AuthSessions, TLAPS

(* The call works on a row. *)
onRow(c) == call[c].at \notin {"idle", "replace"}
refreshing(c, s) == call[c].kind = "refresh" /\ call[c].sid = s

CallOK(c) ==
  /\ call[c].at = "idle" => call[c].kind # "refresh"
  /\ call[c].at = "replace" =>
       call[c].kind = "login" /\ call[c].account \in Accounts /\ call[c].sid = NoSession
  /\ onRow(c) =>
       /\ call[c].kind # "login"
       /\ call[c].sid \in Sessions
       /\ used(call[c].sid)
       /\ call[c].account = sess[call[c].sid].user
       /\ call[c].channel = sess[call[c].sid].channel
  /\ call[c].at \in {"rotate", "user", "reuse"} => call[c].kind = "refresh"
  /\ call[c].at = "touch" => call[c].kind = "request"
  /\ call[c].kind = "refresh" /\ call[c].at \in {"find", "rotate"} =>
       call[c].secret < MaxSecret

HeldOK == \A s \in Sessions : held[s] # 0 => used(s)

(* A session of the app that has lost no answer: its refreshes are waited  *)
(* for, one at a time, with the current token.                             *)
AppKnows(s) ==
  sess[s].channel = "MOBILE" /\ s \notin faulted =>
    /\ \A c \in Calls : refreshing(c, s) => call[c].waiting
    /\ \A c, d \in Calls : refreshing(c, s) /\ refreshing(d, s) => c = d
    /\ current(s) =>
         /\ sess[s].prev < sess[s].hash
         /\ \A c \in Calls : refreshing(c, s) =>
              call[c].at \in {"find", "rotate", "user"} /\ call[c].secret = sess[s].hash
         /\ \/ held[s] \in {0, sess[s].hash}
            \/ \E c \in Calls : refreshing(c, s) /\ call[c].at = "user"

Known ==
  /\ TypeOK
  /\ \A c \in Calls : CallOK(c)
  /\ HeldOK

Inv ==
  /\ Known
  /\ OneSessionPerChannel
  /\ NoSessionOfInactive
  /\ \A s \in Sessions : AppKnows(s)
  /\ NoFalseReuse

------------------------------------------------------------------------------
(* Rows *)

(* A row that ends keeps whose it is and when it expires. *)
LEMMA EndedRow ==
  ASSUME NEW row \in Session, NEW reason \in Reasons
  PROVE  /\ ended(row, reason) \in Session
         /\ ended(row, reason).user = row.user
         /\ ended(row, reason).channel = row.channel
         /\ ended(row, reason).fresh = row.fresh
         /\ ended(row, reason).reason = reason
         /\ ended(row, reason).hash = 0
<1>1. 0 \in Secrets
  BY AuthAssumption DEF Secrets
<1> QED BY <1>1 DEF ended, Session

(* What an UPDATE that revokes does to each row. *)
Revokes(reason) ==
  /\ sess' \in [Sessions -> Session]
  /\ \A s \in Sessions :
       /\ sess'[s].user = sess[s].user
       /\ sess'[s].channel = sess[s].channel
       /\ sess'[s].fresh = sess[s].fresh
       /\ \/ sess'[s] = sess[s]
          \/ live(s) /\ sess'[s].reason = reason /\ sess'[s].hash = 0

LEMMA RevokeRows ==
  ASSUME sess \in [Sessions -> Session], NEW reason \in Reasons, NEW S,
         sess' = revoke(S, reason)
  PROVE  /\ Revokes(reason)
         /\ \A s \in S \cap Sessions : live(s) => sess'[s].reason = reason
BY EndedRow DEF revoke, Revokes

LEMMA ReconcileRows ==
  ASSUME sess \in [Sessions -> Session], NEW a, sess' = reconcile(a)
  PROVE  Revokes("OTHER")
<1>1. CASE sess' = revoke(webOf(a), "OTHER")
  BY <1>1, RevokeRows DEF Reasons
<1>2. CASE sess' = sess
  BY <1>2 DEF Revokes
<1> QED BY <1>1, <1>2 DEF reconcile

LEMMA FindActiveRows ==
  ASSUME Known, NEW c \in Calls, findActive(c)
  PROVE  Revokes("OTHER")
<1>1. CASE call[c].account \in active
  BY <1>1, ReconcileRows DEF findActive, Known, TypeOK
<1>2. CASE call[c].account \notin active
  BY <1>2, RevokeRows DEF findActive, Known, TypeOK, Reasons
<1> QED BY <1>1, <1>2

------------------------------------------------------------------------------
(* What a step keeps *)

(* A row in use stays of its account and channel. *)
KeepsRows ==
  \A s \in Sessions : used(s) => /\ sess'[s].user = sess[s].user
                                  /\ sess'[s].channel = sess[s].channel

LEMMA CallKept ==
  ASSUME KeepsRows, NEW c \in Calls, CallOK(c), call'[c] = call[c]
  PROVE  CallOK(c)'
BY DEF KeepsRows, CallOK, onRow, used

LEMMA CallEnded ==
  ASSUME NEW c \in Calls, call'[c] = NoCall
  PROVE  CallOK(c)'
BY DEF CallOK, onRow, NoCall

(* A call that goes on with its row. *)
LEMMA CallGoesOn ==
  ASSUME KeepsRows, Known, NEW c \in Calls, NEW step, onRow(c),
         step \in {"rotate", "user", "reuse"} => call[c].kind = "refresh",
         step = "touch" => call[c].kind = "request",
         step = "rotate" => call[c].at = "find",
         step \in {"rotate", "touch", "user", "reuse", "end"},
         goto(c, step)
  PROVE  CallOK(c)' /\ call' \in [Calls -> Call]
<1>1. call[c] \in Call /\ CallOK(c)
  BY DEF Known, TypeOK
<1>2. call'[c] = [call[c] EXCEPT !.at = step]
  BY DEF goto, Known, TypeOK
<1>3. call'[c] \in Call
  BY <1>1, <1>2 DEF Call, Steps
<1>4. CallOK(c)'
  BY <1>1, <1>2 DEF CallOK, onRow, KeepsRows, used, Call
<1> QED BY <1>3, <1>4 DEF goto, Known, TypeOK

(* The step afterFind returns is one of its call's kind. *)
LEMMA AfterFind ==
  ASSUME NEW c \in Calls, NEW row, call[c].kind \in {"refresh", "request"}
  PROVE  /\ afterFind(c, row) \in {"reuse", "refused", "end", "rotate", "touch"}
         /\ afterFind(c, row) \in {"reuse", "refused", "rotate"} => call[c].kind = "refresh"
         /\ afterFind(c, row) = "touch" => call[c].kind = "request"
         /\ afterFind(c, row) = "rotate" => call[c].secret = row.hash
         /\ afterFind(c, row) = "reuse" => call[c].secret = row.prev
         /\ afterFind(c, row) = "end" => row.channel = "WEB"
BY DEF afterFind

LEMMA NoCallType == NoCall \in Call
<1>1. 0 \in Secrets
  BY AuthAssumption DEF Secrets
<1> QED BY <1>1 DEF NoCall, Call, Steps, Channels

(* What a call that ends with a refused answer does. *)
LEMMA Refused ==
  ASSUME Known, NEW c \in Calls, refuse(c)
  PROVE  /\ call' \in [Calls -> Call]
         /\ call'[c] = NoCall
         /\ \A d \in Calls \ {c} : call'[d] = call[d]
         /\ held' \in [Sessions -> Secrets]
         /\ \A s \in Sessions : held'[s] \in {0, held[s]}
<1>1. 0 \in Secrets
  BY AuthAssumption DEF Secrets
<1> QED BY <1>1, NoCallType DEF refuse, end, Known, TypeOK

------------------------------------------------------------------------------
(* Calls and rows stay together *)

LEMMA KnownLogin ==
  ASSUME Known, NEW c \in Calls, NEW a \in Accounts, NEW channel \in Channels,
         login(c, a, channel)
  PROVE  Known'
<1> DEFINE new == [NoCall EXCEPT !.at = "replace", !.kind = "login", !.account = a,
                                 !.channel = channel, !.waiting = TRUE]
<1>1. new \in Call /\ new.at = "replace" /\ new.kind = "login" /\ new.account = a
      /\ new.sid = NoSession
  BY NoCallType DEF NoCall, Call, Steps
<1>2. call' = [call EXCEPT ![c] = new] /\ UNCHANGED <<active, scoped, sess, held, faulted>>
  BY DEF login
<1> HIDE DEF new
<1>3. TypeOK'
  BY <1>1, <1>2 DEF Known, TypeOK
<1>4. ASSUME NEW d \in Calls PROVE CallOK(d)'
  <2>1. CASE d = c
    BY <2>1, <1>1, <1>2 DEF CallOK, onRow, Known, TypeOK
  <2>2. CASE d # c
    BY <2>2, <1>2, CallKept DEF KeepsRows, Known, TypeOK
  <2> QED BY <2>1, <2>2
<1> QED BY <1>2, <1>3, <1>4 DEF Known, HeldOK, used

LEMMA KnownReplace ==
  ASSUME Known, NEW c \in Calls, NEW s \in Sessions, replaceActiveSession(c, s)
  PROVE  Known'
<1> DEFINE a == call[c].account
           new == [Unused EXCEPT !.user = a, !.channel = call[c].channel, !.hash = 1]
           replaced == {t \in Sessions : sess[t].user = a
                          /\ replacesSession(a, call[c].channel, sess[t].channel)}
           kept == revoke(replaced, "REPLACED_BY_NEW_LOGIN")
<1>1. 0 \in Secrets /\ 1 \in Secrets
  BY AuthAssumption DEF Secrets
<1>2. a \in Accounts /\ call[c].channel \in Channels /\ ~used(s)
  BY DEF Known, CallOK, replaceActiveSession, TypeOK, Call
<1>3. new \in Session /\ new.user = a /\ new.channel = call[c].channel
  BY <1>1, <1>2 DEF Unused, Session, Reasons
<1>4. sess' = [kept EXCEPT ![s] = new]
  BY DEF replaceActiveSession
<1>5. /\ kept \in [Sessions -> Session]
      /\ \A t \in Sessions : kept[t].user = sess[t].user /\ kept[t].channel = sess[t].channel
  BY EndedRow DEF revoke, Known, TypeOK, Reasons
<1>6. KeepsRows
  BY <1>2, <1>4, <1>5 DEF KeepsRows
<1>7. call' = [call EXCEPT ![c] = NoCall] /\ UNCHANGED <<active, scoped, faulted>>
  BY DEF replaceActiveSession, end
<1>8. held' \in [Sessions -> Secrets] /\ \A t \in Sessions \ {s} : held'[t] = held[t]
  BY <1>1 DEF replaceActiveSession, Known, TypeOK
<1> HIDE DEF new, kept
<1>9. TypeOK'
  BY <1>3, <1>4, <1>5, <1>7, <1>8, NoCallType DEF Known, TypeOK
<1>10. ASSUME NEW d \in Calls PROVE CallOK(d)'
  BY <1>6, <1>7, CallKept, CallEnded DEF Known, TypeOK
<1>11. HeldOK'
  <2> SUFFICES ASSUME NEW t \in Sessions, held'[t] # 0 PROVE used(t)'
    BY DEF HeldOK
  <2>1. CASE t = s
    BY <2>1, <1>2, <1>3, <1>4, <1>5, AuthAssumption DEF used
  <2>2. CASE t # s
    BY <2>2, <1>6, <1>8 DEF Known, HeldOK, KeepsRows, used
  <2> QED BY <2>1, <2>2
<1> QED BY <1>9, <1>10, <1>11 DEF Known

LEMMA KnownBegin ==
  ASSUME Known, NEW c \in Calls, NEW s \in Sessions,
         refresh(c, s) \/ request(c, s)
  PROVE  Known'
<1>1. PICK kind \in {"refresh", "request"} :
        /\ begin(c, s, kind)
        /\ held[s] # 0
        /\ kind = "refresh" => held[s] < MaxSecret
  BY DEF refresh, request, mayRefresh
<1> DEFINE new == [NoCall EXCEPT !.at = "find", !.kind = kind, !.sid = s,
                                 !.account = sess[s].user, !.channel = sess[s].channel,
                                 !.secret = IF kind = "refresh" THEN held[s] ELSE 0,
                                 !.waiting = kind = "refresh"]
<1>2. sess[s] \in Session /\ held[s] \in Secrets /\ 0 \in Secrets
  BY AuthAssumption DEF Known, TypeOK, Secrets
<1>3. /\ new \in Call
      /\ new.at = "find" /\ new.kind = kind /\ new.sid = s
      /\ new.account = sess[s].user /\ new.channel = sess[s].channel
      /\ kind = "refresh" => new.secret = held[s]
  BY <1>2, NoCallType DEF NoCall, Call, Steps, Session
<1>4. call' = [call EXCEPT ![c] = new] /\ UNCHANGED <<active, scoped, sess, held, faulted>>
  BY <1>1 DEF begin
<1> HIDE DEF new
<1>5. TypeOK'
  BY <1>3, <1>4 DEF Known, TypeOK
<1>6. ASSUME NEW d \in Calls PROVE CallOK(d)'
  <2>1. CASE d = c
    <3>1. used(s)
      BY <1>1 DEF Known, HeldOK
    <3>2. call'[d] = new
      BY <2>1, <1>4 DEF Known, TypeOK
    <3> QED BY <3>1, <3>2, <1>1, <1>3, <1>4 DEF CallOK, onRow, used
  <2>2. CASE d # c
    BY <2>2, <1>4, CallKept DEF KeepsRows, Known, TypeOK
  <2> QED BY <2>1, <2>2
<1> QED BY <1>4, <1>5, <1>6 DEF Known, HeldOK, used

(* A step that only forgets tokens, ends calls and lets others go on. *)
LEMMA KnownKept ==
  ASSUME Known, KeepsRows,
         sess' \in [Sessions -> Session], held' \in [Sessions -> Secrets],
         call' \in [Calls -> Call],
         active' \subseteq Accounts, scoped' \subseteq Accounts, faulted' \subseteq Sessions,
         \A s \in Sessions : held'[s] \in {0, held[s]},
         \A c \in Calls : call'[c] \in {call[c], NoCall} \/ CallOK(c)'
  PROVE  Known'
<1>1. TypeOK'
  BY DEF TypeOK
<1>2. ASSUME NEW c \in Calls PROVE CallOK(c)'
  BY <1>2, CallKept, CallEnded DEF Known
<1>3. HeldOK'
  BY DEF Known, HeldOK, KeepsRows, used
<1> QED BY <1>1, <1>2, <1>3 DEF Known

LEMMA RevokesKeeps ==
  ASSUME NEW reason, Revokes(reason)
  PROVE  KeepsRows
BY DEF Revokes, KeepsRows

LEMMA KnownFindActive ==
  ASSUME Known, NEW c \in Calls, findActive(c)
  PROVE  Known'
<1>1. Revokes("OTHER") /\ KeepsRows
  BY FindActiveRows, RevokesKeeps
<1>2. UNCHANGED <<active, scoped, faulted>>
  BY DEF findActive
<1>3. CASE refuse(c)
  BY <1>1, <1>2, <1>3, Refused, KnownKept DEF Known, TypeOK, Revokes
<1>4. CASE ~refuse(c)
  <2> DEFINE step == afterFind(c, sess'[call[c].sid])
  <2>1. goto(c, step) /\ held' = held /\ step # "refused" /\ call[c].at = "find"
    BY <1>4 DEF findActive
  <2>2. call[c].kind \in {"refresh", "request"} /\ onRow(c)
    BY <2>1 DEF Known, CallOK, onRow, TypeOK, Call
  <2>3. step \in {"rotate", "touch", "user", "reuse", "end"}
        /\ (step \in {"rotate", "user", "reuse"} => call[c].kind = "refresh")
        /\ (step = "touch" => call[c].kind = "request")
    BY <2>1, <2>2, AfterFind
  <2> HIDE DEF step
  <2>4. CallOK(c)' /\ call' \in [Calls -> Call]
    BY <1>1, <2>1, <2>2, <2>3, CallGoesOn
  <2>5. \A d \in Calls \ {c} : call'[d] = call[d]
    BY <2>1 DEF goto, Known, TypeOK
  <2> QED BY <1>1, <1>2, <2>1, <2>4, <2>5, KnownKept DEF Known, TypeOK, Revokes
<1> QED BY <1>3, <1>4

(* The row that is rotated keeps its place; the secret stays in its range. *)
LEMMA KnownRotate ==
  ASSUME Known, NEW c \in Calls, rotateRefreshToken(c)
  PROVE  Known'
<1> DEFINE s == call[c].sid
<1>1. /\ call[c] \in Call /\ call[c].kind = "refresh" /\ call[c].at = "rotate"
      /\ s \in Sessions /\ onRow(c)
      /\ call[c].secret \in Nat /\ call[c].secret < MaxSecret
  BY DEF rotateRefreshToken, Known, CallOK, onRow, TypeOK, Call, Secrets
<1>2. call[c].secret \in Secrets /\ call[c].secret + 1 \in Secrets
  BY <1>1, AuthAssumption DEF Secrets
<1>3. UNCHANGED <<active, scoped, held, faulted>>
  BY DEF rotateRefreshToken
<1>4. CASE rotates(s, call[c].secret)
  <2>1. sess[s] \in Session
    BY <1>1 DEF Known, TypeOK
  <2>2. sess' = [sess EXCEPT ![s].prev = call[c].secret, ![s].hash = call[c].secret + 1,
                             ![s].seen = TRUE]
    BY <1>4 DEF rotateRefreshToken, createRefreshSecret
  <2>3. sess' \in [Sessions -> Session] /\ KeepsRows
    BY <1>1, <1>2, <2>1, <2>2 DEF Session, KeepsRows, Known, TypeOK
  <2>4. call' = [call EXCEPT ![c].at = "user", ![c].secret = call[c].secret + 1]
    BY <1>4 DEF rotateRefreshToken, Known, TypeOK
  <2>5. call'[c] = [call[c] EXCEPT !.at = "user", !.secret = call[c].secret + 1]
        /\ \A d \in Calls \ {c} : call'[d] = call[d]
    BY <2>4 DEF Known, TypeOK
  <2>6. call'[c] \in Call
    BY <1>1, <1>2, <2>5 DEF Call, Steps
  <2>7. call' \in [Calls -> Call]
    BY <2>4, <2>6 DEF Known, TypeOK
  <2>8. CallOK(c)'
    <3>1. CallOK(c)
      BY DEF Known
    <3> QED BY <1>1, <2>3, <2>5, <3>1 DEF CallOK, onRow, KeepsRows, used, Call
  <2> QED BY <1>3, <2>3, <2>5, <2>7, <2>8, KnownKept DEF Known, TypeOK
<1>5. CASE ~rotates(s, call[c].secret)
  <2>1. sess' = sess /\ goto(c, "reuse")
    BY <1>5 DEF rotateRefreshToken
  <2>2. KeepsRows
    BY <2>1 DEF KeepsRows
  <2>3. CallOK(c)' /\ call' \in [Calls -> Call]
    BY <1>1, <2>1, <2>2, CallGoesOn
  <2>4. \A d \in Calls \ {c} : call'[d] = call[d]
    BY <2>1 DEF goto, Known, TypeOK
  <2> QED BY <1>3, <2>1, <2>2, <2>3, <2>4, KnownKept DEF Known, TypeOK
<1> QED BY <1>4, <1>5

(* touch, expire and idle change a flag of one row. *)
LEMMA FlagRows ==
  ASSUME Known,
         \/ \E c \in Calls : touch(c)
         \/ \E s \in Sessions : expire(s) \/ idle(s)
  PROVE  /\ sess' \in [Sessions -> Session]
         /\ \A s \in Sessions :
              /\ sess'[s].user = sess[s].user
              /\ sess'[s].channel = sess[s].channel
              /\ sess'[s].reason = sess[s].reason
              /\ sess'[s].hash = sess[s].hash
              /\ sess'[s].prev = sess[s].prev
              /\ current(s)' => current(s)
              /\ sess'[s].fresh => sess[s].fresh
<1>1. CASE \E c \in Calls : touch(c)
  <2>1. PICK c \in Calls : touch(c)
    BY <1>1
  <2>2. call[c].sid \in Sessions /\ sess[call[c].sid] \in Session
    BY <2>1 DEF touch, Known, CallOK, onRow, TypeOK
  <2>3. CASE sess' = sess
    BY <2>3 DEF Known, TypeOK, current, live, used
  <2>4. CASE sess' = [sess EXCEPT ![call[c].sid].seen = TRUE]
    BY <2>2, <2>4 DEF Known, TypeOK, Session, current, live, used
  <2> QED BY <2>1, <2>3, <2>4 DEF touch
<1>2. CASE \E s \in Sessions : expire(s)
  <2>1. PICK s \in Sessions : sess' = [sess EXCEPT ![s].fresh = FALSE] /\ sess[s] \in Session
    BY <1>2 DEF expire, Known, TypeOK
  <2> QED BY <2>1 DEF Known, TypeOK, Session, current, live, used
<1>3. CASE \E s \in Sessions : idle(s)
  <2>1. PICK s \in Sessions : sess' = [sess EXCEPT ![s].seen = FALSE] /\ sess[s] \in Session
    BY <1>3 DEF idle, Known, TypeOK
  <2> QED BY <2>1 DEF Known, TypeOK, Session, current, live, used
<1> QED BY <1>1, <1>2, <1>3

LEMMA KnownFindById ==
  ASSUME Known, NEW c \in Calls, findById(c)
  PROVE  Known'
<1>1. KeepsRows /\ UNCHANGED <<active, scoped, sess, faulted>>
  BY DEF findById, KeepsRows
<1>2. call[c].sid \in Sessions /\ call[c].kind = "refresh" /\ onRow(c)
      /\ used(call[c].sid) /\ call[c].secret \in Secrets
  BY DEF findById, Known, CallOK, onRow, TypeOK, Call
<1>3. CASE answer(c)
  <2>1. /\ call' \in [Calls -> Call]
        /\ held' \in [Sessions -> Secrets]
        /\ \A d \in Calls : call'[d] \in {call[d], NoCall}
        /\ \A s \in Sessions : held'[s] = held[s] \/ s = call[c].sid
    BY <1>2, <1>3, NoCallType DEF answer, end, Known, TypeOK
  <2>2. TypeOK'
    BY <1>1, <2>1 DEF Known, TypeOK
  <2>3. ASSUME NEW d \in Calls PROVE CallOK(d)'
    BY <1>1, <2>1, CallKept, CallEnded DEF Known
  <2>4. HeldOK'
    BY <1>1, <1>2, <2>1 DEF Known, HeldOK, used
  <2> QED BY <2>2, <2>3, <2>4 DEF Known
<1>4. CASE goto(c, "end") /\ held' = held
  <2>1. CallOK(c)' /\ call' \in [Calls -> Call]
    BY <1>1, <1>2, <1>4, CallGoesOn
  <2>2. \A d \in Calls \ {c} : call'[d] = call[d]
    BY <1>4 DEF goto, Known, TypeOK
  <2> QED BY <1>1, <1>4, <2>1, <2>2, KnownKept DEF Known, TypeOK
<1> QED BY <1>3, <1>4 DEF findById

LEMMA GivenUp ==
  ASSUME Known, NEW c \in Calls, giveUp(c)
  PROVE  /\ call' \in [Calls -> Call]
         /\ call'[c] = [call[c] EXCEPT !.waiting = FALSE]
         /\ \A d \in Calls \ {c} : call'[d] = call[d]
         /\ faulted \subseteq faulted'
         /\ refreshing(c, call[c].sid) /\ call[c].channel = "MOBILE" => call[c].sid \in faulted'
         /\ faulted' \subseteq Sessions
         /\ UNCHANGED <<active, scoped, sess, held>>
<1>1. call' = [call EXCEPT ![c].waiting = FALSE] /\ UNCHANGED <<active, scoped, sess, held>>
  BY DEF giveUp
<1>2. call[c] \in Call
  BY DEF Known, TypeOK
<1>3. [call[c] EXCEPT !.waiting = FALSE] \in Call
  BY <1>2 DEF Call
<1>4. call[c].kind = "refresh" => call[c].sid \in Sessions
  BY DEF giveUp, Known, CallOK, onRow
<1> QED BY <1>1, <1>3, <1>4 DEF giveUp, Known, TypeOK, refreshing

LEMMA KnownGiveUp ==
  ASSUME Known, NEW c \in Calls, giveUp(c)
  PROVE  Known'
<1>1. KeepsRows
  BY GivenUp DEF KeepsRows
<1>2. call[c] \in Call /\ CallOK(c)
  BY DEF Known, TypeOK
<1>3. CallOK(c)'
  BY <1>2, GivenUp DEF CallOK, onRow, used, Call
<1> QED BY <1>1, <1>3, GivenUp, KnownKept DEF Known, TypeOK

(* The actions that end sessions without a call going on. *)
LEMMA RevokingRows ==
  ASSUME Known,
         \/ \E c \in Calls : revokeAndRefuse(c)
         \/ \E s \in Sessions : logout(s) \/ revokeSession(s)
         \/ \E a \in Accounts : changeStatus(a)
  PROVE  Revokes("OTHER") \/ Revokes("REFRESH_TOKEN_REUSE")
<1>1. sess' = sess \/ \E S : sess' = revoke(S, "OTHER") \/ sess' = revoke(S, "REFRESH_TOKEN_REUSE")
  BY DEF revokeAndRefuse, logout, revokeSession, changeStatus, deactivated
<1>2. CASE sess' = sess
  BY <1>2 DEF Revokes, Known, TypeOK
<1>3. CASE \E S : sess' = revoke(S, "OTHER")
  BY <1>3, RevokeRows DEF Known, TypeOK, Reasons
<1>4. CASE \E S : sess' = revoke(S, "REFRESH_TOKEN_REUSE")
  BY <1>4, RevokeRows DEF Known, TypeOK, Reasons
<1> QED BY <1>1, <1>2, <1>3, <1>4

THEOREM KnownStep ==
  ASSUME Known, [Next]_vars
  PROVE  Known'
<1>1. ASSUME NEW c \in Calls, NEW a \in Accounts, NEW channel \in Channels,
             login(c, a, channel)
      PROVE  Known'
  BY <1>1, KnownLogin
<1>2. ASSUME NEW c \in Calls, NEW s \in Sessions, replaceActiveSession(c, s)
      PROVE  Known'
  BY <1>2, KnownReplace
<1>3. ASSUME NEW c \in Calls, NEW s \in Sessions, refresh(c, s) \/ request(c, s)
      PROVE  Known'
  BY <1>3, KnownBegin
<1>4. ASSUME NEW c \in Calls, refuseLogin(c)
      PROVE  Known'
  <2>1. KeepsRows /\ refuse(c) /\ UNCHANGED <<active, scoped, sess, faulted>>
    BY <1>4 DEF refuseLogin, KeepsRows
  <2> QED BY <2>1, Refused, KnownKept DEF Known, TypeOK
<1>5. ASSUME NEW c \in Calls, findActive(c)
      PROVE  Known'
  BY <1>5, KnownFindActive
<1>6. ASSUME NEW c \in Calls, rotateRefreshToken(c)
      PROVE  Known'
  BY <1>6, KnownRotate
<1>7. ASSUME NEW c \in Calls, touch(c)
      PROVE  Known'
  <2>1. sess' \in [Sessions -> Session] /\ KeepsRows
    BY <1>7, FlagRows DEF KeepsRows
  <2>2. call' \in [Calls -> Call] /\ \A d \in Calls : call'[d] \in {call[d], NoCall}
    BY <1>7, NoCallType DEF touch, end, Known, TypeOK
  <2> QED BY <1>7, <2>1, <2>2, KnownKept DEF touch, Known, TypeOK
<1>8. ASSUME NEW c \in Calls, findById(c)
      PROVE  Known'
  BY <1>8, KnownFindById
<1>9. ASSUME NEW c \in Calls, revokeAndRefuse(c)
      PROVE  Known'
  <2>1. sess' \in [Sessions -> Session] /\ KeepsRows
    BY <1>9, RevokingRows, RevokesKeeps DEF Revokes
  <2>2. refuse(c) /\ UNCHANGED <<active, scoped, faulted>>
    BY <1>9 DEF revokeAndRefuse
  <2> QED BY <2>1, <2>2, Refused, KnownKept DEF Known, TypeOK
<1>10. ASSUME NEW c \in Calls, giveUp(c)
       PROVE  Known'
  BY <1>10, KnownGiveUp
<1>11. ASSUME NEW s \in Sessions, logout(s) \/ revokeSession(s)
       PROVE  Known'
  <2>1. sess' \in [Sessions -> Session] /\ KeepsRows
    BY <1>11, RevokingRows, RevokesKeeps DEF Revokes
  <2>2. 0 \in Secrets
    BY AuthAssumption DEF Secrets
  <2>3. UNCHANGED <<active, scoped, faulted, call>> /\ held' \in [Sessions -> Secrets]
        /\ \A t \in Sessions : held'[t] \in {0, held[t]}
    BY <1>11, <2>2 DEF logout, revokeSession, Known, TypeOK
  <2> QED BY <2>1, <2>3, KnownKept DEF Known, TypeOK
<1>12. ASSUME NEW s \in Sessions, expire(s) \/ idle(s)
       PROVE  Known'
  <2>1. sess' \in [Sessions -> Session] /\ KeepsRows
    BY <1>12, FlagRows DEF KeepsRows
  <2> QED BY <1>12, <2>1, KnownKept DEF expire, idle, Known, TypeOK
<1>13. ASSUME NEW a \in Accounts, changeStatus(a)
       PROVE  Known'
  <2>1. sess' \in [Sessions -> Session] /\ KeepsRows
    BY <1>13, RevokingRows, RevokesKeeps DEF Revokes
  <2>2. active' \subseteq Accounts
    BY <1>13 DEF changeStatus, Known, TypeOK
  <2> QED BY <1>13, <2>1, <2>2, KnownKept DEF changeStatus, Known, TypeOK
<1>14. ASSUME NEW a \in Accounts, grantChanges(a)
       PROVE  Known'
  <2>1. scoped' \subseteq Accounts /\ KeepsRows
    BY <1>14 DEF grantChanges, Known, TypeOK, KeepsRows
  <2> QED BY <1>14, <2>1, KnownKept DEF grantChanges, Known, TypeOK
<1>15. CASE UNCHANGED vars
  BY <1>15, KnownKept DEF vars, Known, TypeOK, KeepsRows
<1> QED
  BY <1>1, <1>2, <1>3, <1>4, <1>5, <1>6, <1>7, <1>8, <1>9, <1>10, <1>11, <1>12, <1>13,
     <1>14, <1>15 DEF Next

THEOREM KnownInit == Init => Known
<1> SUFFICES ASSUME Init PROVE Known
  OBVIOUS
<1>1. 0 \in Secrets
  BY AuthAssumption DEF Secrets
<1>2. Unused \in Session
  BY <1>1 DEF Unused, Session, Channels, Reasons
<1>3. TypeOK
  BY <1>1, <1>2, NoCallType DEF Init, TypeOK
<1>4. (\A c \in Calls : CallOK(c)) /\ HeldOK
  BY DEF Init, CallOK, onRow, NoCall, HeldOK
<1> QED BY <1>3, <1>4 DEF Known

------------------------------------------------------------------------------
(* Which rows a step changes, and how *)

(* No session begins, and the secrets of those that go on stay. *)
Quiet(s) ==
  /\ sess'[s].user = sess[s].user
  /\ sess'[s].channel = sess[s].channel
  /\ sess'[s].fresh => sess[s].fresh
  /\ \/ sess'[s].reason = sess[s].reason
     \/ live(s) /\ sess'[s].reason \in {"OTHER", "REFRESH_TOKEN_REUSE"}
  /\ \/ sess'[s].hash = sess[s].hash /\ sess'[s].prev = sess[s].prev
     \/ sess'[s].hash = 0 /\ ~live(s)'

(* A new session s takes the place of those it replaces. *)
Replaces(c, s) ==
  /\ admits(call[c].account, call[c].channel)
  /\ ~used(s)
  /\ sess'[s].user = call[c].account
  /\ sess'[s].channel = call[c].channel
  /\ sess'[s].prev < sess'[s].hash
  /\ sess'[s].reason = "NONE"
  /\ held'[s] \in {0, sess'[s].hash}
  /\ \A t \in Sessions \ {s} :
       /\ sess'[t].user = sess[t].user
       /\ sess'[t].channel = sess[t].channel
       /\ held'[t] = held[t]
       /\ LET replaced == /\ live(t) /\ sess[t].user = call[c].account
                          /\ replacesSession(call[c].account, call[c].channel, sess[t].channel)
          IN  IF replaced THEN sess'[t].reason = "REPLACED_BY_NEW_LOGIN" /\ sess'[t].hash = 0
                          ELSE sess'[t] = sess[t]

LEMMA RevokesQuiet ==
  ASSUME NEW reason \in {"OTHER", "REFRESH_TOKEN_REUSE"}, Revokes(reason)
  PROVE  \A s \in Sessions : Quiet(s)
BY DEF Revokes, Quiet, live, used

LEMMA ReplaceRows ==
  ASSUME Known, NEW c \in Calls, NEW s \in Sessions, replaceActiveSession(c, s)
  PROVE  Replaces(c, s)
<1> DEFINE a == call[c].account
           new == [Unused EXCEPT !.user = a, !.channel = call[c].channel, !.hash = 1]
           replaced == {t \in Sessions : sess[t].user = a
                          /\ replacesSession(a, call[c].channel, sess[t].channel)}
           kept == revoke(replaced, "REPLACED_BY_NEW_LOGIN")
<1>1. admits(a, call[c].channel) /\ ~used(s)
  BY DEF replaceActiveSession
<1>2. sess' = [kept EXCEPT ![s] = new] /\ kept \in [Sessions -> Session]
  BY EndedRow DEF replaceActiveSession, revoke, Known, TypeOK, Reasons
<1>3. held' = [held EXCEPT ![s] = IF call[c].waiting THEN 1 ELSE 0]
  BY DEF replaceActiveSession
<1>4. /\ new.user = a /\ new.channel = call[c].channel /\ new.prev = 0 /\ new.hash = 1
      /\ new.reason = "NONE"
  BY DEF Unused
<1>5. ASSUME NEW t \in Sessions
      PROVE  /\ kept[t].user = sess[t].user
             /\ kept[t].channel = sess[t].channel
             /\ IF live(t) /\ t \in replaced
                THEN kept[t].reason = "REPLACED_BY_NEW_LOGIN" /\ kept[t].hash = 0
                ELSE kept[t] = sess[t]
  BY EndedRow DEF revoke, Known, TypeOK, Reasons
<1> HIDE DEF new, kept
<1>6. sess'[s] = new /\ \A t \in Sessions \ {s} : sess'[t] = kept[t]
  BY <1>2
<1>7. held'[s] \in {0, 1} /\ \A t \in Sessions \ {s} : held'[t] = held[t]
  BY <1>3 DEF Known, TypeOK
<1> QED BY <1>1, <1>4, <1>5, <1>6, <1>7 DEF Replaces

LEMMA RotateRows ==
  ASSUME Known, NEW c \in Calls, rotateRefreshToken(c)
  PROVE  /\ \A s \in Sessions \ {call[c].sid} : Quiet(s)
         /\ call[c].sid \in Sessions
         /\ \/ \A s \in Sessions : Quiet(s)
            \/ /\ rotates(call[c].sid, call[c].secret)
               /\ sess'[call[c].sid] = [sess[call[c].sid] EXCEPT
                                          !.prev = call[c].secret,
                                          !.hash = call[c].secret + 1, !.seen = TRUE]
<1>1. call[c].sid \in Sessions
  BY DEF rotateRefreshToken, Known, CallOK, onRow
<1>2. CASE sess' = sess
  BY <1>1, <1>2 DEF Quiet
<1>3. CASE sess' # sess
  <2>1. /\ rotates(call[c].sid, call[c].secret)
        /\ sess' = [sess EXCEPT ![call[c].sid].prev = call[c].secret,
                                ![call[c].sid].hash = call[c].secret + 1,
                                ![call[c].sid].seen = TRUE]
    BY <1>3 DEF rotateRefreshToken, createRefreshSecret
  <2> QED BY <1>1, <2>1 DEF Quiet, Known, TypeOK
<1> QED BY <1>2, <1>3

(* Every step but a sign-in and a rotation is quiet. *)
LEMMA QuietSteps ==
  ASSUME Known, [Next]_vars
  PROVE  \/ \A s \in Sessions : Quiet(s)
         \/ \E c \in Calls, s \in Sessions : replaceActiveSession(c, s)
         \/ \E c \in Calls : rotateRefreshToken(c)
<1>1. CASE sess' = sess
  BY <1>1 DEF Quiet
<1>2. ASSUME NEW c \in Calls, findActive(c)
      PROVE  \A s \in Sessions : Quiet(s)
  BY <1>2, FindActiveRows, RevokesQuiet
<1>3. ASSUME \/ \E c \in Calls : revokeAndRefuse(c)
             \/ \E s \in Sessions : logout(s) \/ revokeSession(s)
             \/ \E a \in Accounts : changeStatus(a)
      PROVE  \A s \in Sessions : Quiet(s)
  BY <1>3, RevokingRows, RevokesQuiet
<1>4. ASSUME \/ \E c \in Calls : touch(c)
             \/ \E s \in Sessions : expire(s) \/ idle(s)
      PROVE  \A s \in Sessions : Quiet(s)
  BY <1>4, FlagRows DEF Quiet
<1> QED
  BY <1>1, <1>2, <1>3, <1>4
     DEF Next, vars, login, refresh, request, begin, refuseLogin, findById, giveUp, grantChanges

------------------------------------------------------------------------------
(* One session per channel, and none of an inactive account *)

(* Nothing but a sign-in makes a session live. *)
LEMMA LiveBefore ==
  ASSUME Known, [Next]_vars,
         \A c \in Calls, s \in Sessions : ~replaceActiveSession(c, s)
  PROVE  \A s \in Sessions :
           /\ sess'[s].user = sess[s].user
           /\ sess'[s].channel = sess[s].channel
           /\ live(s)' => live(s)
           /\ current(s)' => current(s)
<1>1. CASE \A s \in Sessions : Quiet(s)
  BY <1>1 DEF Quiet, live, used, current
<1>2. CASE \E c \in Calls : rotateRefreshToken(c)
  <2>1. PICK c \in Calls : rotateRefreshToken(c)
    BY <1>2
  <2>2. \A s \in Sessions \ {call[c].sid} : Quiet(s)
    BY <2>1, RotateRows
  <2> DEFINE r == call[c].sid
  <2>3. r \in Sessions /\ sess[r] \in Session
    BY <2>1, RotateRows DEF Known, TypeOK
  <2>4. CASE sess'[r] = [sess[r] EXCEPT !.prev = call[c].secret,
                                        !.hash = call[c].secret + 1, !.seen = TRUE]
    <3>1. /\ sess'[r].user = sess[r].user
          /\ sess'[r].channel = sess[r].channel
          /\ sess'[r].reason = sess[r].reason
          /\ sess'[r].fresh = sess[r].fresh
      BY <2>3, <2>4 DEF Session
    <3> QED BY <2>2, <3>1 DEF Quiet, live, used, current
  <2>5. CASE Quiet(r)
    BY <2>2, <2>5 DEF Quiet, live, used, current
  <2> QED BY <2>1, <2>4, <2>5, RotateRows
<1> QED BY <1>1, <1>2, QuietSteps

LEMMA OneSessionStep ==
  ASSUME Known, OneSessionPerChannel, [Next]_vars
  PROVE  OneSessionPerChannel'
<1>1. CASE \A c \in Calls, s \in Sessions : ~replaceActiveSession(c, s)
  BY <1>1, LiveBefore DEF OneSessionPerChannel
<1>2. ASSUME NEW c \in Calls, NEW s \in Sessions, replaceActiveSession(c, s)
      PROVE  OneSessionPerChannel'
  <2>1. Replaces(c, s)
    BY <1>2, ReplaceRows
  <2>2. ASSUME NEW t \in Sessions \ {s}, live(t)',
               sess'[t].user = sess'[s].user
        PROVE  sess'[t].channel # sess'[s].channel
    BY <2>1, <2>2 DEF Replaces, replacesSession, live, used
  <2>3. \A t \in Sessions \ {s} : /\ live(t)' => live(t)
                                  /\ sess'[t].user = sess[t].user
                                  /\ sess'[t].channel = sess[t].channel
    BY <2>1 DEF Replaces, live, used
  <2> QED BY <2>2, <2>3 DEF OneSessionPerChannel
<1> QED BY <1>1, <1>2

LEMMA NoInactiveStep ==
  ASSUME Known, NoSessionOfInactive, [Next]_vars
  PROVE  NoSessionOfInactive'
<1>1. ASSUME NEW c \in Calls, NEW s \in Sessions, replaceActiveSession(c, s)
      PROVE  NoSessionOfInactive'
  <2>1. Replaces(c, s) /\ active' = active
    BY <1>1, ReplaceRows DEF replaceActiveSession
  <2> QED BY <2>1 DEF Replaces, admits, NoSessionOfInactive, live, used
<1>2. ASSUME NEW a \in Accounts, changeStatus(a)
      PROVE  NoSessionOfInactive'
  <2>1. CASE a \notin active
    BY <1>2, <2>1 DEF changeStatus, NoSessionOfInactive, live, used
  <2>2. CASE a \in active
    <3>1. sess' = revoke(webOf(a) \cup mobileOf(a), "OTHER") /\ active' = active \ {a}
      BY <1>2, <2>2 DEF changeStatus, deactivated
    <3>2. Revokes("OTHER") /\ \A s \in webOf(a) \cup mobileOf(a) :
                                 live(s) => sess'[s].reason = "OTHER"
      BY <3>1, RevokeRows DEF Known, TypeOK, Reasons, webOf, mobileOf
    <3>3. \A s \in Sessions : sess[s].user = a => s \in webOf(a) \cup mobileOf(a)
      BY DEF webOf, mobileOf, Known, TypeOK, Session, Channels
    <3> QED BY <3>1, <3>2, <3>3 DEF Revokes, NoSessionOfInactive, live, used
  <2> QED BY <2>1, <2>2
<1>3. CASE /\ \A c \in Calls, s \in Sessions : ~replaceActiveSession(c, s)
           /\ \A a \in Accounts : ~changeStatus(a)
  <2>1. active' = active
    BY <1>3 DEF Next, vars, login, refresh, request, begin, refuseLogin, findActive,
                rotateRefreshToken, touch, findById, revokeAndRefuse, giveUp, logout,
                revokeSession, expire, idle, grantChanges
  <2> QED BY <1>3, <2>1, LiveBefore DEF NoSessionOfInactive
<1> QED BY <1>1, <1>2, <1>3

(* The session that is let through with another has the same account, hence *)
(* the other channel: the session of the app is current, and the one of the *)
(* web ends.                                                                *)
LEMMA SingleAccount ==
  ASSUME TypeOK, OneSessionPerChannel
  PROVE  SingleAccountSession
<1> SUFFICES ASSUME NEW s \in Sessions, NEW t \in Sessions, s # t, usable(s), usable(t),
                    sess[s].user = sess[t].user,
                    sessionMode(sess[s].user) # "WEB_AND_MOBILE"
             PROVE  FALSE
  BY DEF SingleAccountSession
<1> DEFINE a == sess[s].user
<1>1. \A x \in Sessions : reconcile(a)[x].reason = "NONE" => sess[x].reason = "NONE"
  BY EndedRow DEF reconcile, revoke, TypeOK, Reasons
<1>2. live(s) /\ live(t) /\ sess[s].fresh /\ sess[t].fresh
  BY <1>1, AuthAssumption DEF usable, live, used, TypeOK
<1>3. sess[s].channel # sess[t].channel
  BY <1>2 DEF OneSessionPerChannel
<1>4. PICK w \in {s, t}, m \in {s, t} : w \in webOf(a) /\ m \in mobileOf(a)
  BY <1>3 DEF webOf, mobileOf, TypeOK, Session, Channels
<1>5. reconcile(a) = revoke(webOf(a), "OTHER")
  BY <1>2, <1>4 DEF reconcile, sessionMode, current
<1>6. reconcile(a)[w].reason = "OTHER"
  BY <1>2, <1>4, <1>5, EndedRow DEF revoke, TypeOK, Reasons
<1> QED BY <1>4, <1>6 DEF usable

------------------------------------------------------------------------------
(* The app and its session *)

(* What most steps leave of a session: it goes on, if it does, with its    *)
(* secrets; the app has its token or none; no refresh of it begins or goes *)
(* on.                                                                     *)
Undisturbed(s) ==
  /\ sess'[s].channel = sess[s].channel
  /\ current(s)' => /\ current(s)
                    /\ sess'[s].hash = sess[s].hash
                    /\ sess'[s].prev = sess[s].prev
  /\ faulted \subseteq faulted'
  /\ held'[s] \in {0, held[s]}
  /\ \A c \in Calls :
       /\ refreshing(c, s)' => call'[c] = call[c]
       /\ refreshing(c, s) /\ call[c].at = "user" => call'[c] = call[c]

LEMMA KnowsKept ==
  ASSUME NEW s \in Sessions, AppKnows(s), Undisturbed(s)
  PROVE  AppKnows(s)'
<1>1. \A c \in Calls : refreshing(c, s)' => refreshing(c, s) /\ call'[c] = call[c]
  BY DEF Undisturbed, refreshing
<1>2. \A c \in Calls : refreshing(c, s) /\ call[c].at = "user" =>
                        refreshing(c, s)' /\ call'[c].at = "user"
  BY DEF Undisturbed, refreshing
<1>3. CASE ~(sess'[s].channel = "MOBILE" /\ s \notin faulted')
  BY <1>3 DEF AppKnows
<1>4. CASE sess'[s].channel = "MOBILE" /\ s \notin faulted'
  <2>1. sess[s].channel = "MOBILE" /\ s \notin faulted
    BY <1>4 DEF Undisturbed
  <2>2. ASSUME current(s)'
        PROVE  /\ sess'[s].prev < sess'[s].hash
               /\ \A c \in Calls : refreshing(c, s)' =>
                    call'[c].at \in {"find", "rotate", "user"} /\ call'[c].secret = sess'[s].hash
               /\ \/ held'[s] \in {0, sess'[s].hash}
                  \/ \E c \in Calls : refreshing(c, s)' /\ call'[c].at = "user"
    BY <1>1, <1>2, <2>1, <2>2 DEF Undisturbed, AppKnows
  <2> QED BY <1>1, <2>1, <2>2 DEF AppKnows
<1> QED BY <1>3, <1>4

(* A quiet step on the row that changes no refresh of the session. *)
LEMMA QuietUndisturbed ==
  ASSUME NEW s \in Sessions, Quiet(s), faulted \subseteq faulted',
         held'[s] \in {0, held[s]},
         \A c \in Calls : /\ refreshing(c, s)' => call'[c] = call[c]
                          /\ refreshing(c, s) /\ call[c].at = "user" => call'[c] = call[c]
  PROVE  Undisturbed(s)
BY DEF Quiet, Undisturbed, current, live, used

LEMMA NoCallRefreshes ==
  ASSUME NEW c \in Calls, call'[c] = NoCall, NEW s
  PROVE  ~refreshing(c, s)'
BY DEF refreshing, NoCall

LEMMA KnowsReplace ==
  ASSUME Inv, NEW c \in Calls, NEW r \in Sessions, replaceActiveSession(c, r),
         NEW s \in Sessions
  PROVE  AppKnows(s)'
<1>1. Replaces(c, r) /\ UNCHANGED faulted
  BY ReplaceRows DEF Inv, replaceActiveSession
<1>2. /\ call'[c] = NoCall /\ \A d \in Calls \ {c} : call'[d] = call[d]
      /\ call[c].at = "replace"
  BY DEF replaceActiveSession, end, Inv, Known, TypeOK
<1>3. CASE s # r
  <2>1. /\ sess'[s].channel = sess[s].channel
        /\ held'[s] = held[s]
        /\ current(s)' => sess'[s] = sess[s]
    BY <1>1, <1>3 DEF Replaces, current, live
  <2>2. Undisturbed(s)
    BY <1>1, <1>2, <2>1, NoCallRefreshes DEF Undisturbed, current, live, used
  <2> QED BY <2>2, KnowsKept DEF Inv
<1>4. CASE s = r
  <2>1. \A d \in Calls : ~refreshing(d, s)
    BY <1>1, <1>4 DEF Replaces, Inv, Known, CallOK, onRow, refreshing
  <2>2. \A d \in Calls : ~refreshing(d, s)'
    BY <1>2, <2>1, NoCallRefreshes DEF refreshing
  <2> QED BY <1>1, <1>4, <2>2 DEF AppKnows, Replaces
<1> QED BY <1>3, <1>4

LEMMA KnowsBegin ==
  ASSUME Inv, NEW c \in Calls, NEW r \in Sessions,
         refresh(c, r) \/ request(c, r), NEW s \in Sessions
  PROVE  AppKnows(s)'
<1>1. PICK kind \in {"refresh", "request"} :
        /\ begin(c, r, kind)
        /\ kind = "refresh" => mayRefresh(r)
  BY DEF refresh, request
<1>2. /\ UNCHANGED <<active, scoped, sess, held, faulted>>
      /\ call[c].at = "idle" /\ ~refreshing(c, s)
      /\ \A d \in Calls \ {c} : call'[d] = call[d]
      /\ call'[c].at = "find" /\ call'[c].kind = kind /\ call'[c].sid = r
      /\ kind = "refresh" => call'[c].secret = held[r] /\ call'[c].waiting
  BY <1>1 DEF begin, Inv, Known, TypeOK, NoCall, CallOK, refreshing
<1>3. CASE kind = "request" \/ s # r
  <2>1. ~refreshing(c, s)'
    BY <1>2, <1>3 DEF refreshing
  <2>2. Undisturbed(s)
    BY <1>2, <2>1 DEF Undisturbed, current, live, used
  <2> QED BY <2>2, KnowsKept DEF Inv
<1>4. CASE kind = "refresh" /\ s = r
  <2> SUFFICES ASSUME sess[s].channel = "MOBILE", s \notin faulted
               PROVE  AppKnows(s)'
    BY <1>2 DEF AppKnows
  <2>1. AppKnows(s) /\ mayRefresh(s)
    BY <1>1, <1>4 DEF Inv
  <2>2. \A d \in Calls : ~refreshing(d, s)
    BY <2>1 DEF AppKnows, mayRefresh, refreshing
  <2>3. \A d \in Calls : refreshing(d, s)' => d = c
    BY <1>2, <2>2 DEF refreshing
  <2>4. current(s) => sess[s].prev < sess[s].hash /\ held[s] = sess[s].hash
    BY <2>1, <2>2 DEF AppKnows, mayRefresh
  <2>5. current(s)' = current(s)
    BY <1>2 DEF current, live, used
  <2> QED BY <1>2, <1>4, <2>3, <2>4, <2>5 DEF AppKnows
<1> QED BY <1>3, <1>4

(* Of a current session of the app, the call has the current token: it is  *)
(* neither refused nor taken for a reuse.                                  *)
LEMMA KnowsFindActive ==
  ASSUME Inv, NEW c \in Calls, findActive(c), NEW s \in Sessions
  PROVE  AppKnows(s)'
<1>1. Quiet(s) /\ UNCHANGED faulted
  BY FindActiveRows, RevokesQuiet DEF Inv, findActive
<1>2. call[c].at = "find" /\ call[c].kind \in {"refresh", "request"}
  BY DEF findActive, Inv, Known, CallOK, onRow, TypeOK, Call
<1>3. CASE refuse(c)
  <2>1. /\ call'[c] = NoCall /\ \A d \in Calls \ {c} : call'[d] = call[d]
        /\ held'[s] \in {0, held[s]}
    BY <1>3, Refused DEF Inv
  <2> QED BY <1>1, <1>2, <2>1, NoCallRefreshes, QuietUndisturbed, KnowsKept DEF Inv
<1>4. CASE ~refuse(c)
  <2> DEFINE step == afterFind(c, sess'[call[c].sid])
  <2>1. goto(c, step) /\ held' = held /\ step # "refused"
    BY <1>4 DEF findActive
  <2>2. /\ call'[c] = [call[c] EXCEPT !.at = step]
        /\ \A d \in Calls \ {c} : call'[d] = call[d]
    BY <2>1 DEF goto, Inv, Known, TypeOK
  <2>3. call[c] \in Call
    BY DEF Inv, Known, TypeOK
  <2>4. /\ call'[c].kind = call[c].kind /\ call'[c].sid = call[c].sid
        /\ call'[c].secret = call[c].secret /\ call'[c].waiting = call[c].waiting
        /\ call'[c].at = step
    BY <2>2, <2>3 DEF Call
  <2>5. CASE ~refreshing(c, s)
    <3>1. ~refreshing(c, s)'
      BY <2>4, <2>5 DEF refreshing
    <3> QED BY <1>1, <2>1, <2>2, <2>5, <3>1, QuietUndisturbed, KnowsKept DEF Inv
  <2>6. CASE refreshing(c, s)
    <3> SUFFICES ASSUME sess'[s].channel = "MOBILE", s \notin faulted'
                 PROVE  AppKnows(s)'
      BY DEF AppKnows
    <3>1. sess[s].channel = "MOBILE" /\ s \notin faulted /\ AppKnows(s)
      BY <1>1 DEF Quiet, Inv
    <3>2. \A d \in Calls : refreshing(d, s)' <=> d = c
      BY <2>2, <2>4, <2>6, <3>1 DEF AppKnows, refreshing
    <3>3. call'[c].waiting
      BY <2>4, <2>6, <3>1 DEF AppKnows
    <3>4. ASSUME current(s)'
          PROVE  /\ sess'[s].prev < sess'[s].hash
                 /\ step = "rotate" /\ call'[c].secret = sess'[s].hash
                 /\ held'[s] \in {0, sess'[s].hash}
      <4>1. current(s) /\ sess'[s].hash = sess[s].hash /\ sess'[s].prev = sess[s].prev
        BY <1>1, <3>4 DEF Quiet, current, live, used
      <4>2. sess[s].prev < sess[s].hash /\ call[c].secret = sess[s].hash
        BY <2>6, <3>1, <4>1 DEF AppKnows
      <4>3. held[s] \in {0, sess[s].hash}
        BY <1>2, <2>6, <3>1, <4>1 DEF AppKnows
      <4>4. /\ sess[s].prev \in Int /\ sess[s].hash \in Int
            /\ call[c].sid = s /\ sess'[s].channel # "WEB"
        BY <2>6 DEF refreshing, Inv, Known, TypeOK, Session, Secrets
      <4>5. call[c].secret # sess'[s].prev
        BY <4>1, <4>2, <4>4
      <4>6. step = "rotate"
        BY <1>2, <2>1, <2>6, <4>4, <4>5, AfterFind DEF refreshing
      <4> QED BY <2>1, <2>4, <4>1, <4>2, <4>3, <4>6
    <3>5. call'[c].at = step
      BY <2>4
    <3> HIDE DEF step
    <3> QED BY <3>2, <3>3, <3>4, <3>5 DEF AppKnows
  <2> QED BY <2>5, <2>6
<1> QED BY <1>3, <1>4

LEMMA KnowsRotate ==
  ASSUME Inv, NEW c \in Calls, rotateRefreshToken(c), NEW s \in Sessions
  PROVE  AppKnows(s)'
<1> DEFINE r == call[c].sid
<1>1. /\ call[c] \in Call /\ r \in Sessions /\ sess[r] \in Session
      /\ refreshing(c, r) /\ call[c].at = "rotate"
      /\ call[c].secret \in Nat
  BY DEF rotateRefreshToken, Inv, Known, CallOK, onRow, refreshing, TypeOK, Call, Secrets
<1>2. UNCHANGED <<active, scoped, held, faulted>>
      /\ \A d \in Calls \ {c} : call'[d] = call[d]
  BY DEF rotateRefreshToken, goto, Inv, Known, TypeOK
<1>3. call'[c].sid = r /\ call'[c].kind = call[c].kind /\ call'[c].waiting = call[c].waiting
  BY <1>1 DEF rotateRefreshToken, goto, Inv, Known, TypeOK, Call
<1>4. CASE s # r
  <2>1. ~refreshing(c, s) /\ ~refreshing(c, s)'
    BY <1>3, <1>4 DEF refreshing
  <2>2. Quiet(s)
    BY <1>4, RotateRows DEF Inv
  <2> QED BY <1>2, <2>1, <2>2, QuietUndisturbed, KnowsKept DEF Inv
<1>5. CASE s = r
  <2> SUFFICES ASSUME sess'[s].channel = "MOBILE", s \notin faulted'
               PROVE  AppKnows(s)'
    BY DEF AppKnows
  <2>1. sess[s].channel = "MOBILE" /\ s \notin faulted /\ AppKnows(s)
    BY <1>1, <1>2, <1>5, RotateRows DEF Inv, Quiet, Session
  <2>2. \A d \in Calls : refreshing(d, s)' => d = c
    BY <1>1, <1>2, <1>5, <2>1 DEF AppKnows, refreshing
  <2>3. call'[c].waiting
    BY <1>1, <1>3, <1>5, <2>1 DEF AppKnows
  <2>4. CASE rotates(s, call[c].secret)
    <3>1. /\ sess'[s] = [sess[s] EXCEPT !.prev = call[c].secret,
                                        !.hash = call[c].secret + 1, !.seen = TRUE]
          /\ call'[c] = [call[c] EXCEPT !.at = "user", !.secret = call[c].secret + 1]
      BY <1>1, <1>5, <2>4 DEF rotateRefreshToken, createRefreshSecret, Inv, Known, TypeOK
    <3>2. sess'[s].prev < sess'[s].hash /\ call'[c].secret = sess'[s].hash
          /\ call'[c].at = "user"
      BY <1>1, <1>5, <3>1 DEF Session, Call
    <3>3. refreshing(c, s)'
      BY <1>1, <1>3, <1>5 DEF refreshing
    <3> QED BY <2>2, <2>3, <3>2, <3>3 DEF AppKnows
  <2>5. CASE ~rotates(s, call[c].secret)
    <3>1. sess' = sess
      BY <1>5, <2>5 DEF rotateRefreshToken
    <3>2. ~current(s)
      BY <1>1, <1>5, <2>1, <2>5 DEF AppKnows, rotates
    <3>3. ~current(s)'
      BY <3>1, <3>2 DEF current, live, used
    <3> QED BY <2>2, <2>3, <3>3 DEF AppKnows
  <2> QED BY <2>4, <2>5
<1> QED BY <1>4, <1>5

LEMMA KnowsFindById ==
  ASSUME Inv, NEW c \in Calls, findById(c), NEW s \in Sessions
  PROVE  AppKnows(s)'
<1> DEFINE r == call[c].sid
<1>1. /\ call[c] \in Call /\ r \in Sessions /\ refreshing(c, r) /\ call[c].at = "user"
      /\ call[c].account = sess[r].user
      /\ UNCHANGED <<active, scoped, sess, faulted>>
  BY DEF findById, Inv, Known, CallOK, onRow, refreshing, TypeOK, Call
<1>2. \A d \in Calls \ {c} : call'[d] = call[d]
  BY DEF findById, answer, end, goto, Inv, Known, TypeOK
<1>3. CASE s # r
  <2>1. ~refreshing(c, s) /\ ~refreshing(c, s)' /\ held'[s] = held[s]
    BY <1>1, <1>3 DEF findById, answer, end, goto, refreshing, Inv, Known, TypeOK, Call, NoCall
  <2>2. Undisturbed(s)
    BY <1>1, <1>2, <2>1 DEF Undisturbed, current, live, used
  <2> QED BY <2>2, KnowsKept DEF Inv
<1>4. CASE s = r
  <2> SUFFICES ASSUME sess[s].channel = "MOBILE", s \notin faulted
               PROVE  AppKnows(s)'
    BY <1>1 DEF AppKnows
  <2>1. AppKnows(s)
    BY DEF Inv
  <2>2. \A d \in Calls \ {c} : ~refreshing(d, s)'
    BY <1>1, <1>2, <1>4, <2>1 DEF AppKnows, refreshing
  <2>3. current(s)' = current(s)
    BY <1>1 DEF current, live, used
  <2>4. CASE answer(c)
    <3>1. call'[c] = NoCall /\ held'[s] = call[c].secret
      BY <1>1, <1>4, <2>1, <2>4 DEF answer, end, AppKnows, Inv, Known, TypeOK
    <3>2. \A d \in Calls : ~refreshing(d, s)'
      BY <2>2, <3>1, NoCallRefreshes
    <3>3. current(s) => sess[s].prev < sess[s].hash /\ held'[s] = sess[s].hash
      BY <1>1, <1>4, <2>1, <3>1 DEF AppKnows
    <3> QED BY <1>1, <2>3, <3>2, <3>3 DEF AppKnows
  <2>5. CASE call[c].account \notin active
    <3>1. ~current(s)
      BY <1>1, <1>4, <2>5 DEF Inv, NoSessionOfInactive, current
    <3>2. call'[c].waiting
      BY <1>1, <1>4, <2>1, <2>5 DEF findById, goto, AppKnows, Inv, Known, TypeOK, Call
    <3> QED BY <2>2, <2>3, <3>1, <3>2 DEF AppKnows
  <2> QED BY <2>4, <2>5 DEF findById
<1> QED BY <1>3, <1>4

LEMMA KnowsRevoke ==
  ASSUME Inv, NEW c \in Calls, revokeAndRefuse(c), NEW s \in Sessions
  PROVE  AppKnows(s)'
<1>1. Quiet(s) /\ UNCHANGED faulted
  BY RevokingRows, RevokesQuiet DEF Inv, revokeAndRefuse
<1>2. /\ call'[c] = NoCall /\ \A d \in Calls \ {c} : call'[d] = call[d]
      /\ held'[s] \in {0, held[s]}
  BY Refused DEF Inv, revokeAndRefuse
<1>3. call[c].at # "user"
  BY DEF revokeAndRefuse
<1> QED BY <1>1, <1>2, <1>3, NoCallRefreshes, QuietUndisturbed, KnowsKept DEF Inv

LEMMA KnowsGiveUp ==
  ASSUME Inv, NEW c \in Calls, giveUp(c), NEW s \in Sessions
  PROVE  AppKnows(s)'
<1>1. /\ call[c] \in Call
      /\ call'[c] = [call[c] EXCEPT !.waiting = FALSE]
      /\ \A d \in Calls \ {c} : call'[d] = call[d]
      /\ faulted \subseteq faulted' /\ UNCHANGED <<active, scoped, sess, held>>
  BY GivenUp DEF Inv, Known, TypeOK
<1>2. refreshing(c, s)' <=> refreshing(c, s)
  BY <1>1 DEF refreshing, Call
<1>3. CASE ~refreshing(c, s)
  <2>1. Undisturbed(s)
    BY <1>1, <1>2, <1>3 DEF Undisturbed, current, live, used
  <2> QED BY <2>1, KnowsKept DEF Inv
<1>4. CASE refreshing(c, s)
  <2>1. call[c].sid = s /\ call[c].channel = sess[s].channel
    BY <1>4 DEF refreshing, Inv, Known, CallOK, onRow, giveUp
  <2>2. sess[s].channel = "MOBILE" => s \in faulted'
    BY <1>4, <2>1, GivenUp DEF Inv
  <2> QED BY <1>1, <2>2 DEF AppKnows
<1> QED BY <1>3, <1>4

LEMMA KnowsStep ==
  ASSUME Inv, [Next]_vars, NEW s \in Sessions
  PROVE  AppKnows(s)'
<1> USE DEF Inv
<1>1. ASSUME NEW c \in Calls, NEW a \in Accounts, NEW channel \in Channels,
             login(c, a, channel)
      PROVE  AppKnows(s)'
  <2>1. /\ UNCHANGED <<sess, held, faulted>>
        /\ \A d \in Calls \ {c} : call'[d] = call[d]
        /\ call[c].at = "idle" /\ call'[c].kind = "login"
    BY <1>1 DEF login, Known, TypeOK, NoCall
  <2>2. Undisturbed(s)
    BY <2>1 DEF Undisturbed, refreshing, current, live, used
  <2> QED BY <2>2, KnowsKept
<1>2. ASSUME NEW c \in Calls, NEW r \in Sessions, replaceActiveSession(c, r)
      PROVE  AppKnows(s)'
  BY <1>2, KnowsReplace
<1>3. ASSUME NEW c \in Calls, NEW r \in Sessions, refresh(c, r) \/ request(c, r)
      PROVE  AppKnows(s)'
  BY <1>3, KnowsBegin
<1>4. ASSUME NEW c \in Calls, refuseLogin(c) \/ touch(c)
      PROVE  AppKnows(s)'
  <2>1. Quiet(s) /\ UNCHANGED faulted
    BY <1>4, FlagRows DEF Quiet, refuseLogin, touch
  <2>2. /\ call'[c] = NoCall /\ \A d \in Calls \ {c} : call'[d] = call[d]
        /\ held'[s] \in {0, held[s]} /\ call[c].at # "user"
    BY <1>4 DEF refuseLogin, touch, refuse, end, Known, TypeOK
  <2> QED BY <2>1, <2>2, NoCallRefreshes, QuietUndisturbed, KnowsKept
<1>5. ASSUME NEW c \in Calls, findActive(c)
      PROVE  AppKnows(s)'
  BY <1>5, KnowsFindActive
<1>6. ASSUME NEW c \in Calls, rotateRefreshToken(c)
      PROVE  AppKnows(s)'
  BY <1>6, KnowsRotate
<1>7. ASSUME NEW c \in Calls, findById(c)
      PROVE  AppKnows(s)'
  BY <1>7, KnowsFindById
<1>8. ASSUME NEW c \in Calls, revokeAndRefuse(c)
      PROVE  AppKnows(s)'
  BY <1>8, KnowsRevoke
<1>9. ASSUME NEW c \in Calls, giveUp(c)
      PROVE  AppKnows(s)'
  BY <1>9, KnowsGiveUp
<1>10. CASE \/ \E r \in Sessions : logout(r) \/ revokeSession(r) \/ expire(r) \/ idle(r)
            \/ \E a \in Accounts : changeStatus(a) \/ grantChanges(a)
            \/ UNCHANGED vars
  <2>1. Quiet(s)
    BY <1>10, RevokingRows, FlagRows, RevokesQuiet DEF Quiet, grantChanges, vars
  <2>2. UNCHANGED <<faulted, call>> /\ held'[s] \in {0, held[s]}
    BY <1>10 DEF logout, revokeSession, expire, idle, changeStatus, grantChanges, vars,
                 Known, TypeOK
  <2>3. Undisturbed(s)
    BY <2>1, <2>2, QuietUndisturbed DEF refreshing
  <2> QED BY <2>3, KnowsKept
<1> QED
  BY <1>1, <1>2, <1>3, <1>4, <1>5, <1>6, <1>7, <1>8, <1>9, <1>10 DEF Next

(* Only revokeAndRefuse writes that reason, and never of a current session *)
(* of the app that has lost no answer.                                     *)
LEMMA NoFalseReuseStep ==
  ASSUME Inv, [Next]_vars
  PROVE  NoFalseReuse'
<1> SUFFICES ASSUME NEW s \in Sessions, sess'[s].channel = "MOBILE", sess'[s].fresh,
                    sess'[s].reason = "REFRESH_TOKEN_REUSE"
             PROVE  s \in faulted'
  BY DEF NoFalseReuse
<1>1. faulted \subseteq faulted'
  BY DEF Next, vars, login, replaceActiveSession, refresh, request, begin, refuseLogin,
         findActive, rotateRefreshToken, touch, findById, revokeAndRefuse, giveUp, logout,
         revokeSession, expire, idle, changeStatus, grantChanges
<1>2. CASE /\ sess[s].reason = "REFRESH_TOKEN_REUSE" /\ sess[s].channel = "MOBILE"
           /\ sess[s].fresh
  BY <1>1, <1>2 DEF Inv, NoFalseReuse
<1>3. ASSUME NEW c \in Calls, revokeAndRefuse(c), sess[s].reason # "REFRESH_TOKEN_REUSE"
      PROVE  s \in faulted'
  <2>1. sess' = revoke({call[c].sid}, IF call[c].at = "reuse" THEN "REFRESH_TOKEN_REUSE"
                                                              ELSE "OTHER")
    BY <1>3 DEF revokeAndRefuse
  <2>2. s = call[c].sid /\ live(s) /\ call[c].at = "reuse" /\ Quiet(s)
    BY <1>3, <2>1, EndedRow, RevokingRows, RevokesQuiet
       DEF revoke, Inv, Known, TypeOK, Reasons
  <2>3. current(s) /\ sess[s].channel = "MOBILE" /\ refreshing(c, s)
    BY <2>2 DEF Quiet, current, Inv, Known, CallOK, refreshing
  <2> QED BY <1>1, <2>2, <2>3 DEF Inv, AppKnows
<1>4. CASE Quiet(s) /\ sess[s].reason = sess'[s].reason
  BY <1>2, <1>4 DEF Quiet
<1>5. ASSUME NEW c \in Calls, NEW r \in Sessions, replaceActiveSession(c, r)
      PROVE  s \in faulted'
  <2>1. Replaces(c, r)
    BY <1>5, ReplaceRows DEF Inv
  <2> QED BY <1>2, <2>1 DEF Replaces
<1>6. ASSUME NEW c \in Calls, rotateRefreshToken(c)
      PROVE  s \in faulted'
  <2>1. /\ sess'[s].reason = sess[s].reason /\ sess'[s].channel = sess[s].channel
        /\ sess'[s].fresh = sess[s].fresh
    <3>1. sess[s] \in Session /\ call[c].sid \in Sessions
      BY <1>6, RotateRows DEF Inv, Known, TypeOK
    <3>2. CASE sess' = sess
      BY <3>2
    <3>3. CASE sess' # sess
      <4>1. sess' = [sess EXCEPT ![call[c].sid].prev = call[c].secret,
                                 ![call[c].sid].hash = call[c].secret + 1,
                                 ![call[c].sid].seen = TRUE]
        BY <1>6, <3>3 DEF rotateRefreshToken, createRefreshSecret
      <4> QED BY <3>1, <4>1 DEF Inv, Known, TypeOK, Session
    <3> QED BY <3>2, <3>3
  <2> QED BY <1>2, <2>1
<1>7. ASSUME \A c \in Calls : ~revokeAndRefuse(c) /\ ~rotateRefreshToken(c),
             \A c \in Calls, r \in Sessions : ~replaceActiveSession(c, r)
      PROVE  s \in faulted'
  <2>1. Quiet(s)
    BY <1>7, QuietSteps DEF Inv
  <2>2. CASE sess' = sess
    BY <2>1, <2>2, <1>4
  <2>3. CASE \/ \E c \in Calls : touch(c)
             \/ \E r \in Sessions : expire(r) \/ idle(r)
    BY <2>1, <2>3, <1>4, FlagRows DEF Inv
  <2>4. CASE \/ \E c \in Calls : findActive(c)
             \/ \E r \in Sessions : logout(r) \/ revokeSession(r)
             \/ \E a \in Accounts : changeStatus(a)
    <3>1. sess' = sess \/ (\E S : sess' = revoke(S, "OTHER")) \/ Revokes("OTHER")
      BY <2>4, FindActiveRows DEF Inv, logout, revokeSession, changeStatus, deactivated
    <3>2. sess' = sess \/ Revokes("OTHER")
      BY <3>1, RevokeRows DEF Inv, Known, TypeOK, Reasons
    <3>3. sess'[s].reason = sess[s].reason
      BY <3>2 DEF Revokes
    <3> QED BY <2>1, <3>3, <1>4
  <2> QED
    BY <1>7, <2>2, <2>3, <2>4
       DEF Next, vars, login, refresh, request, begin, refuseLogin, findById, giveUp,
           grantChanges
<1> QED
  BY <1>2, <1>3, <1>4, <1>5, <1>6, <1>7, RevokingRows, RevokesQuiet DEF Inv, Quiet

------------------------------------------------------------------------------
(* Theorems *)

(* Inv holds in every state: what calls, rows, accounts and the app know of *)
(* each other.                                                              *)
THEOREM Invariance == Spec => []Inv
<1>1. Init => Inv
  <2> SUFFICES ASSUME Init PROVE Inv
    OBVIOUS
  <2>1. Known
    BY KnownInit
  <2>2. \A s \in Sessions : ~live(s) /\ sess[s].reason = "NONE"
    BY DEF Init, Unused, live, used
  <2>3. \A c \in Calls : call[c].kind # "refresh"
    BY DEF Init, NoCall
  <2>4. \A s \in Sessions : AppKnows(s)
    BY <2>2, <2>3 DEF AppKnows, refreshing, current
  <2> QED BY <2>1, <2>2, <2>4
          DEF Inv, OneSessionPerChannel, NoSessionOfInactive, NoFalseReuse
<1>2. Inv /\ [Next]_vars => Inv'
  <2> SUFFICES ASSUME Inv, [Next]_vars PROVE Inv'
    OBVIOUS
  <2>1. Known' /\ OneSessionPerChannel' /\ NoSessionOfInactive'
    BY KnownStep, OneSessionStep, NoInactiveStep DEF Inv
  <2>2. \A s \in Sessions : AppKnows(s)'
    BY KnowsStep
  <2> QED BY <2>1, <2>2, NoFalseReuseStep DEF Inv
<1> QED BY <1>1, <1>2, PTL DEF Spec

(* Rows, tokens and calls keep their shape, and no call needs more refresh *)
(* tokens than the bound.                                                  *)
THEOREM TypeCorrectness == Spec => []TypeOK
<1>1. Inv => TypeOK
  BY DEF Inv, Known
<1> QED BY <1>1, Invariance, PTL

(* However sign-ins, grants and expiries interleave, an account has one    *)
(* unrevoked session per channel, and no sign-in meets the unique index.   *)
THEOREM OneSession == Spec => []OneSessionPerChannel
<1>1. Inv => OneSessionPerChannel
  BY DEF Inv
<1> QED BY <1>1, Invariance, PTL

(* Without a management grant, requests are let through with one session.  *)
THEOREM SingleAccountWorksOnce == Spec => []SingleAccountSession
<1>1. Inv => SingleAccountSession
  BY SingleAccount DEF Inv, Known
<1> QED BY <1>1, Invariance, PTL

(* Deactivation leaves no session, and none under way gets past it.        *)
THEOREM DeactivationEndsSessions == Spec => []NoSessionOfInactive
<1>1. Inv => NoSessionOfInactive
  BY DEF Inv
<1> QED BY <1>1, Invariance, PTL

(* A session of the app that lost no answer is not ended for a reuse.      *)
THEOREM AppNeverReuses == Spec => []NoFalseReuse
<1>1. Inv => NoFalseReuse
  BY DEF Inv
<1> QED BY <1>1, Invariance, PTL

(* A refresh token is exchanged for its successor, once, in a session that *)
(* is current at that moment.                                              *)
THEOREM ExchangeOnce == Spec => ExchangedOnceWhileCurrent
<1>1. ASSUME Inv, [Next]_vars, NEW s \in Sessions, used(s),
             sess'[s].hash \notin {0, sess[s].hash}
      PROVE  current(s) /\ sess[s].user \in active /\ sess'[s].prev = sess[s].hash
  <2>1. ~Quiet(s)
    BY <1>1 DEF Quiet
  <2>2. \A c \in Calls, r \in Sessions : ~replaceActiveSession(c, r)
    BY <1>1, ReplaceRows DEF Replaces, Inv
  <2>3. PICK c \in Calls : rotateRefreshToken(c)
    BY <1>1, <2>1, <2>2, QuietSteps DEF Inv
  <2>4. /\ s = call[c].sid /\ rotates(s, call[c].secret)
        /\ sess'[s] = [sess[s] EXCEPT !.prev = call[c].secret,
                                      !.hash = call[c].secret + 1, !.seen = TRUE]
    BY <1>1, <2>1, <2>3, RotateRows DEF Inv
  <2>5. sess[s] \in Session
    BY <1>1 DEF Inv, Known, TypeOK
  <2> QED BY <1>1, <2>4, <2>5 DEF rotates, Session, Inv, NoSessionOfInactive, current
<1>2. Inv /\ [Next]_vars =>
        [\A s \in Sessions :
           used(s) /\ sess'[s].hash \notin {0, sess[s].hash} =>
             /\ current(s)
             /\ sess[s].user \in active
             /\ sess'[s].prev = sess[s].hash]_vars
  BY <1>1
<1> QED BY <1>2, Invariance, PTL DEF Spec, ExchangedOnceWhileCurrent

(* A sign-in takes the app's session from an account only with the right   *)
(* to, whatever changed since the password was compared.                   *)
THEOREM ReplacedByRight == Spec => AppSessionReplacedByRight
<1>1. ASSUME Inv, [Next]_vars, NEW s \in Sessions, sess[s].channel = "MOBILE", live(s),
             sess'[s].reason = "REPLACED_BY_NEW_LOGIN"
      PROVE  \E t \in Sessions :
               /\ ~used(t)
               /\ sess'[t].user = sess[s].user
               /\ \/ sess'[t].channel = "MOBILE"
                  \/ sess[s].user \in WebRoles \ scoped
  <2>1. ~Quiet(s)
    BY <1>1 DEF Quiet, live
  <2>2. \A c \in Calls : ~rotateRefreshToken(c)
    <3> SUFFICES ASSUME NEW c \in Calls, rotateRefreshToken(c) PROVE FALSE
      OBVIOUS
    <3>1. sess'[s] = [sess[s] EXCEPT !.prev = call[c].secret,
                                    !.hash = call[c].secret + 1, !.seen = TRUE]
      BY <1>1, <2>1, RotateRows DEF Inv
    <3> QED BY <1>1, <3>1 DEF Inv, Known, TypeOK, Session, live
  <2>3. PICK c \in Calls, t \in Sessions : replaceActiveSession(c, t)
    BY <1>1, <2>1, <2>2, QuietSteps DEF Inv
  <2>4. Replaces(c, t) /\ s # t
    BY <1>1, <2>3, ReplaceRows DEF Inv, Replaces
  <2>5. /\ sess[s].user = call[c].account
        /\ replacesSession(call[c].account, call[c].channel, sess[s].channel)
        /\ sess'[t].channel = call[c].channel /\ sess'[t].user = call[c].account
    BY <1>1, <2>4 DEF Replaces, live
  <2>6. call[c].channel \in {"MOBILE", "WEB"}
    BY <1>1 DEF Inv, Known, TypeOK, Call, Channels
  <2>7. CASE call[c].channel = "WEB"
    BY <1>1, <2>4, <2>5, <2>7
       DEF Replaces, replacesSession, sessionMode, admits, webAllowed, hasScope
  <2>8. CASE call[c].channel = "MOBILE"
    BY <2>4, <2>5, <2>8 DEF Replaces
  <2> QED BY <2>6, <2>7, <2>8, <2>4, <2>5 DEF Replaces
<1>2. Inv /\ [Next]_vars =>
        [\A s \in Sessions :
           sess[s].channel = "MOBILE" /\ live(s) /\ sess'[s].reason = "REPLACED_BY_NEW_LOGIN" =>
             \E t \in Sessions :
               /\ ~used(t)
               /\ sess'[t].user = sess[s].user
               /\ \/ sess'[t].channel = "MOBILE"
                  \/ sess[s].user \in WebRoles \ scoped]_vars
  BY <1>1
<1> QED BY <1>2, Invariance, PTL DEF Spec, AppSessionReplacedByRight

=============================================================================
