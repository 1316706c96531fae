------------------------------ MODULE AuthSessions ------------------------------
(***************************************************************************)
(* Sign-in sessions and the rotation of their refresh tokens: AuthService  *)
(* and TypeOrmAuthSessionRepository of the backend, with the clients that  *)
(* hold the tokens (ApiClient of the app, auth-api.ts of the web).         *)
(*                                                                         *)
(* A call of the API is a sequence of statements with anything in between: *)
(* other calls, an Admin, the clock, or a client that no longer waits.     *)
(* Transactions that hold the row lock of the account are one step.  The   *)
(* secret of a refresh token is its number in its session, 0 is null, and  *)
(* a hash is the secret it was made from.                                  *)
(***************************************************************************)
EXTENDS Integers, FiniteSets

CONSTANTS
  Accounts,
  WebRoles,       \* the accounts with a global role of the web
  Sessions,       \* ids of auth_sessions rows
  Calls,          \* API calls in progress at once
  NoAccount,
  NoSession,
  MaxSecret       \* bound: refresh tokens per session

ASSUME AuthAssumption ==
  /\ WebRoles \subseteq Accounts
  /\ NoAccount \notin Accounts
  /\ NoSession \notin Sessions
  /\ MaxSecret \in Nat \ {0}

VARIABLES
  active,    \* accounts whose user and employee are active
  scoped,    \* accounts with a management grant in its window
  sess,      \* the auth_sessions rows
  held,      \* the refresh token the client of each session holds, 0 for none
  faulted,   \* sessions of the app that gave up waiting for an answer
  call       \* the API calls in progress

vars == <<active, scoped, sess, held, faulted, call>>

Channels == {"WEB", "MOBILE"}

(* OTHER stands for the reasons no property tells apart: USER_LOGOUT,      *)
(* ADMIN_REVOKED, EMPLOYEE_DEACTIVATED, MANAGEMENT_ACCESS_ENDED,           *)
(* IDLE_TIMEOUT and SESSION_USER_UNAVAILABLE.                              *)
Reasons == {"NONE", "REPLACED_BY_NEW_LOGIN", "REFRESH_TOKEN_REUSE", "OTHER"}
Secrets == 0 .. MaxSecret

(* revoke_reason is NONE while revoked_at is null; fresh: expires_at has   *)
(* not come; seen: last_seen_at is within the idle limit.                  *)
Session == [user: Accounts \cup {NoAccount}, channel: Channels, reason: Reasons,
            fresh: BOOLEAN, seen: BOOLEAN, hash: Secrets, prev: Secrets]

Unused == [user |-> NoAccount, channel |-> "WEB", reason |-> "NONE",
           fresh |-> TRUE, seen |-> TRUE, hash |-> 0, prev |-> 0]

(* at: the next statement.  secret is what the client of a refresh sent, or *)
(* will be sent once it is rotated.                                        *)
Steps == {"idle", "replace", "find", "rotate", "touch", "user", "reuse", "end"}
Call == [at: Steps, kind: {"login", "refresh", "request"}, account: Accounts \cup {NoAccount},
         channel: Channels, sid: Sessions \cup {NoSession}, secret: Secrets,
         waiting: BOOLEAN]

NoCall == [at |-> "idle", kind |-> "request", account |-> NoAccount, channel |-> "WEB",
           sid |-> NoSession, secret |-> 0, waiting |-> FALSE]

------------------------------------------------------------------------------
(* Portal access *)

hasScope(a) == a \in active /\ a \in scoped
webAllowed(a) == a \in active /\ (a \in WebRoles \/ hasScope(a))
sessionMode(a) == IF hasScope(a) THEN "WEB_AND_MOBILE" ELSE "SINGLE_ACCOUNT"

(* Mutant: a sign-in replaces the sessions of other channels only. *)
replacesOtherChannel(a, incoming, existing) ==
  sessionMode(a) = "SINGLE_ACCOUNT" \/ incoming # existing

replacesSession(a, incoming, existing) ==
  sessionMode(a) = "SINGLE_ACCOUNT" \/ incoming = existing

------------------------------------------------------------------------------
(* Statements on auth_sessions *)

used(s) == sess[s].user # NoAccount
live(s) == used(s) /\ sess[s].reason = "NONE"
current(s) == live(s) /\ sess[s].fresh

(* UPDATE ... SET revoked_at, revoke_reason WHERE revoked_at IS NULL.  The  *)
(* rest of a revoked row, which no statement looks at, is not kept.        *)
ended(row, reason) == [row EXCEPT !.reason = reason, !.seen = TRUE, !.hash = 0, !.prev = 0]

revoke(S, reason) ==
  [s \in Sessions |-> IF s \in S /\ live(s) THEN ended(sess[s], reason) ELSE sess[s]]

mobileOf(a) == {s \in Sessions : sess[s].user = a /\ sess[s].channel = "MOBILE"}
webOf(a) == {s \in Sessions : sess[s].user = a /\ sess[s].channel = "WEB"}

(* Mutant: web sessions end only with the access to the web. *)
reconcileAccess(a) ==
  IF ~webAllowed(a) THEN revoke(webOf(a), "OTHER") ELSE sess

(* What a lost grant means for the sessions that exist. *)
reconcile(a) ==
  LET mobile == sessionMode(a) = "SINGLE_ACCOUNT" /\ \E s \in mobileOf(a) : current(s)
  IN  IF ~webAllowed(a) \/ mobile THEN revoke(webOf(a), "OTHER") ELSE sess

(* Mutant: the compare-and-set forgets that the session may have ended. *)
rotatesUnlessChanged(s, expectedHash) == sess[s].hash = expectedHash

(* The WHERE of rotateRefreshToken. *)
rotates(s, expectedHash) == sess[s].hash = expectedHash /\ current(s)

------------------------------------------------------------------------------
(* Clients *)

(* Mutant: a client may start a refresh beside another. *)
mayRefreshAnyTime(s) == held[s] # 0

(* The app shares one refresh among its requests; a browser may have       *)
(* several tabs, each with its own.                                        *)
mayRefresh(s) ==
  /\ held[s] # 0
  /\ sess[s].channel = "MOBILE" =>
       \A c \in Calls : ~(call[c].kind = "refresh" /\ call[c].sid = s /\ call[c].waiting)

end(c) == call' = [call EXCEPT ![c] = NoCall]
goto(c, step) == call' = [call EXCEPT ![c].at = step]

(* The answer to a refresh reaches the client if it still waits. *)
answer(c) ==
  /\ held' = IF call[c].waiting THEN [held EXCEPT ![call[c].sid] = call[c].secret] ELSE held
  /\ end(c)

(* A refused refresh ends the session on the phone. *)
refuse(c) ==
  /\ held' = IF call[c].waiting /\ call[c].kind = "refresh" /\ call[c].channel = "MOBILE"
             THEN [held EXCEPT ![call[c].sid] = 0] ELSE held
  /\ end(c)

------------------------------------------------------------------------------
(* Sign-in *)

(* The password is compared, and the account found active, before the      *)
(* transaction that replaces sessions.                                     *)
login(c, a, channel) ==
  /\ call[c].at = "idle"
  /\ a \in active
  /\ call' = [call EXCEPT ![c] = [NoCall EXCEPT !.at = "replace", !.kind = "login",
                                                !.account = a, !.channel = channel,
                                                !.waiting = TRUE]]
  /\ UNCHANGED <<active, scoped, sess, held, faulted>>

(* Mutants: the account is not checked again, or its access to the web.    *)
admitsKnown(a, channel) == channel = "WEB" => a \in WebRoles \/ a \in scoped
admitsActive(a, channel) == a \in active

admits(a, channel) == a \in active /\ (channel = "WEB" => webAllowed(a))

replaceActiveSession(c, s) ==
  LET a == call[c].account
      replaced == {t \in Sessions : sess[t].user = a
                                    /\ replacesSession(a, call[c].channel, sess[t].channel)}
  IN
  /\ call[c].at = "replace"
  /\ admits(a, call[c].channel)
  /\ ~used(s)
  /\ sess' = [revoke(replaced, "REPLACED_BY_NEW_LOGIN") EXCEPT
                ![s] = [Unused EXCEPT !.user = a, !.channel = call[c].channel, !.hash = 1]]
  /\ held' = [held EXCEPT ![s] = IF call[c].waiting THEN 1 ELSE 0]
  /\ end(c)
  /\ UNCHANGED <<active, scoped, faulted>>

refuseLogin(c) ==
  /\ call[c].at = "replace"
  /\ ~admits(call[c].account, call[c].channel)
  /\ refuse(c)
  /\ UNCHANGED <<active, scoped, sess, faulted>>

------------------------------------------------------------------------------
(* Refresh, and the check before every protected request *)

begin(c, s, kind) ==
  /\ call[c].at = "idle"
  /\ call' = [call EXCEPT ![c] = [NoCall EXCEPT !.at = "find", !.kind = kind, !.sid = s,
                                                !.account = sess[s].user,
                                                !.channel = sess[s].channel,
                                                !.secret = IF kind = "refresh" THEN held[s]
                                                                               ELSE 0,
                                                !.waiting = kind = "refresh"]]
  /\ UNCHANGED <<active, scoped, sess, held, faulted>>

refresh(c, s) == mayRefresh(s) /\ held[s] < MaxSecret /\ begin(c, s, "refresh")
request(c, s) == held[s] # 0 /\ begin(c, s, "request")

(* Where a call goes on with the row it has found. *)
afterFind(c, row) ==
  CASE call[c].kind = "refresh" /\ row.prev # 0 /\ call[c].secret = row.prev -> "reuse"
    [] call[c].kind = "refresh" /\ call[c].secret # row.hash -> "refused"
    [] row.channel = "WEB" /\ ~row.seen -> "end"
    [] OTHER -> IF call[c].kind = "refresh" THEN "rotate" ELSE "touch"

findActive(c) ==
  LET a == call[c].account
      s == call[c].sid
  IN
  /\ call[c].at = "find"
  /\ sess' = IF a \in active THEN reconcile(a)
             ELSE revoke(webOf(a) \cup mobileOf(a), "OTHER")
  /\ IF a \in active /\ sess'[s].reason = "NONE" /\ sess'[s].fresh
        /\ sess'[s].hash # 0 /\ afterFind(c, sess'[s]) # "refused"
     THEN goto(c, afterFind(c, sess'[s])) /\ held' = held
     ELSE refuse(c)
  /\ UNCHANGED <<active, scoped, faulted>>

(* Mutant: the secret that is hashed is not the one that is sent. *)
createdTwice(secret) == secret + 2

createRefreshSecret(secret) == secret + 1

(* The row must still hold the hash the secret was compared with. *)
rotateRefreshToken(c) ==
  LET s == call[c].sid IN
  /\ call[c].at = "rotate"
  /\ IF rotates(s, call[c].secret)
     THEN /\ sess' = [sess EXCEPT ![s].prev = call[c].secret,
                                  ![s].hash = createRefreshSecret(call[c].secret),
                                  ![s].seen = TRUE]
          /\ call' = [call EXCEPT ![c].at = "user", ![c].secret = @ + 1]
     ELSE sess' = sess /\ goto(c, "reuse")
  /\ UNCHANGED <<active, scoped, held, faulted>>

(* The account a request reads after this changes nothing here. *)
touch(c) ==
  LET s == call[c].sid IN
  /\ call[c].at = "touch"
  /\ sess' = IF live(s) THEN [sess EXCEPT ![s].seen = TRUE] ELSE sess
  /\ end(c)
  /\ UNCHANGED <<active, scoped, held, faulted>>

findById(c) ==
  /\ call[c].at = "user"
  /\ IF call[c].account \in active THEN answer(c)
     ELSE goto(c, "end") /\ held' = held
  /\ UNCHANGED <<active, scoped, sess, faulted>>

(* The calls that end the session they came with: a token that was rotated  *)
(* before; the idle limit of the web, or an account no longer available.   *)
revokeAndRefuse(c) ==
  /\ call[c].at \in {"reuse", "end"}
  /\ sess' = revoke({call[c].sid}, IF call[c].at = "reuse" THEN "REFRESH_TOKEN_REUSE"
                                                           ELSE "OTHER")
  /\ refuse(c)
  /\ UNCHANGED <<active, scoped, faulted>>

(* The client stops waiting (10 s in the app), or the app is closed before *)
(* it has stored the answer; the server goes on.                           *)
giveUp(c) ==
  /\ call[c].at # "idle"
  /\ call[c].waiting
  /\ call' = [call EXCEPT ![c].waiting = FALSE]
  /\ faulted' = IF call[c].channel = "MOBILE" /\ call[c].kind = "refresh"
                THEN faulted \cup {call[c].sid} ELSE faulted
  /\ UNCHANGED <<active, scoped, sess, held>>

------------------------------------------------------------------------------
(* Everything else that ends sessions or rights *)

(* The app forgets its tokens even when the call does not arrive.          *)
logout(s) ==
  /\ held[s] # 0
  /\ \/ sess' = revoke({s}, "OTHER")
     \/ sess[s].channel = "MOBILE" /\ sess' = sess
  /\ held' = [held EXCEPT ![s] = 0]
  /\ UNCHANGED <<active, scoped, faulted, call>>

revokeSession(s) ==
  /\ live(s)
  /\ sess' = revoke({s}, "OTHER")
  /\ UNCHANGED <<active, scoped, held, faulted, call>>

(* All sessions of the account; their hashes are cleared too. *)
deactivated(a) == revoke(webOf(a) \cup mobileOf(a), "OTHER")

changeStatus(a) ==
  /\ active' = IF a \in active THEN active \ {a} ELSE active \cup {a}
  /\ sess' = IF a \in active THEN deactivated(a) ELSE sess
  /\ UNCHANGED <<scoped, held, faulted, call>>

grantChanges(a) ==
  /\ scoped' = IF a \in scoped THEN scoped \ {a} ELSE scoped \cup {a}
  /\ UNCHANGED <<active, sess, held, faulted, call>>

expire(s) ==
  /\ current(s)
  /\ sess' = [sess EXCEPT ![s].fresh = FALSE]
  /\ UNCHANGED <<active, scoped, held, faulted, call>>

idle(s) ==
  /\ current(s)
  /\ sess[s].channel = "WEB" /\ sess[s].seen
  /\ sess' = [sess EXCEPT ![s].seen = FALSE]
  /\ UNCHANGED <<active, scoped, held, faulted, call>>

------------------------------------------------------------------------------
Init ==
  /\ active = Accounts
  /\ scoped \in SUBSET Accounts
  /\ sess = [s \in Sessions |-> Unused]
  /\ held = [s \in Sessions |-> 0]
  /\ faulted = {}
  /\ call = [c \in Calls |-> NoCall]

Next ==
  \/ \E c \in Calls :
       \/ \E a \in Accounts, channel \in Channels : login(c, a, channel)
       \/ \E s \in Sessions : replaceActiveSession(c, s) \/ refresh(c, s) \/ request(c, s)
       \/ refuseLogin(c) \/ findActive(c) \/ rotateRefreshToken(c) \/ touch(c)
       \/ findById(c) \/ revokeAndRefuse(c) \/ giveUp(c)
  \/ \E s \in Sessions : logout(s) \/ revokeSession(s) \/ expire(s) \/ idle(s)
  \/ \E a \in Accounts : changeStatus(a) \/ grantChanges(a)

Spec == Init /\ [][Next]_vars

------------------------------------------------------------------------------
(* Properties *)

TypeOK ==
  /\ active \subseteq Accounts
  /\ scoped \subseteq Accounts
  /\ sess \in [Sessions -> Session]
  /\ held \in [Sessions -> Secrets]
  /\ faulted \subseteq Sessions
  /\ call \in [Calls -> Call]

(* No two sessions of an account on one channel are unrevoked: the unique   *)
(* index never stops a sign-in, whatever grants, sign-ins and expiries      *)
(* happen between the password check and the replacement.                   *)
OneSessionPerChannel ==
  \A s, t \in Sessions :
    /\ s # t /\ live(s) /\ live(t)
    /\ sess[s].user = sess[t].user
    => sess[s].channel # sess[t].channel

(* The sessions a request of the client would be let through with. *)
usable(s) ==
  /\ sess[s].user \in active
  /\ reconcile(sess[s].user)[s].reason = "NONE"
  /\ sess[s].fresh

(* An account without a management grant works with one session only: two  *)
(* sessions left over from a lost grant never both let a request through.  *)
SingleAccountSession ==
  \A s, t \in Sessions :
    /\ s # t /\ usable(s) /\ usable(t)
    /\ sess[s].user = sess[t].user
    => sessionMode(sess[s].user) = "WEB_AND_MOBILE"

(* A deactivated account has no unrevoked session, not even one of a       *)
(* sign-in or a refresh that was under way when it was deactivated, so a   *)
(* later reactivation brings no session back.                              *)
NoSessionOfInactive ==
  \A s \in Sessions : live(s) => sess[s].user \in active

(* A refresh token is exchanged once, and only in a session that is still  *)
(* unrevoked, unexpired and of an active account: its successor takes the  *)
(* place of the token that was current, whatever happened between reading  *)
(* the row and rotating it.                                                *)
ExchangedOnceWhileCurrent ==
  [][\A s \in Sessions :
       used(s) /\ sess'[s].hash \notin {0, sess[s].hash} =>
         /\ current(s)
         /\ sess[s].user \in active
         /\ sess'[s].prev = sess[s].hash]_vars

(* The app's session is replaced only by a sign-in with the right to: one  *)
(* of the app, or one of the web by an account with web access and no      *)
(* grant.  A refused sign-in on the web leaves it alone.                   *)
AppSessionReplacedByRight ==
  [][\A s \in Sessions :
       sess[s].channel = "MOBILE" /\ live(s) /\ sess'[s].reason = "REPLACED_BY_NEW_LOGIN" =>
         \E t \in Sessions :
           /\ ~used(t)
           /\ sess'[t].user = sess[s].user
           /\ \/ sess'[t].channel = "MOBILE"
              \/ sess[s].user \in WebRoles \ scoped]_vars

(* The app never trips over its own refreshes: as long as it has received  *)
(* every answer, its session is not revoked for the reuse of a token       *)
(* before it expires, although several of its requests may need a refresh  *)
(* at once.  (One that expires between being read and being rotated does   *)
(* end with that reason.)                                                  *)
NoFalseReuse ==
  \A s \in Sessions :
    /\ sess[s].channel = "MOBILE" /\ sess[s].fresh
    /\ sess[s].reason = "REFRESH_TOKEN_REUSE"
    => s \in faulted

(* Claimed by FLOWS.md: a temporary network error keeps the session of the  *)
(* app, so that the user can try again.  When the answer to a refresh was  *)
(* lost, the next one presents a rotated token, and that ends the session. *)
NetworkErrorKeepsSession ==
  \A s \in Sessions :
    sess[s].channel = "MOBILE" /\ sess[s].fresh => sess[s].reason # "REFRESH_TOKEN_REUSE"

=============================================================================
