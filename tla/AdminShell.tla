------------------------------- MODULE AdminShell -------------------------------
(***************************************************************************)
(* The Admin web around its pages in one tab: apiRequest and its shared    *)
(* refresh (lib/auth-api.ts), the layout that asks again whose session it  *)
(* is (dashboard/layout.tsx), and the sign-in page.  What the Backend does *)
(* with sessions is AuthSessions'; here it says yes or no.                 *)
(* Covered: calls served in any order and answered as late as it takes,    *)
(* after the layout that made them is gone and after a new sign-in too     *)
(* (no call has a timeout, is aborted or belongs to a session), answers    *)
(* lost before and after the Backend acted, tokens that expire at any time.*)
(* Limits: one tab and one account, whose new session on the web replaces  *)
(* its last; the access tokens that calls carry expire with the browser's. *)
(***************************************************************************)
EXTENDS FiniteSets

CONSTANT Fetches    \* calls under way at once

Dashboard == "/dashboard"             \* seen by some roles only, and their home
Managed == "/dashboard/managed"       \* the home of the others
Areas == {Dashboard, Managed}

VARIABLES
  websession,      \* at the Backend: the last session, its access to the web and to Dashboard
  cookies,         \* in the browser: of the last session, its access token unexpired,
                   \* its refresh token not rotated yet
  shell,           \* the layout: its route, its state, the areas it knows of
  fetches,         \* the calls of apiRequest under way
  refreshRequest   \* the shared refresh

shellVars == <<websession, cookies, shell, fetches, refreshRequest>>

(* What an ended session gave access to is asked no more.                  *)
WebSession == [live: BOOLEAN, web: BOOLEAN, dashboard: BOOLEAN]
NoSession == [live |-> FALSE, web |-> FALSE, dashboard |-> FALSE]
Cookies == [own: BOOLEAN, fresh: BOOLEAN, last: BOOLEAN]
NoCookies == [own |-> FALSE, fresh |-> FALSE, last |-> FALSE]   \* or those of an ended session
NewCookies == [own |-> TRUE, fresh |-> TRUE, last |-> TRUE]
(* Since the last sign-in, byUser: the user asked to leave; overtaken:     *)
(* something of an earlier session took effect, or an access token expired *)
(* before the call that a refresh had got it for.                          *)
Shell == [route: Areas \cup {"signin"}, state: {"loading", "ready", "error"},
          navigation: SUBSET Areas, byUser: BOOLEAN, overtaken: BOOLEAN]
(* at: on the way to the Backend, waiting for the refresh, or on the way   *)
(* back with an answer (the home of the user asked for, or how it ended).  *)
(* active: the effect that made the call was not cleaned up; old: made     *)
(* before the last sign-in; valid: its token is of the last session and    *)
(* has not expired.                                                        *)
Fetch == [kind: {"none", "session", "focus", "retry", "page", "logout", "revoke"},
          at: {"none", "sent", "refreshing", "resent", "done", "403"} \cup Areas,
          active: BOOLEAN, old: BOOLEAN, valid: BOOLEAN]
NoFetch == [kind |-> "none", at |-> "none", active |-> FALSE, old |-> FALSE, valid |-> FALSE]
(* token: what the Backend will find the refresh token to be, the last of  *)
(* the last session, one rotated before, or one of no session; old: sent   *)
(* before the last sign-in.                                                *)
Refresh == [at: {"none", "sent", "rotated", "refused"}, token: {"last", "used", "none"}, old: BOOLEAN]
NoRefresh == [at |-> "none", token |-> "none", old |-> FALSE]

(* The Backend, the browser and the layout keep their types.               *)
ShellTypeOK ==
  /\ websession \in WebSession /\ cookies \in Cookies /\ shell \in Shell
  /\ fetches \in [Fetches -> Fetch] /\ refreshRequest \in Refresh

ShellInit ==
  /\ websession = NoSession
  /\ cookies = NoCookies
  /\ shell = [route |-> "signin", state |-> "loading", navigation |-> {}, byUser |-> TRUE, overtaken |-> FALSE]
  /\ fetches = [c \in Fetches |-> NoFetch] /\ refreshRequest = NoRefresh

navigationOf(home) == IF home = Dashboard THEN Areas ELSE {Managed}
homePath(s) == IF s.dashboard THEN Dashboard ELSE Managed
canAccessPath(p) == p \in shell.navigation
idle(c) == fetches[c].at = "none"
fetch(kind, held) ==
  [kind |-> kind, at |-> "sent", active |-> kind \in {"session", "focus", "retry"}, old |-> FALSE,
   valid |-> held.own /\ held.fresh]

------------------------------------------------------------------------------
(* What goes on outside the tab *)

(* A revoked or replaced session, or one that timed out.                   *)
sessionEnds == websession.live /\ websession' = NoSession
(* Roles and grants change; lost access is given back with the next        *)
(* sign-in only.                                                           *)
accessChanges ==
  /\ websession.live
  /\ \/ websession.web /\ websession' = [websession EXCEPT !.web = FALSE]
     \/ websession' = [websession EXCEPT !.dashboard = ~@]

tokenExpires ==
  /\ cookies.fresh /\ cookies' = [cookies EXCEPT !.fresh = FALSE]
  /\ fetches' = [c \in Fetches |-> [fetches[c] EXCEPT !.valid = FALSE]]
  /\ shell' = [shell EXCEPT !.overtaken = @ \/ \E c \in Fetches : fetches[c].at = "resent" /\ fetches[c].valid]

outside ==
  \/ (sessionEnds \/ accessChanges) /\ UNCHANGED <<cookies, shell, fetches, refreshRequest>>
  \/ tokenExpires /\ UNCHANGED <<websession, refreshRequest>>

------------------------------------------------------------------------------
(* The layout *)

(* The effect of the session runs anew on every path; the answer to the    *)
(* call it made for the last one is then ignored.                          *)
effectOn(c) ==
  [d \in Fetches |-> IF d = c THEN fetch("session", cookies)
                     ELSE IF fetches[d].kind = "session" THEN [fetches[d] EXCEPT !.active = FALSE]
                     ELSE fetches[d]]

(* A new session replaces the last; calls and a refresh that are under way *)
(* go on, with the tokens they were sent with.                             *)
ofEarlierSession(d) == IF idle(d) THEN NoFetch ELSE [fetches[d] EXCEPT !.old = TRUE, !.valid = FALSE]

signIn(c) ==
  /\ shell.route = "signin" /\ idle(c)
  /\ \E dashboard \in BOOLEAN :
       websession' = [live |-> TRUE, web |-> TRUE, dashboard |-> dashboard]
  /\ cookies' = NewCookies
  /\ shell' = [route |-> homePath(websession'), state |-> "loading", navigation |-> {},
               byUser |-> FALSE, overtaken |-> FALSE]
  /\ fetches' = [d \in Fetches |-> IF d = c THEN fetch("session", NewCookies) ELSE ofEarlierSession(d)]
  /\ refreshRequest' = IF refreshRequest.at = "none" THEN NoRefresh
                       ELSE [refreshRequest EXCEPT !.token = "none", !.old = TRUE]

navigate(c, p) ==
  /\ shell.route # "signin" /\ shell.state = "ready" /\ canAccessPath(p) /\ p # shell.route
  /\ idle(c) /\ fetches' = effectOn(c)
  /\ shell' = [shell EXCEPT !.route = p]
  /\ UNCHANGED <<websession, cookies, refreshRequest>>

start(c, kind) ==
  /\ shell.route # "signin" /\ idle(c)
  /\ fetches' = [fetches EXCEPT ![c] = fetch(kind, cookies)]
  /\ UNCHANGED <<websession, cookies, refreshRequest>>

refreshAccess(c) == start(c, "focus") /\ UNCHANGED shell
loadSession(c) ==
  /\ shell.state = "error" /\ start(c, "retry")
  /\ shell' = [shell EXCEPT !.state = "loading"]
fromPage(c) == shell.state = "ready" /\ canAccessPath(shell.route) /\ start(c, "page") /\ UNCHANGED shell
handleLogout(c) == shell.state = "ready" /\ start(c, "logout") /\ UNCHANGED shell
(* An Admin ends this very session from the page of accounts.              *)
revokeCurrent(c) ==
  shell.state = "ready" /\ Dashboard \in shell.navigation /\ start(c, "revoke") /\ UNCHANGED shell

aboutSession(d) == fetches[d].kind \in {"session", "focus", "retry"}
listens(d) == aboutSession(d) /\ fetches[d].active
(* The retry does not look whether its layout is still there.              *)
redirects(d) == listens(d) \/ fetches[d].kind = "retry"

(* The calls D end with one status.  401 raises the event of the expired   *)
(* session wherever it comes from, and the layout that is there now leaves *)
(* for the sign-in page; a sign-out ends there however it is answered, a   *)
(* revocation if it is done; an outage shows the screen that offers a      *)
(* retry.  late: what it comes of was asked in an earlier session.         *)
endWith(D, status, late) ==
  LET quits == \E d \in D : fetches[d].kind = "logout" \/ (fetches[d].kind = "revoke" /\ status = "done")
      leaves == quits \/ status = "401" \/ (status = "403" /\ \E d \in D : redirects(d))
  IN /\ shell' = IF leaves
                   THEN [route |-> "signin", state |-> "loading", navigation |-> {},
                         byUser |-> shell.byUser \/ quits, overtaken |-> shell.overtaken \/ late]
                   ELSE IF status = "error" /\ \E d \in D : listens(d)
                          THEN [shell EXCEPT !.state = "error"] ELSE shell
     /\ fetches' = [d \in Fetches |->
          IF d \in D THEN NoFetch
          ELSE IF leaves THEN [fetches[d] EXCEPT !.active = FALSE] ELSE fetches[d]]

(* The layout hears whose session it is, with his home.                    *)
learn(c, home) ==
  LET kind == fetches[c].kind
      known == [shell EXCEPT !.navigation = navigationOf(home),
                             !.state = IF kind = "focus" THEN @ ELSE "ready"]
  IN IF ~listens(c) THEN fetches' = [fetches EXCEPT ![c] = NoFetch] /\ UNCHANGED shell
     ELSE IF kind = "session" /\ shell.route = Dashboard /\ home # Dashboard
       THEN fetches' = effectOn(c) /\ shell' = [known EXCEPT !.route = home]
       ELSE fetches' = [fetches EXCEPT ![c] = NoFetch] /\ shell' = known

------------------------------------------------------------------------------
(* Calls *)

authorized(c) == websession.live /\ fetches[c].valid
answerWith(c, answer) == fetches' = [fetches EXCEPT ![c].at = answer, ![c].valid = FALSE]

(* The Backend lets the call pass and answers.  A sign-out ends the        *)
(* session of the token, a revocation the session that was listed; what a  *)
(* page asks for itself changes nothing here when it arrives.              *)
served(c) ==
  /\ fetches[c].at \in {"sent", "resent"} /\ authorized(c)
  /\ \/ /\ fetches[c].kind = "logout" \/ (fetches[c].kind = "revoke" /\ websession.dashboard)
        /\ websession' = IF fetches[c].kind = "revoke" /\ fetches[c].old THEN websession ELSE NoSession
        /\ answerWith(c, "done")
     \/ /\ UNCHANGED websession
        /\ \/ fetches[c].kind = "page" /\ fetches' = [fetches EXCEPT ![c] = NoFetch]
           \/ aboutSession(c) /\ websession.web /\ answerWith(c, homePath(websession))
           \/ /\ \/ aboutSession(c) /\ ~websession.web
                 \/ fetches[c].kind = "revoke" /\ ~websession.dashboard
              /\ answerWith(c, "403")
  /\ UNCHANGED <<cookies, shell, refreshRequest>>

(* An answer arrives; the one to a sign-out clears the cookies.            *)
answered(c) ==
  /\ \/ fetches[c].at \in {"done", "403"} /\ endWith({c}, fetches[c].at, fetches[c].old)
     \/ fetches[c].at \in Areas /\ learn(c, fetches[c].at)
  /\ cookies' = IF fetches[c].kind = "logout" /\ fetches[c].at = "done" THEN NoCookies ELSE cookies
  /\ UNCHANGED <<websession, refreshRequest>>

(* A 5xx, or no answer, whether or not the Backend has acted.              *)
outage(c) ==
  /\ fetches[c].at \notin {"none", "refreshing"} /\ endWith({c}, "error", fetches[c].old)
  /\ UNCHANGED <<websession, cookies, refreshRequest>>

(* A first 401 arrives (a token that is refused once is always): a refresh *)
(* is sent with the token the browser holds, or the one under way is       *)
(* awaited, whoever asked for it.                                          *)
heldToken == IF ~cookies.own THEN "none" ELSE IF cookies.last THEN "last" ELSE "used"

awaitRefresh(c) ==
  /\ fetches[c].at = "sent" /\ ~authorized(c) /\ answerWith(c, "refreshing")
  /\ refreshRequest' = IF refreshRequest.at # "none" THEN refreshRequest
                       ELSE [at |-> "sent", token |-> heldToken, old |-> FALSE]
  /\ UNCHANGED <<websession, cookies, shell>>

(* The second 401 is final.                                                *)
unauthorizedAgain(c) ==
  /\ fetches[c].at = "resent" /\ ~authorized(c) /\ endWith({c}, "401", fetches[c].old)
  /\ UNCHANGED <<websession, cookies, refreshRequest>>

(* The Backend rotates the refresh token; a token rotated before ends the  *)
(* session, one of an ended session is refused (AuthService.refresh).      *)
rotateSession ==
  /\ refreshRequest.at = "sent"
  /\ \/ /\ websession.live /\ refreshRequest.token = "last"
        /\ refreshRequest' = [refreshRequest EXCEPT !.at = "rotated", !.token = "none"]
        /\ cookies' = [cookies EXCEPT !.last = FALSE] /\ UNCHANGED websession
     \/ /\ ~websession.live \/ refreshRequest.token # "last"
        /\ refreshRequest' = [refreshRequest EXCEPT !.at = "refused", !.token = "none"]
        /\ websession' = IF refreshRequest.token = "used" THEN NoSession ELSE websession
        /\ UNCHANGED cookies
  /\ UNCHANGED <<shell, fetches>>

(* Mutant: whatever goes wrong with a refresh ends the session. *)
failedAsRefused(answer) == IF answer = "rotated" THEN "again" ELSE "401"

(* What the calls that wait for the refresh make of it. *)
refreshWebSession(answer) ==
  CASE answer = "rotated" -> "again" [] answer = "refused" -> "401" [] answer = "lost" -> "error"

refreshing == {c \in Fetches : fetches[c].at = "refreshing"}

(* The cookies of a late answer overwrite those of a sign-in since.        *)
refreshAnswered(answer) ==
  /\ refreshRequest.at # "none" /\ answer \in {refreshRequest.at, "lost"} \ {"sent"}
  /\ refreshRequest' = NoRefresh
  /\ IF refreshWebSession(answer) = "again"
       THEN /\ cookies' = IF refreshRequest.old THEN NoCookies ELSE NewCookies
            /\ fetches' = [c \in Fetches |-> IF c \in refreshing
                           THEN [fetches[c] EXCEPT !.at = "resent", !.valid = ~refreshRequest.old]
                           ELSE fetches[c]]
            /\ shell' = [shell EXCEPT !.overtaken = @ \/ refreshRequest.old]
       ELSE endWith(refreshing, refreshWebSession(answer), refreshRequest.old) /\ UNCHANGED cookies
  /\ UNCHANGED websession

ShellNext ==
  \/ outside \/ rotateSession
  \/ \E answer \in {"rotated", "refused", "lost"} : refreshAnswered(answer)
  \/ \E c \in Fetches :
       \/ signIn(c) \/ refreshAccess(c) \/ loadSession(c) \/ fromPage(c) \/ handleLogout(c) \/ revokeCurrent(c)
       \/ served(c) \/ answered(c) \/ outage(c) \/ awaitRefresh(c) \/ unauthorizedAgain(c)
       \/ \E p \in Areas : navigate(c, p)

ShellSpec == ShellInit /\ [][ShellNext]_shellVars

------------------------------------------------------------------------------
(* No outage, slow answer or refresh that other calls share sends a user   *)
(* to the sign-in page whose session goes on (auth-api.ts, layout.tsx,     *)
(* FLOWS.md:36): he asked to leave, or the session has ended, which the    *)
(* next refresh after an answer lost behind a rotation does too, or he no  *)
(* longer has the web.  The code makes two exceptions, and overtaken says  *)
(* they happened since he signed in: a call or a refresh of an earlier     *)
(* session was answered after that, since nothing ties an answer to the    *)
(* session it is about; or his token expired under a re-sent call, since a *)
(* second 401 is final whatever its cause.                                 *)
SignInPageMeansRefused ==
  shell.route = "signin" => shell.byUser \/ ~websession.live \/ ~websession.web \/ shell.overtaken

=============================================================================
