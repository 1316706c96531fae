------------------------------ MODULE AccessGrants ------------------------------
(***************************************************************************)
(* The rows behind ManagementAccess (OrganizationAccessService): grants of *)
(* management over a department or a team for a window of time, and teams. *)
(* createGrant is cut between the locks it takes, with what it checks      *)
(* under them, and its commit; the others are one step.  Time is a bounded *)
(* clock; names, reasons and the audit log are left out.                   *)
(***************************************************************************)
EXTENDS Integers, FiniteSets

CONSTANTS
  Managers,        \* employees with an account
  Squads,          \* ids of teams, created or not
  Divisions,       \* departments
  divisionOf,      \* of each team
  GrantRows,       \* ids: how many grants are created is bounded
  Requests,        \* calls of createGrant under way at once (a bound)
  LastInstant,
  NoGrant

ASSUME AccessAssumption ==
  /\ divisionOf \in [Squads -> Divisions] /\ Squads \cap Divisions = {}
  /\ LastInstant \in Nat /\ NoGrant \notin GrantRows

VARIABLES
  instant,         \* the clock
  grantRow,        \* organization_management_grants
  squad,           \* organization_teams: "NONE", "ACTIVE" or "STOPPED"
  manages,         \* employees whose profile and account are active
  request          \* what each createGrant under way is about to insert

accessVars == <<instant, grantRow, squad, manages, request>>

Instants == 0..LastInstant
Forever == LastInstant + 1             \* a window without an end
Scopes == Squads \cup Divisions        \* and so the role, Leader or Head
GrantRow == [user: Managers, scope: Scopes, from: Instants, until: 1..Forever, revoked: BOOLEAN]

(* The clock, the rows and the requests under way keep their types.        *)
AccessTypeOK ==
  /\ instant \in Instants
  /\ grantRow \in [GrantRows -> GrantRow \cup {NoGrant}]
  /\ squad \in [Squads -> {"NONE", "ACTIVE", "STOPPED"}]
  /\ manages \subseteq Managers
  /\ request \in [Requests -> GrantRow \cup {NoGrant}]

AccessInit ==
  /\ instant = 0
  /\ grantRow = [g \in GrantRows |-> NoGrant]
  /\ squad = [s \in Squads |-> "NONE"]
  /\ manages = Managers
  /\ request = [r \in Requests |-> NoGrant]

given == {g \in GrantRows : grantRow[g] # NoGrant}
requested == {request[r] : r \in Requests} \ {NoGrant}

(* What a grant is worth at an instant; only ACTIVE ones count anywhere.   *)
grantEligible(g) == g.user \in manages /\ (g.scope \in Squads => squad[g.scope] = "ACTIVE")
grantStatus(g, now) ==
  CASE g.revoked -> "REVOKED"
    [] ~g.revoked /\ now >= g.until -> "EXPIRED"
    [] ~g.revoked /\ now < g.until /\ ~grantEligible(g) -> "INACTIVE"
    [] OTHER -> IF now < g.from THEN "SCHEDULED" ELSE "ACTIVE"

validGrantWindow(from, until) == from < until
windowsOverlap(g, h) == g.from < h.until /\ h.from < g.until
overlaps(g) ==
  {h \in given : /\ grantRow[h].user = g.user /\ grantRow[h].scope = g.scope
                 /\ ~grantRow[h].revoked /\ windowsOverlap(grantRow[h], g)}

(* Mutant: the row of the account is read without FOR UPDATE *)
accountNeverLocked(user) == TRUE

accountUnlocked(user) == \A g \in requested : g.user # user
squadUnlocked(s) == \A g \in requested : g.scope # s

lockToGrant(r, g) ==
  /\ request[r] = NoGrant
  /\ validGrantWindow(g.from, g.until)
  /\ g.user \in manages /\ accountUnlocked(g.user)
  /\ g.scope \in Squads => squadUnlocked(g.scope) /\ squad[g.scope] = "ACTIVE"
  /\ overlaps(g) = {}
  /\ request' = [request EXCEPT ![r] = g]
  /\ UNCHANGED <<instant, grantRow, squad, manages>>

createGrant(r, id) ==
  /\ request[r] # NoGrant /\ grantRow[id] = NoGrant
  /\ grantRow' = [grantRow EXCEPT ![id] = request[r]]
  /\ request' = [request EXCEPT ![r] = NoGrant]
  /\ UNCHANGED <<instant, squad, manages>>

rollBackGrant(r) ==
  /\ request[r] # NoGrant
  /\ request' = [request EXCEPT ![r] = NoGrant]
  /\ UNCHANGED <<instant, grantRow, squad, manages>>

revokeGrant(id) ==
  /\ grantRow[id] # NoGrant /\ ~grantRow[id].revoked
  /\ grantRow' = [grantRow EXCEPT ![id].revoked = TRUE]
  /\ UNCHANGED <<instant, squad, manages, request>>

createTeam(s) ==
  /\ squad[s] = "NONE"
  /\ squad' = [squad EXCEPT ![s] = "ACTIVE"]
  /\ UNCHANGED <<instant, grantRow, manages, request>>

stopTeam(s, status) ==
  /\ squad[s] # "NONE" /\ squadUnlocked(s)
  /\ squad' = [squad EXCEPT ![s] = status]
  /\ UNCHANGED <<instant, grantRow, manages, request>>

(* The status of an employee; it writes the row of the account too.        *)
changeManager(user) ==
  /\ accountUnlocked(user)
  /\ manages' = IF user \in manages THEN manages \ {user} ELSE manages \cup {user}
  /\ UNCHANGED <<instant, grantRow, squad, request>>

Elapse ==
  /\ instant' = instant + 1 /\ instant' \in Instants
  /\ UNCHANGED <<grantRow, squad, manages, request>>

AccessNext ==
  \/ \E r \in Requests, g \in [user: Managers, scope: Scopes, from: Instants, until: 1..Forever, revoked: {FALSE}] :
       lockToGrant(r, g)
  \/ \E r \in Requests : rollBackGrant(r) \/ \E id \in GrantRows : createGrant(r, id)
  \/ \E id \in GrantRows : revokeGrant(id)
  \/ \E s \in Squads : createTeam(s) \/ \E status \in {"ACTIVE", "STOPPED"} : stopTeam(s, status)
  \/ \E user \in Managers : changeManager(user)
  \/ Elapse

AccessSpec == AccessInit /\ [][AccessNext]_accessVars

------------------------------------------------------------------------------
(* One account never has two grants of one role and scope in force, now or *)
(* at any later instant, although two Admins create them at the same time, *)
(* teams stop and come back, and rows are revoked (createGrant).           *)
NoOverlappingGrants ==
  \A g, h \in given :
    /\ g # h /\ grantRow[g].user = grantRow[h].user /\ grantRow[g].scope = grantRow[h].scope
    /\ ~grantRow[g].revoked /\ ~grantRow[h].revoked
    => \A t \in instant..LastInstant : ~({grantStatus(grantRow[g], t), grantStatus(grantRow[h], t)} \subseteq {"ACTIVE"})

=============================================================================
