---------------------------- MODULE ManagementAccess ----------------------------
(***************************************************************************)
(* The organisation data every two-step approval reads afresh: management  *)
(* grants, team activity, team memberships and account activity            *)
(* (modules/organization-access and modules/employees of the backend).     *)
(*                                                                         *)
(* A workflow only asks whether a grant is ACTIVE now, so a grant is here  *)
(* in force or not: a scheduled grant whose window begins and a new grant  *)
(* both come into force, a revoked grant and one whose window ends both    *)
(* lapse.  Employees are identified with their accounts.                   *)
(***************************************************************************)

EXTENDS Integers, FiniteSets

CONSTANTS
  Users,          \* accounts
  Employees,      \* the accounts with an employee profile
  Admins,         \* the accounts with role ADMIN
  Teams,
  Departments,
  DepartmentOf,   \* the department of each team
  Grants,         \* the scoped grants an Admin may give
  Memberships,    \* the <<employee, team>> pairs an Admin may create
  NoUser,         \* the null user id
  NoTeam,         \* the null team id
  MaxLapsed       \* bound: how many of these facts are out of force at once

ASSUME OrgAssumption ==
  /\ Employees \subseteq Users
  /\ Admins \subseteq Users
  /\ DepartmentOf \in [Teams -> Departments]
  /\ Grants \subseteq
       [user: Employees, role: {"TEAM_LEADER"}, scope: Teams]
         \cup [user: Employees, role: {"DEPARTMENT_HEAD"}, scope: Departments]
  /\ Memberships \subseteq Employees \X Teams
  /\ NoUser \notin Users
  /\ NoTeam \notin Teams
  /\ MaxLapsed \in Nat

VARIABLES
  granted,      \* grants in their window and not revoked
  activeTeams,
  activeUsers,
  members       \* team memberships that have not ended

org == <<granted, activeTeams, activeUsers, members>>

OrgTypeOK ==
  /\ granted \subseteq Grants
  /\ activeTeams \subseteq Teams
  /\ activeUsers \subseteq Users
  /\ members \subseteq Memberships

OrgInit ==
  /\ granted = Grants
  /\ activeTeams = Teams
  /\ activeUsers = Users
  /\ members = Memberships

------------------------------------------------------------------------------
(* What a grant is worth now *)

eligible(g) ==
  /\ g.user \in activeUsers
  /\ g.role = "TEAM_LEADER" => g.scope \in activeTeams

grantActive(g) == g \in granted /\ eligible(g)

hasWorkflowGrant(user, role, team) ==
  /\ team \in activeTeams
  /\ \E g \in granted :
       /\ grantActive(g)
       /\ g.user = user
       /\ g.role = role
       /\ g.scope = IF role = "DEPARTMENT_HEAD" THEN DepartmentOf[team] ELSE team

eligibleMember(employee, team) ==
  /\ <<employee, team>> \in members
  /\ team \in activeTeams
  /\ employee \in activeUsers

------------------------------------------------------------------------------
(* What Admins and the clock do to it *)

GrantTakesEffect(g) ==
  /\ g \notin granted
  /\ granted' = granted \cup {g}
  /\ UNCHANGED <<activeTeams, activeUsers, members>>

GrantLapses(g) ==
  /\ g \in granted
  /\ granted' = granted \ {g}
  /\ UNCHANGED <<activeTeams, activeUsers, members>>

updateTeam(team) ==
  /\ activeTeams' = IF team \in activeTeams THEN activeTeams \ {team}
                                            ELSE activeTeams \cup {team}
  /\ UNCHANGED <<granted, activeUsers, members>>

addMember(m) ==
  /\ m \notin members
  /\ m[2] \in activeTeams
  /\ m[1] \in activeUsers
  /\ members' = members \cup {m}
  /\ UNCHANGED <<granted, activeTeams, activeUsers>>

endMembership(m) ==
  /\ m \in members
  /\ members' = members \ {m}
  /\ UNCHANGED <<granted, activeTeams, activeUsers>>

changeStatus(user) ==
  /\ user \in Employees
  /\ activeUsers' = IF user \in activeUsers THEN activeUsers \ {user}
                                            ELSE activeUsers \cup {user}
  /\ UNCHANGED <<granted, activeTeams, members>>

lapsed == Cardinality(Grants \ granted) + Cardinality(Teams \ activeTeams)
            + Cardinality(Users \ activeUsers) + Cardinality(Memberships \ members)

OrgNext ==
  /\ \/ \E g \in Grants : GrantTakesEffect(g) \/ GrantLapses(g)
     \/ \E team \in Teams : updateTeam(team)
     \/ \E m \in Memberships : addMember(m) \/ endMembership(m)
     \/ \E user \in Employees : changeStatus(user)
  /\ lapsed' <= MaxLapsed

=============================================================================
