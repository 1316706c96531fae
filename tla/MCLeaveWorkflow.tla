----------------------------- MODULE MCLeaveWorkflow -----------------------------
(* A small organisation for LeaveWorkflow: one department with two teams.  *)
(* "adm" is an Admin who leads a team and may head the department, "emp"   *)
(* an employee who may head it too, so that every rule on who may not act  *)
(* has someone to stop.                                                    *)
EXTENDS LeaveWorkflow

CONSTANTS emp, lead, head, adm, t1, t2, d1, r1

MCUsers == {emp, lead, head, adm}
MCDepartmentOf == [t \in {t1, t2} |-> d1]
MCOwnerOf == [r \in {r1} |-> emp]

leaderOf(user, team) == [user |-> user, role |-> "TEAM_LEADER", scope |-> team]
headOf(user, dept) == [user |-> user, role |-> "DEPARTMENT_HEAD", scope |-> dept]

MCGrants == {leaderOf(lead, t1), leaderOf(adm, t2),
             headOf(head, d1), headOf(adm, d1), headOf(emp, d1)}
MCMemberships == {<<emp, t1>>, <<emp, t2>>}
=============================================================================
