-------------------------- MODULE MCRequestsWorkspace --------------------------
(* One employee and one request: the workspace of requests on its own.     *)
EXTENDS RequestsWorkspace

CONSTANT ann

MCFiledBy == [i \in Filed |-> ann]
=============================================================================
