----------------------------- MODULE MCAuthSessions -----------------------------
(* Small instances of AuthSessions. *)
EXTENDS AuthSessions, TLC

(* Row ids and calls are interchangeable. *)
AnyOrder == Permutations(Sessions) \cup Permutations(Calls)

(* Sessions and rights of two accounts never meet: the states where one of *)
(* them is left alone cover what either of them can do.                    *)
OneAccountAtWork ==
  \E a \in Accounts : \A b \in Accounts \ {a} :
    /\ b \in active \ scoped
    /\ \A s \in Sessions : sess[s].user # b
    /\ \A c \in Calls : call[c].account # b
=============================================================================
