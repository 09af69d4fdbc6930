------------------------ MODULE MCExecutionAdmission ------------------------
(* Constants of the runs of ExecutionAdmission. *)
EXTENDS ExecutionAdmission, TLC

CONSTANTS a1, a2, p1, p2, w1, w2

MCPrincipalOf == (a1 :> p1) @@ (a2 :> p2)
MCOnePrincipalOf == [a \in Authority |-> p1]
MCAuthorityUntil == (a1 :> 3) @@ (a2 :> 1)
MCOneAuthorityUntil == [a \in Authority |-> 2]

Symmetric == Permutations({w1, w2})
=============================================================================
