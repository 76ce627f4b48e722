------------------------- MODULE MCOperationDispatch -------------------------
(* Small instances of OperationDispatch: two operations compete for the       *)
(* server of a1; a2 polls, which reclaims the leases of both, and may take a  *)
(* job that carries no operation and may be tried again.                      *)
EXTENDS OperationDispatch

CONSTANTS a1, a2, o1, o2, p1

MCServes == {<<a1, o1>>, <<a1, o2>>, <<a2, p1>>} \cap (Agents \X Jobs)
MCMaxAttempts == [j \in Jobs |-> IF j \in Operations THEN 1 ELSE AttemptLimit]
MCDeadline == [j \in Jobs |-> IF j = o2 THEN 1 ELSE 0]
MCServerOf == [o \in Operations |-> a1]

=============================================================================
