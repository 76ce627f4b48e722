------------------------- MODULE MCAgentSupervisor -------------------------
(* A small instance of AgentSupervisor: two agents and a build worker that    *)
(* may all take one job, and a job with a deadline and one attempt only.      *)
EXTENDS AgentSupervisor, TLC

CONSTANTS a1, a2, w1, j1, j2

MCServes == {<<a1, j1>>, <<a2, j1>>, <<w1, j1>>, <<a1, j2>>, <<a2, j2>>}
MCMaxAttempts == (j1 :> 2) @@ (j2 :> 1)
MCDeadline == (j1 :> 0) @@ (j2 :> 1)

=============================================================================
