------------------------------ MODULE JvmFence ------------------------------
(***************************************************************************)
(* What the durable ownership fence promises about the Minecraft processes *)
(* of one server instance (migration 0025 and                              *)
(* process-ownership-repositories.ts): a generation is minted once and     *)
(* holds the fence alone, it launches at most one JVM and only while it    *)
(* holds the fence, and the fence is never vacated while that JVM runs.    *)
(***************************************************************************)
CONSTANTS Generations, NoGeneration

VARIABLES
    holder,     \* the generation that holds the fence, or NoGeneration
    running,    \* generations whose JVM is running
    spent       \* generations that have launched their JVM

fenceVars == <<holder, running, spent>>

FenceInit ==
    /\ holder = NoGeneration
    /\ running = {}
    /\ spent = {}

Reserve(g) ==
    /\ holder = NoGeneration
    /\ g \notin spent
    /\ holder' = g
    /\ UNCHANGED <<running, spent>>

Launch(g) ==
    /\ holder = g
    /\ g \notin spent
    /\ running' = running \cup {g}
    /\ spent' = spent \cup {g}
    /\ UNCHANGED holder

Exit(g) ==
    /\ g \in running
    /\ running' = running \ {g}
    /\ UNCHANGED <<holder, spent>>

Vacate ==
    /\ holder \notin running
    /\ holder' = NoGeneration
    /\ UNCHANGED <<running, spent>>

FenceNext ==
    \/ Vacate
    \/ \E g \in Generations : Reserve(g) \/ Launch(g) \/ Exit(g)

FenceSpec == FenceInit /\ [][FenceNext]_fenceVars
=============================================================================
