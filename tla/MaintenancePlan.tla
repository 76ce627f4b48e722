--------------------------- MODULE MaintenancePlan ---------------------------
(***************************************************************************)
(* What a maintenance schedule promises of its occurrences, whatever loops *)
(* claim, lose and take over underneath: the steps of an occurrence are    *)
(* handed over one after the other, each at most once and only upon the    *)
(* success of the ones before it; one step is in flight at a time, of all  *)
(* occurrences together; an occurrence is decided once, and as succeeded   *)
(* only when every step of it succeeded. A step may still be handed over   *)
(* or end after its occurrence was given up.  (docs/plataforma,            *)
(* PHASE_10_TELEMETRY_SCHEDULES.md.)                                       *)
(***************************************************************************)
EXTENDS Naturals

CONSTANTS Occasions, Length

VARIABLES
    step,      \* per occasion and position: "waiting", "inFlight" or its end
    decision   \* per occasion: "open", "succeeded", "failed" or "skipped"

planVars == <<step, decision>>

Ends == {"succeeded", "failed"}

PlanInit ==
    /\ step = [o \in Occasions |-> [i \in 1 .. Length |-> "waiting"]]
    /\ decision = [o \in Occasions |-> "open"]

HandOver(o, i) ==
    /\ step[o][i] = "waiting"
    /\ \A j \in 1 .. i - 1 : step[o][j] = "succeeded"
    /\ \A q \in Occasions, j \in 1 .. Length : step[q][j] # "inFlight"
    /\ step' = [step EXCEPT ![o][i] = "inFlight"]
    /\ UNCHANGED decision

Finish(o, i) ==
    /\ step[o][i] = "inFlight"
    /\ \E end \in Ends : step' = [step EXCEPT ![o][i] = end]
    /\ UNCHANGED decision

Decide(o, verdict) ==
    /\ decision[o] = "open"
    /\ verdict = "succeeded" => \A i \in 1 .. Length : step[o][i] = "succeeded"
    /\ decision' = [decision EXCEPT ![o] = verdict]
    /\ UNCHANGED step

PlanNext ==
    \E o \in Occasions :
        \/ \E i \in 1 .. Length : HandOver(o, i) \/ Finish(o, i)
        \/ \E verdict \in Ends \cup {"skipped"} : Decide(o, verdict)

PlanSpec == PlanInit /\ [][PlanNext]_planVars

=============================================================================
