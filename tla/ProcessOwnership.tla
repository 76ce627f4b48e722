-------------------------- MODULE ProcessOwnership --------------------------
(***************************************************************************)
(* One server instance, its Minecraft processes, and the agents that start *)
(* and stop them: ManagedMinecraftProcessAdapter (minecraft-process,       *)
(* adapter.ts), the coordinator of its durable ownership                   *)
(* (server-agent, process-ownership.ts), the ownership row                 *)
(* (database, process-ownership-repositories.ts) and the agent runtime's   *)
(* reconciliation and heartbeat (server-agent, runtime.ts).                *)
(*                                                                         *)
(* A boot is one run of the agent program. Its memory dies with it; the    *)
(* ownership row, the published snapshot and the JVM do not. Two boots may *)
(* overlap. Inside a boot two asynchronous functions interleave at their   *)
(* awaits: the exclusive effect in progress (start or stop) and the watch  *)
(* (startup, then the periodic timer). One action is the database or       *)
(* process call a fiber awaits together with the code that runs when it    *)
(* answers; the JavaScript between two awaits is not interrupted.          *)
(*                                                                         *)
(* A generation is the random ownershipId of a reservation; it also stands *)
(* for the JVM spawned under it and for that JVM's pid.                    *)
(***************************************************************************)
EXTENDS Naturals

CONSTANTS
    Boots,            \* runs of the agent program
    NoBoot,           \* the boot of no row
    MaxGenerations,   \* bound: reservations made in a behaviour
    Requests,         \* effects the agents are asked for
    Overlap,          \* whether two boots may be up at once
    MayCrash,         \* boots that may die without warning
    Faults,           \* whether a database call or a pipe may fail
    PidReuse,         \* whether a dead JVM's pid may answer the probe
    Attempts          \* times the ownership loop reads the row: 3

ASSUME OwnershipAssumption ==
    /\ NoBoot \notin Boots
    /\ MaxGenerations \in Nat
    /\ MayCrash \subseteq Boots
    /\ Requests \subseteq {"start", "stop"}
    /\ Overlap \in BOOLEAN
    /\ Faults \in BOOLEAN
    /\ PidReuse \in BOOLEAN
    /\ Attempts \in Nat \ {0}

Generations == 1..MaxGenerations
NoGeneration == 0
Owners == Generations \cup {NoGeneration}

States == {"unknown", "offline", "starting", "online", "stopping", "error"}
Fibers == {"effect", "watch"}

Statuses == {"none", "reserved", "running", "orphaned"}
Row == [gen : Owners, boot : Boots \cup {NoBoot}, pid : Owners,
        status : Statuses]
NoRow == [gen |-> NoGeneration, boot |-> NoBoot, pid |-> NoGeneration,
          status |-> "none"]

Adapter == [state : States, handle : Owners, lease : Owners,
            launching : BOOLEAN, pidPublished : BOOLEAN]
FreshAdapter == [state |-> "offline", handle |-> NoGeneration,
                 lease |-> NoGeneration, launching |-> FALSE,
                 pidPublished |-> FALSE]

Observation == [state : States, pid : Owners]
Unobserved == [state |-> "unknown", pid |-> NoGeneration]

(* Where a fiber stands: the call it awaits, or the code it is about to    *)
(* resume. gen is the generation its local variables hold, saw the status  *)
(* of the ownership row it read, seen the observation it is about to       *)
(* store, tries the attempts its loop has used up.                         *)
Fiber == [at : {"idle", "inspected", "failed", "release", "letgo", "find",
                "probe", "clear", "orphan", "settled", "thrown", "reserve",
                "spawn", "attach", "abandon", "asking", "waiting",
                "parting", "publish", "age"},
          doing : {"start", "stop", "watch"},
          gen : Owners, saw : Statuses, seen : Observation,
          tries : 0..Attempts - 1]
Resting == [at |-> "idle", doing |-> "watch", gen |-> NoGeneration,
            saw |-> "none", seen |-> Unobserved, tries |-> 0]

VARIABLES
    row,          \* minecraft_process_ownership of the server instance
    published,    \* server_process_states: lifecycle and observed pid
    minted,       \* ownership ids minted so far
    jvm,          \* none, alive, gone, or closed (its exit was delivered)
    booted,       \* JVMs whose output holds the boot-completed line
    boot,         \* unborn, starting, ready or dead
    adapter,      \* the private state of each boot's process adapter
    fiber         \* what each boot's asynchronous functions are doing

agentVars == <<boot, adapter, fiber>>
jvmVars == <<jvm, booted>>
vars == <<row, published, minted, jvm, booted, boot, adapter, fiber>>

OwnershipTypeOK ==
    /\ row \in Row
    /\ published \in Observation
    /\ minted \in 0..MaxGenerations
    /\ jvm \in [Generations -> {"none", "alive", "gone", "closed"}]
    /\ booted \subseteq Generations
    /\ boot \in [Boots -> {"unborn", "starting", "ready", "dead"}]
    /\ adapter \in [Boots -> Adapter]
    /\ fiber \in [Boots -> [Fibers -> Fiber]]

OwnershipInit ==
    /\ row = NoRow
    /\ published = Unobserved
    /\ minted = 0
    /\ jvm = [g \in Generations |-> "none"]
    /\ booted = {}
    /\ boot = [b \in Boots |-> "unborn"]
    /\ adapter = [b \in Boots |-> FreshAdapter]
    /\ fiber = [b \in Boots |-> [f \in Fibers |-> Resting]]

-----------------------------------------------------------------------------
(* The transition table; "invalid" stands for the error it throws. Nothing *)
(* in the code asks for observation-reset.                                 *)
Invalid == "invalid"

After(state, event) ==
    CASE state = "unknown"  /\ event = "process-exited"   -> "offline"
      [] state = "unknown"  /\ event = "fault-detected"   -> "error"
      [] state = "offline"  /\ event = "launch-requested" -> "starting"
      [] state = "offline"  /\ event = "fault-detected"   -> "error"
      [] state = "starting" /\ event = "process-spawned"  -> "starting"
      [] state = "starting" /\ event = "boot-confirmed"   -> "online"
      [] state = "starting" /\ event = "process-exited"   -> "error"
      [] state = "starting" /\ event = "fault-detected"   -> "error"
      [] state = "online"   /\ event = "stop-requested"   -> "stopping"
      [] state = "online"   /\ event = "process-exited"   -> "error"
      [] state = "online"   /\ event = "fault-detected"   -> "error"
      [] state = "stopping" /\ event = "process-exited"   -> "offline"
      [] state = "stopping" /\ event = "fault-detected"   -> "error"
      [] state = "error"    /\ event = "process-exited"   -> "offline"
      [] state = "error"    /\ event = "observation-reset" -> "unknown"
      [] OTHER -> Invalid

(* fault-detected inside a catch: a refused transition throws again and    *)
(* leaves the state as it was.                                             *)
Faulted(a) ==
    IF After(a.state, "fault-detected") = Invalid THEN a
    ELSE [a EXCEPT !.state = After(a.state, "fault-detected")]

(* The adapter once its process is known to have exited. *)
Parted(a) == [a EXCEPT !.state = After(a.state, "process-exited"),
                       !.handle = NoGeneration, !.pidPublished = FALSE]

Exited(g) == g # NoGeneration /\ jvm[g] = "closed"

(* Mutant: the pid is told as soon as the child exists. *)
ToldHandle(a, fib) ==
    IF fib.doing = "watch"
    THEN [Resting EXCEPT !.at = "publish",
                     !.seen = [state |-> a.state, pid |-> a.handle]]
    ELSE [Resting EXCEPT !.at = "inspected", !.doing = fib.doing]

(* inspect answers with an observation. An effect goes on from the adapter *)
(* itself, the watch stores what it was told. A pid is told only once its  *)
(* generation has been made durable.                                       *)
Told(a, fib) ==
    IF fib.doing = "watch"
    THEN [Resting EXCEPT !.at = "publish",
                     !.seen = [state |-> a.state,
                               pid |-> IF a.pidPublished THEN a.handle
                                       ELSE NoGeneration]]
    ELSE [Resting EXCEPT !.at = "inspected", !.doing = fib.doing]

(* The part of inspect after the lease of a process already gone has been  *)
(* given back: look for an exit, else for the line that ends the boot.     *)
Looked(a, fib) ==
    IF Exited(a.handle)
    THEN IF After(a.state, "process-exited") = Invalid
         THEN [adapter |-> a, fiber |-> [fib EXCEPT !.at = "failed"]]
         ELSE [adapter |-> Parted(a),
               fiber |-> IF a.lease = NoGeneration THEN Told(Parted(a), fib)
                         ELSE [fib EXCEPT !.at = "letgo", !.gen = a.lease]]
    ELSE LET seen == IF a.state = "starting" /\ a.handle \in booted
                     THEN [a EXCEPT !.state = After(a.state, "boot-confirmed")]
                     ELSE a
         IN [adapter |-> seen, fiber |-> Told(seen, fib)]

(* inspect up to its first await. *)
Inspected(a, fib) ==
    IF a.launching
    THEN [adapter |-> a, fiber |-> Told(a, fib)]
    ELSE IF a.handle = NoGeneration /\ a.lease # NoGeneration
    THEN [adapter |-> a,
          fiber |-> [fib EXCEPT !.at = "release", !.gen = a.lease]]
    ELSE Looked(a, fib)

-----------------------------------------------------------------------------
(* How a call to the database or down a pipe ends. *)
Replies == IF Faults THEN {"answered", "unheard", "failed"} ELSE {"answered"}

(* Mutant: the row is deleted by server instance. *)
WithoutAny(g) == NoRow

(* DELETE ... WHERE ownership_id = g *)
Without(g) == IF row.gen = g THEN NoRow ELSE row

(* The adapter forgets its lease only if it is still the one released. *)
Relieved(a, g, reply) ==
    IF reply = "answered" /\ a.lease = g
    THEN [a EXCEPT !.lease = NoGeneration] ELSE a

Rest(b, f) == fiber' = [fiber EXCEPT ![b][f] = Resting]
Goto(b, f, place) == fiber' = [fiber EXCEPT ![b][f].at = place]
GotoWith(b, f, place, g) ==
    fiber' = [fiber EXCEPT ![b][f].at = place, ![b][f].gen = g]
Resume(b, f, result) ==
    /\ adapter' = [adapter EXCEPT ![b] = result.adapter]
    /\ fiber' = [fiber EXCEPT ![b][f] = result.fiber]

(* lease.release() of an inspection answers. *)
LeaseReleased(b, f) ==
    LET fib == fiber[b][f] IN
    /\ fib.at \in {"release", "letgo"}
    /\ \E reply \in Replies :
          LET a == Relieved(adapter[b], fib.gen, reply) IN
          /\ row' = IF reply = "failed" THEN row ELSE Without(fib.gen)
          /\ Resume(b, f, IF fib.at = "release" THEN Looked(a, fib)
                          ELSE [adapter |-> a, fiber |-> Told(a, fib)])
    /\ UNCHANGED <<published, minted, jvmVars, boot>>

-----------------------------------------------------------------------------
(* The ownership loop shared by acquire (an effect) and reconcile (the     *)
(* watch): read the row, clear it if its pid is proven absent, else mark   *)
(* it orphaned. Three attempts.                                            *)
Thrown(fib) == [Resting EXCEPT !.at = "thrown", !.doing = fib.doing]
Settled == [Resting EXCEPT !.at = "settled"]

TriesAgain(fib) ==
    IF fib.tries + 1 = Attempts THEN Thrown(fib)
    ELSE [fib EXCEPT !.at = "find", !.gen = NoGeneration, !.saw = "none",
                     !.tries = @ + 1]

(* Not proven dead: marked orphaned unless it is so already, then refused. *)
NotDead(fib, gen, status) ==
    IF status # "orphaned"
    THEN [fib EXCEPT !.at = "orphan", !.gen = gen, !.saw = "none"]
    ELSE IF fib.doing = "watch" THEN Settled ELSE Thrown(fib)

(* Mutant: the row of any boot is taken for the current one. *)
OwnershipFoundAnyCurrent(b, f) ==
    LET fib == fiber[b][f] IN
    /\ fib.at = "find"
    /\ fiber' = [fiber EXCEPT ![b][f] =
          IF row.gen = NoGeneration \/ f = "watch"
          THEN [fib EXCEPT !.at = IF f = "watch" THEN "age" ELSE "reserve",
                           !.gen = NoGeneration]
          ELSE IF row.pid = NoGeneration THEN NotDead(fib, row.gen, row.status)
          ELSE [fib EXCEPT !.at = "probe", !.gen = row.gen, !.saw = row.status]]
    /\ UNCHANGED <<row, published, minted, jvmVars, boot, adapter>>

OwnershipFound(b, f) ==
    LET fib == fiber[b][f] IN
    /\ fib.at = "find"
    /\ fiber' = [fiber EXCEPT ![b][f] =
          IF row.gen = NoGeneration \/ (f = "watch" /\ row.boot = b)
          THEN [fib EXCEPT !.at = IF f = "watch" THEN "age" ELSE "reserve",
                           !.gen = NoGeneration]
          ELSE IF row.pid = NoGeneration THEN NotDead(fib, row.gen, row.status)
          ELSE [fib EXCEPT !.at = "probe", !.gen = row.gen, !.saw = row.status]]
    /\ UNCHANGED <<row, published, minted, jvmVars, boot, adapter>>

(* isAlive(pid): only ESRCH is proof of absence; a pid in use again is not. *)
LivenessProbed(b, f) ==
    LET fib == fiber[b][f] IN
    /\ fib.at = "probe"
    /\ \/ /\ jvm[fib.gen] \in {"gone", "closed"}
          /\ fiber' = [fiber EXCEPT ![b][f].at = "clear", ![b][f].saw = "none"]
       \/ /\ jvm[fib.gen] = "alive" \/ PidReuse
          /\ fiber' = [fiber EXCEPT ![b][f] = NotDead(fib, fib.gen, fib.saw)]
    /\ UNCHANGED <<row, published, minted, jvmVars, boot, adapter>>

DeadOwnerCleared(b, f) ==
    LET fib == fiber[b][f] IN
    /\ fib.at = "clear"
    /\ \E reply \in Replies :
          /\ row' = IF reply = "failed" THEN row ELSE Without(fib.gen)
          /\ fiber' = [fiber EXCEPT ![b][f] =
                IF reply # "answered" THEN Thrown(fib)
                ELSE IF f = "watch" /\ row.gen = fib.gen
                THEN Settled
                ELSE TriesAgain(fib)]
    /\ UNCHANGED <<published, minted, jvmVars, boot, adapter>>

OwnerOrphaned(b, f) ==
    LET fib == fiber[b][f] IN
    /\ fib.at = "orphan"
    /\ \E reply \in Replies :
          /\ row' = IF reply = "failed" \/ row.gen # fib.gen THEN row
                    ELSE [row EXCEPT !.status = "orphaned"]
          /\ fiber' = [fiber EXCEPT ![b][f] =
                IF reply # "answered" THEN Thrown(fib)
                ELSE IF row.gen # fib.gen THEN TriesAgain(fib)
                ELSE IF f = "watch" THEN Settled ELSE Thrown(fib)]
    /\ UNCHANGED <<published, minted, jvmVars, boot, adapter>>

(* find itself fails. *)
FindFails(b, f) ==
    /\ Faults
    /\ fiber[b][f].at = "find"
    /\ fiber' = [fiber EXCEPT ![b][f] = Thrown(fiber[b][f])]
    /\ UNCHANGED <<row, published, minted, jvmVars, boot, adapter>>

-----------------------------------------------------------------------------
(* The exclusive effects of one adapter. A console command, the third one, *)
(* inspects as the watch does and writes a line: it changes no state of    *)
(* its own and is left out.                                                *)
EffectBegins(b) ==
    /\ boot[b] = "ready"
    /\ fiber[b]["effect"].at = "idle"
    /\ \E kind \in Requests :
          Resume(b, "effect",
                 Inspected(adapter[b], [Resting EXCEPT !.doing = kind]))
    /\ UNCHANGED <<row, published, minted, jvmVars, boot>>

(* An inspection that threw, or a state the effect is not defined for.     *)
EffectEnds(b) ==
    LET fib == fiber[b]["effect"] IN
    /\ \/ fib.at = "failed"
       \/ fib.at = "inspected" /\ fib.doing = "start"
             /\ adapter[b].state # "offline"
       \/ fib.at = "inspected" /\ fib.doing = "stop"
             /\ (adapter[b].state # "online"
                   \/ adapter[b].handle = NoGeneration)
    /\ Rest(b, "effect")
    /\ UNCHANGED <<row, published, minted, jvmVars, boot, adapter>>

LaunchBegins(b) ==
    LET fib == fiber[b]["effect"] IN
    /\ fib.at = "inspected" /\ fib.doing = "start"
    /\ adapter[b].state = "offline"
    /\ adapter' = [adapter EXCEPT ![b].launching = TRUE]
    /\ Goto(b, "effect", "find")
    /\ UNCHANGED <<row, published, minted, jvmVars, boot>>

(* INSERT ... ON CONFLICT DO NOTHING under a fresh ownership id. *)
OwnershipReserved(b) ==
    LET fib == fiber[b]["effect"]
        g == minted + 1
    IN
    /\ fib.at = "reserve"
    /\ IF row.gen # NoGeneration
       THEN /\ fiber' = [fiber EXCEPT ![b]["effect"] = TriesAgain(fib)]
            /\ UNCHANGED <<row, minted, adapter>>
       ELSE /\ minted < MaxGenerations
            /\ minted' = g
            /\ \E reply \in Replies :
                 /\ row' = IF reply = "failed" THEN row
                           ELSE [gen |-> g, boot |-> b, pid |-> NoGeneration,
                                 status |-> "reserved"]
                 /\ IF reply = "answered"
                    THEN /\ adapter' = [adapter EXCEPT ![b].lease = g,
                                                       ![b].pidPublished = FALSE]
                         /\ fiber' = [fiber EXCEPT ![b]["effect"] =
                                [fib EXCEPT !.at = "spawn", !.gen = g, !.tries = 0]]
                    ELSE /\ fiber' = [fiber EXCEPT ![b]["effect"] = Thrown(fib)]
                         /\ UNCHANGED adapter
    /\ UNCHANGED <<published, jvmVars, boot>>

(* runtime.spawn: the child exists, or it does not. *)
ProcessSpawned(b) ==
    LET g == fiber[b]["effect"].gen IN
    /\ fiber[b]["effect"].at = "spawn"
    /\ \/ /\ jvm' = [jvm EXCEPT ![g] = "alive"]
          /\ adapter' = [adapter EXCEPT ![b].handle = g]
          /\ Goto(b, "effect", "attach")
       \/ /\ Goto(b, "effect", "abandon")
          /\ UNCHANGED <<jvm, adapter>>
    /\ UNCHANGED <<row, published, minted, booted, boot>>

(* Mutant: a failed attach gives the reservation back. *)
PidAttachedOrReleased(b) ==
    LET g == fiber[b]["effect"].gen
        a == [adapter[b] EXCEPT !.launching = FALSE]
        bound == row.gen = g /\ row.status = "reserved"
    IN
    /\ fiber[b]["effect"].at = "attach"
    /\ \E reply \in Replies :
          /\ row' = IF bound /\ reply # "failed"
                    THEN [row EXCEPT !.pid = g, !.status = "running"]
                    ELSE Without(g)
          /\ adapter' = [adapter EXCEPT ![b] =
                IF bound /\ reply = "answered"
                THEN [a EXCEPT !.pidPublished = TRUE,
                               !.state = After(After(a.state, "launch-requested"),
                                               "process-spawned")]
                ELSE Faulted(a)]
    /\ Rest(b, "effect")
    /\ UNCHANGED <<published, minted, jvmVars, boot>>

(* UPDATE ... WHERE ownership_id = g AND status = 'reserved'. When it does *)
(* not answer, the child exists and the reservation stays.                 *)
PidAttached(b) ==
    LET g == fiber[b]["effect"].gen
        a == [adapter[b] EXCEPT !.launching = FALSE]
        bound == row.gen = g /\ row.status = "reserved"
    IN
    /\ fiber[b]["effect"].at = "attach"
    /\ \E reply \in Replies :
          /\ row' = IF bound /\ reply # "failed"
                    THEN [row EXCEPT !.pid = g, !.status = "running"] ELSE row
          /\ adapter' = [adapter EXCEPT ![b] =
                IF bound /\ reply = "answered"
                THEN [a EXCEPT !.pidPublished = TRUE,
                               !.state = After(After(a.state, "launch-requested"),
                                               "process-spawned")]
                ELSE Faulted(a)]
    /\ Rest(b, "effect")
    /\ UNCHANGED <<published, minted, jvmVars, boot>>

(* A failed spawn has no JVM to fence: release, then fault-detected. *)
LaunchAbandoned(b) ==
    LET g == fiber[b]["effect"].gen
        a == [adapter[b] EXCEPT !.launching = FALSE]
    IN
    /\ fiber[b]["effect"].at = "abandon"
    /\ \E reply \in Replies :
          /\ row' = IF reply = "failed" THEN row ELSE Without(g)
          /\ adapter' = [adapter EXCEPT ![b] = Faulted(Relieved(a, g, reply))]
    /\ Rest(b, "effect")
    /\ UNCHANGED <<published, minted, jvmVars, boot>>

(* Mutant: launchInFlight is not cleared when acquire throws. *)
LaunchRefusedInFlight(b) ==
    /\ fiber[b]["effect"].at = "thrown"
    /\ Rest(b, "effect")
    /\ UNCHANGED <<row, published, minted, jvmVars, boot, adapter>>

(* acquire threw: the launch is over and the state is what it was. *)
LaunchRefused(b) ==
    /\ fiber[b]["effect"].at = "thrown"
    /\ adapter' = [adapter EXCEPT ![b].launching = FALSE]
    /\ Rest(b, "effect")
    /\ UNCHANGED <<row, published, minted, jvmVars, boot>>

StopBegins(b) ==
    LET fib == fiber[b]["effect"]
        a == adapter[b]
    IN
    /\ fib.at = "inspected" /\ fib.doing = "stop"
    /\ a.state = "online" /\ a.handle # NoGeneration
    /\ adapter' = [adapter EXCEPT ![b].state = After(a.state, "stop-requested")]
    /\ GotoWith(b, "effect", "asking", a.handle)
    /\ UNCHANGED <<row, published, minted, jvmVars, boot>>

(* "stop" is written to the pipe of the child, or the pipe is broken. *)
StopAsked(b) ==
    /\ fiber[b]["effect"].at = "asking"
    /\ \/ /\ Goto(b, "effect", "waiting")
          /\ UNCHANGED adapter
       \/ /\ Faults \/ jvm[fiber[b]["effect"].gen] # "alive"
          /\ adapter' = [adapter EXCEPT ![b] = Faulted(@)]
          /\ Rest(b, "effect")
    /\ UNCHANGED <<row, published, minted, jvmVars, boot>>

(* waitForExit: the exit, or the end of stopTimeoutMs with the child alive *)
(* and the adapter left in stopping. An inspection may have been first.    *)
StopWaited(b) ==
    LET g == fiber[b]["effect"].gen
        a == adapter[b]
    IN
    /\ fiber[b]["effect"].at = "waiting"
    /\ IF Exited(g) /\ a.handle = g
       THEN /\ adapter' = [adapter EXCEPT ![b] = Parted(a)]
            /\ IF a.lease = NoGeneration THEN Rest(b, "effect")
               ELSE GotoWith(b, "effect", "parting", a.lease)
       ELSE /\ Rest(b, "effect")
            /\ UNCHANGED adapter
    /\ UNCHANGED <<row, published, minted, jvmVars, boot>>

StopParted(b) ==
    LET g == fiber[b]["effect"].gen IN
    /\ fiber[b]["effect"].at = "parting"
    /\ \E reply \in Replies :
          /\ row' = IF reply = "failed" THEN row ELSE Without(g)
          /\ adapter' = [adapter EXCEPT ![b] = Relieved(@, g, reply)]
    /\ Rest(b, "effect")
    /\ UNCHANGED <<published, minted, jvmVars, boot>>

-----------------------------------------------------------------------------
(* The watch: reconcile, observe, announce ready; then, on each tick,      *)
(* observe and reconcile again. Ticks of one boot do not overlap here.     *)
BootUp(b) ==
    /\ boot[b] = "unborn"
    /\ Overlap \/ \A other \in Boots : boot[other] \in {"unborn", "dead"}
    /\ boot' = [boot EXCEPT ![b] = "starting"]
    /\ Goto(b, "watch", "find")
    /\ UNCHANGED <<row, published, minted, jvmVars, adapter>>

(* The owner cannot be trusted by this boot: the snapshot is unknown. *)
SnapshotInvalidated(b) ==
    /\ fiber[b]["watch"].at = "settled"
    /\ \E reply \in Replies :
          /\ published' = IF reply = "failed" THEN published ELSE Unobserved
          /\ Goto(b, "watch", IF reply = "answered" THEN "age" ELSE "thrown")
    /\ UNCHANGED <<row, minted, jvmVars, boot, adapter>>

(* reconcileStale, by age alone: a tick has just stored an observation, so *)
(* it finds an old one only at startup or after writes that failed. Then   *)
(* startup goes on to its observation.                                     *)
SnapshotAged(b) ==
    /\ fiber[b]["watch"].at = "age"
    /\ \/ /\ boot[b] = "starting" \/ Faults
          /\ published' = Unobserved
       \/ UNCHANGED published
    /\ IF boot[b] = "starting"
       THEN Resume(b, "watch", Inspected(adapter[b], Resting))
       ELSE Rest(b, "watch") /\ UNCHANGED adapter
    /\ UNCHANGED <<row, minted, jvmVars, boot>>

(* A reconciliation that throws ends a boot that is starting up, and only  *)
(* the current tick of one that is not.                                    *)
ReconcileThrew(b) ==
    /\ fiber[b]["watch"].at = "thrown"
    /\ Rest(b, "watch")
    /\ boot' = [boot EXCEPT ![b] = IF @ = "starting" THEN "dead" ELSE @]
    /\ UNCHANGED <<row, published, minted, jvmVars, adapter>>

WatchTicks(b) ==
    /\ boot[b] = "ready"
    /\ fiber[b]["watch"].at = "idle"
    /\ Resume(b, "watch", Inspected(adapter[b], Resting))
    /\ UNCHANGED <<row, published, minted, jvmVars, boot>>

(* observe: an observation replaces the previous one, whoever made it. A   *)
(* failed inspection or a failed write is swallowed.                       *)
StateObserved(b) ==
    LET fib == fiber[b]["watch"] IN
    /\ fib.at \in {"publish", "failed"}
    /\ \/ fib.at = "publish" /\ published' = fib.seen
       \/ (fib.at = "failed" \/ Faults) /\ UNCHANGED published
    /\ boot' = [boot EXCEPT ![b] = "ready"]
    /\ fiber' = [fiber EXCEPT ![b]["watch"] =
          IF boot[b] = "starting" THEN Resting
          ELSE [Resting EXCEPT !.at = "find"]]
    /\ UNCHANGED <<row, minted, jvmVars, adapter>>

-----------------------------------------------------------------------------
(* The processes themselves, and the death of an agent. A JVM outlives its *)
(* agent or exits at any time; its exit reaches only the boot that holds   *)
(* its handle.                                                             *)
JvmBoots(g) ==
    /\ jvm[g] = "alive" /\ g \notin booted
    /\ booted' = booted \cup {g}
    /\ UNCHANGED <<row, published, minted, jvm, agentVars>>

JvmExits(g) ==
    /\ jvm[g] = "alive"
    /\ jvm' = [jvm EXCEPT ![g] = "gone"]
    /\ UNCHANGED <<row, published, minted, booted, agentVars>>

ExitDelivered(g) ==
    /\ jvm[g] = "gone"
    /\ \E b \in Boots : adapter[b].handle = g
    /\ jvm' = [jvm EXCEPT ![g] = "closed"]
    /\ UNCHANGED <<row, published, minted, booted, agentVars>>

Crash(b) ==
    /\ b \in MayCrash
    /\ boot[b] \in {"starting", "ready"}
    /\ boot' = [boot EXCEPT ![b] = "dead"]
    /\ adapter' = [adapter EXCEPT ![b] = FreshAdapter]
    /\ fiber' = [fiber EXCEPT ![b] = [f \in Fibers |-> Resting]]
    /\ UNCHANGED <<row, published, minted, jvmVars>>

Shared(b, f) ==
    \/ LeaseReleased(b, f)
    \/ OwnershipFound(b, f) \/ LivenessProbed(b, f)
    \/ DeadOwnerCleared(b, f) \/ OwnerOrphaned(b, f)
Effect(b) ==
    \/ EffectEnds(b) \/ LaunchBegins(b) \/ OwnershipReserved(b)
    \/ ProcessSpawned(b) \/ PidAttached(b) \/ LaunchAbandoned(b)
    \/ LaunchRefused(b) \/ StopBegins(b) \/ StopAsked(b) \/ StopWaited(b)
    \/ StopParted(b)
Watch(b) ==
    \/ SnapshotInvalidated(b) \/ SnapshotAged(b) \/ ReconcileThrew(b)
    \/ WatchTicks(b) \/ StateObserved(b)

OwnershipNext ==
    \/ \E b \in Boots :
          \/ BootUp(b) \/ EffectBegins(b) \/ Crash(b)
          \/ Effect(b) \/ Watch(b)
          \/ \E f \in Fibers : Shared(b, f) \/ FindFails(b, f)
    \/ \E g \in Generations : JvmBoots(g) \/ JvmExits(g) \/ ExitDelivered(g)

OwnershipSpec == OwnershipInit /\ [][OwnershipNext]_vars

-----------------------------------------------------------------------------
(* Two JVMs of the same server never run at once, whatever boots overlap,  *)
(* die between reserve, spawn and attachPid, or lose an answer (migration  *)
(* 0025: an agent crash makes the next agent fail closed instead of        *)
(* launching a second JVM).                                                *)
NoSecondJvm ==
    \A g, h \in Generations : jvm[g] = "alive" /\ jvm[h] = "alive" => g = h

(* A published pid that still runs is on record under the generation that  *)
(* owns the server, so a later boot can find it (adapter.ts: the pid is    *)
(* told only after attachPid).                                             *)
PublishedPidIsDurable ==
    \A g \in Generations :
        published.pid = g /\ jvm[g] = "alive" => row.gen = g /\ row.pid = g

-----------------------------------------------------------------------------
(* The inductive invariant.                                                *)
LaunchPlaces == {"find", "probe", "clear", "orphan", "reserve", "spawn",
                 "attach", "abandon", "thrown"}
EffectPlaces == LaunchPlaces \cup {"idle", "inspected", "failed", "release",
                 "letgo", "asking", "waiting", "parting"}
WatchPlaces == {"idle", "failed", "release", "letgo", "find", "probe", "clear",
                "orphan", "settled", "thrown", "publish", "age"}

Spawning(b, g) ==
    fiber[b]["effect"].at = "spawn" /\ fiber[b]["effect"].gen = g

(* A generation under which no JVM runs nor ever will: letting it go is    *)
(* harmless, however late the call arrives.                                *)
Spent(g) ==
    /\ g \in Generations /\ g <= minted
    /\ jvm[g] # "alive"
    /\ \A b \in Boots : ~Spawning(b, g)

(* A process that was spawned and, while it runs, is on record. *)
Recorded(g) ==
    /\ g \in Generations
    /\ jvm[g] # "none"
    /\ jvm[g] = "alive" => row.pid = g

RowSound ==
    /\ row.gen <= minted
    /\ row.gen = NoGeneration => row.pid = NoGeneration
    /\ row.pid # NoGeneration => row.pid = row.gen /\ jvm[row.pid] # "none"

LiveJvmFenced ==
    \A g \in Generations :
        /\ g > minted => jvm[g] = "none"
        /\ jvm[g] = "alive" => row.gen = g

(* An adapter a whose effect stands at e, an effect, any fiber, a watch. *)
AdapterSound(a, e) ==
    /\ a.handle # NoGeneration =>
          /\ jvm[a.handle] # "none"
          /\ a.lease \in {NoGeneration, a.handle}
          /\ e.at # "attach" => a.state # "offline"
    /\ a.handle = NoGeneration => ~a.pidPublished
    /\ a.handle = NoGeneration /\ a.lease # NoGeneration /\ e.at # "spawn"
          => Spent(a.lease)
    /\ a.pidPublished => Recorded(a.handle)

EffectSound(a, e) ==
    /\ e.at \in EffectPlaces
    /\ e.at # "idle" => e.doing \in {"start", "stop"}
    /\ e.at \in LaunchPlaces =>
          e.doing = "start" /\ a.launching /\ a.state = "offline"
    /\ e.at \in LaunchPlaces \ {"attach"} => a.handle = NoGeneration
    /\ e.at = "spawn" =>
          /\ e.gen \in Generations
          /\ row.gen = e.gen /\ jvm[e.gen] = "none"
          /\ a.lease \in {NoGeneration, e.gen}
    /\ e.at = "attach" => e.gen \in Generations /\ a.handle = e.gen
    /\ e.at = "abandon" => Spent(e.gen)
    /\ e.at \in {"asking", "waiting"} => e.gen \in Generations

FiberSound(fib) ==
    /\ fib.at \in {"release", "letgo", "parting", "clear"} => Spent(fib.gen)
    /\ fib.at = "probe" => fib.gen \in Generations /\ jvm[fib.gen] # "none"
    /\ fib.seen.pid # NoGeneration => Recorded(fib.seen.pid)

WatchSound(fib) == fib.at \in WatchPlaces /\ fib.doing = "watch"

BootSound(a, fibers) ==
    /\ AdapterSound(a, fibers["effect"])
    /\ EffectSound(a, fibers["effect"])
    /\ WatchSound(fibers["watch"])
    /\ FiberSound(fibers["effect"]) /\ FiberSound(fibers["watch"])

SpawnersDiffer ==
    \A b, c \in Boots : \A g \in Generations :
        Spawning(b, g) /\ Spawning(c, g) => b = c

OwnershipInv ==
    /\ OwnershipTypeOK
    /\ RowSound
    /\ LiveJvmFenced
    /\ published.pid # NoGeneration => Recorded(published.pid)
    /\ SpawnersDiffer
    /\ \A b \in Boots : BootSound(adapter[b], fiber[b])

-----------------------------------------------------------------------------
(* The row, the adapters and the processes implement the abstract fence:   *)
(* the row is vacated only when no JVM runs under it, and a generation     *)
(* launches once and only while it holds the row.                          *)
Fence == INSTANCE JvmFence WITH
    holder <- row.gen,
    running <- {g \in Generations : jvm[g] = "alive"},
    spent <- {g \in Generations : jvm[g] # "none"}

ImplementsFence == Fence!FenceSpec

-----------------------------------------------------------------------------
(* Every call an agent awaits is answered or fails, its timers fire, and an *)
(* exit is delivered to the agent that holds the child. A boot is started  *)
(* by its operator. Nothing makes an operator ask for an effect, a JVM     *)
(* boot or exit, or an agent die.                                          *)
OwnershipFairness ==
    /\ \A b \in Boots :
          /\ WF_vars(BootUp(b))
          /\ WF_vars(Effect(b))
          /\ WF_vars(Watch(b))
          /\ \A f \in Fibers : WF_vars(Shared(b, f))
    /\ \A g \in Generations : WF_vars(ExitDelivered(g))

OwnershipFairSpec == OwnershipSpec /\ OwnershipFairness

(* A JVM on record that has exited gives the fence back: by the adapter    *)
(* that owns it, or by the reconciliation or the launch of another boot.   *)
DeadOwnerLeaves ==
    \A g \in Generations :
        (row.pid = g /\ jvm[g] \in {"gone", "closed"}) ~> (row.gen # g)

(* No effect keeps the adapter busy for ever (the bound on generations     *)
(* aside): its exclusive slot and launchInFlight are given back.           *)
EffectsFinish ==
    \A b \in Boots :
        (fiber[b]["effect"].at # "idle")
        ~> \/ fiber[b]["effect"].at = "idle" /\ ~adapter[b].launching
           \/ fiber[b]["effect"].at = "reserve" /\ minted = MaxGenerations
=============================================================================
