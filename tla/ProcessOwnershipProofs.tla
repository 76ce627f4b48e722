----------------------- MODULE ProcessOwnershipProofs -----------------------
(***************************************************************************)
(* OwnershipInv is an inductive invariant of the ownership protocol, and   *)
(* the protocol implements the abstract fence, for any number of boots,    *)
(* generations and attempts, with or without overlapping boots, crashes,   *)
(* lost answers, failed calls and reused pids.                             *)
(***************************************************************************)
EXTENDS ProcessOwnership, TLAPS

USE OwnershipAssumption

-----------------------------------------------------------------------------

\* What the transition table answers where the code relies on it.
LEMMA AfterFacts ==
  /\ \A s \in States \ {"offline"} :
        After(s, "process-exited") \in {"offline", "error"}
  /\ After("offline", "process-exited") = Invalid
  /\ After("starting", "boot-confirmed") = "online"
  /\ After("online", "stop-requested") = "stopping"
  /\ After("offline", "fault-detected") = "error"
  /\ After(After("offline", "launch-requested"), "process-spawned") = "starting"
  /\ \A s \in States : After(s, "fault-detected") \in {"error", Invalid}
BY DEF After, States, Invalid

\* A fault leaves the process and the reservation of the adapter alone.
LEMMA FaultedFacts ==
  ASSUME NEW a \in Adapter
  PROVE  /\ Faulted(a) \in Adapter
         /\ Faulted(a).state \in {a.state, "error"}
         /\ a.state = "offline" => Faulted(a).state = "error"
         /\ Faulted(a).handle = a.handle
         /\ Faulted(a).lease = a.lease
         /\ Faulted(a).launching = a.launching
         /\ Faulted(a).pidPublished = a.pidPublished
<1>1. a.state \in States
  BY DEF Adapter
<1>2. After(a.state, "fault-detected") \in {"error", Invalid}
  BY <1>1, AfterFacts
<1>3. "error" \in States /\ "error" # Invalid
  BY DEF States, Invalid
<1> QED
  BY <1>1, <1>2, <1>3, AfterFacts DEF Faulted, Adapter

\* Whatever keeps spent generations spent and records on record keeps a
\* boot sound, provided a launch about to spawn still holds the row.
LEMMA Carry ==
  ASSUME NEW c \in Boots,
         adapter'[c] \in Adapter, BootSound(adapter'[c], fiber'[c]),
         \A g : Spent(g) => Spent(g)',
         \A g : Recorded(g) => Recorded(g)',
         \A g \in Generations : jvm[g] # "none" => jvm'[g] # "none",
         fiber'[c]["effect"].at = "spawn" => row'.gen = fiber'[c]["effect"].gen,
         fiber'[c]["effect"].at = "spawn" => jvm'[fiber'[c]["effect"].gen] = "none"
  PROVE  BootSound(adapter[c], fiber[c])'
<1>1. AdapterSound(adapter[c], fiber[c]["effect"])'
  <2>1. AdapterSound(adapter'[c], fiber'[c]["effect"])
    BY DEF BootSound
  <2>2. (adapter'[c].handle # NoGeneration =>
          /\ jvm'[adapter'[c].handle] # "none"
          /\ adapter'[c].lease \in {NoGeneration, adapter'[c].handle}
          /\ fiber'[c]["effect"].at # "attach" => adapter'[c].state # "offline")
    BY <2>1 DEF AdapterSound, Adapter, Owners
  <2>3. adapter'[c].handle = NoGeneration => ~adapter'[c].pidPublished
    BY <2>1 DEF AdapterSound
  <2>4. (adapter[c].handle = NoGeneration /\ adapter[c].lease # NoGeneration
          /\ fiber[c]["effect"].at # "spawn" => Spent(adapter[c].lease))'
    BY <2>1 DEF AdapterSound
  <2>5. (adapter[c].pidPublished => Recorded(adapter[c].handle))'
    BY <2>1 DEF AdapterSound
  <2> QED
    BY <2>2, <2>3, <2>4, <2>5 DEF AdapterSound
<1>2. EffectSound(adapter[c], fiber[c]["effect"])'
  <2>1. EffectSound(adapter'[c], fiber'[c]["effect"])
    BY DEF BootSound
  <2>2. (fiber[c]["effect"].at = "abandon" => Spent(fiber[c]["effect"].gen))'
    BY <2>1 DEF EffectSound
  <2> QED
    BY <2>1, <2>2 DEF EffectSound
<1>3. WatchSound(fiber[c]["watch"])'
  BY DEF BootSound, WatchSound
<1>4. FiberSound(fiber[c]["effect"])'
  BY DEF BootSound, FiberSound
<1>5. FiberSound(fiber[c]["watch"])'
  BY DEF BootSound, FiberSound
<1> QED
  BY <1>1, <1>2, <1>3, <1>4, <1>5 DEF BootSound

(* A step that leaves the processes alone, and at most vacates a row whose *)
(* generation is spent, changes its status or publishes a recorded pid.    *)
Gentle ==
    /\ minted' = minted /\ jvm' = jvm
    /\ booted' \subseteq Generations
    /\ boot' \in [Boots -> {"unborn", "starting", "ready", "dead"}]
    /\ row' \in Row
    /\ \/ row'.gen = row.gen /\ row'.pid = row.pid
       \/ row'.gen = NoGeneration /\ row'.pid = NoGeneration /\ Spent(row.gen)
    /\ published' \in Observation
    /\ published'.pid # NoGeneration => Recorded(published'.pid)

\* A gentle step of one boot that is sound afterwards keeps the invariant.
LEMMA Move ==
  ASSUME OwnershipInv, NEW b \in Boots,
         Gentle,
         adapter' \in [Boots -> Adapter],
         fiber' \in [Boots -> [Fibers -> Fiber]],
         \A c \in Boots \ {b} : adapter'[c] = adapter[c] /\ fiber'[c] = fiber[c],
         BootSound(adapter'[b], fiber'[b]),
         fiber'[b]["effect"].at = "spawn" =>
            /\ fiber[b]["effect"].at = "spawn"
            /\ fiber'[b]["effect"].gen = fiber[b]["effect"].gen
  PROVE  OwnershipInv'
<1> USE DEF OwnershipInv, Gentle
<1>3. OwnershipTypeOK'
  BY DEF OwnershipTypeOK
<1>4. \A c \in Boots, g \in Generations : Spawning(c, g)' => Spawning(c, g)
  BY DEF Spawning
<1>5. \A g : Spent(g) => Spent(g)'
  BY <1>4 DEF Spent
<1>6. \A g : Recorded(g) => Recorded(g)'
  BY DEF Recorded, Spent, RowSound
<1>7. RowSound'
  BY DEF RowSound, Spent, NoGeneration, OwnershipTypeOK
<1>8. LiveJvmFenced'
  BY DEF LiveJvmFenced, Spent
<1>9. SpawnersDiffer'
  BY <1>4 DEF SpawnersDiffer
<1>10. (published.pid # NoGeneration => Recorded(published.pid))'
  BY DEF Recorded, Spent, RowSound
<1>11. ASSUME NEW c \in Boots PROVE BootSound(adapter[c], fiber[c])'
  <2>1. BootSound(adapter'[c], fiber'[c])
    OBVIOUS
  <2>2. fiber'[c]["effect"].at = "spawn" => Spawning(c, fiber'[c]["effect"].gen)
    BY DEF Spawning
  <2>3. fiber'[c]["effect"].at = "spawn" => row'.gen = fiber'[c]["effect"].gen
    BY <2>1, <2>2 DEF BootSound, EffectSound, Spent
  <2>4. fiber'[c]["effect"].at = "spawn" => jvm'[fiber'[c]["effect"].gen] = "none"
    BY <2>1 DEF BootSound, EffectSound
  <2> QED
    BY <1>3, <1>5, <1>6, <2>1, <2>3, <2>4, Carry
<1> QED
  BY <1>3, <1>7, <1>8, <1>9, <1>10, <1>11

-----------------------------------------------------------------------------
(* Updates of one fiber and of one adapter. *)

\* A fiber that is replaced leaves every other one as it was.
LEMMA FiberPut ==
  ASSUME OwnershipTypeOK, NEW b \in Boots, NEW f \in Fibers, NEW x \in Fiber,
         fiber' = [fiber EXCEPT ![b][f] = x]
  PROVE  /\ fiber' \in [Boots -> [Fibers -> Fiber]]
         /\ fiber'[b][f] = x
         /\ \A g \in Fibers \ {f} : fiber'[b][g] = fiber[b][g]
         /\ \A c \in Boots \ {b} : fiber'[c] = fiber[c]
BY DEF OwnershipTypeOK

\* An adapter that is replaced leaves those of the other boots as they were.
LEMMA AdapterPut ==
  ASSUME OwnershipTypeOK, NEW b \in Boots, NEW a \in Adapter,
         adapter' = [adapter EXCEPT ![b] = a]
  PROVE  /\ adapter' \in [Boots -> Adapter]
         /\ adapter'[b] = a
         /\ \A c \in Boots \ {b} : adapter'[c] = adapter[c]
BY DEF OwnershipTypeOK

\* Goto moves a fiber and keeps its local variables.
LEMMA GotoPut ==
  ASSUME OwnershipTypeOK, NEW b \in Boots, NEW f \in Fibers, NEW place,
         Goto(b, f, place)
  PROVE  /\ fiber' = [fiber EXCEPT ![b][f] = [fiber[b][f] EXCEPT !.at = place]]
         /\ fiber[b][f] \in Fiber
BY DEF OwnershipTypeOK, Goto

\* So does GotoWith, which takes a generation along.
LEMMA GotoWithPut ==
  ASSUME OwnershipTypeOK, NEW b \in Boots, NEW f \in Fibers,
         NEW place \in {"asking", "parting"}, NEW g \in Owners,
         GotoWith(b, f, place, g)
  PROVE  \E x \in Fiber :
            /\ fiber' = [fiber EXCEPT ![b][f] = x]
            /\ x.at = place /\ x.gen = g
            /\ x.doing = fiber[b][f].doing /\ x.seen = fiber[b][f].seen
<1> DEFINE x == [fiber[b][f] EXCEPT !.at = place, !.gen = g]
<1>1. fiber[b][f] \in Fiber
  BY DEF OwnershipTypeOK
<1>2. /\ x \in Fiber /\ x.at = place /\ x.gen = g
      /\ x.doing = fiber[b][f].doing /\ x.seen = fiber[b][f].seen
  BY <1>1 DEF Fiber
<1>3. fiber' = [fiber EXCEPT ![b][f] = x]
  BY DEF OwnershipTypeOK, GotoWith
<1> QED
  BY <1>2, <1>3

\* A fiber at rest.
LEMMA RestingFacts ==
  /\ Resting \in Fiber
  /\ Resting.at = "idle" /\ Resting.doing = "watch"
  /\ Resting.gen = NoGeneration
  /\ Resting.seen.pid = NoGeneration
  /\ FiberSound(Resting)
<1>1. Resting \in Fiber
  BY DEF Resting, Fiber, Unobserved, Observation, Owners, States, Statuses
<1> QED
  BY <1>1 DEF Resting, Unobserved, FiberSound

\* A process whose exit was delivered has nothing left to fence.
LEMMA ExitedSpent ==
  ASSUME OwnershipInv, NEW g \in Owners, Exited(g)
  PROVE  g \in Generations /\ Spent(g)
<1>1. g \in Generations /\ jvm[g] = "closed"
  BY DEF Exited, Owners
<1>2. g <= minted
  BY <1>1 DEF OwnershipInv, LiveJvmFenced, OwnershipTypeOK, Generations
<1>3. \A b \in Boots : ~Spawning(b, g)
  BY <1>1 DEF OwnershipInv, BootSound, EffectSound, Spawning
<1> QED
  BY <1>1, <1>2, <1>3 DEF Spent

-----------------------------------------------------------------------------
(* inspect, from any of its resumption points. *)

\* What inspect tells is either a place to go on from or an observation
\* whose pid is on record.
LEMMA ToldSound ==
  ASSUME NEW a \in Adapter, NEW fib \in Fiber, a.pidPublished => Recorded(a.handle)
  PROVE  /\ Told(a, fib) \in Fiber
         /\ Told(a, fib).doing = fib.doing
         /\ Told(a, fib).at = IF fib.doing = "watch" THEN "publish" ELSE "inspected"
         /\ FiberSound(Told(a, fib))
<1> DEFINE pid == IF a.pidPublished THEN a.handle ELSE NoGeneration
<1>1. pid \in Owners /\ (pid # NoGeneration => Recorded(pid))
  BY DEF Adapter, Owners
<1>2. CASE fib.doing = "watch"
  <2> DEFINE seen == [state |-> a.state, pid |-> pid]
  <2>1. seen \in Observation /\ seen.pid = pid
    BY <1>1 DEF Observation, Adapter
  <2> HIDE DEF pid, seen
  <2>2. Told(a, fib) = [Resting EXCEPT !.at = "publish", !.seen = seen]
    BY <1>2 DEF Told, pid, seen
  <2>3. /\ Told(a, fib) \in Fiber
        /\ Told(a, fib).at = "publish" /\ Told(a, fib).doing = "watch"
        /\ Told(a, fib).seen = seen
    BY <2>1, <2>2, RestingFacts DEF Fiber
  <2> QED
    BY <1>1, <1>2, <2>1, <2>3 DEF FiberSound
<1>3. CASE fib.doing # "watch"
  <2>1. Told(a, fib) = [Resting EXCEPT !.at = "inspected", !.doing = fib.doing]
    BY <1>3 DEF Told
  <2>2. fib.doing \in {"start", "stop", "watch"}
    BY DEF Fiber
  <2>3. /\ Told(a, fib) \in Fiber
        /\ Told(a, fib).at = "inspected" /\ Told(a, fib).doing = fib.doing
        /\ Told(a, fib).seen = Resting.seen
    BY <2>1, <2>2, RestingFacts DEF Fiber
  <2> QED
    BY <1>3, <2>3, RestingFacts DEF FiberSound
<1> QED
  BY <1>2, <1>3

\* The exit of a process leaves a sound adapter, and its lease is spent.
LEMMA PartedSound ==
  ASSUME OwnershipInv, NEW a \in Adapter, NEW e \in Fiber,
         AdapterSound(a, e), EffectSound(a, e),
         Exited(a.handle), a.state # "offline"
  PROVE  /\ Parted(a) \in Adapter
         /\ Parted(a).lease = a.lease
         /\ ~Parted(a).pidPublished
         /\ AdapterSound(Parted(a), e)
         /\ EffectSound(Parted(a), e)
         /\ a.lease # NoGeneration => Spent(a.lease)
<1>1. After(a.state, "process-exited") \in States
  BY AfterFacts DEF Adapter, States
<1> DEFINE s == After(a.state, "process-exited")
<1>2. Parted(a) = [a EXCEPT !.state = s, !.handle = NoGeneration, !.pidPublished = FALSE]
  BY DEF Parted
<1> HIDE DEF s
<1>3. /\ Parted(a) \in Adapter
      /\ Parted(a).handle = NoGeneration
      /\ Parted(a).lease = a.lease
      /\ Parted(a).launching = a.launching
      /\ Parted(a).pidPublished = FALSE
  BY <1>1, <1>2 DEF Adapter, Owners, s
<1>4. a.handle \in Generations /\ Spent(a.handle)
  BY ExitedSpent DEF Adapter
<1>5. a.lease # NoGeneration => Spent(a.lease)
  BY <1>4 DEF AdapterSound, Generations, NoGeneration
<1>6. AdapterSound(Parted(a), e)
  BY <1>3, <1>5 DEF AdapterSound
<1>7. e.at \notin LaunchPlaces
  BY DEF EffectSound
<1>8. EffectSound(Parted(a), e)
  BY <1>7 DEF EffectSound, LaunchPlaces
<1> QED
  BY <1>3, <1>5, <1>6, <1>8

\* Where an inspection may leave the fiber that makes it.
InspectedPlaces(fib) ==
    IF fib.doing = "watch" THEN {"publish", "failed", "release", "letgo"}
    ELSE {"inspected", "failed", "release", "letgo"}

\* The second part of inspect keeps the adapter sound for the effect in
\* progress, whoever inspects.
LEMMA LookedSound ==
  ASSUME OwnershipInv, NEW a \in Adapter, NEW e \in Fiber, NEW fib \in Fiber,
         AdapterSound(a, e), EffectSound(a, e),
         fib.seen.pid # NoGeneration => Recorded(fib.seen.pid)
  PROVE  /\ Looked(a, fib).adapter \in Adapter
         /\ Looked(a, fib).fiber \in Fiber
         /\ Looked(a, fib).fiber.doing = fib.doing
         /\ Looked(a, fib).fiber.at \in InspectedPlaces(fib)
         /\ FiberSound(Looked(a, fib).fiber)
         /\ AdapterSound(Looked(a, fib).adapter, e)
         /\ EffectSound(Looked(a, fib).adapter, e)
<1> DEFINE r == Looked(a, fib)
<1>1. CASE Exited(a.handle) /\ After(a.state, "process-exited") = Invalid
  <2>1. r.adapter = a /\ r.fiber = [fib EXCEPT !.at = "failed"]
    BY <1>1 DEF Looked
  <2>2. /\ r.fiber \in Fiber /\ r.fiber.at = "failed"
        /\ r.fiber.doing = fib.doing /\ r.fiber.seen = fib.seen
    BY <2>1 DEF Fiber
  <2> QED
    BY <2>1, <2>2 DEF FiberSound, InspectedPlaces
<1>2. CASE Exited(a.handle) /\ After(a.state, "process-exited") # Invalid
  <2>1. a.state # "offline"
    BY <1>2, AfterFacts
  <2>2. /\ Parted(a) \in Adapter
        /\ ~Parted(a).pidPublished
        /\ AdapterSound(Parted(a), e) /\ EffectSound(Parted(a), e)
        /\ a.lease # NoGeneration => Spent(a.lease)
    BY <1>2, <2>1, PartedSound
  <2>3. r.adapter = Parted(a)
    BY <1>2 DEF Looked
  <2>4. CASE a.lease = NoGeneration
    <3>1. r.fiber = Told(Parted(a), fib)
      BY <1>2, <2>4 DEF Looked
    <3>2. Parted(a).pidPublished => Recorded(Parted(a).handle)
      BY <2>2
    <3>3. /\ r.fiber \in Fiber /\ r.fiber.doing = fib.doing
          /\ r.fiber.at = IF fib.doing = "watch" THEN "publish" ELSE "inspected"
          /\ FiberSound(r.fiber)
      BY <2>2, <3>1, <3>2, ToldSound
    <3> QED
      BY <2>2, <2>3, <3>3 DEF InspectedPlaces
  <2>5. CASE a.lease # NoGeneration
    <3>1. r.fiber = [fib EXCEPT !.at = "letgo", !.gen = a.lease]
      BY <1>2, <2>5 DEF Looked
    <3>2. a.lease \in Owners
      BY DEF Adapter
    <3>3. /\ r.fiber \in Fiber /\ r.fiber.at = "letgo" /\ r.fiber.gen = a.lease
          /\ r.fiber.doing = fib.doing /\ r.fiber.seen = fib.seen
      BY <3>1, <3>2 DEF Fiber
    <3>4. FiberSound(r.fiber)
      BY <2>2, <2>5, <3>3 DEF FiberSound
    <3> QED
      BY <2>2, <2>3, <3>3, <3>4 DEF InspectedPlaces
  <2> QED
    BY <2>4, <2>5
<1>3. CASE ~Exited(a.handle)
  <2> DEFINE seen == IF a.state = "starting" /\ a.handle \in booted
                     THEN [a EXCEPT !.state = After(a.state, "boot-confirmed")]
                     ELSE a
  <2>1. r.adapter = seen /\ r.fiber = Told(seen, fib)
    BY <1>3 DEF Looked
  <2>2. /\ seen \in Adapter
        /\ seen.handle = a.handle /\ seen.lease = a.lease
        /\ seen.launching = a.launching /\ seen.pidPublished = a.pidPublished
        /\ \/ seen.state = a.state
           \/ a.state = "starting" /\ seen.state = "online"
    BY AfterFacts DEF Adapter, States
  <2> HIDE DEF seen
  <2>3. AdapterSound(seen, e)
    <3>1. a.handle # NoGeneration => (e.at # "attach" => seen.state # "offline")
      BY <2>2 DEF AdapterSound
    <3> QED
      BY <2>2, <3>1 DEF AdapterSound
  <2>4. EffectSound(seen, e)
    <3>1. e.at \in LaunchPlaces => seen.state = "offline"
      BY <2>2 DEF EffectSound
    <3> QED
      BY <2>2, <3>1 DEF EffectSound
  <2>5. seen.pidPublished => Recorded(seen.handle)
    BY <2>3 DEF AdapterSound
  <2>6. /\ r.fiber \in Fiber /\ r.fiber.doing = fib.doing
        /\ r.fiber.at = IF fib.doing = "watch" THEN "publish" ELSE "inspected"
        /\ FiberSound(r.fiber)
    BY <2>1, <2>2, <2>5, ToldSound
  <2> QED
    BY <2>1, <2>2, <2>3, <2>4, <2>6 DEF InspectedPlaces
<1> QED
  BY <1>1, <1>2, <1>3

\* So does the whole of inspect.
LEMMA InspectedSound ==
  ASSUME OwnershipInv, NEW a \in Adapter, NEW e \in Fiber, NEW fib \in Fiber,
         AdapterSound(a, e), EffectSound(a, e),
         fib.seen.pid # NoGeneration => Recorded(fib.seen.pid)
  PROVE  /\ Inspected(a, fib).adapter \in Adapter
         /\ Inspected(a, fib).fiber \in Fiber
         /\ Inspected(a, fib).fiber.doing = fib.doing
         /\ Inspected(a, fib).fiber.at \in InspectedPlaces(fib)
         /\ FiberSound(Inspected(a, fib).fiber)
         /\ AdapterSound(Inspected(a, fib).adapter, e)
         /\ EffectSound(Inspected(a, fib).adapter, e)
<1> DEFINE r == Inspected(a, fib)
<1>1. CASE a.launching
  <2>1. r.adapter = a /\ r.fiber = Told(a, fib)
    BY <1>1 DEF Inspected
  <2>2. a.pidPublished => Recorded(a.handle)
    BY DEF AdapterSound
  <2>3. /\ r.fiber \in Fiber /\ r.fiber.doing = fib.doing
        /\ r.fiber.at = IF fib.doing = "watch" THEN "publish" ELSE "inspected"
        /\ FiberSound(r.fiber)
    BY <2>1, <2>2, ToldSound
  <2> QED
    BY <2>1, <2>3 DEF InspectedPlaces
<1>2. CASE ~a.launching /\ a.handle = NoGeneration /\ a.lease # NoGeneration
  <2>1. r.adapter = a /\ r.fiber = [fib EXCEPT !.at = "release", !.gen = a.lease]
    BY <1>2 DEF Inspected
  <2>2. a.lease \in Owners
    BY DEF Adapter
  <2>3. /\ r.fiber \in Fiber /\ r.fiber.at = "release" /\ r.fiber.gen = a.lease
        /\ r.fiber.doing = fib.doing /\ r.fiber.seen = fib.seen
    BY <2>1, <2>2 DEF Fiber
  <2>4. e.at # "spawn"
    BY <1>2 DEF EffectSound, LaunchPlaces
  <2>5. FiberSound(r.fiber)
    BY <1>2, <2>3, <2>4 DEF FiberSound, AdapterSound
  <2> QED
    BY <2>1, <2>3, <2>5 DEF InspectedPlaces
<1>3. CASE ~a.launching /\ ~(a.handle = NoGeneration /\ a.lease # NoGeneration)
  <2>1. r = Looked(a, fib)
    BY <1>3 DEF Inspected
  <2> QED
    BY <2>1, LookedSound
<1> QED
  BY <1>1, <1>2, <1>3

-----------------------------------------------------------------------------
(* Gentle steps, and how a boot takes one. *)

\* A step that touches only the memory of a boot.
LEMMA GentleMemory ==
  ASSUME OwnershipInv, UNCHANGED <<row, published, minted, jvmVars>>,
         boot' \in [Boots -> {"unborn", "starting", "ready", "dead"}]
  PROVE  Gentle
BY DEF Gentle, OwnershipInv, OwnershipTypeOK, jvmVars

\* A step that deletes the row of a spent generation, or fails to.
LEMMA GentleDelete ==
  ASSUME OwnershipInv, UNCHANGED <<published, minted, jvmVars, boot>>,
         NEW g, Spent(g), row' = row \/ row' = Without(g)
  PROVE  Gentle
<1>1. NoRow \in Row /\ NoRow.gen = NoGeneration /\ NoRow.pid = NoGeneration
  BY DEF NoRow, Row, Owners, Statuses
<1>2. row \in Row
  BY DEF OwnershipInv, OwnershipTypeOK
<1>3. row' = row \/ (row' = NoRow /\ Spent(row.gen))
  BY DEF Without
<1>4. row' \in Row /\ \/ row'.gen = row.gen /\ row'.pid = row.pid
                      \/ row'.gen = NoGeneration /\ row'.pid = NoGeneration /\ Spent(row.gen)
  BY <1>1, <1>2, <1>3
<1> QED
  BY <1>4 DEF Gentle, OwnershipInv, OwnershipTypeOK, jvmVars

\* A gentle step of the effect of a boot.
LEMMA EffectMove ==
  ASSUME OwnershipInv, NEW b \in Boots, NEW a \in Adapter, NEW x \in Fiber,
         Gentle,
         adapter' = [adapter EXCEPT ![b] = a],
         fiber' = [fiber EXCEPT ![b]["effect"] = x],
         x.at # "spawn",
         AdapterSound(a, x), EffectSound(a, x), FiberSound(x)
  PROVE  OwnershipInv'
<1>1. OwnershipTypeOK
  BY DEF OwnershipInv
<1>2. /\ adapter' \in [Boots -> Adapter]
      /\ adapter'[b] = a
      /\ \A c \in Boots \ {b} : adapter'[c] = adapter[c]
  BY <1>1, AdapterPut
<1>3. /\ fiber' \in [Boots -> [Fibers -> Fiber]]
      /\ fiber'[b]["effect"] = x
      /\ fiber'[b]["watch"] = fiber[b]["watch"]
      /\ \A c \in Boots \ {b} : fiber'[c] = fiber[c]
  BY <1>1, FiberPut DEF Fibers
<1>4. BootSound(adapter'[b], fiber'[b])
  BY <1>2, <1>3 DEF OwnershipInv, BootSound
<1> QED
  BY <1>2, <1>3, <1>4, Move

\* A gentle step of the watch of a boot.
LEMMA WatchMove ==
  ASSUME OwnershipInv, NEW b \in Boots, NEW a \in Adapter, NEW x \in Fiber,
         Gentle,
         adapter' = [adapter EXCEPT ![b] = a],
         fiber' = [fiber EXCEPT ![b]["watch"] = x],
         AdapterSound(a, fiber[b]["effect"]), EffectSound(a, fiber[b]["effect"]),
         WatchSound(x), FiberSound(x)
  PROVE  OwnershipInv'
<1>1. OwnershipTypeOK
  BY DEF OwnershipInv
<1>2. /\ adapter' \in [Boots -> Adapter]
      /\ adapter'[b] = a
      /\ \A c \in Boots \ {b} : adapter'[c] = adapter[c]
  BY <1>1, AdapterPut
<1>3. /\ fiber' \in [Boots -> [Fibers -> Fiber]]
      /\ fiber'[b]["watch"] = x
      /\ fiber'[b]["effect"] = fiber[b]["effect"]
      /\ \A c \in Boots \ {b} : fiber'[c] = fiber[c]
  BY <1>1, FiberPut DEF Fibers
<1>4. BootSound(adapter'[b], fiber'[b])
  BY <1>2, <1>3 DEF OwnershipInv, BootSound
<1> QED
  BY <1>2, <1>3, <1>4, Move

\* What the invariant says of one boot.
LEMMA BootFacts ==
  ASSUME OwnershipInv, NEW b \in Boots
  PROVE  /\ adapter[b] \in Adapter
         /\ adapter = [adapter EXCEPT ![b] = adapter[b]]
         /\ fiber[b]["effect"] \in Fiber /\ fiber[b]["watch"] \in Fiber
         /\ AdapterSound(adapter[b], fiber[b]["effect"])
         /\ EffectSound(adapter[b], fiber[b]["effect"])
         /\ WatchSound(fiber[b]["watch"])
         /\ FiberSound(fiber[b]["effect"])
         /\ FiberSound(fiber[b]["watch"])
BY DEF OwnershipInv, OwnershipTypeOK, BootSound, Fibers

\* An inspection by the effect leaves a sound boot.
LEMMA EffectLooks ==
  ASSUME OwnershipInv, NEW b \in Boots, NEW a \in Adapter, NEW x \in Fiber,
         AdapterSound(a, fiber[b]["effect"]), EffectSound(a, fiber[b]["effect"]),
         fiber[b]["effect"].at \notin {"spawn", "attach"},
         x.at \in {"inspected", "failed", "release", "letgo"},
         x.doing \in {"start", "stop"}
  PROVE  AdapterSound(a, x) /\ EffectSound(a, x) /\ x.at # "spawn"
<1>1. AdapterSound(a, x)
  BY DEF AdapterSound
<1>2. EffectSound(a, x)
  BY DEF EffectSound, EffectPlaces, LaunchPlaces
<1> QED
  BY <1>1, <1>2

-----------------------------------------------------------------------------
(* The ownership loop. *)

LoopPlaces == {"find", "probe", "clear", "orphan"}

\* A dead process that was spawned has nothing left to fence.
LEMMA DeadSpent ==
  ASSUME OwnershipInv, NEW g \in Generations, jvm[g] \in {"gone", "closed"}
  PROVE  Spent(g)
<1>1. g <= minted
  BY DEF OwnershipInv, LiveJvmFenced, OwnershipTypeOK, Generations
<1>2. \A b \in Boots : ~Spawning(b, g)
  BY DEF OwnershipInv, BootSound, EffectSound, Spawning
<1> QED
  BY <1>1, <1>2 DEF Spent

\* A gentle step of the loop goes on, or leaves it where its caller expects.
LEMMA LoopMove ==
  ASSUME OwnershipInv, NEW b \in Boots, NEW f \in Fibers, NEW x \in Fiber,
         Gentle, UNCHANGED adapter,
         fiber' = [fiber EXCEPT ![b][f] = x],
         fiber[b][f].at \in LoopPlaces \cup {"reserve"},
         x.doing = fiber[b][f].doing,
         x.at \in LoopPlaces \cup {"thrown"}
              \cup (IF f = "watch" THEN {"settled", "age"} ELSE {"reserve"}),
         FiberSound(x)
  PROVE  OwnershipInv'
<1>1. /\ adapter[b] \in Adapter
      /\ adapter' = [adapter EXCEPT ![b] = adapter[b]]
      /\ AdapterSound(adapter[b], fiber[b]["effect"])
      /\ EffectSound(adapter[b], fiber[b]["effect"])
      /\ WatchSound(fiber[b]["watch"])
  BY BootFacts
<1>2. CASE f = "effect"
  <2>1. x.at \in LoopPlaces \cup {"thrown", "reserve"}
    BY <1>2
  <2>2. fiber[b]["effect"].at \in LoopPlaces \cup {"reserve"}
    BY <1>2
  <2>3. AdapterSound(adapter[b], x)
    BY <1>1, <2>1, <2>2 DEF AdapterSound, LoopPlaces
  <2>4. EffectSound(adapter[b], x)
    BY <1>1, <1>2, <2>1, <2>2 DEF EffectSound, LoopPlaces, LaunchPlaces, EffectPlaces
  <2>5. x.at # "spawn"
    BY <2>1 DEF LoopPlaces
  <2> QED
    BY <1>1, <1>2, <2>3, <2>4, <2>5, EffectMove
<1>3. CASE f = "watch"
  <2>1. WatchSound(x)
    BY <1>1, <1>3 DEF WatchSound, LoopPlaces, WatchPlaces
  <2> QED
    BY <1>1, <1>3, <2>1, WatchMove
<1> QED
  BY <1>2, <1>3 DEF Fibers

\* Giving up or reading the row again.
LEMMA TriesAgainSound ==
  ASSUME NEW fib \in Fiber, FiberSound(fib)
  PROVE  /\ Thrown(fib) \in Fiber
         /\ Thrown(fib).at = "thrown" /\ Thrown(fib).doing = fib.doing
         /\ FiberSound(Thrown(fib))
         /\ TriesAgain(fib) \in Fiber
         /\ TriesAgain(fib).at \in {"find", "thrown"}
         /\ TriesAgain(fib).doing = fib.doing
         /\ FiberSound(TriesAgain(fib))
<1>1. /\ Thrown(fib) \in Fiber
      /\ Thrown(fib).at = "thrown" /\ Thrown(fib).doing = fib.doing
      /\ Thrown(fib).seen = Resting.seen
  BY RestingFacts DEF Thrown, Fiber
<1>2. FiberSound(Thrown(fib))
  BY <1>1, RestingFacts DEF FiberSound
<1>3. CASE fib.tries + 1 = Attempts
  BY <1>1, <1>2, <1>3 DEF TriesAgain
<1>4. CASE fib.tries + 1 # Attempts
  <2>1. TriesAgain(fib) = [fib EXCEPT !.at = "find", !.gen = NoGeneration,
                                      !.saw = "none", !.tries = fib.tries + 1]
    BY <1>4 DEF TriesAgain
  <2>2. fib.tries + 1 \in 0 .. Attempts - 1
    BY <1>4 DEF Fiber
  <2>3. "none" \in Statuses /\ NoGeneration \in Owners
    BY DEF Statuses, Owners
  <2>4. /\ TriesAgain(fib) \in Fiber
        /\ TriesAgain(fib).at = "find" /\ TriesAgain(fib).doing = fib.doing
        /\ TriesAgain(fib).seen = fib.seen
    BY <2>1, <2>2, <2>3 DEF Fiber
  <2> QED
    BY <1>1, <1>2, <2>4 DEF FiberSound
<1> QED
  BY <1>3, <1>4

\* An owner that is not proven dead is marked or left alone.
LEMMA NotDeadSound ==
  ASSUME NEW fib \in Fiber, FiberSound(fib), NEW g \in Owners, NEW status \in Statuses
  PROVE  /\ NotDead(fib, g, status) \in Fiber
         /\ NotDead(fib, g, status).doing = fib.doing
         /\ NotDead(fib, g, status).at \in {"orphan", "thrown"}
              \cup (IF fib.doing = "watch" THEN {"settled"} ELSE {})
         /\ FiberSound(NotDead(fib, g, status))
<1>1. CASE status # "orphaned"
  <2>1. NotDead(fib, g, status)
          = [fib EXCEPT !.at = "orphan", !.gen = g, !.saw = "none"]
    BY <1>1 DEF NotDead
  <2>2. "none" \in Statuses
    BY DEF Statuses
  <2>3. /\ NotDead(fib, g, status) \in Fiber
        /\ NotDead(fib, g, status).at = "orphan"
        /\ NotDead(fib, g, status).doing = fib.doing
        /\ NotDead(fib, g, status).seen = fib.seen
    BY <2>1, <2>2 DEF Fiber
  <2> QED
    BY <2>3 DEF FiberSound
<1>2. CASE status = "orphaned" /\ fib.doing = "watch"
  <2>1. NotDead(fib, g, status) = Settled
    BY <1>2 DEF NotDead
  <2>2. /\ Settled \in Fiber /\ Settled.at = "settled"
        /\ Settled.doing = "watch" /\ Settled.seen = Resting.seen
    BY RestingFacts DEF Settled, Fiber
  <2> QED
    BY <1>2, <2>1, <2>2, RestingFacts DEF FiberSound
<1>3. CASE status = "orphaned" /\ fib.doing # "watch"
  <2>1. NotDead(fib, g, status) = Thrown(fib)
    BY <1>3 DEF NotDead
  <2> QED
    BY <2>1, TriesAgainSound
<1> QED
  BY <1>1, <1>2, <1>3

-----------------------------------------------------------------------------
(* One lemma per action: those the effect and the watch share. *)

\* The fiber of a boot, whichever it is.
LEMMA FiberFacts ==
  ASSUME OwnershipInv, NEW b \in Boots, NEW f \in Fibers
  PROVE  fiber[b][f] \in Fiber /\ FiberSound(fiber[b][f])
         /\ (f = "watch" => fiber[b][f].doing = "watch")
         /\ (f = "effect" /\ fiber[b][f].at # "idle" => fiber[b][f].doing # "watch")
BY BootFacts DEF Fibers, WatchSound, EffectSound

\* Reading the ownership row.
LEMMA OwnershipFoundInv ==
  ASSUME OwnershipInv, NEW b \in Boots, NEW f \in Fibers, OwnershipFound(b, f)
  PROVE  OwnershipInv'
<1> DEFINE fib == fiber[b][f]
<1>1. fib \in Fiber /\ FiberSound(fib) /\ fib.at = "find"
  BY FiberFacts DEF OwnershipFound
<1>2. Gentle /\ UNCHANGED adapter
  BY GentleMemory DEF OwnershipFound, OwnershipInv, OwnershipTypeOK
<1>3. row \in Row /\ row.gen \in Owners /\ row.status \in Statuses
  BY DEF OwnershipInv, OwnershipTypeOK, Row
<1>4. CASE row.gen = NoGeneration \/ (f = "watch" /\ row.boot = b)
  <2> DEFINE x == [fib EXCEPT !.at = IF f = "watch" THEN "age" ELSE "reserve",
                              !.gen = NoGeneration]
  <2>1. fiber' = [fiber EXCEPT ![b][f] = x]
    BY <1>4 DEF OwnershipFound
  <2>2. /\ x \in Fiber /\ x.doing = fib.doing /\ x.seen = fib.seen
        /\ x.at = IF f = "watch" THEN "age" ELSE "reserve"
    BY <1>1 DEF Fiber, Owners
  <2>3. FiberSound(x)
    BY <1>1, <2>2 DEF FiberSound
  <2> HIDE DEF x
  <2> QED
    BY <1>1, <1>2, <2>1, <2>2, <2>3, LoopMove DEF LoopPlaces
<1>5. CASE ~(row.gen = NoGeneration \/ (f = "watch" /\ row.boot = b))
           /\ row.pid = NoGeneration
  <2> DEFINE x == NotDead(fib, row.gen, row.status)
  <2>1. fiber' = [fiber EXCEPT ![b][f] = x]
    BY <1>5 DEF OwnershipFound
  <2>2. /\ x \in Fiber /\ x.doing = fib.doing /\ FiberSound(x)
        /\ x.at \in {"orphan", "thrown"}
             \cup (IF fib.doing = "watch" THEN {"settled"} ELSE {})
    BY <1>1, <1>3, NotDeadSound
  <2>3. fib.doing = "watch" => f = "watch"
    BY <1>1, FiberFacts DEF Fibers
  <2> HIDE DEF x
  <2> QED
    BY <1>1, <1>2, <2>1, <2>2, <2>3, LoopMove DEF LoopPlaces
<1>6. CASE ~(row.gen = NoGeneration \/ (f = "watch" /\ row.boot = b))
           /\ row.pid # NoGeneration
  <2> DEFINE x == [fib EXCEPT !.at = "probe", !.gen = row.gen, !.saw = row.status]
  <2>1. fiber' = [fiber EXCEPT ![b][f] = x]
    BY <1>6 DEF OwnershipFound
  <2>2. /\ x \in Fiber /\ x.doing = fib.doing /\ x.seen = fib.seen
        /\ x.at = "probe" /\ x.gen = row.gen
    BY <1>1, <1>3 DEF Fiber
  <2>3. row.gen \in Generations /\ jvm[row.gen] # "none"
    BY <1>3, <1>6 DEF OwnershipInv, RowSound, Owners
  <2>4. FiberSound(x)
    BY <1>1, <2>2, <2>3 DEF FiberSound
  <2> HIDE DEF x
  <2> QED
    BY <1>1, <1>2, <2>1, <2>2, <2>4, LoopMove DEF LoopPlaces
<1> QED
  BY <1>4, <1>5, <1>6

\* Probing the pid of the owner: only a dead process is taken for dead.
LEMMA LivenessProbedInv ==
  ASSUME OwnershipInv, NEW b \in Boots, NEW f \in Fibers, LivenessProbed(b, f)
  PROVE  OwnershipInv'
<1> DEFINE fib == fiber[b][f]
<1>1. fib \in Fiber /\ FiberSound(fib) /\ fib.at = "probe"
  BY FiberFacts DEF LivenessProbed
<1>2. Gentle /\ UNCHANGED adapter
  BY GentleMemory DEF LivenessProbed, OwnershipInv, OwnershipTypeOK
<1>3. fib.gen \in Generations
  BY <1>1 DEF FiberSound
<1>4. CASE /\ jvm[fib.gen] \in {"gone", "closed"}
           /\ fiber' = [fiber EXCEPT ![b][f].at = "clear", ![b][f].saw = "none"]
  <2> DEFINE x == [fib EXCEPT !.at = "clear", !.saw = "none"]
  <2>1. fiber' = [fiber EXCEPT ![b][f] = x]
    BY <1>4 DEF OwnershipInv, OwnershipTypeOK
  <2>2. /\ x \in Fiber /\ x.doing = fib.doing /\ x.seen = fib.seen
        /\ x.at = "clear" /\ x.gen = fib.gen
    BY <1>1 DEF Fiber, Statuses
  <2>3. FiberSound(x)
    BY <1>1, <1>3, <1>4, <2>2, DeadSpent DEF FiberSound
  <2> HIDE DEF x
  <2> QED
    BY <1>1, <1>2, <2>1, <2>2, <2>3, LoopMove DEF LoopPlaces
<1>5. CASE fiber' = [fiber EXCEPT ![b][f] = NotDead(fib, fib.gen, fib.saw)]
  <2> DEFINE x == NotDead(fib, fib.gen, fib.saw)
  <2>1. fib.gen \in Owners /\ fib.saw \in Statuses
    BY <1>1 DEF Fiber
  <2>2. /\ x \in Fiber /\ x.doing = fib.doing /\ FiberSound(x)
        /\ x.at \in {"orphan", "thrown"}
             \cup (IF fib.doing = "watch" THEN {"settled"} ELSE {})
    BY <1>1, <2>1, NotDeadSound
  <2>3. fib.doing = "watch" => f = "watch"
    BY <1>1, FiberFacts DEF Fibers
  <2> HIDE DEF x
  <2> QED
    BY <1>1, <1>2, <1>5, <2>2, <2>3, LoopMove DEF LoopPlaces, x
<1> QED
  BY <1>4, <1>5 DEF LivenessProbed

\* Where the loop goes once its call has answered or failed.
LEMMA LoopOutcome ==
  ASSUME OwnershipInv, NEW b \in Boots, NEW f \in Fibers,
         Gentle, UNCHANGED adapter, fiber[b][f].at \in LoopPlaces \cup {"reserve"},
         NEW x, x \in {Thrown(fiber[b][f]), TriesAgain(fiber[b][f])}
                  \cup (IF f = "watch" THEN {Settled} ELSE {}),
         fiber' = [fiber EXCEPT ![b][f] = x]
  PROVE  OwnershipInv'
<1>1. /\ fiber[b][f] \in Fiber /\ FiberSound(fiber[b][f])
      /\ f = "watch" => fiber[b][f].doing = "watch"
  BY FiberFacts
<1>2. /\ Settled \in Fiber /\ Settled.at = "settled"
      /\ Settled.doing = "watch" /\ Settled.seen = Resting.seen
  BY RestingFacts DEF Settled, Fiber
<1>3. FiberSound(Settled)
  BY <1>2, RestingFacts DEF FiberSound
<1>4. CASE x = Settled /\ f = "watch"
  BY <1>1, <1>2, <1>3, <1>4, LoopMove DEF LoopPlaces
<1>5. CASE x = Thrown(fiber[b][f])
  BY <1>1, <1>5, TriesAgainSound, LoopMove DEF LoopPlaces
<1>6. CASE x = TriesAgain(fiber[b][f])
  <2>1. /\ x \in Fiber /\ x.at \in {"find", "thrown"}
        /\ x.doing = fiber[b][f].doing /\ FiberSound(x)
    BY <1>1, <1>6, TriesAgainSound
  <2> QED
    BY <2>1, LoopMove DEF LoopPlaces
<1> QED
  BY <1>4, <1>5, <1>6

\* Deleting the row of a dead owner.
LEMMA DeadOwnerClearedInv ==
  ASSUME OwnershipInv, NEW b \in Boots, NEW f \in Fibers, DeadOwnerCleared(b, f)
  PROVE  OwnershipInv'
<1> DEFINE fib == fiber[b][f]
<1>1. fib.at = "clear" /\ Spent(fib.gen) /\ UNCHANGED adapter
  BY FiberFacts DEF DeadOwnerCleared, FiberSound
<1>2. row' = row \/ row' = Without(fib.gen)
  BY DEF DeadOwnerCleared
<1>3. UNCHANGED <<published, minted, jvmVars, boot>>
  BY DEF DeadOwnerCleared
<1>4. Gentle
  BY <1>1, <1>2, <1>3, GentleDelete
<1>5. PICK x \in {Thrown(fib), TriesAgain(fib)} \cup (IF f = "watch" THEN {Settled} ELSE {}) :
         fiber' = [fiber EXCEPT ![b][f] = x]
  BY DEF DeadOwnerCleared
<1> QED
  BY <1>1, <1>4, <1>5, LoopOutcome DEF LoopPlaces

\* Marking the row of an owner that is not proven dead.
LEMMA OwnerOrphanedInv ==
  ASSUME OwnershipInv, NEW b \in Boots, NEW f \in Fibers, OwnerOrphaned(b, f)
  PROVE  OwnershipInv'
<1> DEFINE fib == fiber[b][f]
<1>1. fib.at = "orphan" /\ UNCHANGED adapter
  BY DEF OwnerOrphaned
<1>2. row \in Row
  BY DEF OwnershipInv, OwnershipTypeOK
<1>3. row' = row \/ row' = [row EXCEPT !.status = "orphaned"]
  BY DEF OwnerOrphaned
<1>4. row' \in Row /\ row'.gen = row.gen /\ row'.pid = row.pid
  BY <1>2, <1>3 DEF Row, Statuses
<1>5. Gentle
  BY <1>4 DEF OwnerOrphaned, Gentle, OwnershipInv, OwnershipTypeOK, jvmVars
<1>6. PICK x \in {Thrown(fib), TriesAgain(fib)} \cup (IF f = "watch" THEN {Settled} ELSE {}) :
         fiber' = [fiber EXCEPT ![b][f] = x]
  BY DEF OwnerOrphaned
<1> QED
  BY <1>1, <1>5, <1>6, LoopOutcome DEF LoopPlaces

\* A failed read.
LEMMA FindFailsInv ==
  ASSUME OwnershipInv, NEW b \in Boots, NEW f \in Fibers, FindFails(b, f)
  PROVE  OwnershipInv'
<1>1. Gentle /\ UNCHANGED adapter /\ fiber[b][f].at = "find"
  BY GentleMemory DEF FindFails, OwnershipInv, OwnershipTypeOK
<1>2. fiber' = [fiber EXCEPT ![b][f] = Thrown(fiber[b][f])]
  BY DEF FindFails
<1> QED
  BY <1>1, <1>2, LoopOutcome DEF LoopPlaces

\* A release answers, and its inspection goes on.
LEMMA LeaseReleasedInv ==
  ASSUME OwnershipInv, NEW b \in Boots, NEW f \in Fibers, LeaseReleased(b, f)
  PROVE  OwnershipInv'
<1> DEFINE fib == fiber[b][f]
           e == fiber[b]["effect"]
<1>1. fib \in Fiber /\ fib.at \in {"release", "letgo"} /\ FiberSound(fib)
  BY FiberFacts DEF LeaseReleased
<1>2. Spent(fib.gen)
  BY <1>1 DEF FiberSound
<1>3. PICK reply \in Replies :
        LET a == Relieved(adapter[b], fib.gen, reply) IN
        /\ row' = IF reply = "failed" THEN row ELSE Without(fib.gen)
        /\ Resume(b, f, IF fib.at = "release" THEN Looked(a, fib)
                        ELSE [adapter |-> a, fiber |-> Told(a, fib)])
  BY DEF LeaseReleased
<1> DEFINE a == Relieved(adapter[b], fib.gen, reply)
           r == IF fib.at = "release" THEN Looked(a, fib)
                ELSE [adapter |-> a, fiber |-> Told(a, fib)]
<1>4. Gentle
  BY <1>2, <1>3, GentleDelete DEF LeaseReleased
<1>5. /\ adapter[b] \in Adapter /\ e \in Fiber
      /\ AdapterSound(adapter[b], e) /\ EffectSound(adapter[b], e)
  BY BootFacts
<1>6. /\ a \in Adapter
      /\ a.state = adapter[b].state /\ a.handle = adapter[b].handle
      /\ a.launching = adapter[b].launching
      /\ a.pidPublished = adapter[b].pidPublished
      /\ a.lease \in {NoGeneration, adapter[b].lease}
  BY <1>5 DEF Relieved, Adapter, Owners
<1>7. a \in Adapter /\ AdapterSound(a, e)
  BY <1>5, <1>6 DEF AdapterSound
<1>8. EffectSound(a, e)
  BY <1>5, <1>6 DEF EffectSound
<1> HIDE DEF a
<1>9. fib.seen.pid # NoGeneration => Recorded(fib.seen.pid)
  BY <1>1 DEF FiberSound
<1>10. /\ r.adapter \in Adapter /\ r.fiber \in Fiber
       /\ r.fiber.doing = fib.doing
       /\ r.fiber.at \in InspectedPlaces(fib)
       /\ FiberSound(r.fiber)
       /\ AdapterSound(r.adapter, e) /\ EffectSound(r.adapter, e)
  <2>1. CASE fib.at = "release"
    <3>1. r = Looked(a, fib)
      BY <2>1
    <3> QED
      BY <1>1, <1>5, <1>7, <1>8, <1>9, <3>1, LookedSound
  <2>2. CASE fib.at # "release"
    <3>1. r.adapter = a /\ r.fiber = Told(a, fib)
      BY <2>2
    <3>2. a.pidPublished => Recorded(a.handle)
      BY <1>7 DEF AdapterSound
    <3>3. /\ r.fiber \in Fiber /\ r.fiber.doing = fib.doing /\ FiberSound(r.fiber)
          /\ r.fiber.at = IF fib.doing = "watch" THEN "publish" ELSE "inspected"
      BY <1>1, <1>7, <3>1, <3>2, ToldSound
    <3> QED
      BY <1>7, <1>8, <3>1, <3>3 DEF InspectedPlaces
  <2> QED
    BY <2>1, <2>2
<1>11. /\ adapter' = [adapter EXCEPT ![b] = r.adapter]
       /\ fiber' = [fiber EXCEPT ![b][f] = r.fiber]
  BY <1>3 DEF Resume, a
<1> HIDE DEF r
<1>12. CASE f = "watch"
  <2>1. WatchSound(r.fiber)
    BY <1>10, <1>12, FiberFacts DEF WatchSound, InspectedPlaces, WatchPlaces
  <2> QED
    BY <1>4, <1>10, <1>11, <1>12, <2>1, WatchMove
<1>13. CASE f = "effect"
  <2>1. e.doing \in {"start", "stop"} /\ e.at \in {"release", "letgo"}
    BY <1>1, <1>5, <1>13 DEF EffectSound
  <2>2. AdapterSound(r.adapter, r.fiber) /\ EffectSound(r.adapter, r.fiber)
        /\ r.fiber.at # "spawn"
    BY <1>10, <1>13, <2>1, EffectLooks DEF InspectedPlaces
  <2> QED
    BY <1>4, <1>10, <1>11, <1>13, <2>2, EffectMove
<1> QED
  BY <1>12, <1>13 DEF Fibers

-----------------------------------------------------------------------------
(* The actions of the effect. *)

\* An effect that comes to rest leaves its adapter sound.
LEMMA EffectRests ==
  ASSUME OwnershipInv, NEW b \in Boots, NEW a \in Adapter, Gentle,
         adapter' = [adapter EXCEPT ![b] = a], Rest(b, "effect"),
         AdapterSound(a, fiber[b]["effect"]),
         fiber[b]["effect"].at # "spawn",
         fiber[b]["effect"].at = "attach" => a.state # "offline"
  PROVE  OwnershipInv'
<1>1. AdapterSound(a, Resting)
  BY RestingFacts DEF AdapterSound
<1>2. EffectSound(a, Resting)
  BY RestingFacts DEF EffectSound, EffectPlaces, LaunchPlaces
<1> QED
  BY <1>1, <1>2, RestingFacts, EffectMove DEF Rest

\* A fiber that moves on keeps its local variables.
LEMMA FiberGoes ==
  ASSUME OwnershipInv, NEW b \in Boots, NEW f \in Fibers, NEW place,
         Goto(b, f, place),
         place \in {"find", "abandon", "attach", "waiting", "age", "thrown"}
  PROVE  \E x \in Fiber :
            /\ fiber' = [fiber EXCEPT ![b][f] = x]
            /\ x.at = place /\ x.doing = fiber[b][f].doing
            /\ x.gen = fiber[b][f].gen
            /\ x.seen = fiber[b][f].seen
<1> DEFINE x == [fiber[b][f] EXCEPT !.at = place]
<1>1. fiber[b][f] \in Fiber
  BY FiberFacts
<1>2. /\ x \in Fiber /\ x.at = place /\ x.doing = fiber[b][f].doing
      /\ x.gen = fiber[b][f].gen /\ x.seen = fiber[b][f].seen
  BY <1>1 DEF Fiber
<1>3. fiber' = [fiber EXCEPT ![b][f] = x]
  BY GotoPut DEF OwnershipInv
<1> QED
  BY <1>2, <1>3

\* An effect begins with an inspection.
LEMMA EffectBeginsInv ==
  ASSUME OwnershipInv, NEW b \in Boots, EffectBegins(b)
  PROVE  OwnershipInv'
<1> DEFINE e == fiber[b]["effect"]
<1>1. e.at = "idle"
  BY DEF EffectBegins
<1>2. PICK kind \in Requests :
        Resume(b, "effect", Inspected(adapter[b], [Resting EXCEPT !.doing = kind]))
  BY DEF EffectBegins
<1> DEFINE fib == [Resting EXCEPT !.doing = kind]
           r == Inspected(adapter[b], fib)
<1>3. kind \in {"start", "stop"}
  OBVIOUS
<1>4. /\ fib \in Fiber /\ fib.doing = kind
      /\ fib.seen.pid = NoGeneration
  BY <1>3, RestingFacts DEF Fiber
<1> HIDE DEF fib
<1>5. /\ adapter[b] \in Adapter /\ e \in Fiber
      /\ AdapterSound(adapter[b], e) /\ EffectSound(adapter[b], e)
  BY BootFacts
<1>6. /\ r.adapter \in Adapter /\ r.fiber \in Fiber
      /\ r.fiber.doing = fib.doing
      /\ r.fiber.at \in InspectedPlaces(fib)
      /\ FiberSound(r.fiber)
      /\ AdapterSound(r.adapter, e) /\ EffectSound(r.adapter, e)
  BY <1>4, <1>5, InspectedSound
<1>7. /\ adapter' = [adapter EXCEPT ![b] = r.adapter]
      /\ fiber' = [fiber EXCEPT ![b]["effect"] = r.fiber]
  BY <1>2 DEF Resume, fib
<1>8. Gentle
  BY GentleMemory DEF EffectBegins, OwnershipInv, OwnershipTypeOK
<1> HIDE DEF r
<1>9. AdapterSound(r.adapter, r.fiber) /\ EffectSound(r.adapter, r.fiber)
      /\ r.fiber.at # "spawn"
  BY <1>1, <1>3, <1>4, <1>6, EffectLooks DEF InspectedPlaces
<1> QED
  BY <1>6, <1>7, <1>8, <1>9, EffectMove

\* An effect that is refused.
LEMMA EffectEndsInv ==
  ASSUME OwnershipInv, NEW b \in Boots, EffectEnds(b)
  PROVE  OwnershipInv'
<1>1. fiber[b]["effect"].at \in {"failed", "inspected"}
  BY DEF EffectEnds
<1>2. Gentle /\ UNCHANGED adapter /\ Rest(b, "effect")
  BY GentleMemory DEF EffectEnds, OwnershipInv, OwnershipTypeOK
<1> QED
  BY <1>1, <1>2, BootFacts, EffectRests

\* A launch begins from offline, with no process in hand.
LEMMA LaunchBeginsInv ==
  ASSUME OwnershipInv, NEW b \in Boots, LaunchBegins(b)
  PROVE  OwnershipInv'
<1> DEFINE e == fiber[b]["effect"]
           a == [adapter[b] EXCEPT !.launching = TRUE]
<1>1. /\ e.at = "inspected" /\ e.doing = "start"
      /\ adapter[b].state = "offline"
  BY DEF LaunchBegins
<1>2. /\ adapter[b] \in Adapter /\ AdapterSound(adapter[b], e) /\ FiberSound(e)
  BY BootFacts
<1>3. adapter' = [adapter EXCEPT ![b] = a]
  BY DEF LaunchBegins, OwnershipInv, OwnershipTypeOK
<1>4. /\ a \in Adapter /\ a.launching = TRUE
      /\ a.state = "offline" /\ a.handle = adapter[b].handle
      /\ a.lease = adapter[b].lease /\ a.pidPublished = adapter[b].pidPublished
  BY <1>1, <1>2 DEF Adapter
<1> HIDE DEF a
<1>5. PICK x \in Fiber :
        /\ fiber' = [fiber EXCEPT ![b]["effect"] = x]
        /\ x.at = "find" /\ x.doing = e.doing
        /\ x.gen = e.gen /\ x.seen = e.seen
  BY FiberGoes DEF LaunchBegins, Fibers
<1>6. a.handle = NoGeneration
  BY <1>1, <1>2, <1>4 DEF AdapterSound
<1>7. AdapterSound(a, x)
  BY <1>1, <1>2, <1>4, <1>5, <1>6 DEF AdapterSound
<1>8. EffectSound(a, x)
  BY <1>1, <1>4, <1>5, <1>6 DEF EffectSound, EffectPlaces, LaunchPlaces
<1>9. FiberSound(x)
  BY <1>2, <1>5 DEF FiberSound
<1>10. Gentle
  BY GentleMemory DEF LaunchBegins, OwnershipInv, OwnershipTypeOK
<1> QED
  BY <1>3, <1>4, <1>5, <1>7, <1>8, <1>9, <1>10, EffectMove

\* A launch that was refused gives the adapter back as it was.
LEMMA LaunchRefusedInv ==
  ASSUME OwnershipInv, NEW b \in Boots, LaunchRefused(b)
  PROVE  OwnershipInv'
<1> DEFINE e == fiber[b]["effect"]
           a == [adapter[b] EXCEPT !.launching = FALSE]
<1>1. e.at = "thrown"
  BY DEF LaunchRefused
<1>2. /\ adapter[b] \in Adapter /\ AdapterSound(adapter[b], e)
  BY BootFacts
<1>3. adapter' = [adapter EXCEPT ![b] = a]
  BY DEF LaunchRefused, OwnershipInv, OwnershipTypeOK
<1>4. /\ a \in Adapter
      /\ a.state = adapter[b].state /\ a.handle = adapter[b].handle
      /\ a.lease = adapter[b].lease /\ a.pidPublished = adapter[b].pidPublished
  BY <1>2 DEF Adapter
<1> HIDE DEF a
<1>5. AdapterSound(a, e)
  BY <1>2, <1>4 DEF AdapterSound
<1>6. Gentle /\ Rest(b, "effect")
  BY GentleMemory DEF LaunchRefused, OwnershipInv, OwnershipTypeOK
<1> QED
  BY <1>1, <1>3, <1>4, <1>5, <1>6, EffectRests

\* A stop begins from online, with a process in hand.
LEMMA StopBeginsInv ==
  ASSUME OwnershipInv, NEW b \in Boots, StopBegins(b)
  PROVE  OwnershipInv'
<1> DEFINE e == fiber[b]["effect"]
           a == [adapter[b] EXCEPT !.state = "stopping"]
<1>1. /\ e.at = "inspected" /\ e.doing = "stop"
      /\ adapter[b].state = "online" /\ adapter[b].handle # NoGeneration
  BY DEF StopBegins
<1>2. /\ adapter[b] \in Adapter /\ AdapterSound(adapter[b], e)
      /\ e \in Fiber /\ FiberSound(e)
  BY BootFacts
<1>3. adapter' = [adapter EXCEPT ![b] = a]
  BY <1>1, AfterFacts DEF StopBegins, OwnershipInv, OwnershipTypeOK
<1>4. /\ a \in Adapter
      /\ a.state = "stopping" /\ a.handle = adapter[b].handle
      /\ a.lease = adapter[b].lease /\ a.pidPublished = adapter[b].pidPublished
  BY <1>2 DEF Adapter, States
<1>5. adapter[b].handle \in Owners
  BY <1>2 DEF Adapter
<1>6. GotoWith(b, "effect", "asking", adapter[b].handle)
  BY DEF StopBegins
<1>7. PICK x \in Fiber :
        /\ fiber' = [fiber EXCEPT ![b]["effect"] = x]
        /\ x.at = "asking" /\ x.gen = adapter[b].handle
        /\ x.doing = e.doing /\ x.seen = e.seen
  BY <1>5, <1>6, GotoWithPut DEF OwnershipInv, Fibers
<1> HIDE DEF a
<1>8. AdapterSound(a, x)
  BY <1>1, <1>2, <1>4, <1>7 DEF AdapterSound
<1>9. EffectSound(a, x)
  BY <1>1, <1>5, <1>7 DEF EffectSound, EffectPlaces, LaunchPlaces, Owners
<1>10. FiberSound(x)
  BY <1>2, <1>7 DEF FiberSound
<1>11. Gentle
  BY GentleMemory DEF StopBegins, OwnershipInv, OwnershipTypeOK
<1> QED
  BY <1>3, <1>4, <1>7, <1>8, <1>9, <1>10, <1>11, EffectMove

\* A fault found by an effect leaves its adapter sound.
LEMMA FaultedSound ==
  ASSUME NEW a \in Adapter, NEW e, AdapterSound(a, e)
  PROVE  Faulted(a) \in Adapter /\ AdapterSound(Faulted(a), e)
<1>1. /\ Faulted(a) \in Adapter
      /\ Faulted(a).state \in {a.state, "error"}
      /\ Faulted(a).handle = a.handle
      /\ Faulted(a).lease = a.lease
      /\ Faulted(a).pidPublished = a.pidPublished
  BY FaultedFacts
<1> QED
  BY <1>1 DEF AdapterSound

\* Asking the process to stop.
LEMMA StopAskedInv ==
  ASSUME OwnershipInv, NEW b \in Boots, StopAsked(b)
  PROVE  OwnershipInv'
<1> DEFINE e == fiber[b]["effect"]
<1>1. e.at = "asking"
  BY DEF StopAsked
<1>2. Gentle
  BY GentleMemory DEF StopAsked, OwnershipInv, OwnershipTypeOK
<1>3. /\ adapter[b] \in Adapter /\ adapter = [adapter EXCEPT ![b] = adapter[b]]
      /\ AdapterSound(adapter[b], e) /\ EffectSound(adapter[b], e) /\ FiberSound(e)
  BY BootFacts
<1>4. CASE Goto(b, "effect", "waiting") /\ UNCHANGED adapter
  <2>1. PICK x \in Fiber :
          /\ fiber' = [fiber EXCEPT ![b]["effect"] = x]
          /\ x.at = "waiting" /\ x.doing = e.doing
          /\ x.gen = e.gen /\ x.seen = e.seen
    BY <1>4, FiberGoes DEF Fibers
  <2>2. AdapterSound(adapter[b], x)
    BY <1>1, <1>3, <2>1 DEF AdapterSound
  <2>3. EffectSound(adapter[b], x)
    BY <1>1, <1>3, <2>1 DEF EffectSound, EffectPlaces, LaunchPlaces
  <2>4. FiberSound(x)
    BY <1>3, <2>1 DEF FiberSound
  <2>5. adapter' = [adapter EXCEPT ![b] = adapter[b]]
    BY <1>3, <1>4
  <2> QED
    BY <1>2, <1>3, <2>1, <2>2, <2>3, <2>4, <2>5, EffectMove
<1>5. CASE adapter' = [adapter EXCEPT ![b] = Faulted(@)] /\ Rest(b, "effect")
  <2>1. adapter' = [adapter EXCEPT ![b] = Faulted(adapter[b])]
    BY <1>5
  <2> QED
    BY <1>1, <1>2, <1>3, <1>5, <2>1, FaultedSound, EffectRests
<1> QED
  BY <1>4, <1>5 DEF StopAsked

\* The end of the wait for an exit.
LEMMA StopWaitedInv ==
  ASSUME OwnershipInv, NEW b \in Boots, StopWaited(b)
  PROVE  OwnershipInv'
<1> DEFINE e == fiber[b]["effect"]
           a == adapter[b]
<1>1. e.at = "waiting"
  BY DEF StopWaited
<1>2. Gentle
  BY GentleMemory DEF StopWaited, OwnershipInv, OwnershipTypeOK
<1>3. /\ a \in Adapter /\ adapter = [adapter EXCEPT ![b] = a]
      /\ AdapterSound(a, e) /\ EffectSound(a, e) /\ FiberSound(e) /\ e \in Fiber
  BY BootFacts
<1>4. CASE Exited(e.gen) /\ a.handle = e.gen
  <2>1. a.handle # NoGeneration /\ Exited(a.handle)
    BY <1>4 DEF Exited
  <2>2. a.state # "offline"
    BY <1>1, <1>3, <2>1 DEF AdapterSound
  <2>3. /\ Parted(a) \in Adapter /\ Parted(a).lease = a.lease
        /\ AdapterSound(Parted(a), e) /\ EffectSound(Parted(a), e)
        /\ a.lease # NoGeneration => Spent(a.lease)
    BY <1>3, <2>1, <2>2, PartedSound
  <2>4. adapter' = [adapter EXCEPT ![b] = Parted(a)]
    BY <1>4 DEF StopWaited
  <2>5. CASE a.lease = NoGeneration
    <3>1. Rest(b, "effect")
      BY <1>4, <2>5 DEF StopWaited
    <3> QED
      BY <1>1, <1>2, <2>3, <2>4, <3>1, EffectRests
  <2>6. CASE a.lease # NoGeneration
    <3>1. GotoWith(b, "effect", "parting", a.lease)
      BY <1>4, <2>6 DEF StopWaited
    <3>2. a.lease \in Owners
      BY <1>3 DEF Adapter
    <3>3. PICK x \in Fiber :
            /\ fiber' = [fiber EXCEPT ![b]["effect"] = x]
            /\ x.at = "parting" /\ x.gen = a.lease
            /\ x.doing = e.doing /\ x.seen = e.seen
      BY <3>1, <3>2, GotoWithPut DEF OwnershipInv, Fibers
    <3>4. AdapterSound(Parted(a), x)
      BY <1>1, <2>3, <3>3 DEF AdapterSound
    <3>5. EffectSound(Parted(a), x)
      BY <1>1, <2>3, <3>3 DEF EffectSound, EffectPlaces, LaunchPlaces
    <3>6. FiberSound(x)
      BY <1>3, <2>3, <2>6, <3>3 DEF FiberSound
    <3> QED
      BY <1>2, <2>3, <2>4, <3>1, <3>3, <3>4, <3>5, <3>6, EffectMove
  <2> QED
    BY <2>5, <2>6
<1>5. CASE ~(Exited(e.gen) /\ a.handle = e.gen)
  <2>1. Rest(b, "effect") /\ UNCHANGED adapter
    BY <1>5 DEF StopWaited
  <2> QED
    BY <1>1, <1>2, <1>3, <2>1, EffectRests
<1> QED
  BY <1>4, <1>5

\* The release after a stop answers, or fails.
LEMMA StopPartedInv ==
  ASSUME OwnershipInv, NEW b \in Boots, StopParted(b)
  PROVE  OwnershipInv'
<1> DEFINE e == fiber[b]["effect"]
<1>1. e.at = "parting" /\ Rest(b, "effect")
  BY DEF StopParted
<1>2. /\ adapter[b] \in Adapter /\ AdapterSound(adapter[b], e) /\ FiberSound(e)
  BY BootFacts
<1>3. Spent(e.gen)
  BY <1>1, <1>2 DEF FiberSound
<1>4. PICK reply \in Replies :
        /\ row' = IF reply = "failed" THEN row ELSE Without(e.gen)
        /\ adapter' = [adapter EXCEPT ![b] = Relieved(adapter[b], e.gen, reply)]
  BY DEF StopParted
<1> DEFINE a == Relieved(adapter[b], e.gen, reply)
<1>5. Gentle
  BY <1>3, <1>4, GentleDelete DEF StopParted
<1>6. /\ a \in Adapter
      /\ a.state = adapter[b].state /\ a.handle = adapter[b].handle
      /\ a.pidPublished = adapter[b].pidPublished
      /\ a.lease \in {NoGeneration, adapter[b].lease}
  BY <1>2 DEF Relieved, Adapter, Owners
<1>7. adapter' = [adapter EXCEPT ![b] = a]
  BY <1>4
<1> HIDE DEF a
<1>8. AdapterSound(a, e)
  BY <1>2, <1>6 DEF AdapterSound
<1> QED
  BY <1>1, <1>5, <1>6, <1>7, <1>8, EffectRests

\* A launch without a child gives its reservation back and faults.
LEMMA LaunchAbandonedInv ==
  ASSUME OwnershipInv, NEW b \in Boots, LaunchAbandoned(b)
  PROVE  OwnershipInv'
<1> DEFINE e == fiber[b]["effect"]
           n == [adapter[b] EXCEPT !.launching = FALSE]
<1>1. e.at = "abandon" /\ Rest(b, "effect")
  BY DEF LaunchAbandoned
<1>2. /\ adapter[b] \in Adapter /\ AdapterSound(adapter[b], e)
      /\ EffectSound(adapter[b], e)
  BY BootFacts
<1>3. Spent(e.gen)
  BY <1>1, <1>2 DEF EffectSound
<1>4. PICK reply \in Replies :
        /\ row' = IF reply = "failed" THEN row ELSE Without(e.gen)
        /\ adapter' = [adapter EXCEPT ![b] = Faulted(Relieved(n, e.gen, reply))]
  BY DEF LaunchAbandoned
<1> DEFINE a == Relieved(n, e.gen, reply)
<1>5. Gentle
  BY <1>3, <1>4, GentleDelete DEF LaunchAbandoned
<1>6. /\ n \in Adapter
      /\ n.state = adapter[b].state /\ n.handle = adapter[b].handle
      /\ n.pidPublished = adapter[b].pidPublished
      /\ n.lease = adapter[b].lease
  BY <1>2 DEF Adapter
<1> HIDE DEF n
<1>7. /\ a \in Adapter
      /\ a.state = adapter[b].state /\ a.handle = adapter[b].handle
      /\ a.pidPublished = adapter[b].pidPublished
      /\ a.lease \in {NoGeneration, adapter[b].lease}
  BY <1>6 DEF Relieved, Adapter, Owners
<1>8. adapter' = [adapter EXCEPT ![b] = Faulted(a)]
  BY <1>4
<1> HIDE DEF a
<1>9. AdapterSound(a, e)
  BY <1>2, <1>7 DEF AdapterSound
<1> QED
  BY <1>1, <1>5, <1>7, <1>8, <1>9, FaultedSound, EffectRests

\* What no boot but the one that reserved it can be about to spawn under.
LEMMA OnlySpawner ==
  ASSUME OwnershipInv, NEW b \in Boots, NEW c \in Boots \ {b},
         fiber[b]["effect"].at = "spawn", fiber[c]["effect"].at = "spawn"
  PROVE  FALSE
<1>1. /\ row.gen = fiber[b]["effect"].gen /\ row.gen = fiber[c]["effect"].gen
      /\ row.gen \in Generations
  BY BootFacts DEF EffectSound
<1>2. Spawning(b, row.gen) /\ Spawning(c, row.gen)
  BY <1>1 DEF Spawning
<1> QED
  BY <1>1, <1>2 DEF OwnershipInv, SpawnersDiffer

\* A spawn makes a child under the reservation that still holds the row, or
\* leaves nothing behind.
LEMMA ProcessSpawnedInv ==
  ASSUME OwnershipInv, NEW b \in Boots, ProcessSpawned(b)
  PROVE  OwnershipInv'
<1> DEFINE e == fiber[b]["effect"]
           g == e.gen
<1>1. /\ e.at = "spawn" /\ UNCHANGED <<row, published, minted, booted, boot>>
  BY DEF ProcessSpawned
<1>2. /\ adapter[b] \in Adapter /\ e \in Fiber
      /\ AdapterSound(adapter[b], e) /\ EffectSound(adapter[b], e)
      /\ WatchSound(fiber[b]["watch"])
      /\ FiberSound(e) /\ FiberSound(fiber[b]["watch"])
  BY BootFacts
<1>3. /\ g \in Generations /\ row.gen = g /\ jvm[g] = "none" /\ g <= minted
      /\ adapter[b].handle = NoGeneration /\ ~adapter[b].pidPublished
      /\ adapter[b].lease \in {NoGeneration, g}
      /\ adapter[b].launching /\ adapter[b].state = "offline" /\ e.doing = "start"
  BY <1>1, <1>2 DEF EffectSound, AdapterSound, LaunchPlaces, OwnershipInv, RowSound
<1>4. Spawning(b, g)
  BY <1>1 DEF Spawning
<1>5. \A c \in Boots \ {b} : fiber[c]["effect"].at # "spawn"
  BY <1>1, OnlySpawner
<1>6. OwnershipTypeOK
  BY DEF OwnershipInv
<1>7. CASE /\ jvm' = [jvm EXCEPT ![g] = "alive"]
           /\ adapter' = [adapter EXCEPT ![b].handle = g]
           /\ Goto(b, "effect", "attach")
  <2> DEFINE a == [adapter[b] EXCEPT !.handle = g]
  <2>1. adapter' = [adapter EXCEPT ![b] = a]
    BY <1>6, <1>7 DEF OwnershipTypeOK
  <2>2. /\ a \in Adapter /\ a.handle = g /\ a.lease = adapter[b].lease
        /\ a.launching = adapter[b].launching /\ a.state = adapter[b].state
        /\ a.pidPublished = adapter[b].pidPublished
    BY <1>2, <1>3 DEF Adapter, Owners
  <2> HIDE DEF a
  <2>3. PICK x \in Fiber :
          /\ fiber' = [fiber EXCEPT ![b]["effect"] = x]
          /\ x.at = "attach" /\ x.doing = e.doing
          /\ x.gen = g /\ x.seen = e.seen
    BY <1>7, FiberGoes DEF Fibers
  <2>4. /\ adapter' \in [Boots -> Adapter] /\ adapter'[b] = a
        /\ \A c \in Boots \ {b} : adapter'[c] = adapter[c]
    BY <1>6, <2>1, <2>2, AdapterPut
  <2>5. /\ fiber' \in [Boots -> [Fibers -> Fiber]]
        /\ fiber'[b]["effect"] = x
        /\ fiber'[b]["watch"] = fiber[b]["watch"]
        /\ \A c \in Boots \ {b} : fiber'[c] = fiber[c]
    BY <1>6, <2>3, FiberPut DEF Fibers
  <2>6. /\ jvm' \in [Generations -> {"none", "alive", "gone", "closed"}]
        /\ jvm'[g] = "alive"
        /\ \A h \in Generations \ {g} : jvm'[h] = jvm[h]
    BY <1>3, <1>6, <1>7 DEF OwnershipTypeOK
  <2>7. OwnershipTypeOK'
    BY <1>1, <1>6, <2>4, <2>5, <2>6 DEF OwnershipTypeOK
  <2>8. \A c \in Boots : fiber'[c]["effect"].at # "spawn"
    BY <1>5, <2>3, <2>5
  <2>9. \A h : Spent(h) => Spent(h)'
    <3>1. \A h : Spent(h) => h # g
      BY <1>4 DEF Spent
    <3> QED
      BY <1>1, <2>6, <2>8, <3>1 DEF Spent, Spawning
  <2>10. \A h : Recorded(h) => Recorded(h)'
    <3>1. \A h : Recorded(h) => h \in Generations \ {g}
      BY <1>3 DEF Recorded
    <3> QED
      BY <1>1, <2>6, <3>1 DEF Recorded
  <2>11. RowSound'
    BY <1>1, <1>3, <1>6, <2>6 DEF OwnershipInv, RowSound, OwnershipTypeOK, Row, Owners
  <2>12. LiveJvmFenced'
    <3>1. ~(g > minted)
      BY <1>3, <1>6 DEF OwnershipTypeOK, Generations
    <3> QED
      BY <1>1, <1>3, <2>6, <3>1 DEF OwnershipInv, LiveJvmFenced
  <2>13. SpawnersDiffer'
    BY <2>8 DEF SpawnersDiffer, Spawning
  <2>14. \A c \in Boots \ {b} : BootSound(adapter[c], fiber[c])'
    <3> TAKE c \in Boots \ {b}
    <3>1. BootSound(adapter'[c], fiber'[c])
      BY <2>4, <2>5 DEF OwnershipInv
    <3>2. adapter'[c] \in Adapter
      BY <2>4
    <3>3. \A h \in Generations : jvm[h] # "none" => jvm'[h] # "none"
      BY <2>6
    <3>4. fiber'[c]["effect"].at # "spawn"
      BY <2>8
    <3> QED
      BY <2>9, <2>10, <3>1, <3>2, <3>3, <3>4, Carry
  <2>15. BootSound(adapter[b], fiber[b])'
    <3>1. AdapterSound(adapter[b], fiber[b]["effect"])'
      BY <1>3, <2>2, <2>3, <2>4, <2>5, <2>6 DEF AdapterSound
    <3>2. EffectSound(adapter[b], fiber[b]["effect"])'
      BY <1>3, <2>2, <2>3, <2>4, <2>5 DEF EffectSound, EffectPlaces, LaunchPlaces
    <3>3. WatchSound(fiber[b]["watch"])'
      BY <1>2, <2>5 DEF WatchSound
    <3>4. FiberSound(fiber[b]["effect"])'
      BY <1>2, <2>3, <2>5, <2>10 DEF FiberSound
    <3>5. FiberSound(fiber[b]["watch"])'
      BY <1>2, <2>5, <2>6, <2>9, <2>10 DEF FiberSound
    <3> QED
      BY <3>1, <3>2, <3>3, <3>4, <3>5 DEF BootSound
  <2>16. (published.pid # NoGeneration => Recorded(published.pid))'
    BY <1>1, <2>10 DEF OwnershipInv
  <2> QED
    BY <2>7, <2>11, <2>12, <2>13, <2>14, <2>15, <2>16 DEF OwnershipInv
<1>8. CASE Goto(b, "effect", "abandon") /\ UNCHANGED <<jvm, adapter>>
  <2>1. PICK x \in Fiber :
          /\ fiber' = [fiber EXCEPT ![b]["effect"] = x]
          /\ x.at = "abandon" /\ x.doing = e.doing
          /\ x.gen = g /\ x.seen = e.seen
    BY <1>8, FiberGoes DEF Fibers
  <2>2. /\ fiber' \in [Boots -> [Fibers -> Fiber]]
        /\ fiber'[b]["effect"] = x
        /\ fiber'[b]["watch"] = fiber[b]["watch"]
        /\ \A c \in Boots \ {b} : fiber'[c] = fiber[c]
    BY <1>6, <2>1, FiberPut DEF Fibers
  <2>3. \A c \in Boots : fiber'[c]["effect"].at # "spawn"
    BY <1>5, <2>1, <2>2
  <2>4. \A h : Spent(h) => Spent(h)'
    BY <1>1, <1>8, <2>3 DEF Spent, Spawning
  <2>5. \A h : Recorded(h) => Recorded(h)'
    BY <1>1, <1>8 DEF Recorded
  <2>6. Spent(fiber[b]["effect"].gen)'
    <3>1. fiber'[b]["effect"].gen = g
      BY <2>1, <2>2
    <3>2. jvm'[g] # "alive" /\ minted' = minted
      BY <1>1, <1>3, <1>8
    <3> QED
      BY <1>3, <2>3, <3>1, <3>2 DEF Spent, Spawning
  <2>7. OwnershipTypeOK' /\ RowSound' /\ LiveJvmFenced'
    BY <1>1, <1>8, <2>2 DEF OwnershipInv, OwnershipTypeOK, RowSound, LiveJvmFenced
  <2>8. SpawnersDiffer'
    BY <2>3 DEF SpawnersDiffer, Spawning
  <2>9. \A c \in Boots \ {b} : BootSound(adapter[c], fiber[c])'
    <3> TAKE c \in Boots \ {b}
    <3>1. BootSound(adapter'[c], fiber'[c])
      BY <1>8, <2>2 DEF OwnershipInv
    <3>2. adapter'[c] \in Adapter
      BY <1>6, <1>8 DEF OwnershipTypeOK
    <3>3. \A h \in Generations : jvm[h] # "none" => jvm'[h] # "none"
      BY <1>8
    <3> QED
      BY <1>8, <2>3, <2>4, <2>5, <3>1, <3>2, <3>3, Carry
  <2>10. BootSound(adapter[b], fiber[b])'
    <3>1. AdapterSound(adapter[b], fiber[b]["effect"])'
      BY <1>3, <1>8, <2>1, <2>2, <2>6 DEF AdapterSound
    <3>2. EffectSound(adapter[b], fiber[b]["effect"])'
      BY <1>3, <1>8, <2>1, <2>2, <2>6 DEF EffectSound, EffectPlaces, LaunchPlaces
    <3>3. WatchSound(fiber[b]["watch"])'
      BY <1>2, <2>2 DEF WatchSound
    <3>4. FiberSound(fiber[b]["effect"])'
      BY <1>2, <2>1, <2>2, <2>5 DEF FiberSound
    <3>5. FiberSound(fiber[b]["watch"])'
      BY <1>2, <1>8, <2>2, <2>4, <2>5 DEF FiberSound
    <3> QED
      BY <3>1, <3>2, <3>3, <3>4, <3>5 DEF BootSound
  <2>11. (published.pid # NoGeneration => Recorded(published.pid))'
    BY <1>1, <2>5 DEF OwnershipInv
  <2> QED
    BY <2>7, <2>8, <2>9, <2>10, <2>11 DEF OwnershipInv
<1> QED
  BY <1>7, <1>8 DEF ProcessSpawned

\* A reservation mints a new generation on a vacant row; one that is not
\* acknowledged may have been made all the same.
LEMMA OwnershipReservedInv ==
  ASSUME OwnershipInv, NEW b \in Boots, OwnershipReserved(b)
  PROVE  OwnershipInv'
<1> DEFINE e == fiber[b]["effect"]
           g == minted + 1
           taken == [gen |-> g, boot |-> b, pid |-> NoGeneration,
                     status |-> "reserved"]
<1>1. e.at = "reserve" /\ UNCHANGED <<published, jvmVars, boot>>
  BY DEF OwnershipReserved
<1>2. /\ adapter[b] \in Adapter /\ e \in Fiber
      /\ AdapterSound(adapter[b], e) /\ EffectSound(adapter[b], e)
      /\ WatchSound(fiber[b]["watch"])
      /\ FiberSound(e) /\ FiberSound(fiber[b]["watch"])
  BY BootFacts
<1>3. /\ adapter[b].handle = NoGeneration /\ ~adapter[b].pidPublished
      /\ adapter[b].launching /\ adapter[b].state = "offline" /\ e.doing = "start"
  BY <1>1, <1>2 DEF EffectSound, AdapterSound, LaunchPlaces
<1>4. OwnershipTypeOK
  BY DEF OwnershipInv
<1>5. CASE row.gen # NoGeneration
  <2>1. /\ fiber' = [fiber EXCEPT ![b]["effect"] = TriesAgain(e)]
        /\ UNCHANGED <<row, minted, adapter>>
    BY <1>5 DEF OwnershipReserved
  <2>2. Gentle
    BY <1>1, <1>4, <2>1, GentleMemory DEF OwnershipTypeOK
  <2> QED
    BY <1>1, <2>1, <2>2, LoopOutcome DEF Fibers
<1>6. CASE row.gen = NoGeneration
  <2>1. /\ minted < MaxGenerations /\ minted' = g
        /\ row' = row \/ row' = taken
    BY <1>6 DEF OwnershipReserved
  <2>2. /\ minted \in Nat /\ g \in Generations /\ g > minted
    BY <1>4, <2>1 DEF OwnershipTypeOK, Generations
  <2>3. jvm' = jvm /\ jvm[g] = "none" /\ \A h \in Generations : jvm[h] # "alive"
    BY <1>1, <1>6, <2>2 DEF jvmVars, OwnershipInv, LiveJvmFenced, Generations, NoGeneration
  <2>4. \A c \in Boots : fiber[c]["effect"].at # "spawn"
    <3> TAKE c \in Boots
    <3>1. EffectSound(adapter[c], fiber[c]["effect"])
      BY BootFacts
    <3> QED
      BY <1>6, <3>1 DEF EffectSound, Generations, NoGeneration
  <2>5. row' \in Row /\ row'.pid = NoGeneration /\ row'.gen \in {NoGeneration, g}
    <3>1. row \in Row /\ row.pid = NoGeneration
      BY <1>4, <1>6 DEF OwnershipInv, RowSound, OwnershipTypeOK
    <3>2. taken \in Row /\ taken.pid = NoGeneration /\ taken.gen = g
      BY <2>2 DEF Row, Owners, Statuses
    <3> HIDE DEF taken
    <3> QED
      BY <1>6, <2>1, <3>1, <3>2
  <2>6. RowSound'
    BY <2>1, <2>2, <2>5 DEF RowSound, NoGeneration
  <2>7. LiveJvmFenced'
    BY <2>1, <2>2, <2>3 DEF OwnershipInv, LiveJvmFenced, Generations
  <2>8. \A h : Recorded(h) => Recorded(h)'
    BY <2>3 DEF Recorded
  <2>9. (published.pid # NoGeneration => Recorded(published.pid))'
    BY <1>1, <2>8 DEF OwnershipInv
  <2>10. CASE /\ fiber' = [fiber EXCEPT ![b]["effect"] = Thrown(e)]
              /\ UNCHANGED adapter
    <3> DEFINE x == Thrown(e)
    <3>1. /\ x \in Fiber /\ x.at = "thrown" /\ x.doing = "start" /\ FiberSound(x)
      BY <1>2, <1>3, TriesAgainSound
    <3>2. /\ fiber' \in [Boots -> [Fibers -> Fiber]]
          /\ fiber'[b]["effect"] = x
          /\ fiber'[b]["watch"] = fiber[b]["watch"]
          /\ \A c \in Boots \ {b} : fiber'[c] = fiber[c]
      BY <1>4, <2>10, <3>1, FiberPut DEF Fibers
    <3> HIDE DEF x
    <3>3. \A c \in Boots : fiber'[c]["effect"].at # "spawn"
      BY <2>4, <3>1, <3>2
    <3>4. \A h : Spent(h) => Spent(h)'
      BY <2>1, <2>2, <2>3, <3>3 DEF Spent, Spawning, Generations
    <3>5. SpawnersDiffer'
      BY <3>3 DEF SpawnersDiffer, Spawning
    <3>6. AdapterSound(adapter[b], x) /\ EffectSound(adapter[b], x)
      BY <1>1, <1>2, <1>3, <3>1 DEF AdapterSound, EffectSound, EffectPlaces, LaunchPlaces
    <3>7. \A c \in Boots : BootSound(adapter[c], fiber[c])'
      <4> TAKE c \in Boots
      <4>1. BootSound(adapter'[c], fiber'[c])
        BY <1>2, <2>10, <3>1, <3>2, <3>6 DEF OwnershipInv, BootSound
      <4>2. adapter'[c] \in Adapter
        BY <1>4, <2>10 DEF OwnershipTypeOK
      <4>3. \A h \in Generations : jvm[h] # "none" => jvm'[h] # "none"
        BY <2>3
      <4> QED
        BY <2>8, <3>3, <3>4, <4>1, <4>2, <4>3, Carry
    <3>8. OwnershipTypeOK'
      BY <1>1, <1>4, <2>1, <2>2, <2>5, <2>10, <3>2 DEF OwnershipTypeOK, jvmVars
    <3> QED
      BY <2>6, <2>7, <2>9, <3>5, <3>7, <3>8 DEF OwnershipInv
  <2>11. CASE /\ row' = taken
              /\ adapter' = [adapter EXCEPT ![b].lease = g, ![b].pidPublished = FALSE]
              /\ fiber' = [fiber EXCEPT ![b]["effect"] =
                              [e EXCEPT !.at = "spawn", !.gen = g, !.tries = 0]]
    <3> DEFINE a == [adapter[b] EXCEPT !.lease = g, !.pidPublished = FALSE]
               x == [e EXCEPT !.at = "spawn", !.gen = g, !.tries = 0]
    <3>1. adapter' = [adapter EXCEPT ![b] = a]
      BY <1>4, <2>11 DEF OwnershipTypeOK
    <3>2. /\ a \in Adapter /\ a.lease = g /\ a.pidPublished = FALSE
          /\ a.handle = NoGeneration /\ a.launching /\ a.state = "offline"
      BY <1>2, <1>3, <2>2 DEF Adapter, Owners
    <3>3. /\ x \in Fiber /\ x.at = "spawn" /\ x.gen = g
          /\ x.doing = "start" /\ x.seen = e.seen
      <4>1. g \in Owners /\ 0 \in 0 .. Attempts - 1
        BY <2>2 DEF Owners
      <4> HIDE DEF g
      <4> QED
        BY <1>2, <1>3, <4>1 DEF Fiber
    <3> HIDE DEF a, x
    <3>4. /\ adapter' \in [Boots -> Adapter] /\ adapter'[b] = a
          /\ \A c \in Boots \ {b} : adapter'[c] = adapter[c]
      BY <1>4, <3>1, <3>2, AdapterPut
    <3>5. fiber' = [fiber EXCEPT ![b]["effect"] = x]
      BY <2>11 DEF x
    <3>6. /\ fiber' \in [Boots -> [Fibers -> Fiber]]
          /\ fiber'[b]["effect"] = x
          /\ fiber'[b]["watch"] = fiber[b]["watch"]
          /\ \A c \in Boots \ {b} : fiber'[c] = fiber[c]
      BY <1>4, <3>3, <3>5, FiberPut DEF Fibers
    <3>7. \A c \in Boots \ {b} : fiber'[c]["effect"].at # "spawn"
      BY <2>4, <3>6
    <3>8. \A h : Spent(h) => Spent(h)'
      <4>1. \A h : Spent(h) => h # g
        BY <2>2 DEF Spent, Generations
      <4>2. \A c \in Boots, h \in Generations \ {g} : ~Spawning(c, h)'
        BY <3>3, <3>6, <3>7 DEF Spawning
      <4> QED
        BY <2>1, <2>2, <2>3, <4>1, <4>2 DEF Spent, Generations
    <3>9. SpawnersDiffer'
      BY <3>7 DEF SpawnersDiffer, Spawning
    <3>10. \A c \in Boots \ {b} : BootSound(adapter[c], fiber[c])'
      <4> TAKE c \in Boots \ {b}
      <4>1. BootSound(adapter'[c], fiber'[c])
        BY <3>4, <3>6 DEF OwnershipInv
      <4>2. adapter'[c] \in Adapter
        BY <3>4
      <4>3. \A h \in Generations : jvm[h] # "none" => jvm'[h] # "none"
        BY <2>3
      <4>4. fiber'[c]["effect"].at # "spawn"
        BY <3>7
      <4> QED
        BY <2>8, <3>8, <4>1, <4>2, <4>3, <4>4, Carry
    <3>11. BootSound(adapter[b], fiber[b])'
      <4>1. AdapterSound(adapter[b], fiber[b]["effect"])'
        BY <3>2, <3>3, <3>4, <3>6 DEF AdapterSound
      <4>2. row'.gen = g
        BY <2>11
      <4>3. EffectSound(adapter[b], fiber[b]["effect"])'
        BY <2>2, <2>3, <3>2, <3>3, <3>4, <3>6, <4>2
        DEF EffectSound, EffectPlaces, LaunchPlaces
      <4>4. WatchSound(fiber[b]["watch"])'
        BY <1>2, <3>6 DEF WatchSound
      <4>5. FiberSound(fiber[b]["effect"])'
        BY <1>2, <2>8, <3>3, <3>6 DEF FiberSound
      <4>6. FiberSound(fiber[b]["watch"])'
        BY <1>2, <2>3, <2>8, <3>6, <3>8 DEF FiberSound
      <4> QED
        BY <4>1, <4>3, <4>4, <4>5, <4>6 DEF BootSound
    <3>12. OwnershipTypeOK'
      BY <1>1, <1>4, <2>1, <2>2, <2>5, <3>4, <3>6 DEF OwnershipTypeOK, jvmVars
    <3> QED
      BY <2>6, <2>7, <2>9, <3>9, <3>10, <3>11, <3>12 DEF OwnershipInv
  <2> QED
    BY <1>6, <2>10, <2>11 DEF OwnershipReserved
<1> QED
  BY <1>5, <1>6

\* Binding the pid: the record and the adapter agree on the generation.
LEMMA PidAttachedInv ==
  ASSUME OwnershipInv, NEW b \in Boots, PidAttached(b)
  PROVE  OwnershipInv'
<1> DEFINE e == fiber[b]["effect"]
           g == e.gen
           n == [adapter[b] EXCEPT !.launching = FALSE]
           bound == row.gen = g /\ row.status = "reserved"
<1>1. /\ e.at = "attach" /\ Rest(b, "effect")
      /\ UNCHANGED <<published, minted, jvmVars, boot>>
  BY DEF PidAttached
<1>2. /\ adapter[b] \in Adapter /\ e \in Fiber
      /\ AdapterSound(adapter[b], e) /\ EffectSound(adapter[b], e)
      /\ WatchSound(fiber[b]["watch"]) /\ FiberSound(fiber[b]["watch"])
  BY BootFacts
<1>3. /\ g \in Generations /\ adapter[b].handle = g
      /\ adapter[b].lease \in {NoGeneration, g} /\ jvm[g] # "none"
      /\ adapter[b].state = "offline"
  BY <1>1, <1>2 DEF EffectSound, AdapterSound, LaunchPlaces, Generations, NoGeneration
<1>4. OwnershipTypeOK
  BY DEF OwnershipInv
<1>5. PICK reply \in Replies :
        /\ row' = IF bound /\ reply # "failed"
                  THEN [row EXCEPT !.pid = g, !.status = "running"] ELSE row
        /\ adapter' = [adapter EXCEPT ![b] =
              IF bound /\ reply = "answered"
              THEN [n EXCEPT !.pidPublished = TRUE,
                             !.state = After(After(n.state, "launch-requested"),
                                             "process-spawned")]
              ELSE Faulted(n)]
  BY DEF PidAttached
<1>6. /\ n \in Adapter /\ n.state = "offline" /\ n.handle = g
      /\ n.lease = adapter[b].lease /\ n.pidPublished = adapter[b].pidPublished
  BY <1>2, <1>3 DEF Adapter
<1> HIDE DEF n
<1>7. PICK a \in Adapter :
        /\ adapter' = [adapter EXCEPT ![b] = a]
        /\ a.handle = g /\ a.lease = adapter[b].lease /\ a.state # "offline"
        /\ a.pidPublished => adapter[b].pidPublished \/ (bound /\ reply = "answered")
  <2>1. CASE bound /\ reply = "answered"
    <3> DEFINE a == [n EXCEPT !.pidPublished = TRUE, !.state = "starting"]
    <3>1. adapter' = [adapter EXCEPT ![b] = a]
      BY <1>5, <1>6, <2>1, AfterFacts
    <3>2. /\ a \in Adapter /\ a.handle = g /\ a.lease = adapter[b].lease
          /\ a.state = "starting"
      BY <1>6 DEF Adapter, States
    <3> QED
      BY <2>1, <3>1, <3>2
  <2>2. CASE ~(bound /\ reply = "answered")
    <3>1. adapter' = [adapter EXCEPT ![b] = Faulted(n)]
      BY <1>5, <2>2
    <3>2. /\ Faulted(n) \in Adapter /\ Faulted(n).state = "error"
          /\ Faulted(n).handle = g /\ Faulted(n).lease = adapter[b].lease
          /\ Faulted(n).pidPublished = adapter[b].pidPublished
      BY <1>6, FaultedFacts
    <3> QED
      BY <3>1, <3>2
  <2> QED
    BY <2>1, <2>2
<1>8. /\ row' \in Row /\ row'.gen = row.gen
      /\ row'.pid = row.pid \/ (row.gen = g /\ row'.pid = g)
      /\ bound /\ reply = "answered" => row.gen = g /\ row'.pid = g
  <2>1. row \in Row
    BY <1>4 DEF OwnershipTypeOK
  <2>2. CASE bound /\ reply # "failed"
    <3>1. row' = [row EXCEPT !.pid = g, !.status = "running"]
      BY <1>5, <2>2
    <3>2. row' \in Row /\ row'.gen = row.gen /\ row'.pid = g
      BY <1>3, <2>1, <3>1 DEF Row, Owners, Statuses
    <3> QED
      BY <2>2, <3>2
  <2>3. CASE ~(bound /\ reply # "failed")
    BY <1>5, <2>1, <2>3
  <2> QED
    BY <2>2, <2>3
<1>9. /\ adapter' \in [Boots -> Adapter] /\ adapter'[b] = a
      /\ \A c \in Boots \ {b} : adapter'[c] = adapter[c]
  BY <1>4, <1>7, AdapterPut
<1>10. /\ fiber' \in [Boots -> [Fibers -> Fiber]]
       /\ fiber'[b]["effect"] = Resting
       /\ fiber'[b]["watch"] = fiber[b]["watch"]
       /\ \A c \in Boots \ {b} : fiber'[c] = fiber[c]
  <2>1. fiber' = [fiber EXCEPT ![b]["effect"] = Resting]
    BY <1>1 DEF Rest
  <2>2. Resting \in Fiber
    BY RestingFacts
  <2> QED
    BY <1>4, <2>1, <2>2, FiberPut DEF Fibers
<1>11. jvm' = jvm /\ minted' = minted /\ published' = published
  BY <1>1 DEF jvmVars
<1>12. \A c \in Boots : \A h : Spawning(c, h)' => Spawning(c, h)
  BY <1>10, RestingFacts DEF Spawning
<1>13. \A h : Spent(h) => Spent(h)'
  BY <1>11, <1>12 DEF Spent
<1>14. \A h : Recorded(h) => Recorded(h)'
  <2> TAKE h
  <2> HAVE Recorded(h)
  <2>1. jvm[h] = "alive" => row.pid = h /\ row.gen = h /\ h \in Generations
    BY DEF Recorded, OwnershipInv, LiveJvmFenced
  <2> QED
    BY <1>8, <1>11, <2>1 DEF Recorded
<1>15. bound /\ reply = "answered" => (row'.pid = g)
  BY <1>8
<1>16. RowSound'
  BY <1>3, <1>8, <1>11 DEF OwnershipInv, RowSound, Generations, NoGeneration
<1>17. LiveJvmFenced'
  BY <1>8, <1>11 DEF OwnershipInv, LiveJvmFenced
<1>18. SpawnersDiffer'
  BY <1>12 DEF OwnershipInv, SpawnersDiffer
<1>19. OwnershipTypeOK'
  BY <1>1, <1>4, <1>8, <1>9, <1>10, <1>11 DEF OwnershipTypeOK, jvmVars
<1>20. (published.pid # NoGeneration => Recorded(published.pid))'
  BY <1>11, <1>14 DEF OwnershipInv
<1>21. \A c \in Boots \ {b} : BootSound(adapter[c], fiber[c])'
  <2> TAKE c \in Boots \ {b}
  <2>1. BootSound(adapter'[c], fiber'[c])
    BY <1>9, <1>10 DEF OwnershipInv
  <2>2. adapter'[c] \in Adapter
    BY <1>9
  <2>3. \A h \in Generations : jvm[h] # "none" => jvm'[h] # "none"
    BY <1>11
  <2>4. EffectSound(adapter[c], fiber[c]["effect"])
    BY BootFacts
  <2>5. fiber'[c] = fiber[c]
    BY <1>10
  <2>6. fiber[c]["effect"].at = "spawn" =>
          row.gen = fiber[c]["effect"].gen /\ jvm[fiber[c]["effect"].gen] = "none"
    BY <2>4 DEF EffectSound
  <2> QED
    BY <1>8, <1>11, <1>13, <1>14, <2>1, <2>2, <2>3, <2>5, <2>6, Carry
<1>22. BootSound(adapter[b], fiber[b])'
  <2>1. a.pidPublished => (jvm'[g] = "alive" => row'.pid = g)
    <3>1. ASSUME adapter[b].pidPublished, jvm'[g] = "alive" PROVE row'.pid = g
      BY <1>2, <1>3, <1>8, <1>11, <3>1 DEF AdapterSound, Recorded
    <3>2. ASSUME bound, reply = "answered" PROVE row'.pid = g
      BY <1>8, <3>2
    <3> QED
      BY <1>7, <3>1, <3>2
  <2>2. AdapterSound(adapter[b], fiber[b]["effect"])'
    <3>1. adapter'[b] = a /\ fiber'[b]["effect"].at = "idle"
      BY <1>9, <1>10, RestingFacts
    <3>2. /\ a.handle = g /\ a.handle # NoGeneration
          /\ a.lease \in {NoGeneration, a.handle} /\ a.state # "offline"
          /\ jvm'[a.handle] # "none"
      BY <1>3, <1>7, <1>11 DEF Generations, NoGeneration
    <3>3. (adapter[b].pidPublished => Recorded(adapter[b].handle))'
      BY <1>3, <1>11, <2>1, <3>1, <3>2 DEF Recorded
    <3> QED
      BY <3>1, <3>2, <3>3 DEF AdapterSound
  <2>3. EffectSound(adapter[b], fiber[b]["effect"])'
    BY <1>10, RestingFacts DEF EffectSound, EffectPlaces, LaunchPlaces
  <2>4. WatchSound(fiber[b]["watch"])'
    BY <1>2, <1>10 DEF WatchSound
  <2>5. FiberSound(fiber[b]["effect"])'
    BY <1>10, RestingFacts DEF FiberSound
  <2>6. FiberSound(fiber[b]["watch"])'
    BY <1>2, <1>10, <1>11, <1>13, <1>14 DEF FiberSound
  <2> QED
    BY <2>2, <2>3, <2>4, <2>5, <2>6 DEF BootSound
<1> QED
  BY <1>16, <1>17, <1>18, <1>19, <1>20, <1>21, <1>22 DEF OwnershipInv

-----------------------------------------------------------------------------
(* The actions of the watch. *)

\* A step of the watch that leaves the adapter alone.
LEMMA WatchGoes ==
  ASSUME OwnershipInv, NEW b \in Boots, NEW x \in Fiber, Gentle,
         UNCHANGED adapter, fiber' = [fiber EXCEPT ![b]["watch"] = x],
         WatchSound(x), FiberSound(x)
  PROVE  OwnershipInv'
<1>1. /\ adapter[b] \in Adapter
      /\ adapter' = [adapter EXCEPT ![b] = adapter[b]]
      /\ AdapterSound(adapter[b], fiber[b]["effect"])
      /\ EffectSound(adapter[b], fiber[b]["effect"])
  BY BootFacts
<1> QED
  BY <1>1, WatchMove

\* The watch at rest.
LEMMA WatchRests ==
  ASSUME OwnershipInv, NEW b \in Boots, Gentle, UNCHANGED adapter, Rest(b, "watch")
  PROVE  OwnershipInv'
<1>1. Resting \in Fiber /\ WatchSound(Resting) /\ FiberSound(Resting)
  BY RestingFacts DEF WatchSound, WatchPlaces
<1>2. fiber' = [fiber EXCEPT ![b]["watch"] = Resting]
  BY DEF Rest
<1> QED
  BY <1>1, <1>2, WatchGoes

\* An inspection by the watch.
LEMMA WatchInspects ==
  ASSUME OwnershipInv, NEW b \in Boots, Gentle,
         Resume(b, "watch", Inspected(adapter[b], Resting))
  PROVE  OwnershipInv'
<1> DEFINE r == Inspected(adapter[b], Resting)
<1>1. /\ adapter[b] \in Adapter /\ fiber[b]["effect"] \in Fiber
      /\ AdapterSound(adapter[b], fiber[b]["effect"])
      /\ EffectSound(adapter[b], fiber[b]["effect"])
  BY BootFacts
<1>2. /\ Resting \in Fiber /\ Resting.seen.pid = NoGeneration
      /\ Resting.doing = "watch"
  BY RestingFacts
<1>3. /\ r.adapter \in Adapter /\ r.fiber \in Fiber
      /\ r.fiber.doing = Resting.doing
      /\ r.fiber.at \in InspectedPlaces(Resting)
      /\ FiberSound(r.fiber)
      /\ AdapterSound(r.adapter, fiber[b]["effect"])
      /\ EffectSound(r.adapter, fiber[b]["effect"])
  BY <1>1, <1>2, InspectedSound
<1>4. WatchSound(r.fiber)
  BY <1>2, <1>3 DEF WatchSound, InspectedPlaces, WatchPlaces
<1>5. /\ adapter' = [adapter EXCEPT ![b] = r.adapter]
      /\ fiber' = [fiber EXCEPT ![b]["watch"] = r.fiber]
  BY DEF Resume
<1> HIDE DEF r
<1> QED
  BY <1>3, <1>4, <1>5, WatchMove

\* An agent starts up and reads the row.
LEMMA BootUpInv ==
  ASSUME OwnershipInv, NEW b \in Boots, BootUp(b)
  PROVE  OwnershipInv'
<1>1. boot' \in [Boots -> {"unborn", "starting", "ready", "dead"}]
  BY DEF BootUp, OwnershipInv, OwnershipTypeOK
<1>2. Gentle
  BY <1>1, GentleMemory DEF BootUp
<1>3. PICK x \in Fiber :
        /\ fiber' = [fiber EXCEPT ![b]["watch"] = x]
        /\ x.at = "find" /\ x.doing = fiber[b]["watch"].doing
        /\ x.seen = fiber[b]["watch"].seen
  BY FiberGoes DEF BootUp, Fibers
<1>4. WatchSound(fiber[b]["watch"]) /\ FiberSound(fiber[b]["watch"])
  BY BootFacts
<1>5. WatchSound(x) /\ FiberSound(x)
  BY <1>3, <1>4 DEF WatchSound, FiberSound, WatchPlaces
<1> QED
  BY <1>2, <1>3, <1>5, WatchGoes DEF BootUp

\* An owner that cannot be trusted withdraws the snapshot.
LEMMA SnapshotInvalidatedInv ==
  ASSUME OwnershipInv, NEW b \in Boots, SnapshotInvalidated(b)
  PROVE  OwnershipInv'
<1>1. Unobserved \in Observation /\ Unobserved.pid = NoGeneration
  BY DEF Unobserved, Observation, States, Owners
<1>2. Gentle
  <2>1. published' = published \/ published' = Unobserved
    BY DEF SnapshotInvalidated
  <2> QED
    BY <1>1, <2>1 DEF SnapshotInvalidated, Gentle, OwnershipInv, OwnershipTypeOK, jvmVars
<1>3. PICK place \in {"age", "thrown"} : Goto(b, "watch", place)
  BY DEF SnapshotInvalidated
<1>4. PICK x \in Fiber :
        /\ fiber' = [fiber EXCEPT ![b]["watch"] = x]
        /\ x.at = place /\ x.doing = fiber[b]["watch"].doing
        /\ x.seen = fiber[b]["watch"].seen
  BY <1>3, FiberGoes DEF Fibers
<1>5. WatchSound(fiber[b]["watch"]) /\ FiberSound(fiber[b]["watch"])
  BY BootFacts
<1>6. WatchSound(x) /\ FiberSound(x)
  BY <1>4, <1>5 DEF WatchSound, FiberSound, WatchPlaces
<1> QED
  BY <1>2, <1>4, <1>6, WatchGoes DEF SnapshotInvalidated

\* An old observation is withdrawn.
LEMMA SnapshotAgedInv ==
  ASSUME OwnershipInv, NEW b \in Boots, SnapshotAged(b)
  PROVE  OwnershipInv'
<1>1. Unobserved \in Observation /\ Unobserved.pid = NoGeneration
  BY DEF Unobserved, Observation, States, Owners
<1>2. Gentle
  <2>1. published' = published \/ published' = Unobserved
    BY DEF SnapshotAged
  <2> QED
    BY <1>1, <2>1 DEF SnapshotAged, Gentle, OwnershipInv, OwnershipTypeOK, jvmVars
<1>3. CASE boot[b] = "starting"
  BY <1>2, <1>3, WatchInspects DEF SnapshotAged
<1>4. CASE boot[b] # "starting"
  BY <1>2, <1>4, WatchRests DEF SnapshotAged
<1> QED
  BY <1>3, <1>4

\* A reconciliation that throws.
LEMMA ReconcileThrewInv ==
  ASSUME OwnershipInv, NEW b \in Boots, ReconcileThrew(b)
  PROVE  OwnershipInv'
<1>1. boot' \in [Boots -> {"unborn", "starting", "ready", "dead"}]
  BY DEF ReconcileThrew, OwnershipInv, OwnershipTypeOK
<1>2. Gentle
  BY <1>1, GentleMemory DEF ReconcileThrew
<1> QED
  BY <1>2, WatchRests DEF ReconcileThrew

\* A tick of the watch.
LEMMA WatchTicksInv ==
  ASSUME OwnershipInv, NEW b \in Boots, WatchTicks(b)
  PROVE  OwnershipInv'
<1>1. Gentle
  BY GentleMemory DEF WatchTicks, OwnershipInv, OwnershipTypeOK
<1> QED
  BY <1>1, WatchInspects DEF WatchTicks

\* An observation is stored: the pid it tells was on record, and a pid that
\* still runs stays on record.
LEMMA StateObservedInv ==
  ASSUME OwnershipInv, NEW b \in Boots, StateObserved(b)
  PROVE  OwnershipInv'
<1> DEFINE fib == fiber[b]["watch"]
<1>1. /\ fib \in Fiber /\ FiberSound(fib)
  BY BootFacts
<1>2. fib.seen \in Observation /\ (fib.seen.pid # NoGeneration => Recorded(fib.seen.pid))
  BY <1>1 DEF Fiber, FiberSound
<1>3. published' = fib.seen \/ published' = published
  BY DEF StateObserved
<1>4. /\ published' \in Observation
      /\ published'.pid # NoGeneration => Recorded(published'.pid)
  BY <1>2, <1>3 DEF OwnershipInv, OwnershipTypeOK
<1>5. Gentle
  BY <1>4 DEF StateObserved, Gentle, OwnershipInv, OwnershipTypeOK, jvmVars
<1>6. CASE boot[b] = "starting"
  BY <1>5, <1>6, WatchRests DEF StateObserved, Rest
<1>7. CASE boot[b] # "starting"
  <2> DEFINE x == [Resting EXCEPT !.at = "find"]
  <2>1. fiber' = [fiber EXCEPT ![b]["watch"] = x]
    BY <1>7 DEF StateObserved
  <2>2. /\ x \in Fiber /\ x.at = "find" /\ x.doing = "watch"
        /\ x.seen = Resting.seen
    BY RestingFacts DEF Fiber
  <2>3. WatchSound(x) /\ FiberSound(x)
    BY <2>2, RestingFacts DEF WatchSound, FiberSound, WatchPlaces
  <2> HIDE DEF x
  <2> QED
    BY <1>5, <2>1, <2>2, <2>3, WatchGoes DEF StateObserved
<1> QED
  BY <1>6, <1>7

-----------------------------------------------------------------------------
(* The actions of the processes. *)

\* A process that goes away, or that finishes its boot.
LEMMA JvmGoes ==
  ASSUME OwnershipInv, UNCHANGED <<row, published, minted, agentVars>>,
         booted' \subseteq Generations,
         jvm' \in [Generations -> {"none", "alive", "gone", "closed"}],
         \A g \in Generations : jvm'[g] = jvm[g]
            \/ (jvm[g] # "none" /\ jvm'[g] \in {"gone", "closed"})
  PROVE  OwnershipInv'
<1>1. /\ row' = row /\ published' = published /\ minted' = minted
      /\ boot' = boot /\ adapter' = adapter /\ fiber' = fiber
  BY DEF agentVars
<1>2. OwnershipTypeOK'
  BY <1>1 DEF OwnershipInv, OwnershipTypeOK
<1>3. \A h : Spent(h) => Spent(h)'
  BY <1>1 DEF Spent, Spawning
<1>4. \A h : Recorded(h) => Recorded(h)'
  BY <1>1 DEF Recorded
<1>5. RowSound'
  BY <1>1 DEF OwnershipInv, OwnershipTypeOK, Row, Owners, NoGeneration, RowSound
<1>6. LiveJvmFenced'
  BY <1>1 DEF OwnershipInv, LiveJvmFenced
<1>7. SpawnersDiffer'
  BY <1>1 DEF OwnershipInv, SpawnersDiffer, Spawning
<1>8. (published.pid # NoGeneration => Recorded(published.pid))'
  BY <1>1, <1>4 DEF OwnershipInv
<1>9. \A c \in Boots : BootSound(adapter[c], fiber[c])'
  <2> TAKE c \in Boots
  <2>1. BootSound(adapter'[c], fiber'[c])
    BY <1>1 DEF OwnershipInv
  <2>2. adapter'[c] \in Adapter
    BY <1>1 DEF OwnershipInv, OwnershipTypeOK
  <2>3. \A h \in Generations : jvm[h] # "none" => jvm'[h] # "none"
    OBVIOUS
  <2>4. EffectSound(adapter[c], fiber[c]["effect"])
    BY BootFacts
  <2>5. fiber[c]["effect"].at = "spawn" =>
          /\ fiber[c]["effect"].gen \in Generations
          /\ row.gen = fiber[c]["effect"].gen
          /\ jvm[fiber[c]["effect"].gen] = "none"
    BY <2>4 DEF EffectSound
  <2>6. fiber[c]["effect"].at = "spawn" => jvm'[fiber[c]["effect"].gen] = "none"
    BY <2>5
  <2> QED
    BY <1>1, <1>3, <1>4, <2>1, <2>2, <2>3, <2>5, <2>6, Carry
<1> QED
  BY <1>2, <1>5, <1>6, <1>7, <1>8, <1>9 DEF OwnershipInv

\* The steps of a process keep the invariant.
LEMMA JvmInv ==
  ASSUME OwnershipInv, NEW g \in Generations,
         JvmBoots(g) \/ JvmExits(g) \/ ExitDelivered(g)
  PROVE  OwnershipInv'
<1>1. jvm \in [Generations -> {"none", "alive", "gone", "closed"}]
      /\ booted \subseteq Generations
  BY DEF OwnershipInv, OwnershipTypeOK
<1>2. CASE JvmBoots(g)
  BY <1>1, <1>2, JvmGoes DEF JvmBoots
<1>3. CASE JvmExits(g)
  BY <1>1, <1>3, JvmGoes DEF JvmExits
<1>4. CASE ExitDelivered(g)
  BY <1>1, <1>4, JvmGoes DEF ExitDelivered
<1> QED
  BY <1>2, <1>3, <1>4

\* An agent dies: its memory goes, the row and the process stay.
LEMMA CrashInv ==
  ASSUME OwnershipInv, NEW b \in Boots, Crash(b)
  PROVE  OwnershipInv'
<1>1. OwnershipTypeOK
  BY DEF OwnershipInv
<1>2. boot' \in [Boots -> {"unborn", "starting", "ready", "dead"}]
  BY <1>1 DEF Crash, OwnershipTypeOK
<1>3. Gentle
  BY <1>2, GentleMemory DEF Crash
<1>4. /\ FreshAdapter \in Adapter /\ FreshAdapter.handle = NoGeneration
      /\ FreshAdapter.lease = NoGeneration /\ FreshAdapter.pidPublished = FALSE
  BY DEF FreshAdapter, Adapter, States, Owners
<1>5. /\ adapter' \in [Boots -> Adapter] /\ adapter'[b] = FreshAdapter
      /\ \A c \in Boots \ {b} : adapter'[c] = adapter[c]
  BY <1>1, <1>4 DEF Crash, OwnershipTypeOK
<1>6. /\ fiber' \in [Boots -> [Fibers -> Fiber]]
      /\ fiber'[b]["effect"] = Resting /\ fiber'[b]["watch"] = Resting
      /\ \A c \in Boots \ {b} : fiber'[c] = fiber[c]
  BY <1>1, RestingFacts DEF Crash, OwnershipTypeOK, Fibers
<1>7. BootSound(adapter'[b], fiber'[b])
  <2>1. AdapterSound(FreshAdapter, Resting)
    BY <1>4 DEF AdapterSound
  <2>2. EffectSound(FreshAdapter, Resting)
    BY RestingFacts DEF EffectSound, EffectPlaces, LaunchPlaces
  <2>3. WatchSound(Resting)
    BY RestingFacts DEF WatchSound, WatchPlaces
  <2> QED
    BY <1>5, <1>6, <2>1, <2>2, <2>3, RestingFacts DEF BootSound
<1>8. fiber'[b]["effect"].at # "spawn"
  BY <1>6, RestingFacts
<1> QED
  BY <1>3, <1>5, <1>6, <1>7, <1>8, Move

-----------------------------------------------------------------------------
(* The inductive invariant. *)

\* No agent, no process, no row: the invariant holds.
LEMMA OwnershipInitInv ==
  ASSUME OwnershipInit
  PROVE  OwnershipInv
<1>1. /\ FreshAdapter \in Adapter /\ FreshAdapter.handle = NoGeneration
      /\ FreshAdapter.lease = NoGeneration /\ FreshAdapter.pidPublished = FALSE
  BY DEF FreshAdapter, Adapter, States, Owners
<1>2. NoRow \in Row /\ NoRow.gen = NoGeneration /\ NoRow.pid = NoGeneration
  BY DEF NoRow, Row, Owners, Statuses
<1>3. Unobserved \in Observation /\ Unobserved.pid = NoGeneration
  BY DEF Unobserved, Observation, States, Owners
<1>4. /\ \A b \in Boots : adapter[b] = FreshAdapter
      /\ \A b \in Boots, f \in Fibers : fiber[b][f] = Resting
      /\ \A g \in Generations : jvm[g] = "none"
      /\ row = NoRow /\ published = Unobserved /\ minted = 0
  BY DEF OwnershipInit
<1>5. OwnershipTypeOK
  BY <1>1, <1>2, <1>3, RestingFacts DEF OwnershipInit, OwnershipTypeOK
<1>6. RowSound
  BY <1>2, <1>4 DEF RowSound, NoGeneration
<1>7. LiveJvmFenced
  BY <1>4 DEF LiveJvmFenced
<1>8. SpawnersDiffer
  BY <1>4, RestingFacts DEF SpawnersDiffer, Spawning, Fibers
<1>9. \A b \in Boots : BootSound(adapter[b], fiber[b])
  <2> TAKE b \in Boots
  <2>1. /\ adapter[b] = FreshAdapter
        /\ fiber[b]["effect"] = Resting /\ fiber[b]["watch"] = Resting
    BY <1>4 DEF Fibers
  <2>2. AdapterSound(FreshAdapter, Resting)
    BY <1>1 DEF AdapterSound
  <2>3. EffectSound(FreshAdapter, Resting)
    BY RestingFacts DEF EffectSound, EffectPlaces, LaunchPlaces
  <2>4. WatchSound(Resting)
    BY RestingFacts DEF WatchSound, WatchPlaces
  <2> QED
    BY <2>1, <2>2, <2>3, <2>4, RestingFacts DEF BootSound
<1> QED
  BY <1>3, <1>4, <1>5, <1>6, <1>7, <1>8, <1>9 DEF OwnershipInv

\* Every step keeps it.
LEMMA OwnershipNextInv ==
  ASSUME OwnershipInv, OwnershipNext
  PROVE  OwnershipInv'
<1>1. ASSUME NEW b \in Boots, Effect(b) PROVE OwnershipInv'
  <2>1. CASE EffectEnds(b)
    BY <2>1, EffectEndsInv
  <2>2. CASE LaunchBegins(b)
    BY <2>2, LaunchBeginsInv
  <2>3. CASE OwnershipReserved(b)
    BY <2>3, OwnershipReservedInv
  <2>4. CASE ProcessSpawned(b)
    BY <2>4, ProcessSpawnedInv
  <2>5. CASE PidAttached(b)
    BY <2>5, PidAttachedInv
  <2>6. CASE LaunchAbandoned(b)
    BY <2>6, LaunchAbandonedInv
  <2>7. CASE LaunchRefused(b)
    BY <2>7, LaunchRefusedInv
  <2>8. CASE StopBegins(b)
    BY <2>8, StopBeginsInv
  <2>9. CASE StopAsked(b)
    BY <2>9, StopAskedInv
  <2>10. CASE StopWaited(b)
    BY <2>10, StopWaitedInv
  <2>11. CASE StopParted(b)
    BY <2>11, StopPartedInv
  <2> QED
    BY <1>1, <2>1, <2>2, <2>3, <2>4, <2>5, <2>6, <2>7, <2>8, <2>9, <2>10, <2>11
    DEF Effect
<1>2. ASSUME NEW b \in Boots, Watch(b) PROVE OwnershipInv'
  BY <1>2, SnapshotInvalidatedInv, SnapshotAgedInv, ReconcileThrewInv,
     WatchTicksInv, StateObservedInv DEF Watch
<1>3. ASSUME NEW b \in Boots, NEW f \in Fibers, Shared(b, f) PROVE OwnershipInv'
  BY <1>3, LeaseReleasedInv, OwnershipFoundInv, LivenessProbedInv,
     DeadOwnerClearedInv, OwnerOrphanedInv DEF Shared
<1> QED
  BY <1>1, <1>2, <1>3, BootUpInv, EffectBeginsInv, CrashInv, FindFailsInv, JvmInv
  DEF OwnershipNext

\* A step that changes nothing keeps it too.
LEMMA OwnershipStutterInv ==
  ASSUME OwnershipInv, UNCHANGED vars
  PROVE  OwnershipInv'
<1>1. UNCHANGED <<row, published, minted, agentVars>>
      /\ jvm' = jvm /\ booted' = booted
  BY DEF vars, agentVars
<1>2. jvm' \in [Generations -> {"none", "alive", "gone", "closed"}]
      /\ booted' \subseteq Generations
  BY <1>1 DEF OwnershipInv, OwnershipTypeOK
<1> QED
  BY <1>1, <1>2, JvmGoes

\* The ownership row, the memory of every agent and the processes stay
\* consistent: OwnershipInv holds in every state of every behaviour.
THEOREM OwnershipInvariant == OwnershipSpec => []OwnershipInv
<1>1. OwnershipInit => OwnershipInv
  BY OwnershipInitInv
<1>2. OwnershipInv /\ [OwnershipNext]_vars => OwnershipInv'
  BY OwnershipNextInv, OwnershipStutterInv
<1> QED
  BY <1>1, <1>2, PTL DEF OwnershipSpec

\* Two JVMs of one server never run at once: a JVM that runs holds the row,
\* and the row has one generation.
THEOREM NeverASecondJvm == OwnershipSpec => []NoSecondJvm
<1>1. OwnershipInv => NoSecondJvm
  BY DEF OwnershipInv, LiveJvmFenced, NoSecondJvm
<1> QED
  BY <1>1, OwnershipInvariant, PTL

\* A pid shown to the panel that still runs can be found by the next agent.
THEOREM PublishedPidStaysDurable == OwnershipSpec => []PublishedPidIsDurable
<1>1. OwnershipInv => PublishedPidIsDurable
  BY DEF OwnershipInv, RowSound, Recorded, PublishedPidIsDurable,
         Generations, NoGeneration
<1> QED
  BY <1>1, OwnershipInvariant, PTL

\* Every variable keeps its type.
THEOREM OwnershipTypeCorrect == OwnershipSpec => []OwnershipTypeOK
<1>1. OwnershipInv => OwnershipTypeOK
  BY DEF OwnershipInv
<1> QED
  BY <1>1, OwnershipInvariant, PTL

-----------------------------------------------------------------------------
(* The protocol implements the fence. *)

Running == {g \in Generations : jvm[g] = "alive"}
Launched == {g \in Generations : jvm[g] # "none"}

\* A step that leaves the processes alone and keeps or vacates the row is a
\* vacation or a stutter of the fence.
LEMMA QuietSteps ==
  ASSUME OwnershipInv, jvm' = jvm,
         row'.gen = row.gen \/ (row'.gen = NoGeneration /\ Spent(row.gen))
  PROVE  Fence!FenceNext \/ UNCHANGED Fence!fenceVars
<1>1. Running' = Running /\ Launched' = Launched
  BY DEF Running, Launched
<1>2. CASE row'.gen = row.gen
  BY <1>1, <1>2 DEF Fence!fenceVars, Running, Launched
<1>3. CASE row'.gen = NoGeneration /\ Spent(row.gen)
  <2>1. row.gen \notin Running
    BY <1>3 DEF Running, Spent
  <2>2. Fence!Vacate
    BY <1>1, <1>3, <2>1 DEF Fence!Vacate, Running, Launched
  <2> QED
    BY <2>2 DEF Fence!FenceNext
<1> QED
  BY <1>2, <1>3

\* Deleting the row of a spent generation vacates the fence.
LEMMA DeleteVacates ==
  ASSUME OwnershipInv, jvm' = jvm, NEW g, Spent(g), row' = row \/ row' = Without(g)
  PROVE  Fence!FenceNext \/ UNCHANGED Fence!fenceVars
<1>1. NoRow.gen = NoGeneration
  BY DEF NoRow
<1>2. row'.gen = row.gen \/ (row'.gen = NoGeneration /\ Spent(row.gen))
  BY <1>1 DEF Without
<1> QED
  BY <1>2, QuietSteps

\* The effect: reserving takes the vacant fence, spawning launches under it,
\* a release vacates it.
LEMMA EffectFenced ==
  ASSUME OwnershipInv, NEW b \in Boots, Effect(b)
  PROVE  Fence!FenceNext \/ UNCHANGED Fence!fenceVars
<1> DEFINE e == fiber[b]["effect"]
<1>0. EffectSound(adapter[b], e) /\ FiberSound(e)
  BY BootFacts
<1>1. CASE UNCHANGED <<row, jvm>>
  BY <1>1, QuietSteps
<1>2. CASE OwnershipReserved(b)
  <2> DEFINE g == minted + 1
             taken == [gen |-> g, boot |-> b, pid |-> NoGeneration,
                       status |-> "reserved"]
  <2>1. jvm' = jvm /\ (row' = row \/ (row.gen = NoGeneration /\ row' = taken
                                        /\ minted < MaxGenerations))
    BY <1>2 DEF OwnershipReserved, jvmVars
  <2>2. CASE row' = row
    BY <2>1, <2>2, QuietSteps
  <2>3. CASE row.gen = NoGeneration /\ row' = taken /\ minted < MaxGenerations
    <3>1. row'.gen = g
      BY <2>3
    <3>2. g \in Generations /\ jvm[g] = "none"
      BY <2>3 DEF OwnershipInv, OwnershipTypeOK, LiveJvmFenced, Generations
    <3>3. Running' = Running /\ Launched' = Launched /\ g \notin Launched
      BY <2>1, <3>2 DEF Running, Launched
    <3> HIDE DEF g, taken
    <3>4. Fence!Reserve(g)
      BY <2>3, <3>1, <3>3 DEF Fence!Reserve, Running, Launched
    <3> QED
      BY <3>2, <3>4 DEF Fence!FenceNext
  <2> QED
    BY <2>1, <2>2, <2>3
<1>3. CASE ProcessSpawned(b)
  <2> DEFINE g == e.gen
  <2>1. /\ row' = row /\ e.at = "spawn"
        /\ jvm' = jvm \/ jvm' = [jvm EXCEPT ![g] = "alive"]
    BY <1>3 DEF ProcessSpawned
  <2>2. g \in Generations /\ row.gen = g /\ jvm[g] = "none"
    BY <1>0, <2>1 DEF EffectSound
  <2>3. CASE jvm' = jvm
    BY <2>1, <2>3, QuietSteps
  <2>4. CASE jvm' = [jvm EXCEPT ![g] = "alive"]
    <3> HIDE DEF g
    <3>1. /\ jvm'[g] = "alive"
          /\ \A h \in Generations \ {g} : jvm'[h] = jvm[h]
      BY <2>2, <2>4 DEF OwnershipInv, OwnershipTypeOK
    <3>2. /\ Running' = Running \cup {g} /\ Launched' = Launched \cup {g}
          /\ g \notin Launched
      BY <2>2, <3>1 DEF Running, Launched
    <3>3. Fence!Launch(g)
      BY <2>1, <2>2, <3>2 DEF Fence!Launch, Running, Launched
    <3>4. PICK h \in Generations : h = g
      BY <2>2
    <3>5. Fence!Launch(h)
      BY <3>3, <3>4 DEF Fence!Launch
    <3> QED
      BY <3>5 DEF Fence!FenceNext
  <2> QED
    BY <2>1, <2>3, <2>4
<1>4. CASE PidAttached(b)
  <2>1. row \in Row
    BY DEF OwnershipInv, OwnershipTypeOK
  <2>2. /\ jvm' = jvm
        /\ row' = row \/ row' = [row EXCEPT !.pid = e.gen, !.status = "running"]
    BY <1>4 DEF PidAttached, jvmVars
  <2>3. row'.gen = row.gen
    BY <2>1, <2>2 DEF Row
  <2> QED
    BY <2>2, <2>3, QuietSteps
<1>5. CASE LaunchAbandoned(b)
  <2>1. /\ Spent(e.gen) /\ jvm' = jvm
        /\ row' = row \/ row' = Without(e.gen)
    BY <1>0, <1>5 DEF LaunchAbandoned, EffectSound, jvmVars
  <2> QED
    BY <2>1, DeleteVacates
<1>6. CASE StopParted(b)
  <2>1. /\ Spent(e.gen) /\ jvm' = jvm
        /\ row' = row \/ row' = Without(e.gen)
    BY <1>0, <1>6 DEF StopParted, FiberSound, jvmVars
  <2> QED
    BY <2>1, DeleteVacates
<1> QED
  BY <1>1, <1>2, <1>3, <1>4, <1>5, <1>6 DEF Effect, EffectEnds, LaunchBegins,
     LaunchRefused, StopBegins, StopAsked, StopWaited, jvmVars

\* What both fibers do: a release or a clearance vacates a spent fence.
LEMMA SharedFenced ==
  ASSUME OwnershipInv, NEW b \in Boots, NEW f \in Fibers, Shared(b, f)
  PROVE  Fence!FenceNext \/ UNCHANGED Fence!fenceVars
<1> DEFINE fib == fiber[b][f]
<1>0. FiberSound(fib)
  BY FiberFacts
<1>1. CASE LeaseReleased(b, f) \/ DeadOwnerCleared(b, f)
  <2>1. /\ Spent(fib.gen) /\ jvm' = jvm
        /\ row' = row \/ row' = Without(fib.gen)
    BY <1>0, <1>1 DEF LeaseReleased, DeadOwnerCleared, FiberSound, jvmVars
  <2> QED
    BY <2>1, DeleteVacates
<1>2. CASE OwnerOrphaned(b, f)
  <2>1. row \in Row
    BY DEF OwnershipInv, OwnershipTypeOK
  <2>2. jvm' = jvm /\ (row' = row \/ row' = [row EXCEPT !.status = "orphaned"])
    BY <1>2 DEF OwnerOrphaned, jvmVars
  <2>3. row'.gen = row.gen
    BY <2>1, <2>2 DEF Row
  <2> QED
    BY <2>2, <2>3, QuietSteps
<1>3. CASE OwnershipFound(b, f) \/ LivenessProbed(b, f)
  <2>1. row' = row /\ jvm' = jvm
    BY <1>3 DEF OwnershipFound, LivenessProbed, jvmVars
  <2> QED
    BY <2>1, QuietSteps
<1> QED
  BY <1>1, <1>2, <1>3 DEF Shared

\* An exit is the only thing a process does to the fence.
LEMMA JvmFenced ==
  ASSUME OwnershipInv, NEW g \in Generations,
         JvmBoots(g) \/ JvmExits(g) \/ ExitDelivered(g)
  PROVE  Fence!FenceNext \/ UNCHANGED Fence!fenceVars
<1>1. jvm \in [Generations -> {"none", "alive", "gone", "closed"}]
  BY DEF OwnershipInv, OwnershipTypeOK
<1>2. CASE JvmBoots(g)
  BY <1>2, QuietSteps DEF JvmBoots
<1>3. CASE JvmExits(g)
  <2>1. /\ row' = row /\ jvm[g] = "alive" /\ jvm'[g] = "gone"
        /\ \A h \in Generations \ {g} : jvm'[h] = jvm[h]
    BY <1>1, <1>3 DEF JvmExits
  <2>2. /\ Running' = Running \ {g} /\ g \in Running /\ Launched' = Launched
    BY <2>1 DEF Running, Launched
  <2>3. Fence!Exit(g)
    BY <2>1, <2>2 DEF Fence!Exit, Running, Launched
  <2> QED
    BY <2>3 DEF Fence!FenceNext
<1>4. CASE ExitDelivered(g)
  <2>1. /\ row' = row /\ jvm[g] = "gone" /\ jvm'[g] = "closed"
        /\ \A h \in Generations \ {g} : jvm'[h] = jvm[h]
    BY <1>1, <1>4 DEF ExitDelivered
  <2>2. Running' = Running /\ Launched' = Launched
    BY <2>1 DEF Running, Launched
  <2> QED
    BY <2>1, <2>2 DEF Fence!fenceVars, Running, Launched
<1> QED
  BY <1>2, <1>3, <1>4

\* Every step of the protocol is a step of the fence, or none.
LEMMA StepFenced ==
  ASSUME OwnershipInv, [OwnershipNext]_vars
  PROVE  [Fence!FenceNext]_(Fence!fenceVars)
<1>1. CASE UNCHANGED <<row, jvm>>
  BY <1>1, QuietSteps
<1>2. ASSUME NEW b \in Boots, Watch(b) PROVE UNCHANGED <<row, jvm>>
  BY <1>2 DEF Watch, SnapshotInvalidated, SnapshotAged, ReconcileThrew,
     WatchTicks, StateObserved, jvmVars
<1>3. ASSUME NEW b \in Boots, BootUp(b) \/ EffectBegins(b) \/ Crash(b)
      PROVE  UNCHANGED <<row, jvm>>
  BY <1>3 DEF BootUp, EffectBegins, Crash, jvmVars
<1>4. ASSUME NEW b \in Boots, NEW f \in Fibers, FindFails(b, f)
      PROVE  UNCHANGED <<row, jvm>>
  BY <1>4 DEF FindFails, jvmVars
<1>5. CASE UNCHANGED vars
  BY <1>1, <1>5 DEF vars
<1>6. CASE OwnershipNext
  BY <1>1, <1>2, <1>3, <1>4, <1>6, EffectFenced, SharedFenced, JvmFenced
  DEF OwnershipNext
<1> QED
  BY <1>5, <1>6

\* The ownership protocol implements the abstract fence: it launches once per
\* reservation, only under the row, and never vacates the row of a JVM that runs.
THEOREM OwnershipImplementsFence == OwnershipSpec => ImplementsFence
<1>1. OwnershipInit => Fence!FenceInit
  BY DEF OwnershipInit, Fence!FenceInit, NoRow, NoGeneration, Generations
<1>2. OwnershipInv /\ [OwnershipNext]_vars => [Fence!FenceNext]_(Fence!fenceVars)
  BY StepFenced
<1> QED
  BY <1>1, <1>2, OwnershipInvariant, PTL DEF OwnershipSpec, ImplementsFence, Fence!FenceSpec
=============================================================================
