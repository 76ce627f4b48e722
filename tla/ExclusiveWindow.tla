-------------------------- MODULE ExclusiveWindow --------------------------
(***************************************************************************)
(* The durable minecraft-exclusive lock of one server instance and the     *)
(* operations that run under it: the job handlers of an agent              *)
(* (server-agent: process-operation.ts, backup-operation.ts,               *)
(* console-operation.ts, artifact-install-operation.ts,                    *)
(* datapack-load-order-operation.ts; server-configuration:                 *)
(* persistent-service.ts), the configuration reads of the panel            *)
(* (control-api, local-configuration.ts), the offline guard they share     *)
(* (offline-guards.ts) and the waits of the process controller             *)
(* (minecraft-process, controller.ts).                                     *)
(*                                                                         *)
(* A window is one such operation from its request for the lock to its     *)
(* release. A run of the agent handles one job at a time (supervisor.ts),  *)
(* so a run has one window; every panel read is a window of its own. One   *)
(* action is one awaited call with the code that runs when it answers.     *)
(*                                                                         *)
(* That no second JVM is ever launched is the subject of ProcessOwnership; *)
(* here its row is the guard of Launch.                                    *)
(***************************************************************************)
EXTENDS Naturals

CONSTANTS
    Runs,           \* runs of the agent, each with an adapter of its own
    Readers,        \* configuration reads of the panel
    Ids,            \* random lock owners
    Agent,          \* the agent id: the owner in every run of the agent
    NoOwner,
    Jobs,           \* the kinds of job that arrive
    LockTerm,       \* lease of the lock, by kind
    WorkTerm,       \* lease of an operation's job, then it is reclaimed
    MaxLooks,       \* inspections the controller makes in one wait
    MaxTime,        \* bound on the clock
    Overlap,        \* whether two runs of the agent may be up at once
    MayCrash,       \* runs that may die without warning
    Faults          \* whether a call may fail

AgentOwned == {"start", "stop", "restart", "restore", "backup", "command"}
Guarded == {"backup", "observe", "apply", "read"}
Kinds == AgentOwned \cup Guarded \cup {"install"}

(* Jobs of a server operation, of which a server has one in flight; apply  *)
(* and observe are enqueued without one.                                   *)
Operations == AgentOwned \cup {"install"}

ASSUME WindowAssumption ==
    /\ Runs # {} /\ Runs \cap Readers = {}
    /\ Agent \notin Ids /\ NoOwner \notin Ids /\ Agent # NoOwner
    /\ Jobs \subseteq Kinds \ {"read"}
    /\ LockTerm \in [Kinds -> Nat \ {0}]
    /\ WorkTerm \in Nat \ {0}
    /\ MaxLooks \in Nat \ {0}
    /\ MaxTime \in Nat
    /\ Overlap \in BOOLEAN /\ Faults \in BOOLEAN
    /\ MayCrash \subseteq Runs

Windows == Runs \cup Readers
OwnerIds == Ids \cup {Agent, NoOwner}

(* Where an operation waits for an answer. *)
Places == {"idle", "acquire", "guard", "inspect", "work", "recheck",
           "promote", "launch", "attach", "stop", "emptying", "booting",
           "send", "release"}

Lock == [owner : OwnerIds, kind : Kinds \cup {"none"}, ends : Nat]
NoLock == [owner |-> NoOwner, kind |-> "none", ends |-> 0]

(* run: whose adapter it asks. begun: the clock at its start, which is the *)
(* acquiredAt of its lock. ends: lease_expires_at of the lock it took.     *)
Window == [kind : Kinds, at : Places, run : Runs, owner : OwnerIds,
           begun : Nat, ends : Nat, looks : 0..(MaxLooks - 1), ok : BOOLEAN]

States == {"offline", "starting", "online", "stopping", "error"}
Adapter == [state : States, handle : {"none", "held", "exited"}]

VARIABLES
    now,            \* the clock
    lock,           \* the row of operational_locks
    window,         \* the operations in progress
    adapter,        \* the process adapter of each run
    jvm,            \* the one process of the server
    run,            \* the life of each run of the agent
    taken           \* until when an operation of the server is in flight

procVars == <<adapter, jvm>>
vars == <<now, lock, window, procVars, run, taken>>

(* A window that is not open. *)
Shut(w) == [kind |-> "read", at |-> "idle",
            run |-> IF w \in Runs THEN w ELSE CHOOSE r \in Runs : TRUE,
            owner |-> NoOwner, begun |-> 0, ends |-> 0, looks |-> 0,
            ok |-> FALSE]

WindowTypeOK ==
    /\ now \in Nat
    /\ lock \in Lock
    /\ window \in [Windows -> Window]
    /\ adapter \in [Runs -> Adapter]
    /\ jvm \in {"down", "booting", "up"}
    /\ run \in [Runs -> {"unborn", "up", "left", "dead"}]
    /\ taken \in Nat

WindowInit ==
    /\ now = 0
    /\ lock = NoLock
    /\ window = [w \in Windows |-> Shut(w)]
    /\ adapter = [r \in Runs |-> [state |-> "offline", handle |-> "none"]]
    /\ jvm = "down"
    /\ run = [r \in Runs |-> "unborn"]
    /\ taken = 0

-----------------------------------------------------------------------------
At(w, place) == window[w].at = place
Busy(w) == ~At(w, "idle")

Goto(w, place) == window' = [window EXCEPT ![w].at = place]

(* The operation is over but for its lock: ok tells how it went. *)
Closing(w, ok) ==
    window' = [window EXCEPT ![w].at = "release", ![w].ok = ok]

(* The result is reported: an operation whose job has not been reclaimed   *)
(* is decided, and another one may be accepted for the server.             *)
Finish(w) ==
    /\ window' = [window EXCEPT ![w] = Shut(w)]
    /\ taken' = IF /\ window[w].kind \in Operations
                   /\ taken = window[w].begun + WorkTerm
                THEN 0 ELSE taken

(* A database call that fails may have changed the row before it did. *)
Replies == IF Faults THEN {"answered", "unheard", "failed"} ELSE {"answered"}

(* A job reaches the handler of a live run. If it is an operation's, the   *)
(* server has none in flight, or the lease of that one's job is reclaimed. *)
Begin(r, kind) ==
    /\ run[r] = "up" /\ At(r, "idle")
    /\ kind \in Operations => taken <= now
    /\ window' = [window EXCEPT ![r].at = "acquire",
                     ![r].kind = kind, ![r].begun = now]
    /\ taken' = IF kind \in Operations THEN now + WorkTerm ELSE taken
    /\ UNCHANGED <<now, lock, procVars, run>>

(* The panel reads a configuration through the adapter of a live run. *)
BeginRead(w, r) ==
    /\ run[r] = "up" /\ At(w, "idle")
    /\ window' = [window EXCEPT ![w].at = "acquire",
                     ![w].run = r, ![w].begun = now]
    /\ UNCHANGED <<now, lock, procVars, run, taken>>

-----------------------------------------------------------------------------
(* The lock: an upsert that takes over a lapsed row, or a row of its own   *)
(* owner.                                                                  *)
Free(owner, t) ==
    \/ lock = NoLock
    \/ lock.ends <= t
    \/ lock.owner = owner

UsedIds == {lock.owner} \cup {window[w].owner : w \in Windows}

(* The agent takes the lock under its id, other operations under a new one. *)
Owner(kind, id) ==
    IF kind \in AgentOwned THEN id = Agent ELSE id \in Ids \ UsedIds

(* What an operation does first with the lock in hand. *)
Opening(kind) ==
    CASE kind \in Guarded   -> "guard"
      [] kind = "restore"   -> "work"
      [] kind = "command"   -> "send"
      [] OTHER              -> "inspect"

Acquire(w) ==
    LET win == window[w]
        ends == win.begun + LockTerm[win.kind]
    IN
    /\ At(w, "acquire")
    /\ \E id \in OwnerIds :
          /\ Owner(win.kind, id)
          /\ LET row == [owner |-> id, kind |-> win.kind, ends |-> ends] IN
             \/ /\ Free(id, win.begun)
                /\ lock' = row
                /\ window' = [window EXCEPT ![w].at = Opening(win.kind),
                                 ![w].owner = id, ![w].ends = ends]
                /\ UNCHANGED taken
             \/ /\ ~Free(id, win.begun)
                /\ Finish(w)
                /\ UNCHANGED lock
             \/ /\ Faults
                /\ \/ UNCHANGED lock
                   \/ Free(id, win.begun) /\ lock' = row
                /\ Finish(w)
    /\ UNCHANGED <<now, procVars, run>>

(* Mutant: the row is deleted by server and name alone. *)
UnlockedAny(owner) == NoLock

(* DELETE ... WHERE owner_id = owner *)
Unlocked(owner) == IF lock.owner = owner THEN NoLock ELSE lock

(* The finally of every handler: a release that fails is swallowed, and    *)
(* the row stays until it lapses.                                          *)
Release(w) ==
    /\ At(w, "release")
    /\ \E reply \in Replies :
          lock' = IF reply = "failed" THEN lock ELSE Unlocked(window[w].owner)
    /\ Finish(w)
    /\ UNCHANGED <<now, procVars, run>>

-----------------------------------------------------------------------------
(* The adapter (adapter.ts). An exit is noticed by the next inspection, of *)
(* anybody; while a launch is in flight an inspection changes nothing.     *)
AfterExit == [offline |-> "offline", starting |-> "error", online |-> "error",
              stopping |-> "offline", error |-> "offline"]

Inspected(r) ==
    LET a == adapter[r] IN
    IF At(r, "attach") THEN a
    ELSE IF a.handle = "exited"
    THEN [state |-> AfterExit[a.state], handle |-> "none"]
    ELSE IF a.state = "starting" /\ a.handle = "held" /\ jvm = "up"
    THEN [a EXCEPT !.state = "online"]
    ELSE a

(* Operations look at the adapter they were given. *)
Seen(w) == Inspected(window[w].run)
Look(w) == adapter' = [adapter EXCEPT ![window[w].run] = Seen(w)]

(* Metrics and the state heartbeat inspect too. *)
Watch(r) ==
    /\ run[r] = "up"
    /\ adapter' = [adapter EXCEPT ![r] = Inspected(r)]
    /\ UNCHANGED <<now, lock, window, jvm, run, taken>>

-----------------------------------------------------------------------------
(* requireOfflineAndExclusive: the window is recognised by its owner or by *)
(* what it was taken for, as the caller chose.                             *)
OwnsLock(win) ==
    CASE win.kind = "backup"  -> lock.owner = Agent
      [] win.kind = "observe" -> lock.owner = win.owner /\ lock.kind = "observe"
      [] OTHER                -> lock.kind \in {"apply", "read"}

CheckLock(w) ==
    /\ At(w, "guard")
    /\ \/ /\ OwnsLock(window[w]) /\ lock.ends > now
          /\ Goto(w, "inspect")
       \/ /\ Faults \/ ~OwnsLock(window[w]) \/ lock.ends <= now
          /\ Closing(w, FALSE)
    /\ UNCHANGED <<now, lock, procVars, run, taken>>

(* Mutant: the guard asks only for the lock. *)
OpenedUnseen(w) ==
    LET kind == window[w].kind IN
    CASE kind \in Guarded \cup {"install"}                              -> "work"
      [] kind \in {"start", "restore"} /\ Seen(w).state = "offline"     -> "launch"
      [] kind \in {"stop", "restart"} /\ Seen(w).state = "online"       -> "stop"
      [] OTHER                                                          -> "release"

(* The first look at the server, and what the state found allows. *)
Opened(w) ==
    LET kind == window[w].kind IN
    CASE kind \in Guarded \cup {"install"} /\ Seen(w).state = "offline" -> "work"
      [] kind \in {"start", "restore"} /\ Seen(w).state = "offline"     -> "launch"
      [] kind \in {"stop", "restart"} /\ Seen(w).state = "online"       -> "stop"
      [] OTHER                                                          -> "release"

FirstLook(w) ==
    /\ At(w, "inspect")
    /\ Look(w)
    /\ window' = [window EXCEPT ![w].at = Opened(w),
                     ![w].ok = window[w].kind = "command"]
    /\ UNCHANGED <<now, lock, jvm, run, taken>>

(* The files are copied, written or read; a restore then boots the server. *)
(* The file of an installation may be there already.                       *)
WorkEnds(w) ==
    /\ At(w, "work")
    /\ \/ Goto(w, IF window[w].kind = "restore" THEN "inspect" ELSE "recheck")
       \/ window[w].kind = "install" /\ Closing(w, TRUE)
       \/ Faults /\ Closing(w, FALSE)
    /\ UNCHANGED <<now, lock, procVars, run, taken>>

(* requireStillOffline; an installation links its file only after it. *)
Recheck(w) ==
    /\ At(w, "recheck")
    /\ Look(w)
    /\ IF Seen(w).state # "offline" THEN Closing(w, FALSE)
       ELSE IF window[w].kind = "install" THEN Goto(w, "promote")
       ELSE Closing(w, TRUE)
    /\ UNCHANGED <<now, lock, jvm, run, taken>>

Promote(w) ==
    /\ At(w, "promote")
    /\ \E ok \in BOOLEAN : (ok \/ Faults) /\ Closing(w, ok)
    /\ UNCHANGED <<now, lock, procVars, run, taken>>
-----------------------------------------------------------------------------
(* adapter.start: the ownership row must be had, then the child is spawned *)
(* and its pid attached. Until that answers the adapter says offline.      *)
Unowned(r) == jvm = "down" /\ \A q \in Runs \ {r} : ~At(q, "attach")

Launch(r) ==
    LET a == Inspected(r) IN
    /\ At(r, "launch")
    /\ \/ /\ a.state = "offline" /\ Unowned(r)
          /\ jvm' = "booting"
          /\ adapter' = [adapter EXCEPT ![r] = [a EXCEPT !.handle = "held"]]
          /\ window' = [window EXCEPT ![r].at = "attach", ![r].looks = 0]
       \/ /\ Faults \/ a.state # "offline" \/ ~Unowned(r)
          /\ adapter' = [adapter EXCEPT ![r] = a]
          /\ Closing(r, FALSE)
          /\ UNCHANGED jvm
       \/ /\ Faults /\ a.state = "offline" /\ Unowned(r)
          /\ adapter' = [adapter EXCEPT ![r] = [a EXCEPT !.state = "error"]]
          /\ Closing(r, FALSE)
          /\ UNCHANGED jvm
    /\ UNCHANGED <<now, lock, run, taken>>

Attach(r) ==
    /\ At(r, "attach")
    /\ \/ /\ adapter' = [adapter EXCEPT ![r].state = "starting"]
          /\ Goto(r, "booting")
       \/ /\ Faults
          /\ adapter' = [adapter EXCEPT ![r].state = "error"]
          /\ Closing(r, FALSE)
    /\ UNCHANGED <<now, lock, jvm, run, taken>>

(* adapter.requestGracefulStop writes to the pipe of the child. *)
StopAsked(r) ==
    LET a == Inspected(r) IN
    /\ At(r, "stop")
    /\ \/ /\ a.state = "online" /\ a.handle = "held"
          /\ adapter' = [adapter EXCEPT ![r] = [a EXCEPT !.state = "stopping"]]
          /\ window' = [window EXCEPT ![r].at = "emptying", ![r].looks = 0]
       \/ /\ Faults /\ a.state = "online" /\ a.handle = "held"
          /\ adapter' = [adapter EXCEPT ![r] = [a EXCEPT !.state = "error"]]
          /\ Closing(r, FALSE)
       \/ /\ a.state # "online" \/ a.handle # "held"
          /\ adapter' = [adapter EXCEPT ![r] = a]
          /\ Closing(r, FALSE)
    /\ UNCHANGED <<now, lock, jvm, run, taken>>

(* waitForState. A restart that found the server empty launches it again.  *)
Waiting(r) == At(r, "emptying") \/ At(r, "booting")

Reached(r, state) ==
    state = IF At(r, "emptying") THEN "offline" ELSE "online"

Terminal(r, state) ==
    state = "error" \/ (At(r, "booting") /\ state = "offline")

(* This inspection is the last one of the wait. *)
TimedOut(r) == window[r].looks + 1 = MaxLooks

(* Mutant: a wait that counts no inspections. *)
Uncounted(r) == window

Counted(r) == [window EXCEPT ![r].looks = @ + 1]

Poll(r) ==
    LET state == Inspected(r).state IN
    /\ Waiting(r)
    /\ Look(r)
    /\ IF Reached(r, state)
       THEN IF At(r, "emptying") /\ window[r].kind = "restart"
            THEN Goto(r, "launch") ELSE Closing(r, TRUE)
       ELSE IF Terminal(r, state) \/ TimedOut(r)
       THEN Closing(r, FALSE)
       ELSE window' = Counted(r)
    /\ UNCHANGED <<now, lock, jvm, run, taken>>

(* A console command reaches a server that is online, then looks at it. *)
Send(r) ==
    /\ At(r, "send")
    /\ Look(r)
    /\ \/ Seen(r).state = "online" /\ Goto(r, "inspect")
       \/ (Faults \/ Seen(r).state # "online") /\ Closing(r, FALSE)
    /\ UNCHANGED <<now, lock, jvm, run, taken>>

-----------------------------------------------------------------------------
JvmBoots ==
    /\ jvm = "booting"
    /\ jvm' = "up"
    /\ UNCHANGED <<now, lock, window, adapter, run, taken>>

(* The JVM exits, asked to or not; the adapter that holds it can tell. *)
JvmExits ==
    /\ jvm # "down"
    /\ jvm' = "down"
    /\ adapter' = [r \in Runs |-> IF adapter[r].handle = "held"
                                  THEN [adapter[r] EXCEPT !.handle = "exited"]
                                  ELSE adapter[r]]
    /\ UNCHANGED <<now, lock, window, run, taken>>

RunUp(r) ==
    /\ run[r] = "unborn"
    /\ Overlap \/ \A q \in Runs : run[q] # "up"
    /\ run' = [run EXCEPT ![r] = "up"]
    /\ UNCHANGED <<now, lock, window, procVars, taken>>

(* The fleet replaces an agent whose instance changed: its work loop has   *)
(* ended, its adapter and the JVM it started live on.                      *)
Replaced(r) ==
    /\ run[r] = "up" /\ ~Busy(r)
    /\ run' = [run EXCEPT ![r] = "left"]
    /\ UNCHANGED <<now, lock, window, procVars, taken>>

(* The process of a run dies, with the runs it replaced in that process    *)
(* and the reads in progress there; JVM, rows and job leases stay.         *)
Crash(r) ==
    LET gone == {r} \cup {q \in Runs : run[q] = "left"} IN
    /\ r \in MayCrash /\ run[r] = "up"
    /\ run' = [q \in Runs |-> IF q \in gone THEN "dead" ELSE run[q]]
    /\ window' = [w \in Windows |->
                     IF w \in gone \/ (w \in Readers /\ window[w].run \in gone)
                     THEN Shut(w) ELSE window[w]]
    /\ adapter' = [q \in Runs |->
                      IF q \in gone THEN [state |-> "offline", handle |-> "none"]
                      ELSE adapter[q]]
    /\ UNCHANGED <<now, lock, jvm, taken>>

Tick ==
    /\ now < MaxTime
    /\ now' = now + 1
    /\ UNCHANGED <<lock, window, procVars, run, taken>>

-----------------------------------------------------------------------------
(* What an operation does once it has begun. *)
Proceeds(w) ==
    \/ Acquire(w) \/ CheckLock(w) \/ FirstLook(w) \/ WorkEnds(w)
    \/ Recheck(w) \/ Promote(w) \/ Release(w)

Controls(r) ==
    Launch(r) \/ Attach(r) \/ StopAsked(r) \/ Poll(r) \/ Send(r)

WindowNext ==
    \/ \E r \in Runs : \/ \E kind \in Jobs : Begin(r, kind)
                       \/ \E w \in Readers : BeginRead(w, r)
                       \/ Controls(r) \/ Watch(r)
                       \/ RunUp(r) \/ Replaced(r) \/ Crash(r)
    \/ \E w \in Windows : Proceeds(w)
    \/ JvmBoots \/ JvmExits \/ Tick

WindowSpec == WindowInit /\ [][WindowNext]_vars
-----------------------------------------------------------------------------
InWindow(w) == window[w].at \notin {"idle", "acquire"}

(* The operation is past its acquire and its lease has not lapsed. *)
Holds(w) == InWindow(w) /\ now < window[w].ends

Working(w) == window[w].at \in {"work", "recheck", "promote"}
Still(w) == Working(w) /\ window[w].kind \in Guarded \cup {"install"}

(* process-operation.ts: an operation on one server excludes the others.   *)
(* As long as one run of the agent is up at a time, no two operations hold *)
(* the lock together, whatever crashed, lapsed or could not be released.   *)
WindowsExclude ==
    \A v, w \in Windows : Holds(v) /\ Holds(w) => v = w

(* While a lease runs, the row is the one its operation wrote: nobody took *)
(* it over and nobody else's release deleted it.                           *)
RowBacksWindow ==
    \A w \in Windows : Holds(w) => /\ lock.owner = window[w].owner
                                   /\ lock.ends = window[w].ends

(* offline-guards.ts: without the lock, an operator's start could land in  *)
(* the middle. If the operations that launch a server do so within their   *)
(* lease, the adapter holds no JVM while files are worked on under a lease *)
(* that runs, not even one it does not report yet.                         *)
Launching == {"start", "restart", "restore"}
NoJvmUnderLease ==
    (\A kind \in Launching : LockTerm[kind] > MaxTime)
    => \A w \in Windows :
          Still(w) /\ Holds(w) => adapter[window[w].run].handle # "held"

(* The inductive invariant: one handler, of the run that is up; a lease is *)
(* the term of its kind and no owner has two; and a JVM the adapter calls  *)
(* offline is attaching.                                                   *)
OneHandler ==
    /\ \A q, r \in Runs : run[q] = "up" /\ run[r] = "up" => q = r
    /\ \A r \in Runs : Busy(r) => run[r] = "up"

LeasesSound ==
    /\ now <= MaxTime
    /\ lock.owner = NoOwner => lock = NoLock
    /\ \A w \in Windows :
          /\ window[w].begun <= now
          /\ w \in Runs => window[w].run = w
          /\ w \in Readers => window[w].kind = "read"
          /\ w \in Runs => window[w].kind \in Kinds
          /\ InWindow(w) =>
                /\ window[w].ends = window[w].begun + LockTerm[window[w].kind]
                /\ window[w].owner # NoOwner
                /\ window[w].owner = Agent => w \in Runs
          /\ window[w].at \in {"launch", "attach"} =>
                w \in Runs /\ window[w].kind \in Launching
    /\ \A v, w \in Windows :
          InWindow(v) /\ InWindow(w) /\ window[v].owner = window[w].owner
          => v = w

AdapterSound ==
    \A r \in Runs :
        adapter[r].handle = "held" /\ adapter[r].state = "offline"
        => At(r, "attach")

WindowInv ==
    /\ WindowTypeOK
    /\ OneHandler
    /\ LeasesSound
    /\ AdapterSound
    /\ RowBacksWindow
    /\ NoJvmUnderLease

-----------------------------------------------------------------------------
(* offline-guards.ts: proof that the server was offline, and stayed        *)
(* offline, while a file was rewritten or a world was copied: no JVM runs  *)
(* while files are worked on under a lease that runs.                      *)
StaysOffline == \A w \in Windows : Still(w) /\ Holds(w) => jvm = "down"

-----------------------------------------------------------------------------
(* Every awaited call of a live operation answers and the controller's     *)
(* sleeps end. No job arrives, no JVM boots or exits, no run comes up or   *)
(* dies by fairness.                                                       *)
WindowFairness ==
    /\ \A w \in Windows : WF_vars(Proceeds(w))
    /\ \A r \in Runs : WF_vars(Controls(r))

WindowFairSpec == WindowSpec /\ WindowFairness

(* controller.ts: every wait is bounded, so every operation ends and the   *)
(* agent turns to its next job, even if the server never boots or exits.   *)
WindowsEnd == \A w \in Windows : Busy(w) ~> ~Busy(w)
=============================================================================
