----------------------- MODULE ExclusiveWindowProofs -----------------------
(* Proofs about ExclusiveWindow, for any number of runs, readers and ids,  *)
(* any leases and any faults, as long as two runs are not up at once; and, *)
(* in the last section, what is left of it when they are.                  *)
EXTENDS ExclusiveWindow, TLAPS

-----------------------------------------------------------------------------
(* A step that moves the window w within its lease.                        *)
Moves(w) ==
    /\ UNCHANGED <<now, lock, run, taken>>
    /\ InWindow(w) /\ InWindow(w)'
    /\ \A v \in Windows \ {w} : window'[v] = window[v]
    /\ window'[w].kind = window[w].kind
    /\ window'[w].run = window[w].run
    /\ window'[w].owner = window[w].owner
    /\ window'[w].begun = window[w].begun
    /\ window'[w].ends = window[w].ends
    /\ window'[w].at \in {"launch", "attach"} =>
           w \in Runs /\ window[w].kind \in Launching

(* Nobody comes to hold a JVM, but for the launch of r.                    *)
NoNewHandle(r) ==
    \A q \in Runs :
        adapter'[q].handle = "held"
        => adapter[q].handle = "held" \/ (q = r /\ At(r, "launch"))

(* Whoever launches a server does so within its lease.                     *)
Patient == \A kind \in Launching : LockTerm[kind] > MaxTime

(* Work begins, under a lease that runs, only where no JVM is held.        *)
WorkFinds(w) ==
    Patient /\ Holds(w) /\ Still(w)'
    => Still(w) \/ adapter'[window[w].run].handle # "held"

(* Two windows under a lease that runs are one.                            *)
LEMMA OneHolder ==
    ASSUME LeasesSound, RowBacksWindow,
           NEW v \in Windows, NEW w \in Windows, Holds(v), Holds(w)
    PROVE  v = w
<1>1. lock.owner = window[v].owner /\ lock.owner = window[w].owner
  BY DEF RowBacksWindow
<1>2. InWindow(v) /\ InWindow(w)
  BY DEF Holds
<1> QED
  BY <1>1, <1>2 DEF LeasesSound

(* A window that launches a server holds the lock all the while.           *)
LEMMA LauncherHolds ==
    ASSUME WindowTypeOK, LeasesSound, Patient, NEW w \in Windows,
           At(w, "launch") \/ At(w, "attach")
    PROVE  Holds(w) /\ w \in Runs /\ window[w].kind \in Launching
<1>1. window[w].kind \in Launching /\ InWindow(w) /\ w \in Runs
  BY DEF LeasesSound, At, InWindow
<1>2. window[w].ends = window[w].begun + LockTerm[window[w].kind]
  BY <1>1 DEF LeasesSound
<1>3. LockTerm[window[w].kind] > MaxTime /\ window[w].begun \in Nat
      /\ now <= MaxTime /\ now \in Nat /\ MaxTime \in Nat
      /\ LockTerm[window[w].kind] \in Nat
  BY <1>1, WindowAssumption DEF WindowTypeOK, Window, LeasesSound, Patient
<1> QED
  BY <1>1, <1>2, <1>3 DEF Holds

(* The offline state of an adapter is no lie outside a launch.             *)
LEMMA InspectedSound ==
    ASSUME WindowTypeOK, AdapterSound, NEW r \in Runs
    PROVE  /\ Inspected(r) \in Adapter
           /\ Inspected(r).handle = "held" => adapter[r].handle = "held"
           /\ Inspected(r).handle = "held" /\ Inspected(r).state = "offline"
              => At(r, "attach")
<1>1. adapter[r] \in Adapter
  BY DEF WindowTypeOK
<1>2. ASSUME NEW s \in States PROVE AfterExit[s] \in States
  BY <1>2 DEF AfterExit, States
<1>3. CASE At(r, "attach")
  BY <1>1, <1>3 DEF Inspected
<1>4. CASE ~At(r, "attach") /\ adapter[r].handle = "exited"
  <2> DEFINE s == AfterExit[adapter[r].state]
  <2>1. s \in States
    BY <1>1, <1>2 DEF Adapter
  <2>2. Inspected(r) = [state |-> s, handle |-> "none"]
    BY <1>4 DEF Inspected
  <2> HIDE DEF s
  <2> QED
    BY <2>1, <2>2 DEF Adapter
<1>5. CASE ~At(r, "attach") /\ adapter[r].handle # "exited"
  <2>1. ~(adapter[r].handle = "held" /\ adapter[r].state = "offline")
    BY <1>5 DEF AdapterSound
  <2> QED
    BY <1>1, <1>5, <2>1 DEF Inspected, Adapter, States
<1> QED
  BY <1>3, <1>4, <1>5

LEMMA LookSound ==
    ASSUME WindowTypeOK, AdapterSound, NEW r \in Runs,
           adapter' = [adapter EXCEPT ![r] = Inspected(r)]
    PROVE  /\ adapter' \in [Runs -> Adapter]
           /\ adapter'[r] = Inspected(r)
           /\ \A q \in Runs : adapter'[q].handle = "held" =>
                 /\ adapter[q].handle = "held"
                 /\ adapter'[q].state = "offline" => At(q, "attach")
<1> DEFINE a == Inspected(r)
<1>1. /\ a \in Adapter
      /\ a.handle = "held" => adapter[r].handle = "held"
      /\ a.handle = "held" /\ a.state = "offline" => At(r, "attach")
  BY InspectedSound
<1>2. adapter' = [adapter EXCEPT ![r] = a]
  OBVIOUS
<1>3. adapter \in [Runs -> Adapter]
  BY DEF WindowTypeOK
<1> HIDE DEF a
<1>4. adapter' \in [Runs -> Adapter] /\ adapter'[r] = a
  BY <1>1, <1>2, <1>3
<1>5. \A q \in Runs \ {r} : adapter'[q] = adapter[q]
  BY <1>2, <1>3
<1>6. \A q \in Runs : adapter[q].handle = "held" /\ adapter[q].state = "offline"
                      => At(q, "attach")
  BY DEF AdapterSound
<1> QED
  BY <1>1, <1>4, <1>5, <1>6 DEF a

(* A move keeps the invariant, if the adapter it leaves behind is sound.   *)
LEMMA MovePreserves ==
    ASSUME WindowInv, NEW w \in Windows, Moves(w), NoNewHandle(w),
           WorkFinds(w), WindowTypeOK', AdapterSound',
           At(w, "launch") => w \in Runs
    PROVE  WindowInv'
<1> USE DEF WindowInv
<1>1. \A v \in Windows : (InWindow(v)' <=> InWindow(v)) /\ (Busy(v)' <=> Busy(v))
  BY DEF Moves, InWindow, Busy, At
<1>2. \A v \in Windows : /\ window'[v].kind = window[v].kind
                         /\ window'[v].run = window[v].run
                         /\ window'[v].owner = window[v].owner
                         /\ window'[v].begun = window[v].begun
                         /\ window'[v].ends = window[v].ends
  BY DEF Moves
<1>3. now' = now /\ lock' = lock /\ run' = run
  BY DEF Moves
<1>4. \A v \in Windows : Holds(v)' <=> Holds(v)
  BY <1>1, <1>2, <1>3 DEF Holds
<1>5. OneHandler'
  BY <1>1, <1>3 DEF OneHandler, Windows
<1>6. LeasesSound'
  <2>1. \A v \in Windows : window'[v].at \in {"launch", "attach"} =>
                             v \in Runs /\ window'[v].kind \in Launching
    BY <1>2 DEF Moves, LeasesSound
  <2> QED
    BY <1>1, <1>2, <1>3, <2>1 DEF LeasesSound
<1>7. RowBacksWindow'
  BY <1>2, <1>3, <1>4 DEF RowBacksWindow
<1>8. NoJvmUnderLease'
  <2> SUFFICES ASSUME Patient, NEW v \in Windows, Still(v)', Holds(v)'
               PROVE  adapter'[window'[v].run].handle # "held"
    BY DEF NoJvmUnderLease, Patient
  <2> DEFINE q == window[v].run
  <2>1. window'[v].run = q /\ q \in Runs
    BY <1>2 DEF WindowTypeOK, Window
  <2>2. adapter'[q].handle # "held" \/ Still(v)
    BY <1>2, <1>4 DEF WorkFinds, Moves, Still, Working
  <2>3. CASE Still(v) /\ adapter'[q].handle = "held"
    <3>1. adapter[q].handle # "held"
      BY <1>4, <2>3 DEF NoJvmUnderLease, Patient
    <3>2. q = w /\ At(w, "launch") /\ w \in Runs
      BY <3>1, <2>1, <2>3 DEF NoNewHandle
    <3>3. v = w
      BY <3>2, <1>4, OneHolder, LauncherHolds
    <3> QED
      BY <3>2, <3>3, <2>3 DEF Still, Working, At
  <2> QED
    BY <2>1, <2>2, <2>3
<1> QED
  BY <1>5, <1>6, <1>7, <1>8

-----------------------------------------------------------------------------
(* Inside its lease a window goes to a place with a record like this one.  *)
Onward(w, n) ==
    /\ n \in Window
    /\ n.at \notin {"idle", "acquire"}
    /\ n.kind = window[w].kind /\ n.run = window[w].run
    /\ n.owner = window[w].owner
    /\ n.begun = window[w].begun /\ n.ends = window[w].ends
    /\ n.at \in {"launch", "attach"} => w \in Runs /\ n.kind \in Launching

(* Such a step is a move.                                                  *)
LEMMA OnwardMoves ==
    ASSUME WindowInv, NEW w \in Windows, NEW n, Onward(w, n), InWindow(w),
           window' = [window EXCEPT ![w] = n],
           UNCHANGED <<now, lock, run, taken>>
    PROVE  /\ Moves(w)
           /\ window' \in [Windows -> Window]
           /\ window'[w] = n
<1>1. window \in [Windows -> Window]
  BY DEF WindowInv, WindowTypeOK
<1>2. window' \in [Windows -> Window] /\ window'[w] = n
  BY <1>1 DEF Onward
<1>3. \A v \in Windows \ {w} : window'[v] = window[v]
  BY <1>1
<1>4. InWindow(w)'
  BY <1>2 DEF InWindow, Onward
<1> QED
  BY <1>2, <1>3, <1>4 DEF Moves, Onward

(* A step to p, the verdict and the count of looks being whatever they are.*)
Reaches(w, p) ==
    \/ Goto(w, p)
    \/ \E ok \in BOOLEAN : window' = [window EXCEPT ![w].at = p, ![w].ok = ok]
    \/ \E looks \in 0..(MaxLooks - 1) :
          window' = [window EXCEPT ![w].at = p, ![w].looks = looks]

LEMMA ReachesMoves ==
    ASSUME WindowInv, NEW w \in Windows, NEW p \in Places, InWindow(w),
           p \notin {"idle", "acquire"},
           p \in {"launch", "attach"} =>
               w \in Runs /\ window[w].kind \in Launching,
           Reaches(w, p), UNCHANGED <<now, lock, run, taken>>
    PROVE  /\ Moves(w)
           /\ window' \in [Windows -> Window]
           /\ window'[w].at = p
<1>0. window \in [Windows -> Window]
  BY DEF WindowInv, WindowTypeOK
<1>1. CASE Goto(w, p)
  <2> DEFINE n == [window[w] EXCEPT !.at = p]
  <2>1. window' = [window EXCEPT ![w] = n]
    BY <1>1, <1>0 DEF Window, Goto
  <2>2. Onward(w, n) /\ n.at = p
    BY <1>0 DEF Window, Onward
  <2> HIDE DEF n
  <2> QED
    BY <2>1, <2>2, OnwardMoves
<1>2. ASSUME NEW ok \in BOOLEAN,
             window' = [window EXCEPT ![w].at = p, ![w].ok = ok]
      PROVE  Moves(w) /\ window' \in [Windows -> Window] /\ window'[w].at = p
  <2> DEFINE n == [window[w] EXCEPT !.at = p, !.ok = ok]
  <2>1. window' = [window EXCEPT ![w] = n]
    BY <1>2, <1>0 DEF Window
  <2>2. Onward(w, n) /\ n.at = p
    BY <1>0 DEF Window, Onward
  <2> HIDE DEF n
  <2> QED
    BY <2>1, <2>2, OnwardMoves
<1>3. ASSUME NEW looks \in 0..(MaxLooks - 1),
             window' = [window EXCEPT ![w].at = p, ![w].looks = looks]
      PROVE  Moves(w) /\ window' \in [Windows -> Window] /\ window'[w].at = p
  <2> DEFINE n == [window[w] EXCEPT !.at = p, !.looks = looks]
  <2>1. window' = [window EXCEPT ![w] = n]
    BY <1>3, <1>0 DEF Window
  <2>2. Onward(w, n) /\ n.at = p
    BY <1>0 DEF Window, Onward
  <2> HIDE DEF n
  <2> QED
    BY <2>1, <2>2, OnwardMoves
<1> QED
  BY <1>1, <1>2, <1>3 DEF Reaches

(* An operation that works on the files of an offline server.              *)
WorksOffline(w) == window[w].kind \in Guarded \cup {"install"}

(* A move to a place where no work begins and the adapter is looked at, or *)
(* left alone, keeps the invariant.                                        *)
LEMMA QuietMove ==
    ASSUME WindowInv, NEW w \in Windows, NEW p \in Places, InWindow(w),
           p \notin {"idle", "acquire", "attach"},
           p = "launch" => w \in Runs /\ window[w].kind \in Launching,
           Reaches(w, p), UNCHANGED <<now, lock, run, taken, jvm>>,
           Look(w) \/ UNCHANGED adapter,
           ~At(w, "attach"),
           p \in {"work", "recheck", "promote"} =>
               \/ Still(w)
               \/ Seen(w).state = "offline" /\ Look(w)
               \/ ~WorksOffline(w)
    PROVE  WindowInv'
<1> DEFINE q == window[w].run
<1> USE DEF WindowInv
<1>1. /\ Moves(w)
      /\ window' \in [Windows -> Window]
      /\ window'[w].at = p
  BY ReachesMoves
<1>2. q \in Runs
  BY DEF WindowTypeOK, Window
<1>3. /\ adapter' \in [Runs -> Adapter]
      /\ \A r \in Runs : adapter'[r].handle = "held" =>
            /\ adapter[r].handle = "held"
            /\ adapter'[r].state = "offline" => At(r, "attach")
  <2>1. CASE Look(w)
    <3>1. adapter' = [adapter EXCEPT ![q] = Inspected(q)]
      BY <2>1 DEF Look, Seen
    <3> HIDE DEF q
    <3> QED
      BY <3>1, <1>2, LookSound
  <2>2. CASE UNCHANGED adapter
    BY <2>2 DEF WindowTypeOK, AdapterSound
  <2> QED
    BY <2>1, <2>2
<1>4. WindowTypeOK'
  BY <1>1, <1>3 DEF WindowTypeOK
<1>5. \A v \in Windows : At(v, "attach") => At(v, "attach")'
  BY <1>1 DEF Moves, At
<1>6. AdapterSound'
  BY <1>3, <1>5 DEF AdapterSound, Windows
<1>7. NoNewHandle(w)
  BY <1>3 DEF NoNewHandle
<1>8. At(w, "launch") => w \in Runs
  BY DEF LeasesSound, At
<1>9. WorkFinds(w)
  <2> SUFFICES ASSUME Patient, Holds(w), Still(w)', ~Still(w),
                      adapter'[q].handle = "held"
               PROVE  FALSE
    BY DEF WorkFinds
  <2>1. /\ p \in {"work", "recheck", "promote"}
        /\ WorksOffline(w)
    BY <1>1 DEF Still, Working, Moves, WorksOffline
  <2>2. adapter' = [adapter EXCEPT ![q] = Inspected(q)] /\ Inspected(q).state = "offline"
    BY <2>1 DEF Look, Seen
  <2>3. adapter'[q] = Inspected(q)
    BY <1>2, <2>2, LookSound
  <2>4. At(q, "attach")
    BY <1>2, <1>3, <2>2, <2>3
  <2>5. q \in Windows /\ q # w
    BY <1>2, <2>4 DEF Windows
  <2> HIDE DEF q
  <2> QED
    BY <2>4, <2>5, OneHolder, LauncherHolds
<1> QED
  BY <1>1, <1>4, <1>6, <1>7, <1>8, <1>9, MovePreserves

(* A move of a run that changes its own adapter, and begins no work.       *)
LEMMA ControlMove ==
    ASSUME WindowInv, NEW r \in Runs, NEW p \in Places, InWindow(r),
           p \notin {"idle", "acquire", "work", "recheck", "promote"},
           p \in {"launch", "attach"} => window[r].kind \in Launching,
           Reaches(r, p), UNCHANGED <<now, lock, run, taken>>,
           jvm' \in {"down", "booting", "up"},
           NEW n \in Adapter, adapter' = [adapter EXCEPT ![r] = n],
           n.handle = "held" => adapter[r].handle = "held" \/ At(r, "launch"),
           n.handle = "held" /\ n.state = "offline" => p = "attach"
    PROVE  WindowInv'
<1> USE DEF WindowInv
<1>1. r \in Windows
  BY DEF Windows
<1>2. Moves(r) /\ window' \in [Windows -> Window] /\ window'[r].at = p
  BY <1>1, ReachesMoves
<1>3. /\ adapter' \in [Runs -> Adapter] /\ adapter'[r] = n
      /\ \A q \in Runs \ {r} : adapter'[q] = adapter[q]
  BY DEF WindowTypeOK
<1>4. WindowTypeOK'
  BY <1>2, <1>3 DEF WindowTypeOK
<1>5. AdapterSound'
  BY <1>2, <1>3 DEF AdapterSound, Moves, At, Windows
<1>6. NoNewHandle(r)
  BY <1>3 DEF NoNewHandle
<1>7. WorkFinds(r)
  BY <1>2 DEF WorkFinds, Still, Working
<1> QED
  BY <1>1, <1>2, <1>4, <1>5, <1>6, <1>7, MovePreserves

-----------------------------------------------------------------------------
(* The steps of an operation within its lease.                             *)
LEMMA CheckLockPreserves ==
    ASSUME WindowInv, NEW w \in Windows, CheckLock(w)
    PROVE  WindowInv'
<1>1. InWindow(w) /\ ~At(w, "attach")
  BY DEF CheckLock, InWindow, At
<1>2. "inspect" \in Places /\ "release" \in Places
  BY DEF Places
<1>3. Reaches(w, "inspect") \/ Reaches(w, "release")
  BY DEF CheckLock, Reaches, Closing
<1>4. UNCHANGED <<now, lock, run, taken, jvm, adapter>>
  BY DEF CheckLock, procVars
<1> QED
  BY <1>1, <1>2, <1>3, <1>4, QuietMove

LEMMA OpenedFacts ==
    ASSUME WindowInv, NEW w \in Windows
    PROVE  /\ Opened(w) \in {"work", "launch", "stop", "release"}
           /\ Opened(w) = "work" => Seen(w).state = "offline"
           /\ Opened(w) = "launch" => w \in Runs /\ window[w].kind \in Launching
<1>1. window[w].kind \in Kinds
  BY DEF WindowInv, WindowTypeOK, Window
<1>2. w \notin Runs => window[w].kind = "read"
  BY DEF WindowInv, LeasesSound, Windows
<1>3. CASE window[w].kind \in Guarded \cup {"install"} /\ Seen(w).state = "offline"
  BY <1>3 DEF Opened, Guarded
<1>4. CASE /\ ~(window[w].kind \in Guarded \cup {"install"} /\ Seen(w).state = "offline")
           /\ window[w].kind \in {"start", "restore"} /\ Seen(w).state = "offline"
  <2>1. Opened(w) = "launch"
    BY <1>4 DEF Opened, Guarded
  <2> QED
    BY <2>1, <1>2, <1>4 DEF Launching
<1>5. CASE /\ ~(window[w].kind \in Guarded \cup {"install"} /\ Seen(w).state = "offline")
           /\ ~(window[w].kind \in {"start", "restore"} /\ Seen(w).state = "offline")
  <2>1. Opened(w) = IF window[w].kind \in {"stop", "restart"} /\ Seen(w).state = "online"
                    THEN "stop" ELSE "release"
    BY <1>5 DEF Opened, Guarded
  <2> QED
    BY <2>1
<1> QED
  BY <1>3, <1>4, <1>5

LEMMA FirstLookPreserves ==
    ASSUME WindowInv, NEW w \in Windows, FirstLook(w)
    PROVE  WindowInv'
<1> DEFINE p == Opened(w)
           ok == window[w].kind = "command"
<1>1. InWindow(w) /\ ~At(w, "attach") /\ Look(w)
  BY DEF FirstLook, InWindow, At
<1>2. p \in Places /\ p \notin {"idle", "acquire", "attach", "recheck", "promote"}
  BY OpenedFacts DEF Places
<1>3. ok \in BOOLEAN /\ window' = [window EXCEPT ![w].at = p, ![w].ok = ok]
  BY DEF FirstLook
<1>4. p = "work" => Seen(w).state = "offline"
  BY OpenedFacts
<1>5. p = "launch" => w \in Runs /\ window[w].kind \in Launching
  BY OpenedFacts
<1> HIDE DEF p, ok
<1>6. Reaches(w, p)
  BY <1>3 DEF Reaches
<1>7. UNCHANGED <<now, lock, run, taken, jvm>>
  BY DEF FirstLook
<1> QED
  BY <1>1, <1>2, <1>4, <1>5, <1>6, <1>7, QuietMove

LEMMA WorkEndsPreserves ==
    ASSUME WindowInv, NEW w \in Windows, WorkEnds(w)
    PROVE  WindowInv'
<1>1. InWindow(w) /\ ~At(w, "attach")
  BY DEF WorkEnds, InWindow, At
<1>2. "inspect" \in Places /\ "release" \in Places /\ "recheck" \in Places
  BY DEF Places
<1>3. UNCHANGED <<now, lock, run, taken, jvm>> /\ UNCHANGED adapter
  BY DEF WorkEnds, procVars
<1>4. CASE Goto(w, "inspect") /\ window[w].kind = "restore"
  BY <1>1, <1>2, <1>3, <1>4, QuietMove DEF Reaches
<1>5. CASE Goto(w, "recheck") /\ window[w].kind # "restore"
  <2>1. Reaches(w, "recheck")
    BY <1>5 DEF Reaches
  <2>2. Still(w) \/ ~WorksOffline(w)
    BY DEF WorkEnds, Still, Working, At, WorksOffline
  <2>3. CASE Still(w)
    BY <1>1, <1>2, <1>3, <2>1, <2>3, QuietMove
  <2>4. CASE ~WorksOffline(w)
    BY <1>1, <1>2, <1>3, <2>1, <2>4, QuietMove
  <2> QED
    BY <2>2, <2>3, <2>4
<1>6. CASE \E ok \in BOOLEAN : Closing(w, ok)
  BY <1>1, <1>2, <1>3, <1>6, QuietMove DEF Reaches, Closing
<1> QED
  BY <1>4, <1>5, <1>6 DEF WorkEnds

LEMMA RecheckPreserves ==
    ASSUME WindowInv, NEW w \in Windows, Recheck(w)
    PROVE  WindowInv'
<1>1. InWindow(w) /\ ~At(w, "attach") /\ Look(w)
  BY DEF Recheck, InWindow, At
<1>2. "promote" \in Places /\ "release" \in Places
  BY DEF Places
<1>3. UNCHANGED <<now, lock, run, taken, jvm>>
  BY DEF Recheck
<1>4. CASE Goto(w, "promote") /\ window[w].kind = "install"
  <2>1. Still(w)
    BY <1>4 DEF Recheck, Still, Working, At
  <2>2. Reaches(w, "promote")
    BY <1>4 DEF Reaches
  <2> QED
    BY <1>1, <1>2, <1>3, <2>1, <2>2, QuietMove
<1>5. CASE \E ok \in BOOLEAN : Closing(w, ok)
  BY <1>1, <1>2, <1>3, <1>5, QuietMove DEF Reaches, Closing
<1> QED
  BY <1>4, <1>5 DEF Recheck

LEMMA PromotePreserves ==
    ASSUME WindowInv, NEW w \in Windows, Promote(w)
    PROVE  WindowInv'
<1>1. InWindow(w) /\ ~At(w, "attach")
  BY DEF Promote, InWindow, At
<1>2. "release" \in Places
  BY DEF Places
<1>3. UNCHANGED <<now, lock, run, taken, jvm, adapter>>
  BY DEF Promote, procVars
<1>4. Reaches(w, "release")
  BY DEF Promote, Closing, Reaches
<1> QED
  BY <1>1, <1>2, <1>3, <1>4, QuietMove

LEMMA SendPreserves ==
    ASSUME WindowInv, NEW r \in Runs, Send(r)
    PROVE  WindowInv'
<1>1. InWindow(r) /\ ~At(r, "attach") /\ Look(r) /\ r \in Windows
  BY DEF Send, InWindow, At, Windows
<1>2. "inspect" \in Places /\ "release" \in Places
  BY DEF Places
<1>3. UNCHANGED <<now, lock, run, taken, jvm>>
  BY DEF Send
<1>4. Reaches(r, "inspect") \/ Reaches(r, "release")
  BY DEF Send, Closing, Reaches
<1> QED
  BY <1>1, <1>2, <1>3, <1>4, QuietMove

LEMMA PollPreserves ==
    ASSUME WindowInv, NEW r \in Runs, Poll(r)
    PROVE  WindowInv'
<1> DEFINE place == window[r].at
<1>1. /\ InWindow(r) /\ ~At(r, "attach") /\ Look(r) /\ r \in Windows
      /\ place \in {"emptying", "booting"}
  BY DEF Poll, Waiting, InWindow, At, Windows
<1>2. {"launch", "release", "emptying", "booting"} \subseteq Places
  BY DEF Places
<1>3. UNCHANGED <<now, lock, run, taken, jvm>>
  BY DEF Poll
<1>4. CASE Goto(r, "launch") /\ window[r].kind = "restart"
  BY <1>1, <1>2, <1>3, <1>4, QuietMove DEF Reaches, Launching
<1>5. CASE \E ok \in BOOLEAN : Closing(r, ok)
  BY <1>1, <1>2, <1>3, <1>5, QuietMove DEF Reaches, Closing
<1>6. CASE window' = Counted(r) /\ ~TimedOut(r)
  <2> DEFINE looks == window[r].looks + 1
  <2>1. window[r] \in Window /\ window \in [Windows -> Window]
    BY <1>1 DEF WindowInv, WindowTypeOK
  <2>2. looks \in 0..(MaxLooks - 1)
    <3>1. window[r].looks \in 0..(MaxLooks - 1)
      BY <2>1 DEF Window
    <3>2. window[r].looks + 1 # MaxLooks
      BY <1>6 DEF TimedOut
    <3> QED
      BY <3>1, <3>2, WindowAssumption
  <2>3. window' = [window EXCEPT ![r].at = place, ![r].looks = looks]
    BY <1>1, <1>6, <2>1 DEF Counted, Window
  <2>4. Reaches(r, place)
    BY <2>2, <2>3 DEF Reaches
  <2> QED
    BY <1>1, <1>2, <1>3, <2>4, QuietMove
<1>7. \/ Goto(r, "launch") /\ window[r].kind = "restart"
      \/ \E ok \in BOOLEAN : Closing(r, ok)
      \/ window' = Counted(r) /\ ~TimedOut(r)
  BY DEF Poll
<1> QED
  BY <1>4, <1>5, <1>6, <1>7

LEMMA StopAskedPreserves ==
    ASSUME WindowInv, NEW r \in Runs, StopAsked(r)
    PROVE  WindowInv'
<1> DEFINE a == Inspected(r)
<1>1. /\ a \in Adapter
      /\ a.handle = "held" => adapter[r].handle = "held"
      /\ a.handle = "held" /\ a.state = "offline" => At(r, "attach")
  BY InspectedSound DEF WindowInv
<1>2. InWindow(r) /\ ~At(r, "attach")
  BY DEF StopAsked, InWindow, At
<1>3. UNCHANGED <<now, lock, run, taken, jvm>> /\ jvm' \in {"down", "booting", "up"}
  BY DEF StopAsked, WindowInv, WindowTypeOK
<1>4. "emptying" \in Places /\ "release" \in Places
  BY DEF Places
<1>5. 0 \in 0..(MaxLooks - 1)
  BY WindowAssumption
<1>6. \/ /\ adapter' = [adapter EXCEPT ![r] = [a EXCEPT !.state = "stopping"]]
         /\ Reaches(r, "emptying")
      \/ /\ adapter' = [adapter EXCEPT ![r] = [a EXCEPT !.state = "error"]]
         /\ Reaches(r, "release")
      \/ /\ adapter' = [adapter EXCEPT ![r] = a]
         /\ Reaches(r, "release")
  BY <1>5 DEF StopAsked, Reaches, Closing
<1> HIDE DEF a
<1>7. ASSUME NEW s \in {"stopping", "error"}
      PROVE  LET n == [a EXCEPT !.state = s] IN
             n \in Adapter /\ n.handle = a.handle /\ n.state = s
  BY <1>1 DEF Adapter, States
<1>8. ASSUME NEW p \in {"emptying", "release"}, Reaches(r, p),
             NEW n \in Adapter, adapter' = [adapter EXCEPT ![r] = n],
             n.handle = a.handle, n.state # "offline" \/ n = a
      PROVE  WindowInv'
  <2>1. /\ n.handle = "held" => adapter[r].handle = "held"
        /\ ~(n.handle = "held" /\ n.state = "offline")
    BY <1>1, <1>2, <1>8
  <2> QED
    BY <1>2, <1>3, <1>4, <1>8, <2>1, ControlMove
<1>9. CASE /\ adapter' = [adapter EXCEPT ![r] = [a EXCEPT !.state = "stopping"]]
           /\ Reaches(r, "emptying")
  <2> DEFINE n == [a EXCEPT !.state = "stopping"]
  <2>1. n \in Adapter /\ n.handle = a.handle /\ n.state # "offline"
    BY <1>7
  <2>2. adapter' = [adapter EXCEPT ![r] = n]
    BY <1>9
  <2> HIDE DEF n
  <2> QED
    BY <1>8, <1>9, <2>1, <2>2
<1>10. CASE /\ adapter' = [adapter EXCEPT ![r] = [a EXCEPT !.state = "error"]]
            /\ Reaches(r, "release")
  <2> DEFINE n == [a EXCEPT !.state = "error"]
  <2>1. n \in Adapter /\ n.handle = a.handle /\ n.state # "offline"
    BY <1>7
  <2>2. adapter' = [adapter EXCEPT ![r] = n]
    BY <1>10
  <2> HIDE DEF n
  <2> QED
    BY <1>8, <1>10, <2>1, <2>2
<1>11. CASE adapter' = [adapter EXCEPT ![r] = a] /\ Reaches(r, "release")
  BY <1>1, <1>8, <1>11
<1> QED
  BY <1>6, <1>9, <1>10, <1>11

LEMMA LaunchPreserves ==
    ASSUME WindowInv, NEW r \in Runs, Launch(r)
    PROVE  WindowInv'
<1> DEFINE a == Inspected(r)
<1>1. /\ a \in Adapter
      /\ a.handle = "held" => adapter[r].handle = "held"
      /\ a.handle = "held" /\ a.state = "offline" => At(r, "attach")
  BY InspectedSound DEF WindowInv
<1>2. InWindow(r) /\ At(r, "launch") /\ ~At(r, "attach") /\ r \in Windows
  BY DEF Launch, InWindow, At, Windows
<1>3. window[r].kind \in Launching
  BY <1>2 DEF WindowInv, LeasesSound, At, InWindow
<1>4. /\ UNCHANGED <<now, lock, run, taken>>
      /\ jvm' \in {"down", "booting", "up"}
  BY DEF Launch, WindowInv, WindowTypeOK
<1>5. "attach" \in Places /\ "release" \in Places
  BY DEF Places
<1>6. 0 \in 0..(MaxLooks - 1)
  BY WindowAssumption
<1>7. \/ /\ adapter' = [adapter EXCEPT ![r] = [a EXCEPT !.handle = "held"]]
         /\ Reaches(r, "attach")
      \/ /\ adapter' = [adapter EXCEPT ![r] = [a EXCEPT !.state = "error"]]
         /\ Reaches(r, "release")
      \/ /\ adapter' = [adapter EXCEPT ![r] = a]
         /\ Reaches(r, "release")
  BY <1>6 DEF Launch, Reaches, Closing
<1> HIDE DEF a
<1>8. CASE /\ adapter' = [adapter EXCEPT ![r] = [a EXCEPT !.handle = "held"]]
           /\ Reaches(r, "attach")
  <2> DEFINE n == [a EXCEPT !.handle = "held"]
  <2>1. n \in Adapter
    BY <1>1 DEF Adapter
  <2>2. adapter' = [adapter EXCEPT ![r] = n]
    BY <1>8
  <2> HIDE DEF n
  <2> QED
    BY <1>2, <1>3, <1>4, <1>5, <1>8, <2>1, <2>2, ControlMove
<1>9. CASE /\ adapter' = [adapter EXCEPT ![r] = [a EXCEPT !.state = "error"]]
           /\ Reaches(r, "release")
  <2> DEFINE n == [a EXCEPT !.state = "error"]
  <2>1. n \in Adapter /\ n.handle = a.handle /\ n.state # "offline"
    BY <1>1 DEF Adapter, States
  <2>2. adapter' = [adapter EXCEPT ![r] = n]
    BY <1>9
  <2> HIDE DEF n
  <2> QED
    BY <1>1, <1>2, <1>4, <1>5, <1>9, <2>1, <2>2, ControlMove
<1>10. CASE adapter' = [adapter EXCEPT ![r] = a] /\ Reaches(r, "release")
  BY <1>1, <1>2, <1>4, <1>5, <1>10, ControlMove
<1> QED
  BY <1>7, <1>8, <1>9, <1>10

LEMMA AttachPreserves ==
    ASSUME WindowInv, NEW r \in Runs, Attach(r)
    PROVE  WindowInv'
<1>1. InWindow(r) /\ At(r, "attach") /\ adapter[r] \in Adapter
  BY DEF Attach, InWindow, At, WindowInv, WindowTypeOK
<1>2. /\ UNCHANGED <<now, lock, run, taken, jvm>>
      /\ jvm' \in {"down", "booting", "up"}
  BY DEF Attach, WindowInv, WindowTypeOK
<1>3. "booting" \in Places /\ "release" \in Places
  BY DEF Places
<1>4. PICK s \in {"starting", "error"}, p \in {"booting", "release"} :
          adapter' = [adapter EXCEPT ![r].state = s] /\ Reaches(r, p)
  BY DEF Attach, Reaches, Closing
<1> DEFINE n == [adapter[r] EXCEPT !.state = s]
<1>5. n \in Adapter /\ n.handle = adapter[r].handle /\ n.state # "offline"
  BY <1>1 DEF Adapter, States
<1>6. adapter' = [adapter EXCEPT ![r] = n]
  BY <1>4
<1> HIDE DEF n
<1> QED
  BY <1>1, <1>2, <1>3, <1>4, <1>5, <1>6, ControlMove

-----------------------------------------------------------------------------
(* The steps that open and close a lease.                                  *)

(* The adapters and the process are left alone, and w alone changes; it is *)
(* not in a lease afterwards, or has just come into one.                   *)
LEMMA EdgePreserves ==
    ASSUME WindowInv, NEW w \in Windows, NEW n \in Window,
           window' = [window EXCEPT ![w] = n],
           UNCHANGED <<now, procVars, run>>,
           lock' \in Lock, lock'.owner = NoOwner => lock' = NoLock,
           taken' \in Nat,
           n.begun <= now, w \in Runs => n.run = w,
           w \in Readers => n.kind = "read",
           w \in Runs /\ n.at # "idle" => run[w] = "up",
           ~At(w, "attach"),
           \A v \in Windows \ {w} : Holds(v) => lock' = lock,
           \/ n.at \in {"idle", "acquire"}
           \/ /\ n.at = Opening(n.kind)
              /\ n.owner # NoOwner
              /\ n.owner = Agent => w \in Runs
              /\ n.ends = n.begun + LockTerm[n.kind]
              /\ lock' = [owner |-> n.owner, kind |-> n.kind, ends |-> n.ends]
              /\ \A v \in Windows \ {w} :
                    InWindow(v) => window[v].owner # n.owner
    PROVE  WindowInv'
<1> USE DEF WindowInv
<1>1. window \in [Windows -> Window]
  BY DEF WindowTypeOK
<1>2. window' \in [Windows -> Window] /\ window'[w] = n
  BY <1>1
<1>3. \A v \in Windows \ {w} : window'[v] = window[v]
  BY <1>1
<1>4. UNCHANGED <<now, adapter, jvm, run>>
  BY DEF procVars
<1>5. Opening(n.kind) \in {"guard", "work", "send", "inspect"}
      /\ (Opening(n.kind) = "work" => n.kind = "restore")
  BY DEF Opening, Guarded
<1>6. WindowTypeOK'
  BY <1>2, <1>4 DEF WindowTypeOK
<1>7. OneHandler'
  BY <1>2, <1>3, <1>4 DEF OneHandler, Windows, Busy, At
<1>8. LeasesSound'
  <2>1. ASSUME NEW v \in Windows
        PROVE  /\ window'[v].begun <= now
               /\ v \in Runs => window'[v].run = v
               /\ v \in Readers => window'[v].kind = "read"
               /\ v \in Runs => window'[v].kind \in Kinds
               /\ InWindow(v)' =>
                     /\ window'[v].ends = window'[v].begun + LockTerm[window'[v].kind]
                     /\ window'[v].owner # NoOwner
                     /\ window'[v].owner = Agent => v \in Runs
               /\ window'[v].at \in {"launch", "attach"} =>
                     v \in Runs /\ window'[v].kind \in Launching
    <3>1. CASE v = w
      BY <1>2, <1>5, <3>1 DEF InWindow, Window
    <3>2. CASE v # w
      BY <1>3, <3>2 DEF LeasesSound, InWindow
    <3> QED
      BY <3>1, <3>2
  <2>2. ASSUME NEW u \in Windows, NEW v \in Windows, InWindow(u)', InWindow(v)',
               window'[u].owner = window'[v].owner
        PROVE  u = v
    <3>1. CASE u # w /\ v # w
      BY <1>3, <2>2, <3>1 DEF LeasesSound, InWindow
    <3>2. CASE u = w \/ v = w
      BY <1>2, <1>3, <2>2, <3>2 DEF InWindow
    <3> QED
      BY <3>1, <3>2
  <2>3. now' <= MaxTime /\ (lock'.owner = NoOwner => lock' = NoLock)
    BY <1>4 DEF LeasesSound
  <2> QED
    BY <1>4, <2>1, <2>2, <2>3 DEF LeasesSound
<1>9. AdapterSound'
  BY <1>3, <1>4 DEF AdapterSound, At, Windows
<1>10. RowBacksWindow'
  <2> SUFFICES ASSUME NEW v \in Windows, Holds(v)'
               PROVE  lock'.owner = window'[v].owner /\ lock'.ends = window'[v].ends
    BY DEF RowBacksWindow
  <2>1. CASE v = w
    BY <1>2, <2>1 DEF Holds, InWindow
  <2>2. CASE v # w
    <3>1. Holds(v)
      BY <1>3, <1>4, <2>2 DEF Holds, InWindow
    <3> QED
      BY <1>3, <2>2, <3>1 DEF RowBacksWindow
  <2> QED
    BY <2>1, <2>2
<1>11. NoJvmUnderLease'
  <2> SUFFICES ASSUME Patient, NEW v \in Windows, Still(v)', Holds(v)'
               PROVE  adapter'[window'[v].run].handle # "held"
    BY DEF NoJvmUnderLease, Patient
  <2>1. v # w
    BY <1>2, <1>5 DEF Still, Working, Guarded
  <2>2. Still(v) /\ Holds(v)
    BY <1>3, <1>4, <2>1 DEF Still, Working, Holds, InWindow
  <2> QED
    BY <1>3, <1>4, <2>1, <2>2 DEF NoJvmUnderLease, Patient
<1> QED
  BY <1>6, <1>7, <1>8, <1>9, <1>10, <1>11

(* What a window is when it is not open.                                   *)
LEMMA ShutFacts ==
    ASSUME NEW w \in Windows
    PROVE  /\ Shut(w) \in Window
           /\ Shut(w).at = "idle" /\ Shut(w).begun = 0 /\ Shut(w).kind = "read"
           /\ w \in Runs => Shut(w).run = w
<1>1. \E r \in Runs : TRUE
  BY WindowAssumption
<1>2. (CHOOSE r \in Runs : TRUE) \in Runs
  BY <1>1
<1>3. (IF w \in Runs THEN w ELSE CHOOSE r \in Runs : TRUE) \in Runs
  BY <1>2
<1> DEFINE q == IF w \in Runs THEN w ELSE CHOOSE r \in Runs : TRUE
<1>4. Shut(w) = [kind |-> "read", at |-> "idle", run |-> q,
                 owner |-> NoOwner, begun |-> 0, ends |-> 0, looks |-> 0,
                 ok |-> FALSE]
  BY DEF Shut
<1>5. q \in Runs /\ (w \in Runs => q = w)
  BY <1>3
<1> HIDE DEF q
<1>6. 0 \in 0..(MaxLooks - 1)
  BY WindowAssumption
<1> QED
  BY <1>4, <1>5, <1>6 DEF Window, Kinds, Places, OwnerIds, Guarded

(* A window that ends gives its record back.                               *)
LEMMA FinishFacts ==
    ASSUME WindowInv, NEW w \in Windows, Finish(w)
    PROVE  /\ window' = [window EXCEPT ![w] = Shut(w)]
           /\ Shut(w) \in Window
           /\ Shut(w).at = "idle" /\ Shut(w).begun = 0 /\ Shut(w).kind = "read"
           /\ w \in Runs => Shut(w).run = w
           /\ taken' \in Nat
<1>1. taken' \in Nat
  BY DEF Finish, WindowInv, WindowTypeOK
<1>2. window' = [window EXCEPT ![w] = Shut(w)]
  BY DEF Finish
<1> QED
  BY <1>1, <1>2, ShutFacts

(* The row may change hands only when no other lease runs.                 *)
LEMMA FreeMeansAlone ==
    ASSUME WindowInv, NEW w \in Windows, At(w, "acquire"), NEW id \in OwnerIds,
           Owner(window[w].kind, id), Free(id, window[w].begun)
    PROVE  /\ \A v \in Windows \ {w} : ~Holds(v)
           /\ \A v \in Windows \ {w} : InWindow(v) => window[v].owner # id
           /\ id # NoOwner
           /\ id = Agent => w \in Runs
<1> USE DEF WindowInv
<1>1. id = Agent => w \in Runs
  BY WindowAssumption DEF Owner, LeasesSound, Windows, AgentOwned
<1>2. id # NoOwner
  BY WindowAssumption DEF Owner
<1>3. ASSUME NEW v \in Windows, v # w, InWindow(v) PROVE window[v].owner # id
  <2>1. CASE id = Agent
    <3>1. v \in Runs => v = w
      BY <1>1, <1>3, <2>1 DEF OneHandler, Busy, At, InWindow
    <3> QED
      BY <1>3, <2>1, <3>1 DEF LeasesSound
  <2>2. CASE id # Agent
    BY <2>2, <1>3 DEF Owner, UsedIds
  <2> QED
    BY <2>1, <2>2
<1>4. ASSUME NEW v \in Windows, v # w, Holds(v) PROVE FALSE
  <2>1. InWindow(v) /\ now < window[v].ends
    BY <1>4 DEF Holds
  <2>2. lock.owner = window[v].owner /\ lock.ends = window[v].ends
    BY <1>4 DEF RowBacksWindow
  <2>3. lock # NoLock
    BY <2>1, <2>2 DEF LeasesSound, NoLock
  <2>4. lock.owner # id
    BY <1>3, <1>4, <2>1, <2>2
  <2>5. lock.ends \in Nat /\ now \in Nat /\ window[w].begun \in Nat
    BY DEF WindowTypeOK, Lock, Window
  <2>6. window[w].begun <= now
    BY DEF LeasesSound
  <2> QED
    BY <2>1, <2>2, <2>3, <2>4, <2>5, <2>6 DEF Free
<1> QED
  BY <1>1, <1>2, <1>3, <1>4

LEMMA AcquirePreserves ==
    ASSUME WindowInv, NEW w \in Windows, Acquire(w)
    PROVE  WindowInv'
<1> USE DEF WindowInv
<1> DEFINE win == window[w]
           ends == win.begun + LockTerm[win.kind]
<1>1. /\ At(w, "acquire") /\ ~At(w, "attach") /\ win \in Window
      /\ window \in [Windows -> Window]
      /\ UNCHANGED <<now, procVars, run>>
  BY DEF Acquire, At, WindowTypeOK
<1>2. ends \in Nat
  BY <1>1, WindowAssumption DEF Window
<1>3. /\ w \in Runs => run[w] = "up" /\ win.run = w
      /\ w \in Readers => win.kind = "read"
      /\ win.begun <= now
  BY <1>1 DEF OneHandler, LeasesSound, Busy, At
<1>4. PICK id \in OwnerIds :
        /\ Owner(win.kind, id)
        /\ LET row == [owner |-> id, kind |-> win.kind, ends |-> ends] IN
           \/ /\ Free(id, win.begun)
              /\ lock' = row
              /\ window' = [window EXCEPT ![w].at = Opening(win.kind),
                               ![w].owner = id, ![w].ends = ends]
              /\ UNCHANGED taken
           \/ /\ ~Free(id, win.begun)
              /\ Finish(w)
              /\ UNCHANGED lock
           \/ /\ Faults
              /\ \/ UNCHANGED lock
                 \/ Free(id, win.begun) /\ lock' = row
              /\ Finish(w)
  BY DEF Acquire
<1> DEFINE row == [owner |-> id, kind |-> win.kind, ends |-> ends]
<1>5. row \in Lock /\ row.owner = id /\ lock \in Lock
      /\ (lock.owner = NoOwner => lock = NoLock)
  BY <1>1, <1>2 DEF Lock, Window, WindowTypeOK, LeasesSound
<1>6. Free(id, win.begun) =>
        /\ \A v \in Windows \ {w} : ~Holds(v)
        /\ \A v \in Windows \ {w} : InWindow(v) => window[v].owner # id
        /\ id # NoOwner
        /\ id = Agent => w \in Runs
  BY <1>1, <1>4, FreeMeansAlone
<1>7. CASE Finish(w) /\ (lock' = lock \/ (Free(id, win.begun) /\ lock' = row))
  <2>1. lock' \in Lock /\ (lock'.owner = NoOwner => lock' = NoLock)
    BY <1>5, <1>6, <1>7
  <2>2. \A v \in Windows \ {w} : Holds(v) => lock' = lock
    BY <1>6, <1>7
  <2>3. 0 <= now
    BY DEF WindowTypeOK
  <2> HIDE DEF row, ends, win
  <2> QED
    BY <1>1, <1>3, <1>7, <2>1, <2>2, <2>3, FinishFacts, EdgePreserves
<1>8. CASE /\ Free(id, win.begun) /\ lock' = row
           /\ window' = [window EXCEPT ![w].at = Opening(win.kind),
                            ![w].owner = id, ![w].ends = ends]
           /\ UNCHANGED taken
  <2> DEFINE n == [win EXCEPT !.at = Opening(win.kind), !.owner = id, !.ends = ends]
  <2>1. Opening(win.kind) \in Places
    BY DEF Opening, Places
  <2>2. /\ n \in Window /\ n.at = Opening(win.kind) /\ n.kind = win.kind
        /\ n.owner = id /\ n.ends = ends /\ n.begun = win.begun /\ n.run = win.run
    BY <1>1, <1>2, <2>1 DEF Window
  <2>3. window' = [window EXCEPT ![w] = n]
    BY <1>1, <1>8 DEF Window
  <2>4. taken' \in Nat
    BY <1>8 DEF WindowTypeOK
  <2>5. lock' = [owner |-> n.owner, kind |-> n.kind, ends |-> n.ends]
    BY <1>8, <2>2
  <2>6. n.ends = n.begun + LockTerm[n.kind]
    BY <2>2
  <2>7. lock' \in Lock /\ lock'.owner # NoOwner
    BY <1>5, <1>6, <1>8
  <2>8. /\ n.begun <= now /\ (w \in Runs => n.run = w)
        /\ w \in Readers => n.kind = "read"
        /\ w \in Runs /\ n.at # "idle" => run[w] = "up"
        /\ n.at = Opening(n.kind) /\ n.owner # NoOwner
        /\ n.owner = Agent => w \in Runs
    BY <1>3, <1>6, <1>8, <2>2
  <2>9. /\ \A v \in Windows \ {w} : Holds(v) => lock' = lock
        /\ \A v \in Windows \ {w} : InWindow(v) => window[v].owner # n.owner
    BY <1>6, <1>8, <2>2
  <2>10. n \in Window
    BY <2>2
  <2> HIDE DEF n, row, ends, win
  <2> QED
    BY <1>1, <2>3, <2>4, <2>5, <2>6, <2>7, <2>8, <2>9, <2>10, EdgePreserves
<1> QED
  BY <1>4, <1>7, <1>8

LEMMA ReleasePreserves ==
    ASSUME WindowInv, NEW w \in Windows, Release(w)
    PROVE  WindowInv'
<1> USE DEF WindowInv
<1>1. InWindow(w) /\ ~At(w, "attach") /\ UNCHANGED <<now, procVars, run>>
  BY DEF Release, InWindow, At
<1>2. lock' = lock \/ (lock' = NoLock /\ lock.owner = window[w].owner)
  BY DEF Release, Unlocked
<1>3. ASSUME NEW v \in Windows \ {w}, Holds(v) PROVE lock' = lock
  <2>1. lock.owner = window[v].owner /\ InWindow(v)
    BY <1>3 DEF RowBacksWindow, Holds
  <2> QED
    BY <1>1, <1>2, <2>1 DEF LeasesSound
<1>4. lock' \in Lock /\ (lock'.owner = NoOwner => lock' = NoLock)
  BY <1>2 DEF Lock, NoLock, OwnerIds, WindowTypeOK, LeasesSound
<1>5. Finish(w) /\ 0 <= now
  BY DEF Release, WindowTypeOK
<1> QED
  BY <1>1, <1>3, <1>4, <1>5, FinishFacts, EdgePreserves

-----------------------------------------------------------------------------
(* The steps that touch no lease.                                          *)
LEMMA BeginPreserves ==
    ASSUME WindowInv, NEW r \in Runs, NEW kind \in Jobs, Begin(r, kind)
    PROVE  WindowInv'
<1> USE DEF WindowInv
<1> DEFINE n == [window[r] EXCEPT !.at = "acquire", !.kind = kind, !.begun = now]
<1>1. /\ r \in Windows /\ r \notin Readers /\ window \in [Windows -> Window]
      /\ kind \in Kinds /\ now \in Nat
  BY WindowAssumption DEF Windows, WindowTypeOK
<1>2. /\ n \in Window /\ n.at = "acquire" /\ n.begun = now
      /\ n.run = window[r].run
  BY <1>1 DEF Window, Places
<1>3. window' = [window EXCEPT ![r] = n]
  BY <1>1 DEF Begin, Window
<1>4. /\ UNCHANGED <<now, procVars, run>> /\ lock' = lock
      /\ ~At(r, "attach") /\ run[r] = "up"
  BY DEF Begin, At
<1>5. taken' \in Nat
  BY WindowAssumption DEF Begin, WindowTypeOK
<1>6. lock \in Lock /\ (lock.owner = NoOwner => lock = NoLock)
      /\ window[r].run = r
  BY <1>1 DEF WindowTypeOK, LeasesSound
<1>7. n.begun <= now /\ n.run = r
  BY <1>1, <1>2, <1>6
<1> HIDE DEF n
<1> QED
  BY <1>1, <1>2, <1>3, <1>4, <1>5, <1>6, <1>7, EdgePreserves

LEMMA BeginReadPreserves ==
    ASSUME WindowInv, NEW w \in Readers, NEW r \in Runs, BeginRead(w, r)
    PROVE  WindowInv'
<1> USE DEF WindowInv
<1> DEFINE n == [window[w] EXCEPT !.at = "acquire", !.run = r, !.begun = now]
<1>1. /\ w \in Windows /\ w \notin Runs /\ window \in [Windows -> Window]
      /\ now \in Nat
  BY WindowAssumption DEF Windows, WindowTypeOK
<1>2. /\ n \in Window /\ n.at = "acquire" /\ n.begun = now
      /\ n.kind = window[w].kind
  BY <1>1 DEF Window, Places
<1>3. window' = [window EXCEPT ![w] = n]
  BY <1>1 DEF BeginRead, Window
<1>4. /\ UNCHANGED <<now, procVars, run>> /\ lock' = lock
      /\ ~At(w, "attach")
  BY DEF BeginRead, At
<1>5. taken' \in Nat
  BY DEF BeginRead, WindowTypeOK
<1>6. lock \in Lock /\ (lock.owner = NoOwner => lock = NoLock)
      /\ window[w].kind = "read"
  BY <1>1 DEF WindowTypeOK, LeasesSound
<1>7. n.begun <= now /\ n.kind = "read"
  BY <1>1, <1>2, <1>6
<1> HIDE DEF n
<1> QED
  BY <1>1, <1>2, <1>3, <1>4, <1>5, <1>6, <1>7, EdgePreserves

(* Windows, lock and lives stay; adapters come to hold nothing new.        *)
LEMMA BackgroundPreserves ==
    ASSUME WindowInv, UNCHANGED <<lock, window, taken>>,
           now' \in Nat, now <= now', now' <= MaxTime,
           jvm' \in {"down", "booting", "up"},
           adapter' \in [Runs -> Adapter],
           \A r \in Runs : adapter'[r].handle = "held" =>
              /\ adapter[r].handle = "held"
              /\ adapter'[r].state = "offline" => At(r, "attach"),
           run' \in [Runs -> {"unborn", "up", "left", "dead"}],
           \A r \in Runs : Busy(r) => run'[r] = "up",
           \A q, r \in Runs : run'[q] = "up" /\ run'[r] = "up" => q = r
    PROVE  WindowInv'
<1> USE DEF WindowInv
<1>1. WindowTypeOK'
  BY DEF WindowTypeOK
<1>2. OneHandler'
  BY DEF OneHandler, Busy, At
<1>3. LeasesSound'
  <2>1. \A v \in Windows : window[v].begun <= now'
    <3> SUFFICES ASSUME NEW v \in Windows PROVE window[v].begun <= now'
      OBVIOUS
    <3>1. window[v].begun \in Nat /\ now \in Nat /\ window[v].begun <= now
      BY DEF WindowTypeOK, Window, LeasesSound
    <3> QED
      BY <3>1
  <2>2. \A v \in Windows : InWindow(v)' <=> InWindow(v)
    BY DEF InWindow
  <2> QED
    BY <2>1, <2>2 DEF LeasesSound
<1>4. AdapterSound'
  BY DEF AdapterSound, At
<1>5. \A v \in Windows : Holds(v)' => Holds(v)
  <2> SUFFICES ASSUME NEW v \in Windows, Holds(v)' PROVE Holds(v)
    OBVIOUS
  <2>1. window[v].ends \in Nat /\ now \in Nat
    BY DEF WindowTypeOK, Window
  <2> QED
    BY <2>1 DEF Holds, InWindow
<1>6. RowBacksWindow'
  BY <1>5 DEF RowBacksWindow
<1>7. NoJvmUnderLease'
  <2> SUFFICES ASSUME Patient, NEW v \in Windows, Still(v)', Holds(v)'
               PROVE  adapter'[window'[v].run].handle # "held"
    BY DEF NoJvmUnderLease, Patient
  <2>1. Still(v) /\ Holds(v) /\ window[v].run \in Runs
    BY <1>5 DEF Still, Working, WindowTypeOK, Window
  <2> QED
    BY <2>1 DEF NoJvmUnderLease, Patient
<1> QED
  BY <1>1, <1>2, <1>3, <1>4, <1>6, <1>7

LEMMA WatchPreserves ==
    ASSUME WindowInv, NEW r \in Runs, Watch(r)
    PROVE  WindowInv'
<1> USE DEF WindowInv
<1>1. /\ adapter' \in [Runs -> Adapter]
      /\ \A q \in Runs : adapter'[q].handle = "held" =>
            /\ adapter[q].handle = "held"
            /\ adapter'[q].state = "offline" => At(q, "attach")
  BY LookSound DEF Watch
<1>2. UNCHANGED <<now, lock, window, jvm, run, taken>>
  BY DEF Watch
<1>3. now' \in Nat /\ now <= now' /\ now' <= MaxTime
  BY <1>2 DEF WindowTypeOK, LeasesSound
<1> QED
  BY <1>1, <1>2, <1>3, BackgroundPreserves DEF WindowTypeOK, OneHandler

(* JvmBoots, JvmExits, Tick, RunUp and Replaced leave every operation      *)
(* where it is.                                                            *)
LEMMA QuietStepPreserves ==
    ASSUME WindowInv, ~Overlap,
           \/ JvmBoots \/ JvmExits \/ Tick
           \/ \E r \in Runs : RunUp(r) \/ Replaced(r)
    PROVE  WindowInv'
<1> USE DEF WindowInv
<1>1. /\ now \in Nat /\ now <= MaxTime /\ MaxTime \in Nat
      /\ jvm \in {"down", "booting", "up"} /\ adapter \in [Runs -> Adapter]
      /\ run \in [Runs -> {"unborn", "up", "left", "dead"}]
  BY WindowAssumption DEF WindowTypeOK, LeasesSound
<1>2. \A r \in Runs : adapter[r].handle = "held"
          => (adapter[r].state = "offline" => At(r, "attach"))
  BY DEF AdapterSound
<1>3. CASE JvmBoots
  BY <1>1, <1>2, <1>3, BackgroundPreserves DEF JvmBoots, OneHandler
<1>4. CASE Tick
  <2>1. now' \in Nat /\ now <= now' /\ now' <= MaxTime
    BY <1>1, <1>4 DEF Tick
  <2> QED
    BY <1>1, <1>2, <1>4, <2>1, BackgroundPreserves DEF Tick, procVars, OneHandler
<1>5. CASE JvmExits
  <2> DEFINE Left(r) == IF adapter[r].handle = "held"
                        THEN [adapter[r] EXCEPT !.handle = "exited"]
                        ELSE adapter[r]
  <2>1. ASSUME NEW r \in Runs
        PROVE  Left(r) \in Adapter /\ Left(r).handle # "held"
    BY <1>1 DEF Adapter
  <2>2. adapter' = [r \in Runs |-> Left(r)]
    BY <1>5 DEF JvmExits
  <2> HIDE DEF Left
  <2>3. adapter' \in [Runs -> Adapter] /\ \A r \in Runs : adapter'[r].handle # "held"
    BY <2>1, <2>2
  <2>4. /\ UNCHANGED <<now, lock, window, run, taken>>
        /\ jvm' \in {"down", "booting", "up"}
    BY <1>5 DEF JvmExits
  <2> QED
    BY <1>1, <2>3, <2>4, BackgroundPreserves DEF OneHandler
<1>6. ASSUME NEW r \in Runs, RunUp(r) PROVE WindowInv'
  <2>1. /\ run' \in [Runs -> {"unborn", "up", "left", "dead"}]
        /\ \A q \in Runs : run[q] # "up"
        /\ \A q \in Runs \ {r} : run'[q] = run[q]
    BY <1>1, <1>6 DEF RunUp
  <2>2. \A q \in Runs : ~Busy(q)
    BY <2>1 DEF OneHandler
  <2>3. UNCHANGED <<now, lock, window, adapter, jvm, taken>>
    BY <1>6 DEF RunUp, procVars
  <2>4. \A p, q \in Runs : run'[p] = "up" /\ run'[q] = "up" => p = q
    BY <2>1
  <2> QED
    BY <1>1, <1>2, <2>1, <2>2, <2>3, <2>4, BackgroundPreserves
<1>7. ASSUME NEW r \in Runs, Replaced(r) PROVE WindowInv'
  <2>1. /\ run' \in [Runs -> {"unborn", "up", "left", "dead"}]
        /\ run'[r] = "left"
        /\ \A q \in Runs \ {r} : run'[q] = run[q]
    BY <1>1, <1>7 DEF Replaced
  <2>2. \A q \in Runs : Busy(q) => run'[q] = "up"
    BY <1>7, <2>1 DEF OneHandler, Replaced
  <2>3. UNCHANGED <<now, lock, window, adapter, jvm, taken>>
    BY <1>7 DEF Replaced, procVars
  <2>4. \A p, q \in Runs : run'[p] = "up" /\ run'[q] = "up" => p = q
    BY <2>1 DEF OneHandler
  <2> QED
    BY <1>1, <1>2, <2>1, <2>2, <2>3, <2>4, BackgroundPreserves
<1> QED
  BY <1>3, <1>4, <1>5, <1>6, <1>7

LEMMA CrashPreserves ==
    ASSUME WindowInv, NEW r \in Runs, Crash(r)
    PROVE  WindowInv'
<1> USE DEF WindowInv
<1> DEFINE gone == {r} \cup {q \in Runs : run[q] = "left"}
           Lost(w) == w \in gone \/ (w \in Readers /\ window[w].run \in gone)
<1>1. /\ window' = [w \in Windows |-> IF Lost(w) THEN Shut(w) ELSE window[w]]
      /\ run' = [q \in Runs |-> IF q \in gone THEN "dead" ELSE run[q]]
      /\ adapter' = [q \in Runs |->
                        IF q \in gone THEN [state |-> "offline", handle |-> "none"]
                        ELSE adapter[q]]
      /\ UNCHANGED <<now, lock, jvm, taken>>
  BY DEF Crash
<1>2. gone \subseteq Runs /\ \A q \in Runs : q \in gone => Lost(q)
  OBVIOUS
<1>3. \A q \in Runs : Lost(q) => q \in gone
  BY WindowAssumption
<1> HIDE DEF gone, Lost
<1>4. \A w \in Windows : /\ Lost(w) => window'[w] = Shut(w)
                         /\ ~Lost(w) => window'[w] = window[w]
  BY <1>1
<1>5. window' \in [Windows -> Window]
  BY <1>1, ShutFacts DEF WindowTypeOK
<1>6. \A q \in Runs : /\ q \in gone => adapter'[q].handle = "none"
                      /\ q \notin gone => adapter'[q] = adapter[q]
  BY <1>1
<1>7. WindowTypeOK'
  <2>1. [state |-> "offline", handle |-> "none"] \in Adapter
    BY DEF Adapter, States
  <2>2. adapter' \in [Runs -> Adapter]
    BY <1>1, <2>1 DEF WindowTypeOK
  <2>3. run' \in [Runs -> {"unborn", "up", "left", "dead"}]
    BY <1>1 DEF WindowTypeOK
  <2> QED
    BY <1>1, <1>5, <2>2, <2>3 DEF WindowTypeOK
<1>8. \A w \in Windows : Busy(w)' => ~Lost(w) /\ Busy(w) /\ window'[w] = window[w]
  BY <1>4, ShutFacts DEF Busy, At
<1>9. OneHandler'
  BY <1>1, <1>2, <1>8 DEF OneHandler, Windows
<1>10. \A w \in Windows : InWindow(w)' => InWindow(w) /\ window'[w] = window[w]
  BY <1>4, ShutFacts DEF InWindow
<1>11. LeasesSound'
  <2>1. ASSUME NEW w \in Windows
        PROVE  /\ window'[w].begun <= now
               /\ w \in Runs => window'[w].run = w
               /\ w \in Readers => window'[w].kind = "read"
               /\ w \in Runs => window'[w].kind \in Kinds
               /\ window'[w].at \in {"launch", "attach"} =>
                     w \in Runs /\ window'[w].kind \in Launching
    <3>1. CASE Lost(w)
      <4>1. 0 <= now /\ window'[w] = Shut(w)
        BY <1>4, <3>1 DEF WindowTypeOK
      <4> QED
        BY <4>1, ShutFacts DEF Kinds, Guarded
    <3>2. CASE ~Lost(w)
      BY <1>4, <3>2 DEF LeasesSound
    <3> QED
      BY <3>1, <3>2
  <2>2. \A w \in Windows : InWindow(w)' =>
            /\ window'[w].ends = window'[w].begun + LockTerm[window'[w].kind]
            /\ window'[w].owner # NoOwner
            /\ window'[w].owner = Agent => w \in Runs
    BY <1>10 DEF LeasesSound
  <2>3. \A v, w \in Windows :
            InWindow(v)' /\ InWindow(w)' /\ window'[v].owner = window'[w].owner
            => v = w
    BY <1>10 DEF LeasesSound
  <2> QED
    BY <1>1, <2>1, <2>2, <2>3 DEF LeasesSound
<1>12. AdapterSound'
  <2> SUFFICES ASSUME NEW q \in Runs, adapter'[q].handle = "held",
                      adapter'[q].state = "offline"
               PROVE  window'[q].at = "attach"
    BY DEF AdapterSound, At
  <2>1. q \notin gone /\ adapter'[q] = adapter[q] /\ q \in Windows
    BY <1>6 DEF Windows
  <2>2. At(q, "attach") /\ ~Lost(q)
    BY <1>3, <2>1 DEF AdapterSound
  <2> QED
    BY <1>4, <2>1, <2>2 DEF At
<1>13. \A w \in Windows : Holds(w)' => Holds(w) /\ window'[w] = window[w]
  BY <1>1, <1>10 DEF Holds
<1>14. RowBacksWindow'
  BY <1>1, <1>13 DEF RowBacksWindow
<1>15. NoJvmUnderLease'
  <2> SUFFICES ASSUME Patient, NEW v \in Windows, Still(v)', Holds(v)'
               PROVE  adapter'[window'[v].run].handle # "held"
    BY DEF NoJvmUnderLease, Patient
  <2>1. Still(v) /\ Holds(v) /\ window'[v] = window[v] /\ window[v].run \in Runs
    BY <1>13 DEF Still, Working, WindowTypeOK, Window
  <2> QED
    BY <1>6, <2>1 DEF NoJvmUnderLease, Patient
<1> QED
  BY <1>7, <1>9, <1>11, <1>12, <1>14, <1>15

-----------------------------------------------------------------------------
LEMMA WindowInitSound == WindowInit => WindowInv
<1> SUFFICES ASSUME WindowInit PROVE WindowInv
  OBVIOUS
<1>1. \A w \in Windows : window[w] = Shut(w)
  BY DEF WindowInit
<1>2. window \in [Windows -> Window]
  BY ShutFacts DEF WindowInit
<1>3. \A r \in Runs : adapter[r].handle = "none" /\ run[r] = "unborn"
  BY DEF WindowInit
<1>4. lock = NoLock /\ lock \in Lock /\ now = 0 /\ MaxTime \in Nat
  BY WindowAssumption DEF WindowInit, NoLock, Lock, OwnerIds
<1>5. adapter \in [Runs -> Adapter]
  BY DEF WindowInit, Adapter, States
<1>6. WindowTypeOK
  BY <1>2, <1>4, <1>5 DEF WindowTypeOK, WindowInit
<1>7. \A w \in Windows : ~Busy(w) /\ ~InWindow(w) /\ ~Holds(w)
  BY <1>1, ShutFacts DEF Busy, At, InWindow, Holds
<1>8. OneHandler
  BY <1>3, <1>7 DEF OneHandler, Windows
<1>9. LeasesSound
  <2>1. \A w \in Windows : /\ window[w].begun <= now
                           /\ w \in Runs => window[w].run = w
                           /\ w \in Readers => window[w].kind = "read"
                           /\ w \in Runs => window[w].kind \in Kinds
                           /\ window[w].at \notin {"launch", "attach"}
    BY <1>1, <1>4, ShutFacts DEF Kinds, Guarded
  <2> QED
    BY <1>4, <1>7, <2>1 DEF LeasesSound
<1> QED
  BY <1>3, <1>6, <1>7, <1>8, <1>9
     DEF WindowInv, AdapterSound, RowBacksWindow, NoJvmUnderLease

LEMMA ProceedsPreserves ==
    ASSUME WindowInv, NEW w \in Windows, Proceeds(w)
    PROVE  WindowInv'
BY AcquirePreserves, CheckLockPreserves, FirstLookPreserves, WorkEndsPreserves,
   RecheckPreserves, PromotePreserves, ReleasePreserves DEF Proceeds

LEMMA ControlsPreserves ==
    ASSUME WindowInv, NEW r \in Runs, Controls(r)
    PROVE  WindowInv'
BY LaunchPreserves, AttachPreserves, StopAskedPreserves, PollPreserves,
   SendPreserves DEF Controls

LEMMA StutterPreserves ==
    ASSUME WindowInv, UNCHANGED vars
    PROVE  WindowInv'
BY DEF WindowInv, vars, procVars, WindowTypeOK, OneHandler, LeasesSound,
       AdapterSound, RowBacksWindow, NoJvmUnderLease, Busy, At, InWindow, Holds,
       Still, Working

(* WindowInv is inductive: it holds whatever crashes, lapses or fails, as  *)
(* long as two runs of the agent are not up at once.                       *)
THEOREM WindowInvariant ==
    ASSUME ~Overlap
    PROVE  WindowSpec => []WindowInv
<1>1. WindowInv /\ [WindowNext]_vars => WindowInv'
  <2> SUFFICES ASSUME WindowInv, [WindowNext]_vars PROVE WindowInv'
    OBVIOUS
  <2>1. ASSUME NEW r \in Runs, NEW kind \in Jobs, Begin(r, kind) PROVE WindowInv'
    BY <2>1, BeginPreserves
  <2>2. ASSUME NEW r \in Runs, NEW w \in Readers, BeginRead(w, r) PROVE WindowInv'
    BY <2>2, BeginReadPreserves
  <2>3. ASSUME NEW r \in Runs, Controls(r) PROVE WindowInv'
    BY <2>3, ControlsPreserves
  <2>4. ASSUME NEW r \in Runs, Watch(r) PROVE WindowInv'
    BY <2>4, WatchPreserves
  <2>5. ASSUME NEW r \in Runs, Crash(r) PROVE WindowInv'
    BY <2>5, CrashPreserves
  <2>6. ASSUME NEW w \in Windows, Proceeds(w) PROVE WindowInv'
    BY <2>6, ProceedsPreserves
  <2>7. CASE \/ JvmBoots \/ JvmExits \/ Tick
             \/ \E r \in Runs : RunUp(r) \/ Replaced(r)
    BY <2>7, QuietStepPreserves
  <2>8. CASE UNCHANGED vars
    BY <2>8, StutterPreserves
  <2> QED
    BY <2>1, <2>2, <2>3, <2>4, <2>5, <2>6, <2>7, <2>8 DEF WindowNext
<1> QED
  BY <1>1, WindowInitSound, PTL DEF WindowSpec

(* The lock, the operations and the adapters keep their shape.             *)
THEOREM WindowTypeCorrect ==
    ASSUME ~Overlap
    PROVE  WindowSpec => []WindowTypeOK
<1>1. WindowInv => WindowTypeOK
  BY DEF WindowInv
<1> QED
  BY <1>1, WindowInvariant, PTL

(* No two operations hold the lock together: however the leases lapse,     *)
(* runs crash, readers come and releases are lost.                         *)
THEOREM MutualExclusion ==
    ASSUME ~Overlap
    PROVE  WindowSpec => []WindowsExclude
<1>1. WindowInv => WindowsExclude
  BY OneHolder DEF WindowInv, WindowsExclude
<1> QED
  BY <1>1, WindowInvariant, PTL

(* If launches end within their lease, an adapter holds no JVM while files *)
(* are worked on under a lease that runs, not even one it does not report. *)
THEOREM FilesWithoutJvm ==
    ASSUME ~Overlap
    PROVE  WindowSpec => []NoJvmUnderLease
<1>1. WindowInv => NoJvmUnderLease
  BY DEF WindowInv
<1> QED
  BY <1>1, WindowInvariant, PTL

-----------------------------------------------------------------------------
(* What is left of the lock when two runs of one agent id are up at once:  *)
(* acquire admits a row of its own owner, so that the lock parts nothing   *)
(* between operations under the agent's id. An operation under an id of    *)
(* its own still shares the lock with no other such operation, and no run  *)
(* of the agent takes its row away. Nothing here assumes ~Overlap.         *)

(* An operation past its acquire that took the lock under an id of its own *)
(* (apply, observe, install, read).                                        *)
Fresh(w) == InWindow(w) /\ window[w].owner # Agent

FreshWindowsExclude ==
    \A v, w \in Windows : Holds(v) /\ Fresh(v) /\ Holds(w) /\ Fresh(w) => v = w

FreshRowsStand ==
    \A w \in Windows : Holds(w) /\ Fresh(w) =>
        lock.owner = window[w].owner /\ lock.ends = window[w].ends

FreshOwnersApart ==
    \A v, w \in Windows :
        Fresh(v) /\ Fresh(w) /\ window[v].owner = window[w].owner => v = w

FreshInv ==
    /\ now \in Nat /\ lock \in Lock /\ window \in [Windows -> Window]
    /\ \A w \in Windows :
          window[w].begun <= now /\ (InWindow(w) => window[w].owner # NoOwner)
    /\ FreshOwnersApart
    /\ FreshRowsStand

(* Steps that enter no window and leave the row alone.                     *)
LEMMA FreshKept ==
    ASSUME FreshInv, now' \in Nat, now <= now', lock' = lock,
           window' \in [Windows -> Window],
           \A w \in Windows :
              /\ window'[w].begun <= now'
              /\ InWindow(w)' => /\ InWindow(w)
                                 /\ window'[w].owner = window[w].owner
                                 /\ window'[w].ends = window[w].ends
    PROVE  FreshInv'
<1>1. \A w \in Windows : Fresh(w)' => Fresh(w) /\ window'[w].owner = window[w].owner
  BY DEF Fresh
<1>2. \A w \in Windows : Holds(w)' => Holds(w) /\ window'[w].ends = window[w].ends
  <2> SUFFICES ASSUME NEW w \in Windows, Holds(w)'
               PROVE  Holds(w) /\ window'[w].ends = window[w].ends
    OBVIOUS
  <2>1. InWindow(w) /\ window'[w].ends = window[w].ends /\ now' < window'[w].ends
    BY DEF Holds
  <2>2. window[w].ends \in Nat /\ now \in Nat /\ now' \in Nat /\ now <= now'
    BY DEF FreshInv, Window
  <2> QED
    BY <2>1, <2>2 DEF Holds
<1>3. FreshOwnersApart'
  BY <1>1 DEF FreshInv, FreshOwnersApart
<1>4. FreshRowsStand'
  BY <1>1, <1>2 DEF FreshInv, FreshRowsStand
<1>5. \A w \in Windows :
        window'[w].begun <= now' /\ (InWindow(w)' => window'[w].owner # NoOwner)
  BY DEF FreshInv
<1> QED
  BY <1>3, <1>4, <1>5 DEF FreshInv

(* A step inside a lease, wherever it goes.                                *)
LEMMA FreshMove ==
    ASSUME FreshInv, NEW w \in Windows, InWindow(w), NEW p \in Places,
           p \notin {"idle", "acquire"}, Reaches(w, p), UNCHANGED <<now, lock>>
    PROVE  FreshInv'
<1>0. window \in [Windows -> Window] /\ window[w] \in Window
  BY DEF FreshInv
<1>1. ASSUME NEW n \in Window, window' = [window EXCEPT ![w] = n],
             n.owner = window[w].owner, n.ends = window[w].ends,
             n.begun = window[w].begun
      PROVE  FreshInv'
  <2>1. /\ window' \in [Windows -> Window]
        /\ \A v \in Windows : /\ v = w => window'[v] = n
                              /\ v # w => window'[v] = window[v]
    BY <1>0, <1>1
  <2>2. now \in Nat /\ now <= now' /\ now' \in Nat
    BY DEF FreshInv
  <2>3. \A v \in Windows :
          /\ window'[v].begun <= now'
          /\ InWindow(v)' => /\ InWindow(v)
                             /\ window'[v].owner = window[v].owner
                             /\ window'[v].ends = window[v].ends
    BY <1>1, <2>1 DEF FreshInv, InWindow
  <2> QED
    BY <2>1, <2>2, <2>3, FreshKept
<1>2. CASE Goto(w, p)
  <2> DEFINE n == [window[w] EXCEPT !.at = p]
  <2>1. n \in Window /\ window' = [window EXCEPT ![w] = n]
    BY <1>0, <1>2 DEF Window, Goto
  <2>2. n.owner = window[w].owner /\ n.ends = window[w].ends /\ n.begun = window[w].begun
    BY <1>0 DEF Window
  <2> HIDE DEF n
  <2> QED
    BY <1>1, <2>1, <2>2
<1>3. ASSUME NEW ok \in BOOLEAN, window' = [window EXCEPT ![w].at = p, ![w].ok = ok]
      PROVE  FreshInv'
  <2> DEFINE n == [window[w] EXCEPT !.at = p, !.ok = ok]
  <2>1. n \in Window /\ window' = [window EXCEPT ![w] = n]
    BY <1>0, <1>3 DEF Window
  <2>2. n.owner = window[w].owner /\ n.ends = window[w].ends /\ n.begun = window[w].begun
    BY <1>0 DEF Window
  <2> HIDE DEF n
  <2> QED
    BY <1>1, <2>1, <2>2
<1>4. ASSUME NEW looks \in 0..(MaxLooks - 1),
             window' = [window EXCEPT ![w].at = p, ![w].looks = looks]
      PROVE  FreshInv'
  <2> DEFINE n == [window[w] EXCEPT !.at = p, !.looks = looks]
  <2>1. n \in Window /\ window' = [window EXCEPT ![w] = n]
    BY <1>0, <1>4 DEF Window
  <2>2. n.owner = window[w].owner /\ n.ends = window[w].ends /\ n.begun = window[w].begun
    BY <1>0 DEF Window
  <2> HIDE DEF n
  <2> QED
    BY <1>1, <2>1, <2>2
<1> QED
  BY <1>2, <1>3, <1>4 DEF Reaches

(* The steps of an operation between its acquire and its release.          *)
LEMMA FreshWithin ==
    ASSUME FreshInv, NEW w \in Windows,
           \/ CheckLock(w) \/ FirstLook(w) \/ WorkEnds(w) \/ Recheck(w) \/ Promote(w)
    PROVE  FreshInv'
<1>1. InWindow(w) /\ UNCHANGED <<now, lock>>
  BY DEF CheckLock, FirstLook, WorkEnds, Recheck, Promote, InWindow, At
<1>2. {"inspect", "work", "launch", "stop", "recheck", "promote", "release"}
        \subseteq Places \ {"idle", "acquire"}
  BY DEF Places
<1>3. \/ Reaches(w, "inspect") \/ Reaches(w, "recheck") \/ Reaches(w, "promote")
      \/ Reaches(w, "release") \/ FirstLook(w)
  BY DEF CheckLock, WorkEnds, Recheck, Promote, Reaches, Closing
<1>4. ASSUME FirstLook(w)
      PROVE  Reaches(w, Opened(w)) /\ Opened(w) \in {"work", "launch", "stop", "release"}
  <2>1. Reaches(w, Opened(w))
    <3> DEFINE ok == window[w].kind = "command"
    <3>1. ok \in BOOLEAN /\ window' = [window EXCEPT ![w].at = Opened(w), ![w].ok = ok]
      BY <1>4 DEF FirstLook
    <3> HIDE DEF ok
    <3> QED
      BY <3>1 DEF Reaches
  <2>2. Opened(w) \in {"work", "launch", "stop", "release"}
    BY DEF Opened
  <2> QED
    BY <2>1, <2>2
<1> QED
  BY <1>1, <1>2, <1>3, <1>4, FreshMove

LEMMA FreshControls ==
    ASSUME FreshInv, NEW r \in Runs, Controls(r)
    PROVE  FreshInv'
<1>1. /\ InWindow(r) /\ r \in Windows /\ UNCHANGED <<now, lock>>
  BY DEF Controls, Launch, Attach, StopAsked, Poll, Send, Waiting, InWindow, At, Windows
<1>2. /\ {"attach", "booting", "emptying", "launch", "inspect", "release"}
            \subseteq Places \ {"idle", "acquire"}
      /\ 0 \in 0..(MaxLooks - 1)
  BY WindowAssumption DEF Places
<1>3. ASSUME Launch(r) \/ Attach(r) \/ StopAsked(r) \/ Send(r)
      PROVE  \E p \in {"attach", "booting", "emptying", "inspect", "release"} : Reaches(r, p)
  <2>1. CASE Launch(r)
    BY <1>2, <2>1 DEF Launch, Reaches, Closing
  <2>2. CASE Attach(r)
    BY <2>2 DEF Attach, Reaches, Closing
  <2>3. CASE StopAsked(r)
    BY <1>2, <2>3 DEF StopAsked, Reaches, Closing
  <2>4. CASE Send(r)
    BY <2>4 DEF Send, Reaches, Closing
  <2> QED
    BY <1>3, <2>1, <2>2, <2>3, <2>4
<1>4. ASSUME Poll(r), window' = Counted(r), ~TimedOut(r)
      PROVE  \E p \in {"emptying", "booting"} : Reaches(r, p)
  <2> DEFINE place == window[r].at
             looks == window[r].looks + 1
  <2>1. place \in {"emptying", "booting"}
    BY <1>4 DEF Poll, Waiting, At
  <2>2. window[r] \in Window /\ window \in [Windows -> Window]
    BY <1>1 DEF FreshInv
  <2>3. looks \in 0..(MaxLooks - 1)
    <3>1. window[r].looks \in 0..(MaxLooks - 1)
      BY <2>2 DEF Window
    <3>2. window[r].looks + 1 # MaxLooks
      BY <1>4 DEF TimedOut
    <3> QED
      BY <3>1, <3>2, WindowAssumption
  <2>4. window' = [window EXCEPT ![r].at = place, ![r].looks = looks]
    BY <1>1, <1>4, <2>2 DEF Counted, Window
  <2> QED
    BY <2>1, <2>3, <2>4 DEF Reaches
<1>5. ASSUME Poll(r), ~(window' = Counted(r) /\ ~TimedOut(r))
      PROVE  Reaches(r, "launch") \/ Reaches(r, "release")
  BY <1>5 DEF Poll, Reaches, Closing
<1> QED
  BY <1>1, <1>2, <1>3, <1>4, <1>5, FreshMove DEF Controls

(* A window that opens has not asked for the lock yet.                     *)
LEMMA FreshBegins ==
    ASSUME FreshInv, NEW w \in Windows,
           \/ \E kind \in Jobs : Begin(w, kind)
           \/ \E r \in Runs : BeginRead(w, r)
    PROVE  FreshInv'
<1>0. window \in [Windows -> Window] /\ window[w] \in Window /\ now \in Nat
  BY DEF FreshInv
<1>1. PICK n \in Window : /\ window' = [window EXCEPT ![w] = n]
                          /\ n.at = "acquire" /\ n.begun = now
  <2>1. ASSUME NEW kind \in Jobs, Begin(w, kind)
        PROVE  \E n \in Window : /\ window' = [window EXCEPT ![w] = n]
                                 /\ n.at = "acquire" /\ n.begun = now
    <3> DEFINE n == [window[w] EXCEPT !.at = "acquire", !.kind = kind, !.begun = now]
    <3>1. kind \in Kinds
      BY WindowAssumption
    <3>2. n \in Window /\ n.at = "acquire" /\ n.begun = now
      BY <1>0, <3>1 DEF Window, Places
    <3>3. window' = [window EXCEPT ![w] = n]
      BY <1>0, <2>1 DEF Begin, Window
    <3> HIDE DEF n
    <3> QED
      BY <3>2, <3>3
  <2>2. ASSUME NEW r \in Runs, BeginRead(w, r)
        PROVE  \E n \in Window : /\ window' = [window EXCEPT ![w] = n]
                                 /\ n.at = "acquire" /\ n.begun = now
    <3> DEFINE n == [window[w] EXCEPT !.at = "acquire", !.run = r, !.begun = now]
    <3>1. n \in Window /\ n.at = "acquire" /\ n.begun = now
      BY <1>0 DEF Window, Places
    <3>2. window' = [window EXCEPT ![w] = n]
      BY <1>0, <2>2 DEF BeginRead, Window
    <3> HIDE DEF n
    <3> QED
      BY <3>1, <3>2
  <2> QED
    BY <2>1, <2>2
<1>2. UNCHANGED <<now, lock>>
  BY DEF Begin, BeginRead
<1>3. window' \in [Windows -> Window]
  BY <1>0, <1>1
<1>4. \A v \in Windows :
        /\ window'[v].begun <= now'
        /\ InWindow(v)' => /\ InWindow(v)
                           /\ window'[v].owner = window[v].owner
                           /\ window'[v].ends = window[v].ends
  BY <1>0, <1>1, <1>2 DEF FreshInv, InWindow
<1> QED
  BY <1>0, <1>2, <1>3, <1>4, FreshKept

(* A window that ends, by itself or with its run.                          *)
LEMMA FreshEnds ==
    ASSUME FreshInv, NEW S \in SUBSET Windows, UNCHANGED now,
           window' = [w \in Windows |-> IF w \in S THEN Shut(w) ELSE window[w]]
    PROVE  /\ window' \in [Windows -> Window]
           /\ \A w \in Windows :
                /\ window'[w].begun <= now'
                /\ InWindow(w)' => w \notin S /\ InWindow(w) /\ window'[w] = window[w]
<1>1. window \in [Windows -> Window] /\ now \in Nat
  BY DEF FreshInv
<1>2. window' \in [Windows -> Window]
  BY <1>1, ShutFacts
<1>3. ASSUME NEW w \in Windows
      PROVE  /\ window'[w].begun <= now'
             /\ InWindow(w)' => w \notin S /\ InWindow(w) /\ window'[w] = window[w]
  <2>1. CASE w \in S
    <3>1. window'[w] = Shut(w)
      BY <2>1
    <3>2. window'[w].at = "idle" /\ window'[w].begun = 0
      BY <3>1, ShutFacts
    <3>3. 0 <= now'
      BY <1>1
    <3> QED
      BY <3>2, <3>3 DEF InWindow
  <2>2. CASE w \notin S
    <3>1. window'[w] = window[w]
      BY <2>2
    <3> QED
      BY <2>2, <3>1 DEF FreshInv, InWindow
  <2> QED
    BY <2>1, <2>2
<1> QED
  BY <1>2, <1>3

LEMMA FreshFinishes ==
    ASSUME FreshInv, NEW w \in Windows, Finish(w)
    PROVE  window' = [v \in Windows |-> IF v \in {w} THEN Shut(v) ELSE window[v]]
BY DEF Finish, FreshInv

LEMMA FreshCrashes ==
    ASSUME FreshInv, NEW r \in Runs, Crash(r)
    PROVE  FreshInv'
<1> DEFINE gone == {r} \cup {q \in Runs : run[q] = "left"}
           S == {w \in Windows : w \in gone \/ (w \in Readers /\ window[w].run \in gone)}
<1>1. /\ window' = [w \in Windows |-> IF w \in S THEN Shut(w) ELSE window[w]]
      /\ UNCHANGED <<now, lock>> /\ S \in SUBSET Windows /\ now \in Nat
  BY DEF Crash, FreshInv
<1> HIDE DEF S
<1>2. /\ window' \in [Windows -> Window]
      /\ \A w \in Windows :
           /\ window'[w].begun <= now'
           /\ InWindow(w)' => InWindow(w) /\ window'[w] = window[w]
  BY <1>1, FreshEnds
<1> QED
  BY <1>1, <1>2, FreshKept

(* The release of one operation under its own id leaves the row of every   *)
(* other alone; the release of a run of the agent deletes no such row.     *)
LEMMA FreshReleases ==
    ASSUME FreshInv, NEW w \in Windows, Release(w)
    PROVE  FreshInv'
<1>1. Finish(w) /\ now' = now /\ InWindow(w) /\ now \in Nat
  BY DEF Release, InWindow, At, FreshInv
<1>2. lock' = lock \/ (lock' = NoLock /\ lock.owner = window[w].owner)
  BY DEF Release, Unlocked
<1>3. lock' \in Lock
  BY <1>2 DEF FreshInv, Lock, NoLock, OwnerIds
<1>4. window' = [v \in Windows |-> IF v \in {w} THEN Shut(v) ELSE window[v]]
  BY <1>1, FreshFinishes
<1>5. /\ window' \in [Windows -> Window]
      /\ \A v \in Windows :
           /\ window'[v].begun <= now'
           /\ InWindow(v)' => v \notin {w} /\ InWindow(v) /\ window'[v] = window[v]
  BY <1>1, <1>4, FreshEnds
<1>6. \A v \in Windows : (Fresh(v)' => v # w /\ Fresh(v)) /\ (Holds(v)' => v # w /\ Holds(v))
  BY <1>1, <1>5 DEF Fresh, Holds
<1>7. FreshOwnersApart'
  BY <1>5, <1>6 DEF FreshInv, FreshOwnersApart, Fresh
<1>8. FreshRowsStand'
  <2> SUFFICES ASSUME NEW v \in Windows, Holds(v)', Fresh(v)'
               PROVE  lock'.owner = window'[v].owner /\ lock'.ends = window'[v].ends
    BY DEF FreshRowsStand
  <2>1. /\ v # w /\ Fresh(v) /\ Holds(v) /\ window'[v] = window[v]
        /\ lock.owner = window[v].owner /\ lock.ends = window[v].ends
    BY <1>5, <1>6 DEF FreshInv, FreshRowsStand, Fresh
  <2>2. window[w].owner # window[v].owner
    BY <1>1, <2>1 DEF FreshInv, FreshOwnersApart, Fresh
  <2> QED
    BY <1>2, <2>1, <2>2
<1>9. \A v \in Windows :
        window'[v].begun <= now' /\ (InWindow(v)' => window'[v].owner # NoOwner)
  BY <1>5 DEF FreshInv
<1> QED
  BY <1>1, <1>3, <1>5, <1>7, <1>8, <1>9 DEF FreshInv

(* The row changes hands only when no lease under an own id runs.          *)
LEMMA FreeOfFresh ==
    ASSUME FreshInv, NEW w \in Windows, NEW id \in OwnerIds,
           Owner(window[w].kind, id), Free(id, window[w].begun)
    PROVE  \A v \in Windows : ~(Holds(v) /\ Fresh(v))
<1> SUFFICES ASSUME NEW v \in Windows, Holds(v), Fresh(v) PROVE FALSE
  OBVIOUS
<1>1. /\ lock.owner = window[v].owner /\ lock.ends = window[v].ends
      /\ window[v].owner # Agent /\ window[v].owner # NoOwner
      /\ now < window[v].ends
  BY DEF FreshInv, FreshRowsStand, Fresh, Holds
<1>2. lock # NoLock
  BY <1>1 DEF NoLock
<1>3. lock.owner # id
  BY <1>1 DEF Owner, UsedIds
<1>4. ~(lock.ends <= window[w].begun)
  <2>1. window[w].begun <= now /\ window[w].begun \in Nat /\ now \in Nat /\ window[v].ends \in Nat
    BY DEF FreshInv, Window
  <2> QED
    BY <1>1, <2>1
<1> QED
  BY <1>2, <1>3, <1>4 DEF Free

LEMMA FreshAcquires ==
    ASSUME FreshInv, NEW w \in Windows, Acquire(w)
    PROVE  FreshInv'
<1> DEFINE win == window[w]
           ends == win.begun + LockTerm[win.kind]
<1>1. /\ At(w, "acquire") /\ ~InWindow(w) /\ win \in Window
      /\ window \in [Windows -> Window]
      /\ now' = now /\ now \in Nat /\ lock \in Lock
  BY DEF Acquire, At, InWindow, FreshInv
<1>2. ends \in Nat
  BY <1>1, WindowAssumption DEF Window
<1>3. PICK id \in OwnerIds :
        /\ Owner(win.kind, id)
        /\ LET row == [owner |-> id, kind |-> win.kind, ends |-> ends] IN
           \/ /\ Free(id, win.begun)
              /\ lock' = row
              /\ window' = [window EXCEPT ![w].at = Opening(win.kind),
                               ![w].owner = id, ![w].ends = ends]
           \/ /\ Finish(w)
              /\ \/ UNCHANGED lock
                 \/ Free(id, win.begun) /\ lock' = row
  BY DEF Acquire
<1> DEFINE row == [owner |-> id, kind |-> win.kind, ends |-> ends]
<1>4. row \in Lock /\ row.owner = id /\ row.ends = ends
  BY <1>1, <1>2 DEF Lock, Window
<1>5. Free(id, win.begun) => \A v \in Windows : ~(Holds(v) /\ Fresh(v))
  BY <1>3, FreeOfFresh
<1>6. id # NoOwner /\ (id # Agent => \A v \in Windows : window[v].owner # id)
  BY <1>3, WindowAssumption DEF Owner, UsedIds
<1>7. ASSUME Finish(w), lock' = lock \/ (Free(id, win.begun) /\ lock' = row)
      PROVE  FreshInv'
  <2>1. window' = [v \in Windows |-> IF v \in {w} THEN Shut(v) ELSE window[v]]
    BY <1>7, FreshFinishes
  <2>2. /\ window' \in [Windows -> Window]
        /\ \A v \in Windows :
             /\ window'[v].begun <= now'
             /\ InWindow(v)' => v \notin {w} /\ InWindow(v) /\ window'[v] = window[v]
    BY <1>1, <2>1, FreshEnds
  <2>3. CASE lock' = lock
    BY <1>1, <2>2, <2>3, FreshKept
  <2>4. CASE Free(id, win.begun) /\ lock' = row
    <3>1. \A v \in Windows : (Fresh(v)' => Fresh(v)) /\ (Holds(v)' => Holds(v))
      BY <1>1, <2>2 DEF Fresh, Holds
    <3>2. FreshRowsStand'
      BY <1>5, <2>4, <3>1 DEF FreshRowsStand
    <3>3. FreshOwnersApart'
      BY <2>2, <3>1 DEF FreshInv, FreshOwnersApart, Fresh
    <3>4. \A v \in Windows :
            window'[v].begun <= now' /\ (InWindow(v)' => window'[v].owner # NoOwner)
      BY <2>2 DEF FreshInv
    <3> QED
      BY <1>1, <1>4, <2>2, <2>4, <3>2, <3>3, <3>4 DEF FreshInv
  <2> QED
    BY <1>7, <2>3, <2>4
<1>8. ASSUME Free(id, win.begun), lock' = row,
             window' = [window EXCEPT ![w].at = Opening(win.kind),
                              ![w].owner = id, ![w].ends = ends]
      PROVE  FreshInv'
  <2> DEFINE n == [win EXCEPT !.at = Opening(win.kind), !.owner = id, !.ends = ends]
  <2>1. Opening(win.kind) \in Places
    BY DEF Opening, Places
  <2>2. /\ n \in Window /\ n.owner = id /\ n.ends = ends /\ n.begun = win.begun
    BY <1>1, <1>2, <2>1 DEF Window
  <2>3. window' = [window EXCEPT ![w] = n]
    BY <1>1, <1>8 DEF Window
  <2>4. lock' \in Lock /\ lock'.owner = id /\ lock'.ends = ends
    BY <1>4, <1>8
  <2>5. win.begun <= now /\ \A v \in Windows : ~(Holds(v) /\ Fresh(v))
    BY <1>5, <1>8 DEF FreshInv
  <2> HIDE DEF n, row, ends, win
  <2>6. /\ window' \in [Windows -> Window]
        /\ window'[w] = n /\ \A v \in Windows : v # w => window'[v] = window[v]
    BY <1>1, <2>2, <2>3
  <2>7. \A v \in Windows :
          window'[v].begun <= now' /\ (InWindow(v)' => window'[v].owner # NoOwner)
    BY <1>1, <1>6, <2>2, <2>5, <2>6 DEF FreshInv, InWindow
  <2>8. \A v \in Windows : v # w => (Fresh(v)' <=> Fresh(v)) /\ (Holds(v)' <=> Holds(v))
    BY <1>1, <2>6 DEF Fresh, Holds, InWindow
  <2>9. FreshRowsStand'
    BY <2>2, <2>4, <2>5, <2>6, <2>8 DEF FreshRowsStand
  <2>10. FreshOwnersApart'
    <3>1. ASSUME NEW v \in Windows, v # w, Fresh(v)', Fresh(w)'
          PROVE  window'[v].owner # window'[w].owner
      BY <1>6, <2>2, <2>6, <3>1 DEF Fresh
    <3>2. ASSUME NEW u \in Windows, NEW v \in Windows, u # w, v # w,
                 Fresh(u)', Fresh(v)', window'[u].owner = window'[v].owner
          PROVE  u = v
      BY <2>6, <2>8, <3>2 DEF FreshInv, FreshOwnersApart
    <3> QED
      BY <3>1, <3>2 DEF FreshOwnersApart
  <2> QED
    BY <1>1, <2>4, <2>6, <2>7, <2>9, <2>10 DEF FreshInv
<1> QED
  BY <1>3, <1>7, <1>8

(* FreshInv is inductive with any number of runs up at once.               *)
THEOREM FreshInvariant == WindowSpec => []FreshInv
<1>1. WindowInit => FreshInv
  <2> SUFFICES ASSUME WindowInit PROVE FreshInv
    OBVIOUS
  <2>1. now = 0 /\ lock \in Lock
    BY DEF WindowInit, NoLock, Lock, OwnerIds
  <2>2. window \in [Windows -> Window] /\ \A w \in Windows : window[w] = Shut(w)
    BY ShutFacts DEF WindowInit
  <2>3. \A w \in Windows : window[w].begun <= now /\ ~InWindow(w)
    BY <2>1, <2>2, ShutFacts DEF InWindow
  <2> QED
    BY <2>1, <2>2, <2>3 DEF FreshInv, FreshOwnersApart, FreshRowsStand, Fresh, Holds
<1>2. FreshInv /\ [WindowNext]_vars => FreshInv'
  <2> SUFFICES ASSUME FreshInv, [WindowNext]_vars PROVE FreshInv'
    OBVIOUS
  <2>1. ASSUME NEW r \in Runs, NEW kind \in Jobs, Begin(r, kind) PROVE FreshInv'
    BY <2>1, FreshBegins DEF Windows
  <2>2. ASSUME NEW r \in Runs, NEW w \in Readers, BeginRead(w, r) PROVE FreshInv'
    BY <2>2, FreshBegins DEF Windows
  <2>3. ASSUME NEW r \in Runs, Controls(r) PROVE FreshInv'
    BY <2>3, FreshControls
  <2>4. ASSUME NEW r \in Runs, Crash(r) PROVE FreshInv'
    BY <2>4, FreshCrashes
  <2>5. ASSUME NEW w \in Windows, Proceeds(w) PROVE FreshInv'
    BY <2>5, FreshAcquires, FreshWithin, FreshReleases DEF Proceeds
  <2>6. ASSUME \/ JvmBoots \/ JvmExits \/ Tick \/ UNCHANGED vars
               \/ \E r \in Runs : Watch(r) \/ RunUp(r) \/ Replaced(r)
        PROVE  FreshInv'
    <3>1. /\ window' = window /\ lock' = lock /\ now' \in Nat /\ now <= now' /\ now \in Nat
      BY <2>6 DEF JvmBoots, JvmExits, Tick, Watch, RunUp, Replaced, vars, FreshInv
    <3>2. \A w \in Windows : window[w].begun \in Nat /\ window[w].begun <= now
      BY DEF FreshInv, Window
    <3>3. \A w \in Windows :
            /\ window'[w].begun <= now'
            /\ InWindow(w)' => /\ InWindow(w)
                               /\ window'[w].owner = window[w].owner
                               /\ window'[w].ends = window[w].ends
      BY <3>1, <3>2 DEF InWindow
    <3>4. window' \in [Windows -> Window]
      BY <3>1 DEF FreshInv
    <3> QED
      BY <3>1, <3>3, <3>4, FreshKept
  <2> QED
    BY <2>1, <2>2, <2>3, <2>4, <2>5, <2>6 DEF WindowNext
<1> QED
  BY <1>1, <1>2, PTL DEF WindowSpec

(* Even with two runs of one agent id up, no two operations that locked    *)
(* under ids of their own hold the lock together.                          *)
THEOREM FreshWindowsApart == WindowSpec => []FreshWindowsExclude
<1>1. FreshInv => FreshWindowsExclude
  <2> SUFFICES ASSUME FreshInv, NEW v \in Windows, NEW w \in Windows,
                      Holds(v), Fresh(v), Holds(w), Fresh(w)
               PROVE  v = w
    BY DEF FreshWindowsExclude
  <2>1. lock.owner = window[v].owner /\ lock.owner = window[w].owner
    BY DEF FreshInv, FreshRowsStand
  <2> QED
    BY <2>1 DEF FreshInv, FreshOwnersApart
<1> QED
  BY <1>1, FreshInvariant, PTL

(* And no run of the agent takes over or deletes the row of such an        *)
(* operation while its lease runs.                                         *)
THEOREM FreshRowsKept == WindowSpec => []FreshRowsStand
<1>1. FreshInv => FreshRowsStand
  BY DEF FreshInv
<1> QED
  BY <1>1, FreshInvariant, PTL

-----------------------------------------------------------------------------
(* What WindowsEnd rests on: an operation only goes forward. Its waits     *)
(* count their inspections, and nothing else is done twice.                *)

LooksLeft(win) == MaxLooks - win.looks

(* The answers an operation still waits for, at most. A restore works on   *)
(* the files before it looks at the server, the others after it.           *)
Ahead(win) ==
    CASE win.at = "idle"                             -> 0
      [] win.at = "release"                          -> 1
      [] win.at = "promote"                          -> 2
      [] win.at = "recheck"                          -> 3
      [] win.at = "work" /\ win.kind # "restore"     -> 4
      [] win.at = "booting"                          -> 1 + LooksLeft(win)
      [] win.at = "attach"                           -> 2 + MaxLooks
      [] win.at = "launch"                           -> 3 + MaxLooks
      [] win.at = "emptying"                         -> 3 + MaxLooks + LooksLeft(win)
      [] win.at = "stop"                             -> 4 + 2 * MaxLooks
      [] win.at = "inspect"                          -> 5 + 2 * MaxLooks
      [] win.at \in {"guard", "send"}                -> 6 + 2 * MaxLooks
      [] win.at = "work" /\ win.kind = "restore"     -> 6 + 2 * MaxLooks
      [] win.at = "acquire"                          -> 7 + 2 * MaxLooks

LEMMA AheadAt ==
    ASSUME NEW win \in Window
    PROVE  /\ MaxLooks \in Nat \ {0} /\ LooksLeft(win) \in 1..MaxLooks
           /\ win.at = "idle" => Ahead(win) = 0
           /\ win.at = "release" => Ahead(win) = 1
           /\ win.at = "promote" => Ahead(win) = 2
           /\ win.at = "recheck" => Ahead(win) = 3
           /\ win.at = "work" /\ win.kind # "restore" => Ahead(win) = 4
           /\ win.at = "booting" => Ahead(win) = 1 + LooksLeft(win)
           /\ win.at = "attach" => Ahead(win) = 2 + MaxLooks
           /\ win.at = "launch" => Ahead(win) = 3 + MaxLooks
           /\ win.at = "emptying" => Ahead(win) = 3 + MaxLooks + LooksLeft(win)
           /\ win.at = "stop" => Ahead(win) = 4 + 2 * MaxLooks
           /\ win.at = "inspect" => Ahead(win) = 5 + 2 * MaxLooks
           /\ win.at \in {"guard", "send"} => Ahead(win) = 6 + 2 * MaxLooks
           /\ win.at = "work" /\ win.kind = "restore" => Ahead(win) = 6 + 2 * MaxLooks
           /\ win.at = "acquire" => Ahead(win) = 7 + 2 * MaxLooks
<1>1. MaxLooks \in Nat \ {0} /\ win.looks \in 0..(MaxLooks - 1)
  BY WindowAssumption DEF Window
<1>2. LooksLeft(win) \in 1..MaxLooks
  BY <1>1 DEF LooksLeft
<1> QED
  BY <1>1, <1>2 DEF Ahead

(* The operation w, and no other, waits at one of the places; its kind and *)
(* its count of inspections are as before.                                 *)
Comes(w, places) ==
    /\ \A v \in Windows \ {w} : window'[v] = window[v]
    /\ window'[w].at \in places
    /\ window'[w].kind = window[w].kind
    /\ window'[w].looks = window[w].looks

LEMMA GotoComes ==
    ASSUME FreshInv, NEW w \in Windows, NEW p, Goto(w, p)
    PROVE  Comes(w, {p})
<1>1. window \in [Windows -> Window] /\ window[w] \in Window
  BY DEF FreshInv
<1> QED
  BY <1>1 DEF Goto, Comes, Window

LEMMA ClosingComes ==
    ASSUME FreshInv, NEW w \in Windows, NEW ok, Closing(w, ok)
    PROVE  Comes(w, {"release"})
<1>1. window \in [Windows -> Window] /\ window[w] \in Window
  BY DEF FreshInv
<1> QED
  BY <1>1 DEF Closing, Comes, Window

(* Where the steps of an operation lead.                                   *)
LEMMA WithinComes ==
    ASSUME FreshInv, NEW w \in Windows
    PROVE  /\ CheckLock(w) => At(w, "guard") /\ Comes(w, {"inspect", "release"})
           /\ WorkEnds(w) => /\ At(w, "work")
                             /\ Comes(w, IF window[w].kind = "restore"
                                         THEN {"inspect", "release"} ELSE {"recheck", "release"})
           /\ Recheck(w) => At(w, "recheck") /\ Comes(w, {"promote", "release"})
           /\ Promote(w) => At(w, "promote") /\ Comes(w, {"release"})
           /\ FirstLook(w) => /\ At(w, "inspect") /\ Comes(w, {"work", "launch", "stop", "release"})
                              /\ window'[w].at = "work" => window[w].kind # "restore"
<1>1. window \in [Windows -> Window] /\ window[w] \in Window
  BY DEF FreshInv
<1>2. \A p, q : Comes(w, {p}) => Comes(w, {p, q}) /\ Comes(w, {q, p})
  BY DEF Comes
<1>3. CheckLock(w) => At(w, "guard") /\ Comes(w, {"inspect", "release"})
  BY <1>2, GotoComes, ClosingComes DEF CheckLock
<1>4. ASSUME WorkEnds(w)
      PROVE  /\ At(w, "work")
             /\ Comes(w, IF window[w].kind = "restore"
                         THEN {"inspect", "release"} ELSE {"recheck", "release"})
  BY <1>2, <1>4, GotoComes, ClosingComes DEF WorkEnds
<1>5. Recheck(w) => At(w, "recheck") /\ Comes(w, {"promote", "release"})
  BY <1>2, GotoComes, ClosingComes DEF Recheck
<1>6. Promote(w) => At(w, "promote") /\ Comes(w, {"release"})
  BY ClosingComes DEF Promote
<1>7. ASSUME FirstLook(w)
      PROVE  /\ At(w, "inspect") /\ Comes(w, {"work", "launch", "stop", "release"})
             /\ window'[w].at = "work" => window[w].kind # "restore"
  <2>1. /\ Opened(w) \in {"work", "launch", "stop", "release"}
        /\ Opened(w) = "work" => window[w].kind # "restore"
    BY DEF Opened, Guarded
  <2>2. /\ \A v \in Windows \ {w} : window'[v] = window[v]
        /\ window'[w].at = Opened(w)
        /\ window'[w].kind = window[w].kind /\ window'[w].looks = window[w].looks
    BY <1>1, <1>7 DEF FirstLook, Window
  <2> QED
    BY <1>7, <2>1, <2>2 DEF FirstLook, Comes
<1> QED
  BY <1>3, <1>4, <1>5, <1>6, <1>7

(* A step that comes to a place with less ahead.                           *)
LEMMA WithinAdvances ==
    ASSUME FreshInv, FreshInv', NEW w \in Windows,
           \/ CheckLock(w) \/ WorkEnds(w) \/ Recheck(w) \/ Promote(w) \/ FirstLook(w)
    PROVE  /\ \A v \in Windows \ {w} : window'[v] = window[v]
           /\ Ahead(window'[w]) < Ahead(window[w])
<1>1. window[w] \in Window /\ window'[w] \in Window
  BY DEF FreshInv
<1>2. \A v \in Windows \ {w} : window'[v] = window[v]
  BY WithinComes DEF Comes
<1>3. Ahead(window'[w]) < Ahead(window[w])
  <2>1. CASE CheckLock(w)
    BY <1>1, <2>1, AheadAt, WithinComes DEF Comes, At
  <2>2. CASE WorkEnds(w)
    BY <1>1, <2>2, AheadAt, WithinComes DEF Comes, At
  <2>3. CASE Recheck(w) \/ Promote(w)
    BY <1>1, <2>3, AheadAt, WithinComes DEF Comes, At
  <2>4. CASE FirstLook(w)
    BY <1>1, <2>4, AheadAt, WithinComes DEF Comes, At
  <2> QED
    BY <2>1, <2>2, <2>3, <2>4
<1> QED
  BY <1>2, <1>3

(* The waits of the controller included: an inspection that decides        *)
(* nothing leaves one less.                                                *)
LEMMA ControlAdvances ==
    ASSUME FreshInv, FreshInv', NEW w \in Runs, Controls(w)
    PROVE  /\ \A v \in Windows \ {w} : window'[v] = window[v]
           /\ Ahead(window'[w]) < Ahead(window[w])
<1>1. /\ w \in Windows /\ window \in [Windows -> Window]
      /\ window[w] \in Window /\ window'[w] \in Window
  BY DEF FreshInv, Windows
<1> DEFINE Advances == /\ \A v \in Windows \ {w} : window'[v] = window[v]
                       /\ Ahead(window'[w]) < Ahead(window[w])
<1>2. ASSUME \/ At(w, "launch") \/ At(w, "attach") \/ At(w, "stop") \/ At(w, "send")
             \/ Waiting(w),
             Comes(w, {"release"})
      PROVE  Advances
  BY <1>1, <1>2, AheadAt DEF Comes, At, Waiting
<1>3. CASE Launch(w)
  <2>1. ASSUME window' = [window EXCEPT ![w].at = "attach", ![w].looks = 0]
        PROVE  Advances
    <3>1. window'[w].at = "attach" /\ \A v \in Windows \ {w} : window'[v] = window[v]
      BY <1>1, <2>1 DEF Window
    <3>2. window[w].at = "launch"
      BY <1>3 DEF Launch, At
    <3> QED
      BY <1>1, <3>1, <3>2, AheadAt
  <2> QED
    BY <1>1, <1>2, <1>3, <2>1, ClosingComes DEF Launch
<1>4. CASE Attach(w)
  <2>1. Comes(w, {"booting"}) => Advances
    BY <1>1, <1>4, AheadAt DEF Attach, Comes, At
  <2> QED
    BY <1>1, <1>2, <1>4, <2>1, GotoComes, ClosingComes DEF Attach
<1>5. CASE StopAsked(w)
  <2>1. ASSUME window' = [window EXCEPT ![w].at = "emptying", ![w].looks = 0]
        PROVE  Advances
    <3>1. window'[w].at = "emptying" /\ \A v \in Windows \ {w} : window'[v] = window[v]
      BY <1>1, <2>1 DEF Window
    <3>2. window[w].at = "stop"
      BY <1>5 DEF StopAsked, At
    <3> QED
      BY <1>1, <3>1, <3>2, AheadAt
  <2> QED
    BY <1>1, <1>2, <1>5, <2>1, ClosingComes DEF StopAsked
<1>6. CASE Poll(w)
  <2>1. ASSUME window' = Counted(w) PROVE Advances
    <3>1. /\ window'[w].at = window[w].at /\ window'[w].looks = window[w].looks + 1
          /\ \A v \in Windows \ {w} : window'[v] = window[v]
      BY <1>1, <2>1 DEF Counted, Window
    <3>2. window[w].at \in {"emptying", "booting"}
      BY <1>6 DEF Poll, Waiting, At
    <3>3. LooksLeft(window'[w]) < LooksLeft(window[w])
      BY <1>1, <3>1, AheadAt DEF LooksLeft, Window
    <3> QED
      BY <1>1, <3>1, <3>2, <3>3, AheadAt
  <2>2. ASSUME At(w, "emptying"), Comes(w, {"launch"}) PROVE Advances
    BY <1>1, <2>2, AheadAt DEF Comes, At
  <2>3. \/ window' = Counted(w) \/ Comes(w, {"release"})
        \/ At(w, "emptying") /\ Comes(w, {"launch"})
    BY <1>1, <1>6, GotoComes, ClosingComes DEF Poll
  <2>4. Waiting(w)
    BY <1>6 DEF Poll
  <2> QED
    BY <1>2, <2>1, <2>2, <2>3, <2>4
<1>7. CASE Send(w)
  <2>1. Comes(w, {"inspect"}) => Advances
    BY <1>1, <1>7, AheadAt DEF Send, Comes, At
  <2> QED
    BY <1>1, <1>2, <1>7, <2>1, GotoComes, ClosingComes DEF Send
<1> QED
  BY <1>3, <1>4, <1>5, <1>6, <1>7 DEF Controls

(* Taking the lock opens the window, or ends the operation; releasing it   *)
(* ends it.                                                                *)
LEMMA LockAdvances ==
    ASSUME FreshInv, FreshInv', NEW w \in Windows, Acquire(w) \/ Release(w)
    PROVE  /\ \A v \in Windows \ {w} : window'[v] = window[v]
           /\ Ahead(window'[w]) < Ahead(window[w])
<1>1. /\ window \in [Windows -> Window] /\ window[w] \in Window /\ window'[w] \in Window
      /\ window[w].at \in {"acquire", "release"}
  BY DEF FreshInv, Acquire, Release, At
<1>2. ASSUME Finish(w)
      PROVE  window'[w].at = "idle" /\ \A v \in Windows \ {w} : window'[v] = window[v]
  BY <1>1, <1>2, ShutFacts DEF Finish
<1>3. ASSUME Acquire(w), ~Finish(w)
      PROVE  /\ window'[w].at \in {"guard", "work", "send", "inspect"}
             /\ \A v \in Windows \ {w} : window'[v] = window[v]
             /\ window[w].at = "acquire"
  <2>1. Opening(window[w].kind) \in {"guard", "work", "send", "inspect"}
    BY DEF Opening
  <2>2. window'[w].at = Opening(window[w].kind) /\ \A v \in Windows \ {w} : window'[v] = window[v]
    <3>1. PICK id \in OwnerIds :
            window' = [window EXCEPT ![w].at = Opening(window[w].kind), ![w].owner = id,
                                     ![w].ends = window[w].begun + LockTerm[window[w].kind]]
      BY <1>3 DEF Acquire
    <3> QED
      BY <1>1, <3>1 DEF Window
  <2> QED
    BY <1>3, <2>1, <2>2 DEF Acquire, At
<1>4. CASE Finish(w)
  BY <1>1, <1>2, <1>4, AheadAt
<1>5. CASE ~Finish(w)
  <2>1. Acquire(w)
    BY <1>5 DEF Release
  <2> QED
    BY <1>1, <1>3, <1>5, <2>1, AheadAt
<1> QED
  BY <1>4, <1>5

LEMMA NextAdvances ==
    ASSUME FreshInv, FreshInv', [WindowNext]_vars, NEW w \in Windows, Busy(w),
           window'[w] # window[w]
    PROVE  Ahead(window'[w]) < Ahead(window[w])
<1>1. /\ window \in [Windows -> Window] /\ window[w] \in Window /\ window'[w] \in Window
      /\ window[w].at # "idle"
  BY DEF FreshInv, Busy, At
<1>2. CASE \E v \in Windows : Proceeds(v)
  BY <1>2, WithinAdvances, LockAdvances DEF Proceeds
<1>3. CASE \E r \in Runs : Controls(r)
  BY <1>3, ControlAdvances
<1>4. ASSUME NEW r \in Runs, Crash(r) PROVE Ahead(window'[w]) < Ahead(window[w])
  <2>1. window'[w] = Shut(w)
    BY <1>1, <1>4 DEF Crash
  <2>2. window'[w].at = "idle"
    BY <2>1, ShutFacts
  <2>3. Ahead(window[w]) > 0
    BY <1>1, AheadAt DEF Window, Places
  <2> QED
    BY <1>1, <2>2, <2>3, AheadAt
<1>5. ASSUME NEW r \in Runs, NEW kind \in Jobs, Begin(r, kind) PROVE FALSE
  BY <1>1, <1>5 DEF Begin, At
<1>6. ASSUME NEW r \in Runs, NEW v \in Readers, BeginRead(v, r) PROVE FALSE
  BY <1>1, <1>6 DEF BeginRead, At
<1>7. CASE \/ \E r \in Runs : Watch(r) \/ RunUp(r) \/ Replaced(r)
           \/ JvmBoots \/ JvmExits \/ Tick \/ UNCHANGED vars
  BY <1>7 DEF Watch, RunUp, Replaced, JvmBoots, JvmExits, Tick, vars
<1> QED
  BY <1>2, <1>3, <1>4, <1>5, <1>6, <1>7 DEF WindowNext

(* Once begun, an operation comes nearer to its end with every step of its *)
(* own, and nothing but the death of its run moves it otherwise.           *)
OperationsOnlyAdvance ==
    [][\A w \in Windows :
          Busy(w) /\ window'[w] # window[w] => Ahead(window'[w]) < Ahead(window[w])]_vars

(* It takes at most 7 + 2 * MaxLooks steps, whatever the server and the    *)
(* database answer, and with any number of runs up at once.                *)
THEOREM OperationsAlwaysAdvance == WindowSpec => OperationsOnlyAdvance
<1>1. FreshInv /\ FreshInv' /\ [WindowNext]_vars
      => [\A w \in Windows :
             Busy(w) /\ window'[w] # window[w] =>
                 Ahead(window'[w]) < Ahead(window[w])]_vars
  BY NextAdvances
<1> QED
  BY <1>1, FreshInvariant, PTL DEF WindowSpec, OperationsOnlyAdvance

=============================================================================
