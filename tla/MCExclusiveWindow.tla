------------------------- MODULE MCExclusiveWindow -------------------------
(* Instances of ExclusiveWindow for TLC. One unit of time is 300 seconds,  *)
(* the lease of a configuration operation; a job lease is 900 seconds.     *)
EXTENDS ExclusiveWindow, TLC

CONSTANTS r1, r2, p1, i1, i2, i3

OneRun == {r1}
TwoRuns == {r1, r2}
OneReader == {p1}
ThreeIds == {i1, i2, i3}

(* The leases of the code: an observation locks for the lease of its job;  *)
(* a panel read's 30 seconds and a command's are rounded up.               *)
CodeTerms == [kind \in Kinds |->
                 CASE kind \in {"start", "stop", "restart"}     -> 2
                   [] kind \in {"restore", "backup"}            -> 12
                   [] kind = "observe"                          -> WorkTerm
                   [] OTHER                                     -> 1]

(* Launches within their lease; the lease of every other operation lapses. *)
PatientTerms == [kind \in Kinds |->
                    IF kind \in Launching THEN MaxTime + 1 ELSE 1]

IdSymmetry == Permutations(Ids)
=============================================================================
