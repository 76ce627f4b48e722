-------------------------- MODULE ReversibleChange --------------------------
(***************************************************************************)
(* What changing a configuration promises, whatever calls, locks, crashes  *)
(* and file-system failures do underneath: changes go one at a time; the   *)
(* file is touched only by the change under way, after the content it      *)
(* replaces was put aside for good; and a change is recorded only while    *)
(* the file holds it. A change that is given up, or whose call died, may   *)
(* leave its content in the file: from then on the file is not what is     *)
(* recorded, and nothing is put aside or written any more.                 *)
(* (docs/plataforma, PHASE_7_CONFIGURATION_PERSISTENCE.md.)                *)
(***************************************************************************)
CONSTANTS Changes, Contents, NoChange, NotKept

VARIABLES
    file,      \* what the file holds
    recorded,  \* what the control plane says it holds
    pending,   \* the change under way
    kept,      \* per change: what it replaces, and what it is to write
    verdict    \* per change: "none", "open", "applied" or "failed"

changeVars == <<file, recorded, pending, kept, verdict>>

ChangeInit ==
    /\ file \in Contents /\ recorded = file
    /\ pending = NoChange
    /\ kept = [r \in Changes |-> NotKept]
    /\ verdict = [r \in Changes |-> "none"]

Begin(r) ==
    /\ pending = NoChange /\ verdict[r] = "none"
    /\ pending' = r /\ verdict' = [verdict EXCEPT ![r] = "open"]
    /\ UNCHANGED <<file, recorded, kept>>

\* What is kept is the recorded content, still in the file, and kept once.
Keep(r, new) ==
    /\ pending = r /\ kept[r] = NotKept
    /\ file = recorded /\ new # recorded
    /\ kept' = [kept EXCEPT ![r] = [previous |-> recorded, intended |-> new]]
    /\ UNCHANGED <<file, recorded, pending, verdict>>

\* The change under way can be taken back from what was kept.
Covered(r) ==
    /\ pending = r /\ kept[r] # NotKept
    /\ kept[r].previous = recorded

Write(r) ==
    /\ Covered(r)
    /\ file' = kept[r].intended
    /\ UNCHANGED <<recorded, pending, kept, verdict>>

TakeBack(r) ==
    /\ Covered(r)
    /\ file' = kept[r].previous
    /\ UNCHANGED <<recorded, pending, kept, verdict>>

Decide(r, decision) ==
    /\ pending = r
    /\ pending' = NoChange
    /\ verdict' = [verdict EXCEPT ![r] = decision]

Record(r) ==
    /\ Covered(r) /\ file = kept[r].intended
    /\ recorded' = file
    /\ Decide(r, "applied")
    /\ UNCHANGED <<file, kept>>

GiveUp(r) == Decide(r, "failed") /\ UNCHANGED <<file, recorded, kept>>

ChangeNext ==
    \E r \in Changes :
        \/ Begin(r) \/ Write(r) \/ TakeBack(r) \/ Record(r) \/ GiveUp(r)
        \/ \E new \in Contents : Keep(r, new)

ChangeSpec == ChangeInit /\ [][ChangeNext]_changeVars

=============================================================================
