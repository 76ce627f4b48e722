--------------------------- MODULE OperationLedger ---------------------------
(***************************************************************************)
(* What the durable operation of the control plane promises to the panel,  *)
(* whatever requests, agents, leases and crashes do underneath: a server   *)
(* has at most one operation in flight, an operation is decided once, and  *)
(* it is reported as succeeded exactly when an agent reported its work     *)
(* done.  (ServerOperation and its transition table in                     *)
(* packages/contracts/src/server-operation.ts.)                            *)
(***************************************************************************)
CONSTANTS Operations, ServerOf

VARIABLES
  phase,    \* per operation: "none", "inFlight", "succeeded" or "failed"
  done      \* operations whose work an agent reported done

ledgerVars == <<phase, done>>

Phases == {"none", "inFlight", "succeeded", "failed"}

LedgerTypeOK ==
  /\ phase \in [Operations -> Phases]
  /\ done \in SUBSET Operations

LedgerInit ==
  /\ phase = [o \in Operations |-> "none"]
  /\ done = {}

InFlight(s) == {o \in Operations : ServerOf[o] = s /\ phase[o] = "inFlight"}

Open(o) ==
  /\ phase[o] = "none"
  /\ InFlight(ServerOf[o]) = {}
  /\ phase' = [phase EXCEPT ![o] = "inFlight"]
  /\ UNCHANGED done

Perform(o) ==
  /\ phase[o] = "inFlight"
  /\ o \notin done
  /\ done' = done \cup {o}
  /\ UNCHANGED phase

Decide(o) ==
  /\ phase[o] = "inFlight"
  /\ phase' = [phase EXCEPT ![o] = IF o \in done THEN "succeeded" ELSE "failed"]
  /\ UNCHANGED done

LedgerNext == \E o \in Operations : Open(o) \/ Perform(o) \/ Decide(o)

LedgerSpec == LedgerInit /\ [][LedgerNext]_ledgerVars

=============================================================================
