------------------------------ MODULE MCRelay ------------------------------
(***************************************************************************)
(* The platform's outgoing work, for TLC: the outbox relay, the calls to   *)
(* the AI provider and the snapshots they carry.  These parts share no     *)
(* state, so a behaviour is one of one part; part says which, and the      *)
(* variables of the other parts keep their initial values.                 *)
(***************************************************************************)
EXTENDS OutboxRelay, AiOrchestrator, AiSnapshot

VARIABLE part

outgoingVars == <<part, vars, aiVars, snapshotVars>>

OutgoingInit ==
    /\ part \in {"relay", "provider", "snapshot"}
    /\ Init /\ OrchestratorInit /\ SnapshotInit

OutgoingNext ==
    /\ UNCHANGED part
    /\ \/ part = "relay" /\ Next /\ UNCHANGED <<aiVars, snapshotVars>>
       \/ part = "provider" /\ OrchestratorNext /\ UNCHANGED <<vars, snapshotVars>>
       \/ part = "snapshot" /\ SnapshotNext /\ UNCHANGED <<vars, aiVars>>

\* No fair action of a part is enabled in its initial state, so a part's
\* fairness asks nothing of the behaviours of the others.
OutgoingSpec ==
    OutgoingInit /\ [][OutgoingNext]_outgoingVars /\ Fairness /\ OrchestratorFairness

\* The caps of the lists, in the place of 10, 20, 10, 5 and 50.
MCListCap == [untrusted |-> 2, artifacts |-> 1, previous |-> 1, directives |-> 2, events |-> 1]

============================================================================
