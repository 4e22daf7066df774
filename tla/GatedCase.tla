----------------------------- MODULE GatedCase -----------------------------
(***************************************************************************)
(* What a case promises, without locks, retries or open transactions: it   *)
(* moves one state at a time, each move a row of its history granted to    *)
(* the version it started from, and it leaves the gated state exactly with *)
(* a passed verdict of the gate.  Any other verdict leaves it where it is. *)
(***************************************************************************)
EXTENDS Naturals, Sequences

CONSTANTS
    Successor,  \* the state after each state that is not the last one
    Start,      \* the first state
    Gated       \* the state the gate guards

VARIABLES
    state,     \* where the case is
    version,   \* one more than the moves so far
    history,   \* the moves
    verdicts   \* of the gate, TRUE for a passed one

vars == <<state, version, history, verdicts>>

Init == state = Start /\ version = 1 /\ history = <<>> /\ verdicts = <<>>

Move ==
    /\ state \in DOMAIN Successor
    /\ state' = Successor[state]
    /\ version' = version + 1
    /\ history' = Append(history,
          [from |-> state, to |-> state', new_version |-> version', wanted |-> version])
    /\ verdicts' = IF state = Gated THEN Append(verdicts, TRUE) ELSE verdicts

Block ==
    /\ state = Gated
    /\ verdicts' = Append(verdicts, FALSE)
    /\ UNCHANGED <<state, version, history>>

Next == Move \/ Block

Spec == Init /\ [][Next]_vars

============================================================================
