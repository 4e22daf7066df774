---------------------------- MODULE TelemetryLog ----------------------------
(***************************************************************************)
(* What agent telemetry delivery promises, without queues, retries or      *)
(* replies: events pass three stages.  An event is emitted on the stream,  *)
(* possibly without ever being accepted; it is accepted into the log in    *)
(* increasing sequence order, once; and only an accepted event is          *)
(* confirmed to the agent that sent it.                                    *)
(***************************************************************************)
EXTENDS Naturals

VARIABLES
    emitted,      \* events (records with a field seq) consumers of the stream can see
    log,          \* events accepted for good
    confirmed     \* accepted events the agent's queue file knows about

vars == <<emitted, log, confirmed>>

Init == emitted = {} /\ log = {} /\ confirmed = {}

\* One event that is not in the log yet joins the stream.
Emit ==
    /\ \E ev \in emitted' \ log : emitted' = emitted \cup {ev}
    /\ UNCHANGED <<log, confirmed>>

Accept(ev) ==
    /\ \A old \in log : old.seq < ev.seq
    /\ log' = log \cup {ev}
    /\ UNCHANGED <<emitted, confirmed>>

Confirm(ev) ==
    /\ confirmed' = confirmed \cup {ev}
    /\ UNCHANGED <<emitted, log>>

\* The agent's queue file is replaced.
Forget == confirmed' = {} /\ UNCHANGED <<emitted, log>>

Next ==
    \/ Emit
    \/ \E ev \in emitted : Accept(ev)
    \/ \E ev \in log : Confirm(ev)
    \/ Forget

Spec == Init /\ [][Next]_vars

=============================================================================
