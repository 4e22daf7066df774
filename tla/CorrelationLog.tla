--------------------------- MODULE CorrelationLog ---------------------------
(***************************************************************************)
(* What the detection intake promises, without workers, deliveries or      *)
(* races: a message is correlated in one step, unless its detection        *)
(* already was; or it is given up; and it is settled only after one of the *)
(* two.  Correlating leaves one audit row, and announces the case of the   *)
(* detection's key exactly when there was none.                            *)
(***************************************************************************)
EXTENDS Naturals

CONSTANTS
    Messages,  \* of the stream
    Keys       \* correlation keys

VARIABLES
    event, correlation_key,     \* detection of a message, key of a detection
    processed, audited,         \* detections correlated, and audit rows of each
    cases, created,             \* keys with a case, and announcements of each
    failed,                     \* messages given up
    settled                     \* messages that are done

fixed == UNCHANGED <<event, correlation_key>>
vars == <<event, correlation_key, processed, audited, cases, created, failed, settled>>

Init ==
    /\ processed = {} /\ audited = [d \in DOMAIN correlation_key |-> 0]
    /\ cases = {} /\ created = [k \in Keys |-> 0]
    /\ failed = {} /\ settled = {}

Correlate(d, k) ==
    /\ d \notin processed
    /\ processed' = processed \cup {d}
    /\ audited' = [audited EXCEPT ![d] = @ + 1]
    /\ cases' = cases \cup {k}
    /\ created' = IF k \in cases THEN created ELSE [created EXCEPT ![k] = @ + 1]
    /\ UNCHANGED <<failed, settled>>

GiveUp(m) == failed' = failed \cup {m} /\ UNCHANGED <<processed, audited, cases, created, settled>>

Settle(m) ==
    /\ event[m] \in processed \/ m \in failed
    /\ settled' = settled \cup {m}
    /\ UNCHANGED <<processed, audited, cases, created, failed>>

Next ==
    /\ fixed
    /\ \E m \in Messages :
          Correlate(event[m], correlation_key[event[m]]) \/ GiveUp(m) \/ Settle(m)

Spec == Init /\ [][Next]_vars

=============================================================================
