-------------------------- MODULE DetectionIntake --------------------------
(***************************************************************************)
(* From the detection stream to cases: JetStream's durable pull consumer,  *)
(* DeadLetterAwareConsumer with its limit on deliveries, the worker        *)
(* processes that run DetectionAdapter.run_batch, and the transaction of   *)
(* correlate_detection.                                                    *)
(*                                                                         *)
(* A worker fetches several messages and handles them one after the other; *)
(* meanwhile the server may give the same message to another worker,       *)
(* because ack_wait runs for all of them from the fetch on.  The           *)
(* transaction is split between its reads and its writes, where the two    *)
(* unique indexes decide.                                                  *)
(***************************************************************************)
EXTENDS Naturals, FiniteSets

CONSTANTS
    Messages,     \* messages of the stream, numbers in stream order
    Detections,   \* event ids; two messages may carry the same one
    Keys,         \* correlation keys
    Malformed,    \* event ids whose payload the handler cannot read
    Workers,      \* adapter processes
    BatchSize,    \* batch_size of run_batch
    max_deliver,  \* MAX_DELIVER_ATTEMPTS
    MaxFaults     \* bound: crashes, database failures, failed publishes

ASSUME IntakeAssumption ==
    /\ Messages \subseteq Nat /\ IsFiniteSet(Messages)
    /\ Malformed \subseteq Detections
    /\ BatchSize \in Nat \ {0} /\ max_deliver \in Nat \ {0}
    /\ MaxFaults \in Nat

VARIABLES
    event, correlation_key,  \* what the messages carry, fixed from the start
    delivered,      \* JetStream: how often each message was handed out
    outstanding,    \* JetStream: handed out and awaiting an acknowledgement
    acked,          \* JetStream: acknowledged
    held,           \* held[w][m]: num_delivered of w's copy of m, 0 if none
    phase,          \* where a worker is in process
    decision,       \* what correlate_detection read
    connected,      \* workers whose database connection works
    cases,          \* correlation keys with a case
    created,        \* outbox_events: case.created rows per key
    audited,        \* audit_events rows per detection
    processed,      \* processed_events
    failed_stream,  \* messages published to the *.failed subject
    faults

streamVars == <<delivered, outstanding, acked>>
workerVars == <<held, phase, decision, connected>>
tableVars == <<cases, created, audited, processed>>
vars == <<event, correlation_key, streamVars, workerVars, tableVars, failed_stream, faults>>

fixed == UNCHANGED <<event, correlation_key>>

----------------------------------------------------------------------------
(* JetStream *)

\* What the server hands out; max_deliver is part of the consumer's configuration.
available == {m \in Messages \ (acked \cup outstanding) : delivered[m] < max_deliver}

batch(w) == {m \in Messages : held[w][m] # 0}

\* The message process works on.
current(w, m) == m \in batch(w) /\ \A n \in batch(w) : m <= n

\* DeadLetterAwareConsumer.fetch
fetch(w) ==
    /\ phase[w] = "IDLE" /\ batch(w) = {}
    /\ \E b \in SUBSET available :
          /\ b # {} /\ Cardinality(b) <= BatchSize
          /\ delivered' = [m \in Messages |-> delivered[m] + IF m \in b THEN 1 ELSE 0]
          /\ outstanding' = outstanding \cup b
          /\ held' = [held EXCEPT ![w] = [m \in Messages |-> IF m \in b THEN delivered'[m] ELSE 0]]
    /\ UNCHANGED <<acked, phase, decision, connected, tableVars, failed_stream, faults>> /\ fixed

\* No answer within ack_wait: the message may be handed out again.
ack_wait(m) ==
    /\ m \in outstanding
    /\ outstanding' = outstanding \ {m}
    /\ UNCHANGED <<delivered, acked, workerVars, tableVars, failed_stream, faults>> /\ fixed

----------------------------------------------------------------------------
(* DetectionAdapter.handle_message *)

key(m) == correlation_key[event[m]]

\* The two SELECTs, or the first exception: payload, dead connection.
correlate_read(w, m) ==
    /\ phase[w] = "IDLE" /\ current(w, m)
    /\ IF event[m] \in Malformed \/ w \notin connected
       THEN phase' = [phase EXCEPT ![w] = "FAILED"] /\ UNCHANGED decision
       ELSE /\ phase' = [phase EXCEPT ![w] = "READ"]
            /\ decision' = [decision EXCEPT ![w] =
                  IF event[m] \in processed THEN "ALREADY"
                  ELSE IF key(m) \in cases THEN "EXISTING" ELSE "CREATE"]
    /\ UNCHANGED <<streamVars, held, connected, tableVars, failed_stream, faults>> /\ fixed

\* Mutant: no unique index on cases.correlation_key.
unique_violation_no_index(w, m) ==
    decision[w] # "ALREADY" /\ event[m] \in processed

\* Mutant: no primary key on processed_events.
unique_violation_no_pk(w, m) ==
    decision[w] = "CREATE" /\ key(m) \in cases

\* An index refuses an INSERT: another worker committed since the reads.
unique_violation(w, m) ==
    /\ decision[w] # "ALREADY"
    /\ \/ event[m] \in processed
       \/ decision[w] = "CREATE" /\ key(m) \in cases

\* The INSERTs and the commit.
correlate_commit(w, m) ==
    /\ phase[w] = "READ" /\ current(w, m)
    /\ ~unique_violation(w, m)
    /\ phase' = [phase EXCEPT ![w] = "DONE"]
    /\ \/ /\ decision[w] = "ALREADY"
          /\ UNCHANGED tableVars
       \/ /\ decision[w] # "ALREADY"
          /\ processed' = processed \cup {event[m]}
          /\ audited' = [audited EXCEPT ![event[m]] = @ + 1]
          /\ cases' = cases \cup {key(m)}
          /\ created' = IF decision[w] = "CREATE"
                        THEN [created EXCEPT ![key(m)] = @ + 1] ELSE created
    /\ UNCHANGED <<streamVars, held, decision, connected, failed_stream, faults>> /\ fixed

\* The handler raises and the transaction is rolled back.
correlate_raises(w, m) ==
    /\ phase[w] = "READ" /\ current(w, m)
    /\ unique_violation(w, m)
    /\ phase' = [phase EXCEPT ![w] = "FAILED"]
    /\ UNCHANGED <<streamVars, held, decision, connected, tableVars, failed_stream, faults>>
    /\ fixed

----------------------------------------------------------------------------
(* DeadLetterAwareConsumer.process *)

\* The worker goes on with the rest of its batch.
drop(w, m) ==
    /\ held' = [held EXCEPT ![w] = [@ EXCEPT ![m] = 0]]
    /\ phase' = [phase EXCEPT ![w] = "IDLE"]

ack(w, m) ==
    /\ phase[w] \in {"DONE", "DEAD"} /\ current(w, m)
    /\ acked' = acked \cup {m}
    /\ outstanding' = outstanding \ {m}
    /\ drop(w, m)
    /\ UNCHANGED <<delivered, decision, connected, tableVars, failed_stream, faults>> /\ fixed

\* Asks for a later delivery, also when the limit is already reached by another
\* worker's copy.
nak(w, m) ==
    /\ phase[w] = "FAILED" /\ current(w, m)
    /\ held[w][m] < max_deliver
    /\ outstanding' = outstanding \ {m}
    /\ drop(w, m)
    /\ UNCHANGED <<delivered, acked, decision, connected, tableVars, failed_stream, faults>>
    /\ fixed

\* Mutant: the limit is taken for one more than the server allows.
dead_letter_late(w, m) ==
    /\ phase[w] = "FAILED" /\ current(w, m)
    /\ held[w][m] > max_deliver
    /\ failed_stream' = failed_stream \cup {m}
    /\ phase' = [phase EXCEPT ![w] = "DEAD"]
    /\ UNCHANGED <<streamVars, held, decision, connected, tableVars, faults>> /\ fixed

_dead_letter(w, m) ==
    /\ phase[w] = "FAILED" /\ current(w, m)
    /\ held[w][m] >= max_deliver
    /\ failed_stream' = failed_stream \cup {m}
    /\ phase' = [phase EXCEPT ![w] = "DEAD"]
    /\ UNCHANGED <<streamVars, held, decision, connected, tableVars, faults>> /\ fixed

----------------------------------------------------------------------------
(* Failures *)

fault == faults < MaxFaults /\ faults' = faults + 1

\* The process ends: a crash, or a publish to the *.failed subject, an ack or
\* a nak that raises out of run_batch.  It is restarted with a new connection.
crash(w) ==
    /\ fault
    /\ held' = [held EXCEPT ![w] = [m \in Messages |-> 0]]
    /\ phase' = [phase EXCEPT ![w] = "IDLE"]
    /\ connected' = connected \cup {w}
    /\ UNCHANGED <<streamVars, decision, tableVars, failed_stream>> /\ fixed

\* A statement fails; the transaction is rolled back.
db_error(w) ==
    /\ fault
    /\ phase[w] = "READ"
    /\ phase' = [phase EXCEPT ![w] = "FAILED"]
    /\ UNCHANGED <<streamVars, held, decision, connected, tableVars, failed_stream>> /\ fixed

\* The connection is lost.  The adapter never opens another one: the handler
\* raises from now on, and the process goes on fetching.
db_drop(w) ==
    /\ fault
    /\ w \in connected
    /\ connected' = connected \ {w}
    /\ phase' = [phase EXCEPT ![w] = IF @ = "READ" THEN "FAILED" ELSE @]
    /\ UNCHANGED <<streamVars, held, decision, tableVars, failed_stream>> /\ fixed

----------------------------------------------------------------------------
Init ==
    /\ event \in [Messages -> Detections]
    /\ correlation_key \in [Detections -> Keys]
    /\ delivered = [m \in Messages |-> 0]
    /\ outstanding = {} /\ acked = {}
    /\ held = [w \in Workers |-> [m \in Messages |-> 0]]
    /\ phase = [w \in Workers |-> "IDLE"]
    /\ decision = [w \in Workers |-> "ALREADY"]
    /\ connected = Workers
    /\ cases = {} /\ processed = {}
    /\ created = [k \in Keys |-> 0]
    /\ audited = [d \in Detections |-> 0]
    /\ failed_stream = {}
    /\ faults = 0

process(w, m) ==
    \/ correlate_read(w, m) \/ correlate_commit(w, m) \/ correlate_raises(w, m)
    \/ ack(w, m) \/ nak(w, m) \/ _dead_letter(w, m)

Next ==
    \/ \E w \in Workers :
          \/ fetch(w)
          \/ \E m \in Messages : process(w, m)
          \/ crash(w) \/ db_error(w) \/ db_drop(w)
    \/ \E m \in Messages : ack_wait(m)

Spec == Init /\ [][Next]_vars

\* Workers go on as long as they can, and ack_wait elapses.
Fairness ==
    /\ \A w \in Workers : WF_vars(fetch(w)) /\ WF_vars(\E m \in Messages : process(w, m))
    /\ \A m \in Messages : WF_vars(ack_wait(m))

FairSpec == Spec /\ Fairness

----------------------------------------------------------------------------
(* Properties *)

\* Type invariant.
TypeOK ==
    /\ event \in [Messages -> Detections] /\ correlation_key \in [Detections -> Keys]
    /\ delivered \in [Messages -> 0..max_deliver]
    /\ outstanding \subseteq Messages /\ acked \subseteq Messages
    /\ held \in [Workers -> [Messages -> 0..max_deliver]]
    /\ phase \in [Workers -> {"IDLE", "READ", "DONE", "FAILED", "DEAD"}]
    /\ decision \in [Workers -> {"ALREADY", "EXISTING", "CREATE"}]
    /\ connected \subseteq Workers
    /\ cases \subseteq Keys /\ processed \subseteq Detections
    /\ created \in [Keys -> Nat] /\ audited \in [Detections -> Nat]
    /\ failed_stream \subseteq Messages
    /\ faults \in Nat

\* Delivery is at least once, the business effect is once: redelivered and
\* duplicated detections, handled by workers at the same time, leave one audit
\* row each, exactly when processed_events has them.
EffectOnce ==
    \A d \in Detections : audited[d] = IF d \in processed THEN 1 ELSE 0

\* Detections with one correlation key make one case, announced by one
\* case.created event, however many workers race to create it.
OneCasePerKey ==
    /\ \A k \in Keys : created[k] = IF k \in cases THEN 1 ELSE 0
    /\ \A d \in processed : correlation_key[d] \in cases

\* A message leaves the stream only when its detection is in a case or the
\* message is on the *.failed subject.
AckedIsHandled ==
    \A m \in acked : event[m] \in processed \/ m \in failed_stream

\* Every message is settled: handled, or dead-lettered after max_deliver
\* failed deliveries.
Settled == \A m \in Messages : <>(m \in acked)

\* A failure costs at most the delivery it hits: every message is settled,
\* unless something failed and the server had used up all its deliveries.
SettledOrUsedUp ==
    \A m \in Messages : <>(m \in acked \/ (faults > 0 /\ delivered[m] = max_deliver))

Correlation == INSTANCE CorrelationLog WITH failed <- failed_stream, settled <- acked

\* Redelivered copies, reads that are stale at the commit, crashes and lost
\* connections together implement the correlation log: the rows of a detection
\* appear in one step, once, and a message is acknowledged only afterwards or
\* when it is on the *.failed subject.
ImplementsCorrelation == Correlation!Spec

============================================================================
