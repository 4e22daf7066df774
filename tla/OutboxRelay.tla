---------------------------- MODULE OutboxRelay ----------------------------
(***************************************************************************)
(* The transactional outbox: rows that committed state changes leave in    *)
(* outbox_events, and any number of mirage-outbox-relay processes that     *)
(* publish them to JetStream and mark them.                                *)
(*                                                                         *)
(* A relay works on one batch in one transaction: it locks the rows,       *)
(* publishes them one by one and commits all marks together, so a crash    *)
(* after a publish leaves the message on the stream and the row unmarked.  *)
(* Events are numbered by created_at; they become visible when their own   *)
(* transactions commit, in any order.                                      *)
(***************************************************************************)
EXTENDS Naturals, FiniteSets

CONSTANTS
    Events,       \* event ids, numbers in the order of created_at
    Poison,       \* events the stream refuses, for instance for their size
    Relays,       \* relay processes
    BatchSize,    \* batch_size
    ALERT_AFTER_ATTEMPTS,
    MaxFaults,    \* bound: failed publishes, failed batches, crashes
    MaxExpiries   \* bound: ids that JetStream forgets

ASSUME RelayAssumption ==
    /\ Events \subseteq Nat /\ IsFiniteSet(Events)
    /\ Poison \subseteq Events
    /\ IsFiniteSet(Relays)
    /\ BatchSize \in Nat \ {0} /\ ALERT_AFTER_ATTEMPTS \in Nat \ {0}
    /\ MaxFaults \in Nat /\ MaxExpiries \in Nat

VARIABLES
    rows,       \* committed rows of outbox_events
    published,  \* rows with published_at set
    due,        \* rows whose next_attempt_at has passed
    attempts,   \* outbox_events.attempts, up to ALERT_AFTER_ATTEMPTS
    up,         \* relays whose process runs
    todo,       \* rows of a relay's batch it has not come to yet
    done,       \* rows it marked in its open transaction
    failed,     \* rows it put off in its open transaction
    copies,     \* how often the stream stores each event
    window,     \* message ids JetStream remembers (duplicate_window)
    faults, expiries

batchVars == <<todo, done, failed>>
tableVars == <<rows, published, due, attempts>>
vars == <<tableVars, up, batchVars, copies, window, faults, expiries>>

----------------------------------------------------------------------------
held(r) == todo[r] \cup done[r] \cup failed[r]
locked == UNION {held(r) : r \in Relays}

\* The transaction of a state change commits with its outbox row.
write_outbox(e) ==
    /\ e \notin rows
    /\ rows' = rows \cup {e}
    /\ due' = due \cup {e}
    /\ UNCHANGED <<published, attempts, up, batchVars, copies, window, faults, expiries>>

\* WHERE published_at IS NULL AND next_attempt_at <= now() ... SKIP LOCKED
due_rows == ((rows \cap due) \ published) \ locked

\* ORDER BY created_at ... LIMIT batch_size
batches(c) ==
    {b \in SUBSET c : /\ Cardinality(b) <= BatchSize
                      /\ b = c \/ Cardinality(b) = BatchSize
                      /\ \A e \in b, f \in c \ b : e < f}

select_batch(r) ==
    /\ r \in up
    /\ held(r) = {}
    /\ \E b \in batches(due_rows) :
          /\ b # {}
          /\ todo' = [todo EXCEPT ![r] = b]
    /\ UNCHANGED <<tableVars, up, done, failed, copies, window, faults, expiries>>

first(r, e) == e \in todo[r] /\ \A f \in todo[r] : e <= f

\* Mutant: no Nats-Msg-Id header, the stream cannot tell a resend.
publish_event_no_id(e) ==
    /\ copies' = [copies EXCEPT ![e] = @ + 1]
    /\ UNCHANGED window

\* publish_event sends the event id as Nats-Msg-Id.
publish_event(e) ==
    /\ copies' = IF e \in window THEN copies ELSE [copies EXCEPT ![e] = @ + 1]
    /\ window' = window \cup {e}

publish(r) ==
    \E e \in Events \ Poison :
        /\ first(r, e)
        /\ publish_event(e)
        /\ todo' = [todo EXCEPT ![r] = @ \ {e}]
        /\ done' = [done EXCEPT ![r] = @ \cup {e}]
        /\ UNCHANGED <<tableVars, up, failed, faults, expiries>>

\* Mutant: the row is marked although the publish raised.
put_off_marked(r, e) ==
    /\ todo' = [todo EXCEPT ![r] = @ \ {e}]
    /\ done' = [done EXCEPT ![r] = @ \cup {e}]
    /\ UNCHANGED failed

\* Mutant: a failure ends the batch.
put_off_break(r, e) ==
    /\ todo' = [todo EXCEPT ![r] = {}]
    /\ failed' = [failed EXCEPT ![r] = @ \cup {e}]
    /\ UNCHANGED done

\* The except branch: attempts + 1, next_attempt_at in the future, continue.
put_off(r, e) ==
    /\ todo' = [todo EXCEPT ![r] = @ \ {e}]
    /\ failed' = [failed EXCEPT ![r] = @ \cup {e}]
    /\ UNCHANGED done

publish_refused(r) ==
    \E e \in Poison :
        /\ first(r, e)
        /\ put_off(r, e)
        /\ UNCHANGED <<tableVars, up, copies, window, faults, expiries>>

\* The broker fails, or stores the message and its acknowledgement is lost.
publish_fails(r) ==
    \E e \in Events \ Poison :
        /\ faults < MaxFaults
        /\ faults' = faults + 1
        /\ first(r, e)
        /\ put_off(r, e)
        /\ publish_event(e) \/ UNCHANGED <<copies, window>>
        /\ UNCHANGED <<tableVars, up, expiries>>

empty_batch(r) ==
    /\ todo' = [todo EXCEPT ![r] = {}]
    /\ done' = [done EXCEPT ![r] = {}]
    /\ failed' = [failed EXCEPT ![r] = {}]

\* From ALERT_AFTER_ATTEMPTS on the delay is constant and every failure raises
\* the alert, so higher counts need not be told apart.
failed_again(n) == IF n < ALERT_AFTER_ATTEMPTS THEN n + 1 ELSE n

commit(r) ==
    /\ held(r) # {} /\ todo[r] = {}
    /\ published' = published \cup done[r]
    /\ due' = due \ failed[r]
    /\ attempts' = [e \in Events |-> IF e \in failed[r]
                                 THEN failed_again(attempts[e]) ELSE attempts[e]]
    /\ empty_batch(r)
    /\ UNCHANGED <<rows, up, copies, window, faults, expiries>>

\* The backoff of a row elapses.
elapse(e) ==
    /\ e \in rows \ due
    /\ due' = due \cup {e}
    /\ UNCHANGED <<rows, published, attempts, up, batchVars, copies, window, faults, expiries>>

----------------------------------------------------------------------------
(* Failures *)

\* A statement fails and run_forever rolls the batch back.
batch_failed(r) ==
    /\ faults < MaxFaults
    /\ faults' = faults + 1
    /\ held(r) # {}
    /\ empty_batch(r)
    /\ UNCHANGED <<tableVars, up, copies, window, expiries>>

\* A crash, or a lost database connection: rollback raises out of run_forever.
crash(r) ==
    /\ faults < MaxFaults
    /\ faults' = faults + 1
    /\ r \in up
    /\ up' = up \ {r}
    /\ empty_batch(r)
    /\ UNCHANGED <<tableVars, copies, window, expiries>>

\* restart: unless-stopped
restart(r) ==
    /\ r \in Relays \ up
    /\ up' = up \cup {r}
    /\ UNCHANGED <<tableVars, batchVars, copies, window, faults, expiries>>

\* An outage that outlasts the duplicate window.
window_expires(e) ==
    /\ expiries < MaxExpiries
    /\ expiries' = expiries + 1
    /\ e \in window
    /\ window' = window \ {e}
    /\ UNCHANGED <<tableVars, up, batchVars, copies, faults>>

----------------------------------------------------------------------------
Init ==
    /\ rows = {} /\ published = {} /\ due = {}
    /\ attempts = [e \in Events |-> 0]
    /\ up = Relays
    /\ todo = [r \in Relays |-> {}]
    /\ done = [r \in Relays |-> {}]
    /\ failed = [r \in Relays |-> {}]
    /\ copies = [e \in Events |-> 0]
    /\ window = {}
    /\ faults = 0 /\ expiries = 0

relay_once(r) ==
    select_batch(r) \/ publish(r) \/ publish_refused(r) \/ publish_fails(r) \/ commit(r)

Next ==
    \/ \E e \in Events : write_outbox(e) \/ elapse(e) \/ window_expires(e)
    \/ \E r \in Relays : relay_once(r) \/ batch_failed(r) \/ crash(r) \/ restart(r)

Spec == Init /\ [][Next]_vars

\* The loop polls for ever, time passes, and the supervisor restarts a process.
Fairness ==
    /\ \A r \in Relays :
          /\ WF_vars(select_batch(r)) /\ WF_vars(publish(r))
          /\ WF_vars(publish_refused(r)) /\ WF_vars(commit(r)) /\ WF_vars(restart(r))
    /\ \A e \in Events : WF_vars(elapse(e))

FairSpec == Spec /\ Fairness

----------------------------------------------------------------------------
(* Properties *)

\* Type invariant.
TypeOK ==
    /\ published \subseteq rows /\ due \subseteq rows /\ rows \subseteq Events
    /\ attempts \in [Events -> Nat]
    /\ up \subseteq Relays
    /\ todo \in [Relays -> SUBSET Events]
    /\ done \in [Relays -> SUBSET Events]
    /\ failed \in [Relays -> SUBSET Events]
    /\ copies \in [Events -> Nat]
    /\ window \subseteq Events
    /\ faults \in Nat /\ expiries \in Nat

\* A row is marked only after the stream stored its event: a failed or
\* interrupted publish is retried, never taken for done.
MarkedIsStored == \A e \in published : copies[e] > 0

\* Relays that race partition the rows: no relay works on a row another one
\* holds or has marked, so a marked row is never put off again.
MarkedIsSettled ==
    /\ \A e \in published : e \in due /\ e \notin locked
    /\ \A r, s \in Relays : r # s => held(r) \cap held(s) = {}

\* Resends after lost acknowledgements, rollbacks and crashes are not stored
\* twice: an event has more than one copy only if the stream forgot its id, and
\* each id it forgets costs at most one copy.
DuplicatesNeedExpiry == \A e \in Events : copies[e] <= 1 + expiries

\* Every committed row is published, behind a row that never can be.
Delivered == \A e \in Events \ Poison : e \in rows ~> e \in published

Outbox == INSTANCE OutboxLog WITH forgotten <- expiries

\* Relays that race for rows, batches that are rolled back, resends and lost
\* acknowledgements together implement the outbox log: a row is stored before
\* it is marked, never after, and again only if the stream forgot an id.
ImplementsOutbox == Outbox!Spec

============================================================================
