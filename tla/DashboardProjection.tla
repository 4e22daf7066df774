------------------------ MODULE DashboardProjection ------------------------
(***************************************************************************)
(* The dashboard's read model of one case: events projected one at a time, *)
(* the rebuild from the outbox, and the stream of updates a browser        *)
(* resumes from the last number it has seen.                               *)
(*                                                                         *)
(* A projection is a transaction of its caller and holds the offset row of *)
(* the case from its FOR UPDATE to its end.  Numbers of updates come from  *)
(* a sequence: they are drawn inside the transaction and become visible    *)
(* when it commits.                                                        *)
(***************************************************************************)
EXTENDS Naturals, FiniteSets

CONSTANTS
    CaseEvents,       \* [event_id, sequence] of the case's domain events
    Transactions,     \* callers of project_event and rebuild_case
    MaxTransactions,  \* bound: transactions started
    MaxStreamBatch    \* MAX_STREAM_BATCH

ASSUME ProjectionAssumption ==
    /\ IsFiniteSet(CaseEvents) /\ \A e \in CaseEvents : e.sequence \in Nat
    /\ MaxTransactions \in Nat /\ MaxStreamBatch \in Nat

VARIABLES
    outbox,    \* events in outbox_events
    projected, \* dashboard_projected_events and the timeline: [event, version]
    offset,    \* [version, last, gap] of dashboard_projection_offsets
    summary,   \* freshness_status of dashboard_case_summary, "NONE" without a row
    base,      \* history: from which number on holes count
    txn,       \* open transactions
    drawn,     \* last number drawn from the sequence
    updates,   \* committed dashboard_realtime_updates
    cursor, told, \* the browser's Last-Event-ID, and the updates it was told of
    started

projectionVars == <<outbox, projected, offset, summary, base, txn, drawn, updates, cursor, told,
                    started>>

tables == <<projected, offset, summary, base, updates>>

NoTxn == [kind |-> "NONE", offset |-> FALSE, summary |-> FALSE]

largest(S) == CHOOSE n \in S : \A m \in S : m <= n

gap(o, n) == o.last > 0 /\ n > o.last + 1

\* The offset row after an event.
advanced(o, n) ==
    [version |-> o.version + 1, last |-> IF n > o.last THEN n ELSE o.last,
     gap |-> o.gap \/ gap(o, n)]

\* The timeline item, node and edge of an event.
event_to_records(e, version) == [event |-> e, version |-> version]

\* The case's own rows are projected under one new version.
project_authoritative_snapshot(o) == [o EXCEPT !.version = @ + 1]

\* Mutant: the offset row is read without FOR UPDATE.
offset_free_always(t) == TRUE

offset_free(t) == \A o \in Transactions \ {t} : ~txn[o].offset
summary_free(t) == \A o \in Transactions \ {t} : ~txn[o].summary

starts == started < MaxTransactions /\ started' = started + 1

\* The duplicate test, before any lock: an event already projected ends here.
project_looks(t, e) ==
    /\ txn[t] = NoTxn /\ e \in outbox /\ starts
    /\ \A r \in projected : r.event # e
    /\ txn' = [txn EXCEPT ![t] = [kind |-> "PROJECT", phase |-> "LOOKED", event |-> e,
                                  offset |-> FALSE, summary |-> FALSE]]
    /\ UNCHANGED <<outbox, tables, drawn, cursor, told>>

\* The offset row is inserted or found, locked and read.
project_locks(t) ==
    /\ txn[t].kind = "PROJECT" /\ txn[t].phase = "LOOKED" /\ offset_free(t)
    /\ txn' = [txn EXCEPT ![t] = [kind |-> "PROJECT", phase |-> "LOCKED", event |-> @.event,
                                  offset |-> TRUE, summary |-> FALSE, prior |-> offset]]
    /\ UNCHANGED <<outbox, tables, drawn, cursor, told, started>>

\* The transaction holds both rows and has numbered k updates.
draw(t, k, event, prior) ==
    /\ drawn' = drawn + k
    /\ txn' = [txn EXCEPT ![t] = [kind |-> @.kind, phase |-> "WRITTEN", event |-> event,
                                  offset |-> TRUE, summary |-> TRUE, prior |-> prior,
                                  ids |-> (drawn + 1)..(drawn + k)]]

\* Summary, nodes, edge and timeline are written, and the updates numbered:
\* a notification for a gap, then the timeline's.
project_writes(t) ==
    /\ txn[t].kind = "PROJECT" /\ txn[t].phase = "LOCKED" /\ summary_free(t)
    /\ draw(t, IF gap(txn[t].prior, txn[t].event.sequence) THEN 2 ELSE 1,
            txn[t].event, txn[t].prior)
    /\ UNCHANGED <<outbox, tables, cursor, told, started>>

\* The primary key of dashboard_projected_events refuses an event that was
\* projected since the duplicate test.
project_commits(t) ==
    /\ txn[t].kind = "PROJECT" /\ txn[t].phase = "WRITTEN"
    /\ \A r \in projected : r.event # txn[t].event
    /\ LET n == txn[t].event.sequence
           o == txn[t].prior
       IN  /\ projected' = projected \cup {event_to_records(txn[t].event, o.version + 1)}
           /\ offset' = [version |-> o.version + 1, last |-> advanced(offset, n).last,
                         gap |-> offset.gap \/ gap(o, n)]
           /\ summary' = IF gap(o, n) THEN "GAP_DETECTED"
                         ELSE IF summary = "NONE" THEN "CURRENT" ELSE summary
           /\ base' = IF base = 0 THEN n ELSE base
    /\ updates' = updates \cup txn[t].ids
    /\ txn' = [txn EXCEPT ![t] = NoTxn]
    /\ UNCHANGED <<outbox, drawn, cursor, told, started>>

\* A missing offset row is inserted, which locks it; then REBUILDING is
\* written, so an existing summary is locked before the offset.
rebuild_marks(t) ==
    /\ txn[t] = NoTxn /\ summary_free(t) /\ starts
    /\ offset.version = 0 => offset_free(t)
    /\ txn' = [txn EXCEPT ![t] = [kind |-> "REBUILD", phase |-> "MARKED",
                                  offset |-> offset.version = 0,
                                  summary |-> summary # "NONE"]]
    /\ UNCHANGED <<outbox, tables, drawn, cursor, told>>

orders(S) == {f \in [1..Cardinality(S) -> S] : \A e \in S : \E i \in DOMAIN f : f[i] = e}

\* The offset row after the first i events of a replay.
replay(o, f) ==
    LET after[i \in 0..Cardinality(DOMAIN f)] ==
            IF i = 0 THEN [version |-> o.version, last |-> 0, gap |-> FALSE]
                     ELSE advanced(after[i - 1], f[i].sequence)
    IN  after

\* The old rows are deleted, the offset is reset and the outbox is replayed
\* in the order it was written; CASE_UPDATED comes after the updates of the
\* events.
rebuild_replays(t) ==
    /\ txn[t].kind = "REBUILD" /\ txn[t].phase = "MARKED"
    /\ offset_free(t) /\ summary_free(t)
    /\ \E f \in orders(outbox) :
         LET n == Cardinality(outbox)
             o == replay(offset, f)
             gaps == {i \in 1..n : gap(o[i - 1], f[i].sequence)}
         IN  draw(t, n + Cardinality(gaps) + 1, f,
                  IF n = 0 THEN project_authoritative_snapshot(o[0]) ELSE o[n])
    /\ UNCHANGED <<outbox, tables, cursor, told, started>>

\* The gap is cleared whatever the replay found.
rebuild_commits(t) ==
    /\ txn[t].kind = "REBUILD" /\ txn[t].phase = "WRITTEN"
    /\ LET f == txn[t].event
       IN  projected' = {event_to_records(f[i], offset.version + i) : i \in DOMAIN f}
    /\ offset' = [txn[t].prior EXCEPT !.gap = FALSE]
    /\ summary' = "CURRENT"
    /\ base' = txn[t].prior.last
    /\ updates' = updates \cup txn[t].ids
    /\ txn' = [txn EXCEPT ![t] = NoTxn]
    /\ UNCHANGED <<outbox, drawn, cursor, told, started>>

\* A second insert of the same event, a lost connection, or the victim of the
\* deadlock between a projection and a rebuild: the numbers drawn are lost.
txn_aborts(t) ==
    /\ txn[t] # NoTxn
    /\ txn' = [txn EXCEPT ![t] = NoTxn]
    /\ UNCHANGED <<outbox, tables, drawn, cursor, told, started>>

event_written(e) ==
    /\ e \notin outbox
    /\ outbox' = outbox \cup {e}
    /\ UNCHANGED <<tables, txn, drawn, cursor, told, started>>

\* Mutant: the updates are read newest first.
batch_newest(S, n) == {u \in S : Cardinality({v \in S : v >= u}) <= n}

\* ORDER BY sequence_id LIMIT n
batch(S, n) == {u \in S : Cardinality({v \in S : v <= u}) <= n}

\* One round of the stream: the first rows above the cursor, or a request to
\* reload in place of more than a batch of them.  A connection that breaks
\* after some of them is resumed at the last one received.
dashboard_stream ==
    LET above == {u \in updates : u > cursor}
        received == IF Cardinality(above) > MaxStreamBatch
                    THEN {MaxStreamBatch + 1} ELSE 1..Cardinality(above)
    IN  /\ above # {}
        /\ \E n \in received :
             told' = told \cup batch(above, n) /\ cursor' = largest(batch(above, n))
        /\ UNCHANGED <<outbox, tables, txn, drawn, started>>

ProjectionInit ==
    /\ outbox = {} /\ projected = {}
    /\ offset = [version |-> 0, last |-> 0, gap |-> FALSE]
    /\ summary = "NONE" /\ base = 0
    /\ txn = [t \in Transactions |-> NoTxn]
    /\ drawn = 0 /\ updates = {} /\ cursor = 0 /\ told = {} /\ started = 0

ProjectionNext ==
    \/ dashboard_stream
    \/ \E e \in CaseEvents : event_written(e) \/ \E t \in Transactions : project_looks(t, e)
    \/ \E t \in Transactions :
         \/ project_locks(t) \/ project_writes(t) \/ project_commits(t)
         \/ rebuild_marks(t) \/ rebuild_replays(t) \/ rebuild_commits(t)
         \/ txn_aborts(t)

ProjectionSpec == ProjectionInit /\ [][ProjectionNext]_projectionVars

----------------------------------------------------------------------------

\* The tables of the read model and the browser's position.
ProjectionTypeOK ==
    /\ outbox \subseteq CaseEvents
    /\ offset \in [version : Nat, last : Nat, gap : BOOLEAN]
    /\ summary \in {"NONE", "CURRENT", "GAP_DETECTED"}
    /\ updates \subseteq 1..drawn /\ told \subseteq updates /\ cursor \in 0..drawn

\* A browser that resumes from the last number it received has been told of
\* every update up to that number: no update becomes visible below it later
\* (_publish_update inside the lock of the offset row, dashboard_stream).
StreamMissesNothing == \A u \in updates : u <= cursor => u \in told

\* Every number from the first projected one, or from the end of the last
\* rebuild, up to the highest projected one is the number of a projected event
\* or flagged as a gap, and no two events share a version, whatever the order
\* in which they arrive (project_event's gap test under the offset's lock).
HolesAreFlagged ==
    /\ base > 0 => \A n \in base..offset.last :
                       (\E r \in projected : r.event.sequence = n) \/ offset.gap
    /\ \A r, s \in projected : r.version = s.version => r = s

=============================================================================
