------------------------- MODULE OutboxRelayProofs -------------------------
(***************************************************************************)
(* Proofs about OutboxRelay for any number of events, relays and failures. *)
(*                                                                         *)
(* The marks of a relay become visible only when its batch commits, so the *)
(* invariant speaks about open batches too: what a relay holds is          *)
(* unmarked and due, no two relays hold the same row, and what it marked   *)
(* in its transaction is on the stream already.  The relays together       *)
(* implement OutboxLog.                                                    *)
(*                                                                         *)
(* Then about AnalystMessages, whose workers also act on the world outside *)
(* before they commit, for any number of messages, workers and faults, and *)
(* about AiOrchestrator, whose calls act on limits read before a wait.     *)
(***************************************************************************)
EXTENDS OutboxRelay, AnalystMessages, AiOrchestrator, CommonLemmas, TLAPS

\* Most steps are first-order; those with arithmetic cite SMT.
USE Zenon

\* What an open batch may hold; strengthens MarkedIsSettled.
BatchInv ==
    /\ \A r \in Relays : held(r) \subseteq due \ published
    /\ \A r, s \in Relays : r # s => held(r) \cap held(s) = {}
    /\ published \subseteq due
    /\ \A r \in Relays : /\ todo[r] \cap (done[r] \cup failed[r]) = {}
                         /\ done[r] \cap failed[r] = {}

\* What an open batch marked is stored, and so is what the stream recognises as
\* a duplicate; strengthens MarkedIsStored.
StoreInv ==
    /\ \A e \in published : copies[e] > 0
    /\ \A r \in Relays : \A e \in done[r] : copies[e] > 0
    /\ \A e \in window : copies[e] > 0

\* A stored event is remembered unless its id expired; strengthens
\* DuplicatesNeedExpiry.
OnceInv ==
    \A e \in Events : /\ copies[e] <= 1 + expiries
                      /\ e \notin window => copies[e] <= expiries

----------------------------------------------------------------------------
\* The tables, the batches and the stream start well typed.
LEMMA TypeInit == Init => TypeOK
BY SMT DEF Init, TypeOK

\* Every step keeps the types.
LEMMA TypeStep == TypeOK /\ BatchInv /\ [Next]_vars => TypeOK'
<1> SUFFICES ASSUME TypeOK, BatchInv, [Next]_vars PROVE TypeOK'
  OBVIOUS
<1> USE RelayAssumption DEF TypeOK
<1>1. ASSUME NEW e \in Events, write_outbox(e) PROVE TypeOK'
  BY <1>1 DEF write_outbox, batchVars
<1>2. ASSUME NEW e \in Events, elapse(e) PROVE TypeOK'
  BY <1>2 DEF elapse, batchVars
<1>3. ASSUME NEW e \in Events, window_expires(e) PROVE TypeOK'
  BY <1>3, SMT DEF window_expires, batchVars, tableVars
<1>4. ASSUME NEW r \in Relays, select_batch(r) PROVE TypeOK'
  BY <1>4, SMT DEF select_batch, batches, due_rows, tableVars
<1>5. ASSUME NEW r \in Relays, publish(r) PROVE TypeOK'
  BY <1>5, SMT DEF publish, publish_event, tableVars
<1>6. ASSUME NEW r \in Relays, publish_refused(r) PROVE TypeOK'
  BY <1>6, SMT DEF publish_refused, put_off, tableVars
<1>7. ASSUME NEW r \in Relays, publish_fails(r) PROVE TypeOK'
  <2>1. PICK e \in Events : put_off(r, e) /\ (publish_event(e) \/ UNCHANGED <<copies, window>>)
    BY <1>7 DEF publish_fails
  <2>2. copies' \in [Events -> Nat] /\ window' \subseteq Events
    <3>1. CASE publish_event(e)
      BY <3>1, SMT DEF publish_event
    <3>2. CASE UNCHANGED <<copies, window>>
      BY <3>2
    <3> QED
      BY <2>1, <3>1, <3>2
  <2>3. /\ todo' \in [Relays -> SUBSET Events]
        /\ done' \in [Relays -> SUBSET Events]
        /\ failed' \in [Relays -> SUBSET Events]
    BY <2>1 DEF put_off
  <2>4. faults' = faults + 1 /\ UNCHANGED <<tableVars, up, expiries>>
    BY <1>7 DEF publish_fails
  <2> QED
    BY <2>2, <2>3, <2>4, SMT DEF tableVars
<1>8. ASSUME NEW r \in Relays, commit(r) PROVE TypeOK'
  <2>1. done[r] \subseteq rows
    BY DEF BatchInv, held
  <2>2. attempts' \in [Events -> Nat]
    BY <1>8, SMT DEF commit, failed_again
  <2>3. /\ todo' \in [Relays -> SUBSET Events]
        /\ done' \in [Relays -> SUBSET Events]
        /\ failed' \in [Relays -> SUBSET Events]
    BY <1>8 DEF commit, empty_batch
  <2>4. published' \subseteq rows' /\ due' \subseteq rows' /\ rows' \subseteq Events
    BY <1>8, <2>1 DEF commit, BatchInv
  <2> QED
    BY <1>8, <2>2, <2>3, <2>4 DEF commit
<1>9. ASSUME NEW r \in Relays, batch_failed(r) PROVE TypeOK'
  BY <1>9, SMT DEF batch_failed, empty_batch, tableVars
<1>10. ASSUME NEW r \in Relays, crash(r) PROVE TypeOK'
  BY <1>10, SMT DEF crash, empty_batch, tableVars
<1>11. ASSUME NEW r \in Relays, restart(r) PROVE TypeOK'
  BY <1>11 DEF restart, batchVars, tableVars
<1>12. CASE UNCHANGED vars
  BY <1>12 DEF vars, batchVars, tableVars
<1> QED
  BY <1>1, <1>2, <1>3, <1>4, <1>5, <1>6, <1>7, <1>8, <1>9, <1>10, <1>11, <1>12
     DEF Next, relay_once

----------------------------------------------------------------------------
\* No relay holds anything at the start.
LEMMA BatchInit == Init => BatchInv
BY DEF Init, BatchInv, held

Shrinks(r) ==
    /\ held(r)' \subseteq held(r)
    /\ todo'[r] \cap (done'[r] \cup failed'[r]) = {}
    /\ done'[r] \cap failed'[r] = {}

\* A step that only shrinks batches, and neither marks rows nor takes rows out
\* of the due ones, keeps the batch invariant.
LEMMA BatchShrinks ==
    ASSUME BatchInv,
           published' = published, due \subseteq due',
           \A r \in Relays : Shrinks(r)
    PROVE  BatchInv'
BY DEF BatchInv, Shrinks

\* SKIP LOCKED, the row locks and the single commit keep the batches apart.
LEMMA BatchStep == TypeOK /\ BatchInv /\ [Next]_vars => BatchInv'
<1> SUFFICES ASSUME TypeOK, BatchInv, [Next]_vars PROVE BatchInv'
  OBVIOUS
<1> USE DEF TypeOK
<1>1. ASSUME NEW e \in Events, write_outbox(e) PROVE BatchInv'
  <2>1. \A s \in Relays : Shrinks(s)
    BY <1>1 DEF write_outbox, batchVars, held, BatchInv, Shrinks
  <2> QED
    BY <1>1, <2>1, BatchShrinks DEF write_outbox, batchVars
<1>2. ASSUME NEW e \in Events, elapse(e) PROVE BatchInv'
  <2>1. \A s \in Relays : Shrinks(s)
    BY <1>2 DEF elapse, batchVars, held, BatchInv, Shrinks
  <2> QED
    BY <1>2, <2>1, BatchShrinks DEF elapse, batchVars
<1>3. ASSUME NEW e \in Events, window_expires(e) PROVE BatchInv'
  <2>1. \A s \in Relays : Shrinks(s)
    BY <1>3 DEF window_expires, batchVars, tableVars, held, BatchInv, Shrinks
  <2> QED
    BY <1>3, <2>1, BatchShrinks DEF window_expires, batchVars, tableVars
<1>4. ASSUME NEW r \in Relays, select_batch(r) PROVE BatchInv'
  <2>1. PICK b \in SUBSET due_rows : todo' = [todo EXCEPT ![r] = b]
    BY <1>4 DEF select_batch, batches
  <2>2. b \subseteq due \ published /\ \A s \in Relays : b \cap held(s) = {}
    BY <2>1, SMT DEF due_rows, locked
  <2>3. held(r)' = b /\ \A s \in Relays \ {r} : held(s)' = held(s)
    BY <1>4, <2>1 DEF select_batch, held
  <2> QED
    BY <1>4, <2>1, <2>2, <2>3, SMT DEF select_batch, tableVars, BatchInv, held
<1>5. ASSUME NEW r \in Relays, publish(r) PROVE BatchInv'
  <2>1. \A s \in Relays : Shrinks(s)
    BY <1>5, SMT DEF publish, first, tableVars, held, BatchInv, Shrinks
  <2> QED
    BY <1>5, <2>1, BatchShrinks DEF publish, tableVars
<1>6. ASSUME NEW r \in Relays, publish_refused(r) PROVE BatchInv'
  <2>1. \A s \in Relays : Shrinks(s)
    BY <1>6, SMT DEF publish_refused, put_off, first, tableVars, held, BatchInv, Shrinks
  <2> QED
    BY <1>6, <2>1, BatchShrinks DEF publish_refused, put_off, tableVars
<1>7. ASSUME NEW r \in Relays, publish_fails(r) PROVE BatchInv'
  <2>1. \A s \in Relays : Shrinks(s)
    BY <1>7, SMT DEF publish_fails, put_off, first, tableVars, held, BatchInv, Shrinks
  <2> QED
    BY <1>7, <2>1, BatchShrinks DEF publish_fails, put_off, tableVars
<1>8. ASSUME NEW r \in Relays, commit(r) PROVE BatchInv'
  <2>1. held(r)' = {} /\ \A s \in Relays \ {r} : held(s)' = held(s)
    BY <1>8 DEF commit, empty_batch, held
  <2>2. done[r] \subseteq held(r) /\ failed[r] \subseteq held(r) /\ done[r] \cap failed[r] = {}
    BY DEF held, BatchInv
  <2> QED
    BY <1>8, <2>1, <2>2, SMT DEF commit, empty_batch, BatchInv
<1>9. ASSUME NEW r \in Relays, batch_failed(r) PROVE BatchInv'
  <2>1. \A s \in Relays : Shrinks(s)
    BY <1>9 DEF batch_failed, empty_batch, tableVars, held, BatchInv, Shrinks
  <2> QED
    BY <1>9, <2>1, BatchShrinks DEF batch_failed, empty_batch, tableVars
<1>10. ASSUME NEW r \in Relays, crash(r) PROVE BatchInv'
  <2>1. \A s \in Relays : Shrinks(s)
    BY <1>10, SMT DEF crash, empty_batch, tableVars, held, BatchInv, Shrinks
  <2> QED
    BY <1>10, <2>1, BatchShrinks DEF crash, empty_batch, tableVars
<1>11. ASSUME NEW r \in Relays, restart(r) PROVE BatchInv'
  <2>1. \A s \in Relays : Shrinks(s)
    BY <1>11 DEF restart, batchVars, tableVars, held, BatchInv, Shrinks
  <2> QED
    BY <1>11, <2>1, BatchShrinks DEF restart, batchVars, tableVars
<1>12. CASE UNCHANGED vars
  <2>1. \A s \in Relays : Shrinks(s)
    BY <1>12 DEF vars, batchVars, tableVars, held, BatchInv, Shrinks
  <2> QED
    BY <1>12, <2>1, BatchShrinks DEF vars, batchVars, tableVars
<1> QED
  BY <1>1, <1>2, <1>3, <1>4, <1>5, <1>6, <1>7, <1>8, <1>9, <1>10, <1>11, <1>12
     DEF Next, relay_once

----------------------------------------------------------------------------
\* Publishing adds a copy and never takes one away.
LEMMA CopiesGrow ==
    ASSUME TypeOK, [Next]_vars, NEW e \in Events, copies[e] > 0
    PROVE  copies'[e] > 0
<1> USE DEF TypeOK
<1>1. ASSUME NEW f \in Events, publish_event(f) PROVE copies'[e] > 0
  BY <1>1, SMT DEF publish_event
<1>2. CASE UNCHANGED copies
  BY <1>2
<1>3. UNCHANGED copies \/ \E f \in Events : publish_event(f)
  BY RelayAssumption
     DEF Next, relay_once, vars, write_outbox, elapse, window_expires, select_batch,
         publish, publish_refused, publish_fails, commit, batch_failed, crash, restart
<1> QED
  BY <1>1, <1>2, <1>3

\* A row enters done only by a publish that returned, and published only from
\* done.
LEMMA StoreStep == TypeOK /\ BatchInv /\ StoreInv /\ [Next]_vars => StoreInv'
<1> SUFFICES ASSUME TypeOK, BatchInv, StoreInv, [Next]_vars PROVE StoreInv'
  OBVIOUS
<1> USE DEF TypeOK
<1>0. ASSUME NEW e \in window' PROVE copies'[e] > 0
  <2>1. CASE e \in window
    BY <2>1, CopiesGrow DEF StoreInv
  <2>2. CASE e \notin window
    <3>1. e \in Events /\ publish_event(e)
      BY <1>0, <2>2, RelayAssumption
         DEF Next, relay_once, vars, write_outbox, elapse, window_expires, select_batch,
             publish, publish_refused, publish_fails, publish_event, commit, batch_failed,
             crash, restart
    <3> QED
      BY <2>2, <3>1, SMT DEF publish_event
  <2> QED
    BY <2>1, <2>2
<1>1. ASSUME published' = published, \A r \in Relays : done'[r] \subseteq done[r]
      PROVE  StoreInv'
  <2>1. ASSUME NEW e \in published PROVE copies'[e] > 0
    BY CopiesGrow DEF StoreInv
  <2>2. ASSUME NEW r \in Relays, NEW e \in done[r] PROVE copies'[e] > 0
    BY CopiesGrow DEF StoreInv
  <2> QED
    BY <1>1, <2>1, <2>2, <1>0 DEF StoreInv
<1>2. ASSUME NEW r \in Relays, publish(r) PROVE StoreInv'
  <2>1. PICK e \in Events : publish_event(e) /\ done' = [done EXCEPT ![r] = @ \cup {e}]
    BY <1>2 DEF publish
  <2>2. copies'[e] > 0
    BY <1>0, <2>1 DEF publish_event
  <2>3. ASSUME NEW f \in published PROVE copies'[f] > 0
    BY CopiesGrow DEF StoreInv
  <2>4. ASSUME NEW s \in Relays, NEW f \in done[s] PROVE copies'[f] > 0
    BY CopiesGrow DEF StoreInv
  <2> QED
    BY <1>0, <1>2, <2>1, <2>2, <2>3, <2>4, SMT DEF publish, tableVars, StoreInv
<1>3. ASSUME NEW r \in Relays, commit(r) PROVE StoreInv'
  BY <1>0, <1>3 DEF commit, empty_batch, StoreInv
<1>4. CASE UNCHANGED vars
  BY <1>1, <1>4 DEF vars, tableVars, batchVars
<1>5. ASSUME NEW e \in Events, write_outbox(e) \/ elapse(e) \/ window_expires(e)
      PROVE  StoreInv'
  BY <1>1, <1>5 DEF write_outbox, elapse, window_expires, batchVars, tableVars
<1>6. ASSUME NEW r \in Relays,
             select_batch(r) \/ publish_refused(r) \/ publish_fails(r) \/ restart(r)
      PROVE  StoreInv'
  BY <1>1, <1>6 DEF select_batch, publish_refused, publish_fails, put_off, restart,
                    batchVars, tableVars
<1>7. ASSUME NEW r \in Relays, batch_failed(r) \/ crash(r) PROVE StoreInv'
  BY <1>1, <1>7 DEF batch_failed, crash, empty_batch, tableVars
<1> QED
  BY <1>2, <1>3, <1>4, <1>5, <1>6, <1>7 DEF Next, relay_once

----------------------------------------------------------------------------
\* The three invariants hold together in every reachable state.
THEOREM Invariance == Spec => [](TypeOK /\ BatchInv /\ StoreInv)
<1>1. Init => StoreInv
  BY DEF Init, StoreInv
<1> QED
  BY <1>1, TypeInit, BatchInit, TypeStep, BatchStep, StoreStep, PTL DEF Spec

\* Rows, batches and the stream keep their types, and marked rows exist.
THEOREM Typing == Spec => []TypeOK
BY Invariance, PTL

\* A row with published_at set has its event on the stream, whatever publish
\* calls, statements and processes failed.
THEOREM MarkedRowsAreStored == Spec => []MarkedIsStored
<1>1. StoreInv => MarkedIsStored
  BY DEF StoreInv, MarkedIsStored
<1> QED
  BY <1>1, Invariance, PTL

\* Any number of relays partition the rows, and a marked row is never worked on
\* or put off again.
THEOREM RelaysPartitionRows == Spec => []MarkedIsSettled
<1>1. BatchInv => MarkedIsSettled
  BY DEF BatchInv, MarkedIsSettled, locked
<1> QED
  BY <1>1, Invariance, PTL

----------------------------------------------------------------------------
\* Only a forgotten id lets a copy in, and forgetting it is counted.
LEMMA OnceStep == TypeOK /\ OnceInv /\ [Next]_vars => OnceInv'
<1> SUFFICES ASSUME TypeOK, OnceInv, [Next]_vars PROVE OnceInv'
  OBVIOUS
<1> USE DEF TypeOK
<1>1. ASSUME NEW e \in Events, window_expires(e) PROVE OnceInv'
  BY <1>1, SMT DEF window_expires, OnceInv
<1>2. ASSUME UNCHANGED <<copies, window, expiries>> PROVE OnceInv'
  BY <1>2 DEF OnceInv
<1>3. ASSUME NEW e \in Events, publish_event(e), UNCHANGED expiries PROVE OnceInv'
  BY <1>3, SMT DEF publish_event, OnceInv
<1>4. \/ \E e \in Events : window_expires(e)
      \/ UNCHANGED <<copies, window, expiries>>
      \/ UNCHANGED expiries /\ \E e \in Events : publish_event(e)
  BY RelayAssumption
     DEF Next, relay_once, vars, write_outbox, elapse, select_batch,
         publish, publish_refused, publish_fails, commit, batch_failed, crash, restart
<1> QED
  BY <1>1, <1>2, <1>3, <1>4

\* For any number of relays and failures, JetStream stores an event again only
\* after it forgot the event's id.
THEOREM ResendsAreNotStored == Spec => []DuplicatesNeedExpiry
<1>1. Init => OnceInv
  BY SMT DEF Init, OnceInv
<1>2. OnceInv => DuplicatesNeedExpiry
  BY DEF OnceInv, DuplicatesNeedExpiry
<1> QED
  BY <1>1, <1>2, OnceStep, Typing, PTL DEF Spec

----------------------------------------------------------------------------
(* Refinement: the outbox log *)

\* Publishing a row of an open batch stores it, unless the stream knows its id.
LEMMA PublishStores ==
    ASSUME TypeOK, BatchInv, OnceInv, NEW r \in Relays, NEW e \in todo[r], publish_event(e),
           UNCHANGED <<rows, published, expiries>>
    PROVE  Outbox!Store(e) \/ UNCHANGED Outbox!vars
<1>1. e \in rows \ published /\ e \in Events
  BY DEF TypeOK, BatchInv, held
<1>2. CASE e \in window
  BY <1>2 DEF publish_event, Outbox!vars
<1>3. CASE e \notin window
  BY <1>1, <1>3 DEF publish_event, OnceInv, Outbox!Store
<1> QED
  BY <1>2, <1>3

\* Any number of relays, with any failures, implement the outbox log
\* (relay_once, publish_event, write_outbox).
THEOREM RelayImplementsOutbox == Spec => ImplementsOutbox
<1>1. Init => Outbox!Init
  BY DEF Init, Outbox!Init
<1>2. Init => OnceInv
  BY SMT DEF Init, OnceInv
<1>3. TypeOK /\ BatchInv /\ StoreInv /\ OnceInv /\ [Next]_vars => [Outbox!Next]_(Outbox!vars)
  <2> SUFFICES ASSUME TypeOK, BatchInv, StoreInv, OnceInv, [Next]_vars
               PROVE  Outbox!Next \/ UNCHANGED Outbox!vars
    OBVIOUS
  <2>1. ASSUME UNCHANGED <<rows, copies, published, expiries>> PROVE UNCHANGED Outbox!vars
    BY <2>1 DEF Outbox!vars
  <2>2. ASSUME NEW e \in Events, write_outbox(e) PROVE Outbox!Next
    BY <2>2 DEF write_outbox, Outbox!Next, Outbox!Write
  <2>3. ASSUME NEW e \in Events, window_expires(e) PROVE Outbox!Next
    BY <2>3 DEF window_expires, tableVars, Outbox!Next, Outbox!Forget
  <2>4. ASSUME NEW r \in Relays, publish(r) PROVE Outbox!Next \/ UNCHANGED Outbox!vars
    <3>1. PICK e \in Events : e \in todo[r] /\ publish_event(e)
      BY <2>4 DEF publish, first
    <3> QED
      BY <2>4, <3>1, PublishStores DEF publish, tableVars, Outbox!Next
  <2>5. ASSUME NEW r \in Relays, publish_fails(r) PROVE Outbox!Next \/ UNCHANGED Outbox!vars
    <3>1. PICK e \in Events :
             e \in todo[r] /\ (publish_event(e) \/ UNCHANGED <<copies, window>>)
      BY <2>5 DEF publish_fails, first
    <3> QED
      BY <2>1, <2>5, <3>1, PublishStores DEF publish_fails, tableVars, Outbox!Next
  <2>6. ASSUME NEW r \in Relays, commit(r) PROVE Outbox!Next
    <3>1. done[r] \subseteq rows /\ done[r] \in SUBSET Events
      BY DEF TypeOK, BatchInv, held
    <3>2. Outbox!Mark(done[r])
      BY <2>6, <3>1 DEF commit, StoreInv, Outbox!Mark
    <3> QED
      BY <3>1, <3>2 DEF Outbox!Next
  <2>7. ASSUME NEW e \in Events, elapse(e) PROVE UNCHANGED Outbox!vars
    BY <2>1, <2>7 DEF elapse
  <2>8. ASSUME NEW r \in Relays,
               select_batch(r) \/ publish_refused(r) \/ batch_failed(r) \/ crash(r) \/ restart(r)
        PROVE  UNCHANGED Outbox!vars
    BY <2>1, <2>8 DEF select_batch, publish_refused, batch_failed, crash, restart, tableVars
  <2>9. CASE UNCHANGED vars
    BY <2>1, <2>9 DEF vars, tableVars
  <2> QED
    BY <2>2, <2>3, <2>4, <2>5, <2>6, <2>7, <2>8, <2>9 DEF Next, relay_once
<1> QED
  BY <1>1, <1>2, <1>3, Invariance, OnceStep, PTL DEF Spec, ImplementsOutbox, Outbox!Spec

----------------------------------------------------------------------------
(* Messages *)

evidence_of(m) == {i \in DOMAIN ledger : ledger[i] = m}

\* Strengthens OneAfterDisable: a worker that has displayed a message since
\* the channel went off, or is past the check that would stop it, can not
\* come to a second display before it reads the switches.
SwitchInv ==
    \A w \in Workers :
        /\ late[w] <= 1
        /\ late[w] # 0 => channel_disabled /\ pc[w] \notin {"selecting", "posting"}

\* The row lock of a delivery: the row is locked by one worker, is APPROVED as
\* it was read, and has been displayed by that worker exactly past the post.
LockInv ==
    /\ \A w, v \in Workers :
          w # v /\ pc[w] \in Holding /\ pc[v] \in Holding => at[w] # at[v]
    /\ \A w \in Workers : pc[w] # "idle" => status[at[w]] # "NONE"
    /\ \A w \in Workers : pc[w] \in Holding => status[at[w]] = "APPROVED"
    /\ \A w \in displayed : pc[w] \in {"recording", "settling", "failing"} /\ shown[at[w]] > 0
    /\ \A w \in Workers : pc[w] \in {"recording", "settling"} => w \in displayed
    /\ \A m \in creating : status[m] = "NONE"

\* Strengthens DeliveredOnce: a display that no rollback accounts for belongs
\* to a delivery under way or to a row that is past delivery.
ShownInv ==
    \A m \in Messages :
        /\ shown[m] <= posts_lost[m] + 1
        /\ shown[m] > posts_lost[m] =>
              \/ status[m] \in {"DELIVERED", "FAILED", "CANCELLED", "BLOCKED"}
              \/ \E w \in displayed : at[w] = m

EvidenceInv ==
    \A m \in Messages :
        /\ \A i, j \in evidence_of(m) : i = j
        /\ status[m] = "DELIVERED" => evidence_of(m) # {}
        /\ evidence_of(m) # {} => shown[m] > 0 /\ status[m] \in {"DELIVERED", "BLOCKED"}

MessagesInv == MessagesTypeOK /\ LockInv /\ ShownInv /\ EvidenceInv /\ SwitchInv

\* No message exists and no worker runs at first.
LEMMA MessagesStart == MessagesInit => MessagesInv
<1> SUFFICES ASSUME MessagesInit PROVE MessagesInv
  OBVIOUS
<1>1. AnyMessage \in Messages
  BY MessagesAssumption DEF AnyMessage
<1>2. MessagesTypeOK
  BY <1>1, MessagesAssumption, SMT DEF MessagesInit, MessagesTypeOK, MessageStatuses, Steps, Scopes
<1>3. LockInv /\ ShownInv
  BY SMT DEF MessagesInit, LockInv, ShownInv, Holding
<1>4. EvidenceInv
  BY SMT DEF MessagesInit, EvidenceInv, evidence_of
<1>5. SwitchInv
  BY SMT DEF MessagesInit, SwitchInv
<1> QED
  BY <1>2, <1>3, <1>4, <1>5 DEF MessagesInv

\* The message a worker that returns is parked at.
LEMMA AnyMessageIsMessage == AnyMessage \in Messages
BY MessagesAssumption DEF AnyMessage

\* What a display changes.
LEMMA Display ==
    ASSUME MessagesTypeOK, NEW w \in Workers, displays(w)
    PROVE  /\ shown' \in [Messages -> Nat] /\ late' \in [Workers -> Nat]
           /\ displayed' \in SUBSET Workers /\ displayed' = displayed \cup {w}
           /\ \A m \in Messages : shown'[m] = IF m = at[w] THEN shown[m] + 1 ELSE shown[m]
           /\ \A v \in Workers :
                 late'[v] = IF v = w /\ channel_disabled THEN late[v] + 1 ELSE late[v]
<1> USE DEF MessagesTypeOK, displays
<1>1. shown' \in [Messages -> Nat]
      /\ \A m \in Messages : shown'[m] = IF m = at[w] THEN shown[m] + 1 ELSE shown[m]
  BY SMT
<1>2. late' \in [Workers -> Nat]
      /\ \A v \in Workers : late'[v] = IF v = w /\ channel_disabled THEN late[v] + 1 ELSE late[v]
  <2>1. CASE channel_disabled
    BY <2>1, SMT
  <2>2. CASE ~channel_disabled
    BY <2>2
  <2> QED
    BY <2>1, <2>2
<1> QED
  BY <1>1, <1>2

\* What the end of a delivery changes.
LEMMA Return ==
    ASSUME MessagesTypeOK, NEW w \in Workers, worker_returns(w)
    PROVE  /\ pc' \in [Workers -> Steps] /\ at' \in [Workers -> Messages]
           /\ displayed' \in SUBSET Workers /\ displayed' = displayed \ {w}
           /\ \A v \in Workers : pc'[v] = IF v = w THEN "idle" ELSE pc[v]
           /\ \A v \in Workers : v # w => at'[v] = at[v]
           /\ \A v \in displayed : v # w => v \in displayed' /\ at'[v] = at[v]
BY AnyMessageIsMessage DEF MessagesTypeOK, worker_returns, worker_goes, Steps

\* Every step keeps the types.
LEMMA MessagesTypeStep == MessagesTypeOK /\ [MessagesNext]_messageVars => MessagesTypeOK'
<1> SUFFICES ASSUME MessagesTypeOK, [MessagesNext]_messageVars
             PROVE  MessagesTypeOK'
  OBVIOUS
<1>1. ASSUME NEW m \in Messages, create_checks(m) PROVE MessagesTypeOK'
  BY <1>1 DEF create_checks, MessagesTypeOK, apiVars, workerVars, sandboxVars, faultVars,
     MessageStatuses, Steps, Holding
<1>2. ASSUME NEW m \in Messages, create_message(m) PROVE MessagesTypeOK'
  BY <1>2 DEF create_message, MessagesTypeOK, apiVars, workerVars, sandboxVars, faultVars,
     MessageStatuses, Steps, Holding
<1>3. ASSUME NEW m \in Messages, confirm_checks(m) PROVE MessagesTypeOK'
  BY <1>3 DEF confirm_checks, MessagesTypeOK, apiVars, workerVars, sandboxVars, faultVars,
     MessageStatuses, Steps, Holding
<1>4. ASSUME NEW m \in Messages, confirm_message(m) PROVE MessagesTypeOK'
  BY <1>4 DEF confirm_message, message_locked, MessagesTypeOK, apiVars, workerVars, sandboxVars,
     faultVars, MessageStatuses, Steps, Holding
<1>5. ASSUME NEW m \in Messages, cancel_message(m) PROVE MessagesTypeOK'
  BY <1>5 DEF cancel_message, message_locked, MessagesTypeOK, apiVars, workerVars, sandboxVars,
     faultVars, MessageStatuses, Steps, Holding
<1>6. ASSUME NEW s \in Scopes, NEW disabled \in BOOLEAN, set_channel_control(s, disabled)
      PROVE  MessagesTypeOK'
  BY <1>6 DEF set_channel_control, MessagesTypeOK, apiVars, workerVars, sandboxVars, faultVars,
     MessageStatuses, Steps, Holding
<1>7. ASSUME NEW w \in Workers, NEW m \in Messages, deliver_checks(w, m) PROVE MessagesTypeOK'
  BY <1>7 DEF deliver_checks, worker_goes, MessagesTypeOK, apiVars, workerVars, sandboxVars,
     faultVars, MessageStatuses, Steps, Holding
<1>8. ASSUME NEW w \in Workers, deliver_blocks(w) PROVE MessagesTypeOK'
  <2>1. status' \in [Messages -> MessageStatuses]
    BY <1>8 DEF deliver_blocks, MessagesTypeOK, MessageStatuses
  <2>2. pc' \in [Workers -> Steps] /\ at' \in [Workers -> Messages] /\ displayed' \in SUBSET Workers
    BY <1>8, Return DEF deliver_blocks
  <2> QED
    BY <1>8, <2>1, <2>2 DEF deliver_blocks, MessagesTypeOK, apiVars, sandboxVars, faultVars
<1>9. ASSUME NEW w \in Workers, select_approved(w) PROVE MessagesTypeOK'
  <2>1. CASE worker_goes(w, "posting") /\ UNCHANGED <<at, displayed>>
    BY <1>9, <2>1 DEF select_approved, worker_goes, MessagesTypeOK, Steps, Holding, apiVars,
       sandboxVars, faultVars
  <2>2. CASE worker_returns(w)
    <3>1. /\ pc' \in [Workers -> Steps] /\ at' \in [Workers -> Messages]
          /\ displayed' \in SUBSET Workers
      BY <2>2, Return
    <3> QED
      BY <1>9, <3>1 DEF select_approved, MessagesTypeOK, apiVars, sandboxVars, faultVars
  <2> QED
    BY <1>9, <2>1, <2>2 DEF select_approved
<1>10. ASSUME NEW w \in Workers, post_succeeds(w) PROVE MessagesTypeOK'
  <2>1. pc' \in [Workers -> Steps]
    BY <1>10 DEF post_succeeds, worker_goes, MessagesTypeOK, Steps, Holding
  <2>2. /\ shown' \in [Messages -> Nat] /\ late' \in [Workers -> Nat]
        /\ displayed' \in SUBSET Workers
    BY <1>10, Display DEF post_succeeds
  <2> QED
    BY <1>10, <2>1, <2>2 DEF post_succeeds, MessagesTypeOK, apiVars, faultVars
<1>11. ASSUME NEW w \in Workers, post_fails(w) PROVE MessagesTypeOK'
  <2>1. pc' \in [Workers -> Steps]
    BY <1>11 DEF post_fails, worker_goes, MessagesTypeOK, Steps, Holding
  <2>2. CASE displays(w)
    <3>1. /\ shown' \in [Messages -> Nat] /\ late' \in [Workers -> Nat]
          /\ displayed' \in SUBSET Workers
      BY <2>2, Display
    <3> QED
      BY <1>11, <2>1, <3>1 DEF post_fails, MessagesTypeOK, apiVars, faultVars
  <2>3. CASE UNCHANGED <<displayed, sandboxVars>>
    BY <1>11, <2>1, <2>3 DEF post_fails, MessagesTypeOK, apiVars, sandboxVars, faultVars
  <2> QED
    BY <1>11, <2>2, <2>3 DEF post_fails
<1>12. ASSUME NEW w \in Workers, record_evidence(w) PROVE MessagesTypeOK'
  BY <1>12 DEF record_evidence, worker_goes, MessagesTypeOK, apiVars, workerVars, sandboxVars,
     faultVars, MessageStatuses, Steps, Holding
<1>13. ASSUME NEW w \in Workers, evidence_fails(w) PROVE MessagesTypeOK'
  BY <1>13 DEF evidence_fails, worker_goes, MessagesTypeOK, apiVars, workerVars, sandboxVars,
     faultVars, MessageStatuses, Steps, Holding
<1>14. ASSUME NEW w \in Workers, settle(w) PROVE MessagesTypeOK'
  <2>1. status' \in [Messages -> MessageStatuses] /\ ledger' \in Seq(Messages)
    BY <1>14, SMT DEF settle, MessagesTypeOK, MessageStatuses
  <2>2. pc' \in [Workers -> Steps] /\ at' \in [Workers -> Messages] /\ displayed' \in SUBSET Workers
    BY <1>14, Return DEF settle
  <2> QED
    BY <1>14, <2>1, <2>2 DEF settle, MessagesTypeOK, apiVars, sandboxVars, faultVars
<1>15. ASSUME NEW w \in Workers, roll_back(w) PROVE MessagesTypeOK'
  <2>1. posts_lost' \in [Messages -> Nat]
    BY <1>15, SMT DEF roll_back, MessagesTypeOK
  <2>2. message_faults' \in 0..MaxMessageFaults
    BY <1>15, MessagesAssumption, SMT DEF roll_back, MessagesTypeOK
  <2>3. pc' \in [Workers -> Steps] /\ at' \in [Workers -> Messages] /\ displayed' \in SUBSET Workers
    BY <1>15, Return DEF roll_back
  <2> QED
    BY <1>15, <2>1, <2>2, <2>3 DEF roll_back, MessagesTypeOK, apiVars, sandboxVars
<1>16. CASE UNCHANGED messageVars
  BY <1>16 DEF messageVars, MessagesTypeOK, apiVars, workerVars, sandboxVars, faultVars
<1> QED
  BY <1>1, <1>2, <1>3, <1>4, <1>5, <1>6, <1>7, <1>8, <1>9, <1>10, <1>11, <1>12, <1>13, <1>14,
     <1>15, <1>16, SMT DEF MessagesNext

\* The end of a delivery keeps the locks of the others, if the rows it has
\* changed were not locked by them.
LEMMA ReturnLocks ==
    ASSUME MessagesTypeOK, LockInv, NEW w \in Workers, worker_returns(w),
           UNCHANGED <<creating, shown>>,
           \A m \in Messages :
              \/ status'[m] = status[m]
              \/ /\ status[m] # "NONE" /\ status'[m] # "NONE"
                 /\ \A v \in Workers : v # w /\ pc[v] \in Holding => at[v] # m
    PROVE  LockInv'
<1>1. /\ displayed \subseteq Workers /\ creating \subseteq Messages
      /\ at \in [Workers -> Messages]
  BY DEF MessagesTypeOK
<1>2. \A v \in Workers : pc'[v] # "idle" => v # w /\ pc'[v] = pc[v] /\ at'[v] = at[v]
  BY Return
<1>3. displayed' = displayed \ {w} /\ \A v \in Workers : v # w => pc'[v] = pc[v] /\ at'[v] = at[v]
  BY Return
<1>4. \A v \in Workers : v # w /\ pc[v] \in Holding => status'[at[v]] = status[at[v]]
  BY <1>1
<1>5. \A v \in Workers : v # w /\ pc[v] # "idle" => status'[at[v]] # "NONE"
  BY <1>1 DEF LockInv
<1>6. "idle" \notin Holding /\ {"recording", "settling", "failing"} \subseteq Holding
  BY DEF Holding
<1>7. \A v \in Workers : pc'[v] # "idle" => status'[at'[v]] # "NONE"
  BY <1>2, <1>5
<1>8. \A v \in Workers : pc'[v] \in Holding => status'[at'[v]] = "APPROVED"
  BY <1>2, <1>4, <1>6 DEF LockInv
<1>9. \A v, x \in Workers :
         v # x /\ pc'[v] \in Holding /\ pc'[x] \in Holding => at'[v] # at'[x]
  BY <1>2, <1>6, SMT DEF LockInv
<1>10. \A v \in displayed' :
          pc'[v] \in {"recording", "settling", "failing"} /\ shown'[at'[v]] > 0
  BY <1>1, <1>2, <1>3 DEF LockInv
<1>11. \A v \in Workers : pc'[v] \in {"recording", "settling"} => v \in displayed'
  BY <1>2, <1>3 DEF LockInv
<1>12. \A m \in creating' : status'[m] = "NONE"
  BY <1>1 DEF LockInv
<1> QED
  BY <1>7, <1>8, <1>9, <1>10, <1>11, <1>12 DEF LockInv

\* Every step keeps the row locks.
LEMMA LockStep == MessagesTypeOK /\ LockInv /\ [MessagesNext]_messageVars => LockInv'
<1> SUFFICES ASSUME MessagesTypeOK, LockInv, [MessagesNext]_messageVars
             PROVE  LockInv'
  OBVIOUS
<1>1. ASSUME NEW m \in Messages, create_checks(m) PROVE LockInv'
  BY <1>1 DEF create_checks, MessagesTypeOK, apiVars, workerVars, sandboxVars, faultVars,
     LockInv, Holding
<1>2. ASSUME NEW m \in Messages, create_message(m) PROVE LockInv'
  BY <1>2 DEF create_message, MessagesTypeOK, apiVars, workerVars, sandboxVars, faultVars,
     LockInv, Holding
<1>3. ASSUME NEW m \in Messages, confirm_checks(m) PROVE LockInv'
  BY <1>3 DEF confirm_checks, MessagesTypeOK, apiVars, workerVars, sandboxVars, faultVars,
     LockInv, Holding
<1>4. ASSUME NEW m \in Messages, confirm_message(m) PROVE LockInv'
  BY <1>4, SMT DEF confirm_message, message_locked, MessagesTypeOK, apiVars, workerVars, sandboxVars,
     faultVars, LockInv, Holding
<1>5. ASSUME NEW m \in Messages, cancel_message(m) PROVE LockInv'
  BY <1>5 DEF cancel_message, message_locked, MessagesTypeOK, apiVars, workerVars, sandboxVars,
     faultVars, LockInv, Holding
<1>6. ASSUME NEW s \in Scopes, NEW disabled \in BOOLEAN, set_channel_control(s, disabled)
      PROVE  LockInv'
  BY <1>6 DEF set_channel_control, MessagesTypeOK, apiVars, workerVars, sandboxVars, faultVars,
     LockInv, Holding
<1>7. ASSUME NEW w \in Workers, NEW m \in Messages, deliver_checks(w, m) PROVE LockInv'
  BY <1>7, SMT DEF deliver_checks, worker_goes, MessagesTypeOK, apiVars, workerVars, sandboxVars,
     faultVars, LockInv, Holding
<1>8. ASSUME NEW w \in Workers, deliver_blocks(w) PROVE LockInv'
  <2>1. /\ worker_returns(w) /\ UNCHANGED <<creating, shown>>
        /\ \A v \in Workers : pc[v] \in Holding => at[v] # at[w]
    BY <1>8 DEF deliver_blocks, message_locked, apiVars, sandboxVars
  <2>2. \A m \in Messages : status'[m] = status[m] \/ (m = at[w] /\ status'[m] = "BLOCKED")
    BY <1>8 DEF deliver_blocks, MessagesTypeOK
  <2>3. status[at[w]] # "NONE"
    BY <1>8 DEF deliver_blocks, LockInv
  <2> QED
    BY <2>1, <2>2, <2>3, ReturnLocks
<1>9. ASSUME NEW w \in Workers, select_approved(w) PROVE LockInv'
  <2>1. UNCHANGED <<status, creating, shown>>
    BY <1>9 DEF select_approved, apiVars, sandboxVars
  <2>2. CASE worker_returns(w)
    BY <2>1, <2>2, ReturnLocks
  <2>3. CASE status[at[w]] = "APPROVED" /\ worker_goes(w, "posting")
             /\ UNCHANGED <<at, displayed>>
    <3>1. \A v \in Workers : pc'[v] = IF v = w THEN "posting" ELSE pc[v]
      BY <2>3 DEF worker_goes, MessagesTypeOK
    <3>2. pc[w] = "selecting" /\ \A v \in Workers : ~(at[v] = at[w] /\ pc[v] \in Holding)
      BY <1>9 DEF select_approved, message_locked
    <3>3. w \notin displayed
      BY <3>2 DEF LockInv
    <3>4. displayed \subseteq Workers
      BY DEF MessagesTypeOK
    <3> QED
      BY <2>1, <2>3, <3>1, <3>2, <3>3, <3>4, SMT DEF LockInv, Holding
  <2> QED
    BY <1>9, <2>2, <2>3 DEF select_approved
<1>10. ASSUME NEW w \in Workers, post_succeeds(w) PROVE LockInv'
  BY <1>10, SMT DEF post_succeeds, worker_goes, displays, MessagesTypeOK, apiVars, workerVars,
     sandboxVars, faultVars, LockInv, Holding
<1>11. ASSUME NEW w \in Workers, post_fails(w) PROVE LockInv'
  BY <1>11, SMT DEF post_fails, worker_goes, displays, MessagesTypeOK, apiVars, workerVars,
     sandboxVars, faultVars, LockInv, Holding
<1>12. ASSUME NEW w \in Workers, record_evidence(w) PROVE LockInv'
  BY <1>12, SMT DEF record_evidence, worker_goes, MessagesTypeOK, apiVars, workerVars, sandboxVars,
     faultVars, LockInv, Holding
<1>13. ASSUME NEW w \in Workers, evidence_fails(w) PROVE LockInv'
  BY <1>13, SMT DEF evidence_fails, worker_goes, MessagesTypeOK, apiVars, workerVars, sandboxVars,
     faultVars, LockInv, Holding
<1>14. ASSUME NEW w \in Workers, settle(w) PROVE LockInv'
  <2>1. worker_returns(w) /\ UNCHANGED <<creating, shown>> /\ pc[w] \in Holding
    BY <1>14 DEF settle, apiVars, sandboxVars, Holding
  <2>2. \A m \in Messages : \/ status'[m] = status[m]
                            \/ m = at[w] /\ status'[m] \in {"DELIVERED", "FAILED"}
    BY <1>14 DEF settle, MessagesTypeOK
  <2>3. status[at[w]] = "APPROVED" /\ \A v \in Workers : v # w /\ pc[v] \in Holding => at[v] # at[w]
    BY <2>1 DEF LockInv
  <2> QED
    BY <2>1, <2>2, <2>3, ReturnLocks
<1>15. ASSUME NEW w \in Workers, roll_back(w) PROVE LockInv'
  BY <1>15, ReturnLocks DEF roll_back, apiVars, sandboxVars
<1>16. CASE UNCHANGED messageVars
  BY <1>16 DEF messageVars, apiVars, workerVars, sandboxVars, LockInv
<1> QED
  BY <1>1, <1>2, <1>3, <1>4, <1>5, <1>6, <1>7, <1>8, <1>9, <1>10, <1>11, <1>12, <1>13, <1>14,
     <1>15, <1>16 DEF MessagesNext

\* A display by the worker that holds the row, and had not displayed it yet.
LEMMA DisplayShown ==
    ASSUME MessagesTypeOK, LockInv, ShownInv, NEW w \in Workers, pc[w] = "posting",
           displays(w), UNCHANGED <<at, status, posts_lost>>
    PROVE  ShownInv'
<1>1. w \notin displayed /\ status[at[w]] = "APPROVED"
  BY DEF LockInv, Holding
<1>2. \A v \in displayed : at[v] # at[w]
  BY <1>1 DEF LockInv, Holding, MessagesTypeOK
<1>3. at[w] \in Messages /\ posts_lost \in [Messages -> Nat] /\ shown \in [Messages -> Nat]
  BY DEF MessagesTypeOK
<1>4. shown[at[w]] <= posts_lost[at[w]]
  BY <1>1, <1>2, <1>3, SMT DEF ShownInv
<1>5. /\ displayed' = displayed \cup {w}
      /\ \A m \in Messages : shown'[m] = IF m = at[w] THEN shown[m] + 1 ELSE shown[m]
  BY Display
<1> QED
  BY <1>3, <1>4, <1>5, SMT DEF ShownInv

\* What displays and rolls back nothing keeps ShownInv, if it moves no row
\* back from where delivery ended.
LEMMA ShownKept ==
    ASSUME ShownInv, UNCHANGED <<shown, posts_lost>>,
           \A v \in displayed : v \in displayed' /\ at'[v] = at[v],
           \A m \in Messages :
              \/ status'[m] \in {status[m], "CANCELLED", "BLOCKED"}
              \/ status[m] \in {"NONE", "PENDING_CONFIRMATION"}
    PROVE  ShownInv'
BY DEF ShownInv

\* Every step accounts for what the sandbox displayed.
LEMMA ShownStep == MessagesTypeOK /\ LockInv /\ ShownInv /\ [MessagesNext]_messageVars => ShownInv'
<1> SUFFICES ASSUME MessagesTypeOK, LockInv, ShownInv, [MessagesNext]_messageVars
             PROVE  ShownInv'
  OBVIOUS
<1>1. ASSUME NEW m \in Messages, create_checks(m) PROVE ShownInv'
  BY <1>1, ShownKept DEF create_checks, workerVars, sandboxVars, faultVars
<1>2. ASSUME NEW m \in Messages, create_message(m) PROVE ShownInv'
  <2>1. UNCHANGED <<shown, posts_lost, displayed, at>>
    BY <1>2 DEF create_message, workerVars, sandboxVars, faultVars
  <2>2. \A x \in Messages : \/ status'[x] \in {status[x], "CANCELLED", "BLOCKED"}
                            \/ status[x] \in {"NONE", "PENDING_CONFIRMATION"}
    BY <1>2, SMT DEF create_message, MessagesTypeOK, LockInv
  <2> QED
    BY <2>1, <2>2, ShownKept
<1>3. ASSUME NEW m \in Messages, confirm_checks(m) PROVE ShownInv'
  BY <1>3, ShownKept DEF confirm_checks, workerVars, sandboxVars, faultVars
<1>4. ASSUME NEW m \in Messages, confirm_message(m) PROVE ShownInv'
  <2>1. UNCHANGED <<shown, posts_lost, displayed, at>>
    BY <1>4 DEF confirm_message, workerVars, sandboxVars, faultVars
  <2>2. \A x \in Messages : \/ status'[x] \in {status[x], "CANCELLED", "BLOCKED"}
                            \/ status[x] \in {"NONE", "PENDING_CONFIRMATION"}
    BY <1>4 DEF confirm_message, MessagesTypeOK
  <2> QED
    BY <2>1, <2>2, ShownKept
<1>5. ASSUME NEW m \in Messages, cancel_message(m) PROVE ShownInv'
  <2>1. UNCHANGED <<shown, posts_lost, displayed, at>>
    BY <1>5 DEF cancel_message, workerVars, sandboxVars, faultVars
  <2>2. \A x \in Messages : \/ status'[x] \in {status[x], "CANCELLED", "BLOCKED"}
                            \/ status[x] \in {"NONE", "PENDING_CONFIRMATION"}
    BY <1>5 DEF cancel_message, MessagesTypeOK
  <2> QED
    BY <2>1, <2>2, ShownKept
<1>6. ASSUME NEW s \in Scopes, NEW disabled \in BOOLEAN, set_channel_control(s, disabled)
      PROVE  ShownInv'
  BY <1>6, ShownKept DEF set_channel_control, workerVars, sandboxVars, faultVars
<1>7. ASSUME NEW w \in Workers, NEW m \in Messages, deliver_checks(w, m) PROVE ShownInv'
  <2>1. w \notin displayed /\ displayed \subseteq Workers /\ UNCHANGED <<status, displayed>>
    BY <1>7 DEF deliver_checks, LockInv, MessagesTypeOK
  <2>2. \A v \in Workers : v # w => at'[v] = at[v]
    BY <1>7 DEF deliver_checks, MessagesTypeOK
  <2> QED
    BY <1>7, <2>1, <2>2, ShownKept DEF deliver_checks, sandboxVars, faultVars
<1>8. ASSUME NEW w \in Workers, deliver_blocks(w) PROVE ShownInv'
  <2>1. worker_returns(w) /\ w \notin displayed /\ UNCHANGED <<shown, posts_lost>>
    BY <1>8 DEF deliver_blocks, LockInv, sandboxVars, faultVars
  <2>2. \A v \in displayed : v \in displayed' /\ at'[v] = at[v]
    BY <2>1, Return
  <2>3. \A m \in Messages : status'[m] \in {status[m], "BLOCKED"}
    BY <1>8 DEF deliver_blocks, MessagesTypeOK
  <2> QED
    BY <2>1, <2>2, <2>3, ShownKept
<1>9. ASSUME NEW w \in Workers, select_approved(w) PROVE ShownInv'
  <2>1. w \notin displayed /\ UNCHANGED <<status, shown, posts_lost>>
    BY <1>9 DEF select_approved, LockInv, sandboxVars, faultVars
  <2>2. worker_returns(w) \/ UNCHANGED <<at, displayed>>
    BY <1>9 DEF select_approved
  <2>3. \A v \in displayed : v \in displayed' /\ at'[v] = at[v]
    BY <2>1, <2>2, Return
  <2> QED
    BY <2>1, <2>3, ShownKept
<1>10. ASSUME NEW w \in Workers, post_succeeds(w) PROVE ShownInv'
  BY <1>10, DisplayShown DEF post_succeeds, faultVars
<1>11. ASSUME NEW w \in Workers, post_fails(w) PROVE ShownInv'
  <2>1. CASE displays(w)
    BY <1>11, <2>1, DisplayShown DEF post_fails, faultVars
  <2>2. CASE UNCHANGED <<displayed, sandboxVars>>
    BY <1>11, <2>2, ShownKept DEF post_fails, sandboxVars, faultVars
  <2> QED
    BY <1>11, <2>1, <2>2 DEF post_fails
<1>12. ASSUME NEW w \in Workers, record_evidence(w) PROVE ShownInv'
  BY <1>12, ShownKept DEF record_evidence, sandboxVars, faultVars
<1>13. ASSUME NEW w \in Workers, evidence_fails(w) PROVE ShownInv'
  BY <1>13, ShownKept DEF evidence_fails, sandboxVars, faultVars
<1>14. ASSUME NEW w \in Workers, settle(w) PROVE ShownInv'
  <2>1. worker_returns(w) /\ UNCHANGED <<shown, posts_lost>>
    BY <1>14 DEF settle, sandboxVars, faultVars
  <2>2. \A v \in displayed : v # w => v \in displayed' /\ at'[v] = at[v]
    BY <2>1, Return
  <2>3. \A m \in Messages : IF m = at[w] THEN status'[m] \in {"DELIVERED", "FAILED"}
                                         ELSE status'[m] = status[m]
    BY <1>14 DEF settle, MessagesTypeOK
  <2> QED
    BY <2>1, <2>2, <2>3, SMT DEF ShownInv
<1>15. ASSUME NEW w \in Workers, roll_back(w) PROVE ShownInv'
  <2>1. worker_returns(w) /\ UNCHANGED <<shown, status>>
    BY <1>15 DEF roll_back, sandboxVars
  <2>2. \A v \in displayed : v # w => v \in displayed' /\ at'[v] = at[v]
    BY <2>1, Return
  <2>3. \A m \in Messages :
           posts_lost'[m] = IF m = at[w] /\ w \in displayed
                            THEN posts_lost[m] + 1 ELSE posts_lost[m]
    BY <1>15 DEF roll_back, MessagesTypeOK
  <2>4. posts_lost \in [Messages -> Nat] /\ shown \in [Messages -> Nat]
    BY DEF MessagesTypeOK
  <2>5. ASSUME NEW m \in Messages
        PROVE  /\ shown[m] <= posts_lost'[m] + 1
               /\ shown[m] > posts_lost'[m] =>
                     \/ status[m] \in {"DELIVERED", "FAILED", "CANCELLED", "BLOCKED"}
                     \/ \E v \in displayed' : at'[v] = m
    <3>1. CASE m = at[w] /\ w \in displayed
      BY <2>3, <2>4, <3>1, SMT DEF ShownInv
    <3>2. CASE ~(m = at[w] /\ w \in displayed)
      BY <2>2, <2>3, <2>4, <3>2 DEF ShownInv
    <3> QED
      BY <3>1, <3>2
  <2> QED
    BY <2>1, <2>5 DEF ShownInv
<1>16. CASE UNCHANGED messageVars
  BY <1>16, ShownKept DEF messageVars, workerVars, sandboxVars, faultVars
<1> QED
  BY <1>1, <1>2, <1>3, <1>4, <1>5, <1>6, <1>7, <1>8, <1>9, <1>10, <1>11, <1>12, <1>13, <1>14,
     <1>15, <1>16 DEF MessagesNext

\* What leaves the ledger alone keeps EvidenceInv, if it moves no row to or
\* from DELIVERED but to BLOCKED.
LEMMA EvidenceKept ==
    ASSUME EvidenceInv, ledger' = ledger,
           \A m \in Messages : shown[m] > 0 => shown'[m] > 0,
           \A m \in Messages :
              \/ status'[m] \in {status[m], "BLOCKED"}
              \/ status[m] \notin {"DELIVERED", "BLOCKED"} /\ status'[m] # "DELIVERED"
    PROVE  EvidenceInv'
<1>1. \A m : evidence_of(m)' = evidence_of(m)
  BY DEF evidence_of
<1> QED
  BY <1>1 DEF EvidenceInv

\* Every step keeps the evidence of a message in line with its status.
LEMMA EvidenceStep ==
  MessagesTypeOK /\ LockInv /\ EvidenceInv /\ [MessagesNext]_messageVars => EvidenceInv'
<1> SUFFICES ASSUME MessagesTypeOK, LockInv, EvidenceInv, [MessagesNext]_messageVars
             PROVE  EvidenceInv'
  OBVIOUS
<1>1. ASSUME NEW m \in Messages, create_checks(m) PROVE EvidenceInv'
  BY <1>1, EvidenceKept DEF create_checks, sandboxVars
<1>2. ASSUME NEW m \in Messages, create_message(m) PROVE EvidenceInv'
  <2>1. ledger' = ledger /\ shown' = shown
    BY <1>2 DEF create_message, sandboxVars
  <2>2. \A x \in Messages :
           \/ status'[x] \in {status[x], "BLOCKED"}
           \/ status[x] \notin {"DELIVERED", "BLOCKED"} /\ status'[x] # "DELIVERED"
    BY <1>2 DEF create_message, MessagesTypeOK, LockInv
  <2> QED
    BY <2>1, <2>2, EvidenceKept
<1>3. ASSUME NEW m \in Messages, confirm_checks(m) PROVE EvidenceInv'
  BY <1>3, EvidenceKept DEF confirm_checks, sandboxVars
<1>4. ASSUME NEW m \in Messages, confirm_message(m) PROVE EvidenceInv'
  <2>1. ledger' = ledger /\ shown' = shown
    BY <1>4 DEF confirm_message, sandboxVars
  <2>2. \A x \in Messages :
           \/ status'[x] \in {status[x], "BLOCKED"}
           \/ status[x] \notin {"DELIVERED", "BLOCKED"} /\ status'[x] # "DELIVERED"
    BY <1>4 DEF confirm_message, MessagesTypeOK
  <2> QED
    BY <2>1, <2>2, EvidenceKept
<1>5. ASSUME NEW m \in Messages, cancel_message(m) PROVE EvidenceInv'
  <2>1. ledger' = ledger /\ shown' = shown
    BY <1>5 DEF cancel_message, sandboxVars
  <2>2. \A x \in Messages :
           \/ status'[x] \in {status[x], "BLOCKED"}
           \/ status[x] \notin {"DELIVERED", "BLOCKED"} /\ status'[x] # "DELIVERED"
    BY <1>5 DEF cancel_message, MessagesTypeOK
  <2> QED
    BY <2>1, <2>2, EvidenceKept
<1>6. ASSUME NEW s \in Scopes, NEW disabled \in BOOLEAN, set_channel_control(s, disabled)
      PROVE  EvidenceInv'
  BY <1>6, EvidenceKept DEF set_channel_control
<1>7. ASSUME NEW w \in Workers, NEW m \in Messages, deliver_checks(w, m) PROVE EvidenceInv'
  BY <1>7, EvidenceKept DEF deliver_checks, sandboxVars
<1>8. ASSUME NEW w \in Workers, deliver_blocks(w) PROVE EvidenceInv'
  <2>1. ledger' = ledger /\ shown' = shown
    BY <1>8 DEF deliver_blocks, sandboxVars
  <2>2. \A x \in Messages :
           \/ status'[x] \in {status[x], "BLOCKED"}
           \/ status[x] \notin {"DELIVERED", "BLOCKED"} /\ status'[x] # "DELIVERED"
    BY <1>8 DEF deliver_blocks, MessagesTypeOK
  <2> QED
    BY <2>1, <2>2, EvidenceKept
<1>9. ASSUME NEW w \in Workers, select_approved(w) PROVE EvidenceInv'
  BY <1>9, EvidenceKept DEF select_approved, sandboxVars
<1>10. ASSUME NEW w \in Workers, post_succeeds(w) PROVE EvidenceInv'
  <2>1. shown \in [Messages -> Nat] /\ UNCHANGED <<status, ledger>>
    BY <1>10 DEF post_succeeds, MessagesTypeOK
  <2>2. \A m \in Messages : shown[m] > 0 => shown'[m] > 0
    BY <1>10, <2>1, Display, SMT DEF post_succeeds
  <2> QED
    BY <2>1, <2>2, EvidenceKept
<1>11. ASSUME NEW w \in Workers, post_fails(w) PROVE EvidenceInv'
  <2>1. shown \in [Messages -> Nat] /\ UNCHANGED <<status, ledger>>
    BY <1>11 DEF post_fails, MessagesTypeOK
  <2>2. \A m \in Messages : shown[m] > 0 => shown'[m] > 0
    BY <1>11, <2>1, Display, SMT DEF post_fails, sandboxVars
  <2> QED
    BY <2>1, <2>2, EvidenceKept
<1>12. ASSUME NEW w \in Workers, record_evidence(w) PROVE EvidenceInv'
  BY <1>12, EvidenceKept DEF record_evidence, sandboxVars
<1>13. ASSUME NEW w \in Workers, evidence_fails(w) PROVE EvidenceInv'
  BY <1>13, EvidenceKept DEF evidence_fails, sandboxVars
<1>14. ASSUME NEW w \in Workers, settle(w) PROVE EvidenceInv'
  <2>1. at[w] \in Messages /\ ledger \in Seq(Messages) /\ shown' = shown
    BY <1>14 DEF settle, MessagesTypeOK, sandboxVars
  <2>2. status[at[w]] = "APPROVED"
    BY <1>14 DEF settle, LockInv, Holding
  <2>3. evidence_of(at[w]) = {}
    BY <2>1, <2>2 DEF EvidenceInv
  <2>4. \A m \in Messages : m # at[w] => status'[m] = status[m]
    BY <1>14 DEF settle, MessagesTypeOK
  <2>5. CASE pc[w] = "settling"
    <3>1. ledger' = Append(ledger, at[w]) /\ status'[at[w]] = "DELIVERED"
      BY <1>14, <2>1, <2>5 DEF settle, MessagesTypeOK
    <3>2. shown[at[w]] > 0
      BY <2>5 DEF LockInv
    <3>3. PICK n \in Nat :
             /\ DOMAIN ledger = 1..n /\ DOMAIN ledger' = 1..(n + 1) /\ ledger'[n + 1] = at[w]
             /\ \A i \in 1..n : ledger'[i] = ledger[i]
      BY <2>1, <3>1, SMT
    <3>4. /\ \A m : evidence_of(m) = {i \in 1..n : ledger[i] = m}
          /\ \A m : evidence_of(m)' = {i \in 1..(n + 1) : ledger'[i] = m}
      BY <3>3 DEF evidence_of
    <3>5. \A m, i : i \in evidence_of(m)' <=> i \in evidence_of(m) \/ (i = n + 1 /\ m = at[w])
      BY <3>3, <3>4, SMT
    <3>6. \A m \in Messages : m = at[w] => evidence_of(m)' = {n + 1}
      BY <2>3, <3>5
    <3>7. \A m \in Messages : m # at[w] => evidence_of(m)' = evidence_of(m)
      BY <3>5, SMT
    <3>8. ASSUME NEW m \in Messages
          PROVE  /\ \A i, j \in evidence_of(m)' : i = j
                 /\ status'[m] = "DELIVERED" => evidence_of(m)' # {}
                 /\ evidence_of(m)' # {} =>
                       shown'[m] > 0 /\ status'[m] \in {"DELIVERED", "BLOCKED"}
      <4>1. CASE m = at[w]
        BY <2>1, <3>1, <3>2, <3>6, <4>1
      <4>2. CASE m # at[w]
        BY <2>1, <2>4, <3>7, <4>2, SMT DEF EvidenceInv
      <4> QED
        BY <4>1, <4>2
    <3> QED
      BY <3>8 DEF EvidenceInv
  <2>6. CASE pc[w] = "failing"
    <3>1. ledger' = ledger /\ status'[at[w]] = "FAILED"
      BY <1>14, <2>1, <2>6 DEF settle, MessagesTypeOK
    <3> QED
      BY <2>1, <2>3, <2>4, <3>1, SMT DEF EvidenceInv, evidence_of
  <2> QED
    BY <1>14, <2>5, <2>6 DEF settle
<1>15. ASSUME NEW w \in Workers, roll_back(w) PROVE EvidenceInv'
  BY <1>15, EvidenceKept DEF roll_back, sandboxVars
<1>16. CASE UNCHANGED messageVars
  BY <1>16, EvidenceKept DEF messageVars, sandboxVars
<1> QED
  BY <1>1, <1>2, <1>3, <1>4, <1>5, <1>6, <1>7, <1>8, <1>9, <1>10, <1>11, <1>12, <1>13, <1>14,
     <1>15, <1>16 DEF MessagesNext

\* Every step keeps the emergency switch's promise.
LEMMA SwitchStep == MessagesTypeOK /\ SwitchInv /\ [MessagesNext]_messageVars => SwitchInv'
<1> SUFFICES ASSUME MessagesTypeOK, SwitchInv, [MessagesNext]_messageVars
             PROVE  SwitchInv'
  OBVIOUS
<1>1. ASSUME NEW m \in Messages, create_checks(m) PROVE SwitchInv'
  BY <1>1 DEF create_checks, MessagesTypeOK, apiVars, workerVars, sandboxVars, faultVars,
     SwitchInv, channel_disabled
<1>2. ASSUME NEW m \in Messages, create_message(m) PROVE SwitchInv'
  BY <1>2 DEF create_message, MessagesTypeOK, apiVars, workerVars, sandboxVars, faultVars,
     SwitchInv, channel_disabled
<1>3. ASSUME NEW m \in Messages, confirm_checks(m) PROVE SwitchInv'
  BY <1>3 DEF confirm_checks, MessagesTypeOK, apiVars, workerVars, sandboxVars, faultVars,
     SwitchInv, channel_disabled
<1>4. ASSUME NEW m \in Messages, confirm_message(m) PROVE SwitchInv'
  BY <1>4 DEF confirm_message, message_locked, MessagesTypeOK, apiVars, workerVars, sandboxVars,
     faultVars, SwitchInv, channel_disabled
<1>5. ASSUME NEW m \in Messages, cancel_message(m) PROVE SwitchInv'
  BY <1>5 DEF cancel_message, message_locked, MessagesTypeOK, apiVars, workerVars, sandboxVars,
     faultVars, SwitchInv, channel_disabled
<1>6. ASSUME NEW s \in Scopes, NEW disabled \in BOOLEAN, set_channel_control(s, disabled)
      PROVE  SwitchInv'
  BY <1>6, SMT DEF set_channel_control, MessagesTypeOK, apiVars, workerVars, sandboxVars, faultVars,
     SwitchInv, channel_disabled
<1>7. ASSUME NEW w \in Workers, NEW m \in Messages, deliver_checks(w, m) PROVE SwitchInv'
  BY <1>7 DEF deliver_checks, worker_goes, MessagesTypeOK, apiVars, workerVars, sandboxVars,
     faultVars, SwitchInv, channel_disabled
<1>8. ASSUME NEW w \in Workers, deliver_blocks(w) PROVE SwitchInv'
  BY <1>8 DEF deliver_blocks, worker_goes, worker_returns, message_locked, MessagesTypeOK,
     apiVars, workerVars, sandboxVars, faultVars, SwitchInv, channel_disabled
<1>9. ASSUME NEW w \in Workers, select_approved(w) PROVE SwitchInv'
  BY <1>9 DEF select_approved, worker_goes, worker_returns, message_locked, MessagesTypeOK,
     apiVars, workerVars, sandboxVars, faultVars, SwitchInv, channel_disabled
<1>10. ASSUME NEW w \in Workers, post_succeeds(w) PROVE SwitchInv'
  BY <1>10, SMT DEF post_succeeds, worker_goes, displays, MessagesTypeOK, apiVars, workerVars,
     sandboxVars, faultVars, SwitchInv, channel_disabled
<1>11. ASSUME NEW w \in Workers, post_fails(w) PROVE SwitchInv'
  BY <1>11, SMT DEF post_fails, worker_goes, displays, MessagesTypeOK, apiVars, workerVars,
     sandboxVars, faultVars, SwitchInv, channel_disabled
<1>12. ASSUME NEW w \in Workers, record_evidence(w) PROVE SwitchInv'
  BY <1>12 DEF record_evidence, worker_goes, MessagesTypeOK, apiVars, workerVars, sandboxVars,
     faultVars, SwitchInv, channel_disabled
<1>13. ASSUME NEW w \in Workers, evidence_fails(w) PROVE SwitchInv'
  BY <1>13 DEF evidence_fails, worker_goes, MessagesTypeOK, apiVars, workerVars, sandboxVars,
     faultVars, SwitchInv, channel_disabled
<1>14. ASSUME NEW w \in Workers, settle(w) PROVE SwitchInv'
  BY <1>14 DEF settle, worker_goes, worker_returns, MessagesTypeOK, apiVars, workerVars,
     sandboxVars, faultVars, SwitchInv, channel_disabled
<1>15. ASSUME NEW w \in Workers, roll_back(w) PROVE SwitchInv'
  BY <1>15 DEF roll_back, worker_goes, worker_returns, MessagesTypeOK, apiVars, workerVars,
     sandboxVars, faultVars, SwitchInv, channel_disabled
<1>16. CASE UNCHANGED messageVars
  BY <1>16 DEF messageVars, MessagesTypeOK, apiVars, workerVars, sandboxVars, faultVars,
     SwitchInv, channel_disabled
<1> QED
  BY <1>1, <1>2, <1>3, <1>4, <1>5, <1>6, <1>7, <1>8, <1>9, <1>10, <1>11, <1>12, <1>13, <1>14,
     <1>15, <1>16 DEF MessagesNext

\* A set of positions that are all equal counts one or none.
LEMMA CountOfEqual ==
    ASSUME NEW m \in Messages, \A i, j \in evidence_of(m) : i = j
    PROVE  /\ evidence_entries(m) <= 1
           /\ evidence_entries(m) = 1 <=> evidence_of(m) # {}
<1>1. evidence_entries(m) = Cardinality(evidence_of(m))
  BY DEF evidence_entries, evidence_of
<1>2. CASE evidence_of(m) = {}
  BY <1>1, <1>2, FS_EmptySet, SMT
<1>3. CASE evidence_of(m) # {}
  <2>1. PICK i : evidence_of(m) = {i}
    BY <1>3
  <2> QED
    BY <1>1, <1>3, <2>1, FS_Singleton, SMT
<1> QED
  BY <1>2, <1>3

\* The invariant of the message channel holds in every reachable state.
LEMMA MessagesAlways == MessagesSpec => []MessagesInv
<1>1. MessagesInv /\ [MessagesNext]_messageVars => MessagesInv'
  BY MessagesTypeStep, LockStep, ShownStep, EvidenceStep, SwitchStep DEF MessagesInv
<1> QED
  BY <1>1, MessagesStart, PTL DEF MessagesSpec

\* Any number of workers display a message once, and once more for each
\* delivery that was rolled back after its display, and the evidence of a
\* message says what happened to it (deliver_approved_message).
THEOREM MessageDeliveredOnce == MessagesSpec => []DeliveredOnce
<1>1. MessagesInv => DeliveredOnce
  <2> SUFFICES ASSUME MessagesInv, NEW m \in Messages
               PROVE  /\ shown[m] <= posts_lost[m] + 1
                      /\ evidence_entries(m) <= 1
                      /\ status[m] = "DELIVERED" => evidence_entries(m) = 1
                      /\ evidence_entries(m) = 1 =>
                            shown[m] > 0 /\ status[m] \in {"DELIVERED", "BLOCKED"}
    BY DEF DeliveredOnce
  <2>1. \A i, j \in evidence_of(m) : i = j
    BY DEF MessagesInv, EvidenceInv
  <2> QED
    BY <2>1, CountOfEqual DEF MessagesInv, ShownInv, EvidenceInv
<1> QED
  BY <1>1, MessagesAlways, PTL

\* After the channel is disabled each worker displays at most the one message
\* whose check came before (deliver_approved_message, set_channel_control).
THEOREM OneDisplayAfterDisable == MessagesSpec => []OneAfterDisable
<1>1. MessagesInv => OneAfterDisable
  BY DEF MessagesInv, SwitchInv, OneAfterDisable
<1> QED
  BY <1>1, MessagesAlways, PTL

----------------------------------------------------------------------------
\* The calls under way.
Admitted == {c \in AiCallers : ai_call[c] # "IDLE"}

\* How often a call can still ask the provider.
Remaining(c) ==
    IF ai_call[c] = "WAITING" THEN MaxAiRetries + 1
    ELSE IF ai_call[c] = "ASKING" THEN MaxAiRetries - ai_retries[c]
    ELSE IF ai_call[c] = "SLEEPING" THEN MaxAiRetries + 1 - ai_retries[c]
    ELSE 0

\* One element for each request that the calls under way can still make.
Attempts == {x \in AiCallers \X (1..(MaxAiRetries + 1)) : x[2] <= Remaining(x[1])}

CallsTypeOK ==
    /\ ai_call \in [AiCallers -> {"IDLE", "WAITING", "ASKING", "SLEEPING"}]
    /\ ai_retries \in [AiCallers -> 0..MaxAiRetries]
    /\ \A c \in AiCallers : ai_call[c] = "WAITING" => ai_retries[c] = 0

BudgetInv ==
    /\ budget_entries \in Nat
    /\ budget_entries + Cardinality(Admitted) < BudgetLimit + Cardinality(AiCallers)

BreakerInv ==
    /\ breaker \in [failures : Nat, open : BOOLEAN, cooled : BOOLEAN]
    /\ gauge = IF breaker.open THEN 1 ELSE 0
    /\ asked_open \in Nat
    /\ ~breaker.open => asked_open = 0
    /\ breaker.open => asked_open + Cardinality(Attempts)
                          <= Cardinality(AiCallers) * (MaxAiRetries + 1)

\* Strengthens StaleChecksAreBounded: what was spent and what the calls under
\* way can still spend stays within the bound together.
StaleInv == CallsTypeOK /\ BudgetInv /\ BreakerInv

LEMMA ConstantsOfCalls ==
    /\ IsFiniteSet(AiCallers) /\ Cardinality(AiCallers) \in Nat
    /\ BudgetLimit \in Nat \ {0} /\ MaxAiRetries \in Nat
BY OrchestratorAssumption, FS_CardinalityType DEF OrchestratorAssumption

LEMMA SomeCallers ==
    ASSUME NEW S, S \subseteq AiCallers
    PROVE  IsFiniteSet(S) /\ Cardinality(S) \in Nat /\ Cardinality(S) <= Cardinality(AiCallers)
BY ConstantsOfCalls, FS_Subset, FS_CardinalityType

\* All calls together can ask no more often than this.
LEMMA SomeAttempts ==
    ASSUME NEW S, S \subseteq AiCallers \X (1..(MaxAiRetries + 1))
    PROVE  /\ IsFiniteSet(S) /\ Cardinality(S) \in Nat
           /\ Cardinality(S) <= Cardinality(AiCallers) * (MaxAiRetries + 1)
<1> DEFINE n == MaxAiRetries + 1
<1>1. n \in Nat /\ n \in Int /\ 1 \in Int /\ ~(1 > n) /\ n - 1 + 1 = n
  BY ConstantsOfCalls, SMT
<1>2. IsFiniteSet(1..n) /\ Cardinality(1..n) = n
  <2> HIDE DEF n
  <2> QED
    BY <1>1, FS_Interval
<1>3. /\ IsFiniteSet(AiCallers \X (1..n))
      /\ Cardinality(AiCallers \X (1..n)) = Cardinality(AiCallers) * n
  <2> HIDE DEF n
  <2>1. /\ IsFiniteSet(AiCallers \X (1..n))
        /\ Cardinality(AiCallers \X (1..n)) = Cardinality(AiCallers) * Cardinality(1..n)
    BY <1>2, ConstantsOfCalls, FS_Product
  <2> QED
    BY <1>2, <2>1
<1> DEFINE P == AiCallers \X (1..n)
<1>4. S \in SUBSET P
  OBVIOUS
<1> HIDE DEF P
<1>5. IsFiniteSet(S) /\ Cardinality(S) <= Cardinality(P)
  <2>1. IsFiniteSet(P)
    BY <1>3 DEF P
  <2> QED
    BY <1>4, <2>1, FS_Subset
<1>6. Cardinality(S) \in Nat
  BY <1>5, FS_CardinalityType
<1> QED
  BY <1>3, <1>5, <1>6 DEF P

LEMMA AttemptsFinite == IsFiniteSet(Attempts) /\ Cardinality(Attempts) \in Nat
<1>1. Attempts \subseteq AiCallers \X (1..(MaxAiRetries + 1))
  BY DEF Attempts
<1> QED
  BY <1>1, SomeAttempts

\* A call that neither starts nor asks leaves no more to be asked than before.
LEMMA FewerAttempts ==
    ASSUME \A c \in AiCallers : Remaining(c)' <= Remaining(c),
           \A c \in AiCallers : Remaining(c) \in Int /\ Remaining(c)' \in Int
    PROVE  /\ Attempts' \subseteq Attempts
           /\ Cardinality(Attempts') \in Nat
           /\ Cardinality(Attempts') <= Cardinality(Attempts)
<1>1. \A x \in AiCallers \X (1..(MaxAiRetries + 1)) :
         x[2] <= Remaining(x[1])' => x[2] <= Remaining(x[1])
  <2> SUFFICES ASSUME NEW x \in AiCallers \X (1..(MaxAiRetries + 1)), x[2] <= Remaining(x[1])'
               PROVE  x[2] <= Remaining(x[1])
    OBVIOUS
  <2>1. x[1] \in AiCallers /\ x[2] \in 1..(MaxAiRetries + 1)
    BY SMT
  <2>2. \A k \in 1..(MaxAiRetries + 1), a \in Int, b \in Int : k <= a /\ a <= b => k <= b
    BY ConstantsOfCalls, SMT
  <2> QED
    BY <2>1, <2>2
<1>2. Attempts' \subseteq Attempts
  BY <1>1 DEF Attempts
<1> QED
  BY <1>2, AttemptsFinite, FS_Subset, FS_CardinalityType

\* A request uses up one attempt of its call.
LEMMA OneAttemptLess ==
    ASSUME NEW c \in AiCallers, Remaining(c) \in 1..(MaxAiRetries + 1),
           Remaining(c)' = Remaining(c) - 1,
           \A d \in AiCallers : d # c => Remaining(d)' = Remaining(d)
    PROVE  /\ Cardinality(Attempts') \in Nat
           /\ Cardinality(Attempts') + 1 = Cardinality(Attempts)
<1> DEFINE x == <<c, Remaining(c)>>
<1>1. x \in Attempts
  <2>1. Remaining(c) <= Remaining(c)
    BY ConstantsOfCalls, SMT
  <2> QED
    BY <2>1 DEF Attempts
<1>2. Attempts' = Attempts \ {x}
  <2>1. ASSUME NEW y \in AiCallers \X (1..(MaxAiRetries + 1))
        PROVE  y[2] <= Remaining(y[1])' <=> y[2] <= Remaining(y[1]) /\ y # x
    <3>1. PICK d \in AiCallers, k \in 1..(MaxAiRetries + 1) : y = <<d, k>>
      BY SMT
    <3>2. y[1] = d /\ y[2] = k
      BY <3>1
    <3>3. k <= Remaining(d)' <=> k <= Remaining(d) /\ ~(d = c /\ k = Remaining(c))
      <4>1. CASE d = c
        <5>1. k <= Remaining(c) - 1 <=> k <= Remaining(c) /\ k # Remaining(c)
          BY ConstantsOfCalls, SMT
        <5> QED
          BY <4>1, <5>1
      <4>2. CASE d # c
        BY <4>2
      <4> QED
        BY <4>1, <4>2
    <3>4. y = x <=> d = c /\ k = Remaining(c)
      BY <3>1
    <3> QED
      BY <3>2, <3>3, <3>4
  <2> QED
    BY <2>1 DEF Attempts
<1>3. Cardinality(Attempts') = Cardinality(Attempts) - 1
  BY <1>1, <1>2, AttemptsFinite, FS_RemoveElement
<1>4. Cardinality(Attempts') \in Nat
  BY <1>2, AttemptsFinite, FS_RemoveElement, FS_CardinalityType
<1> QED
  BY <1>3, <1>4, AttemptsFinite, SMT

LEMMA RemainingType ==
    ASSUME CallsTypeOK, NEW c \in AiCallers
    PROVE  Remaining(c) \in Int
BY ConstantsOfCalls, SMT DEF Remaining, CallsTypeOK

\* Calls that only end keep within the budget.
LEMMA BudgetStays ==
    ASSUME BudgetInv, Admitted' \subseteq Admitted, UNCHANGED budget_entries
    PROVE  BudgetInv'
<1>1. IsFiniteSet(Admitted) /\ Cardinality(Admitted) \in Nat /\ Cardinality(Admitted') \in Nat
  BY SomeCallers DEF Admitted
<1>2. Cardinality(Admitted') <= Cardinality(Admitted)
  BY <1>1, FS_Subset
<1>3. Cardinality(AiCallers) \in Nat /\ BudgetLimit \in Nat
  BY ConstantsOfCalls
<1> QED
  BY <1>1, <1>2, <1>3, SMT DEF BudgetInv

\* As long as the breaker's state stays, fewer attempts keep the bound.
LEMMA BreakerStays ==
    ASSUME CallsTypeOK, CallsTypeOK', BreakerInv,
           \A c \in AiCallers : Remaining(c)' <= Remaining(c),
           breaker' \in [failures : Nat, open : BOOLEAN, cooled : BOOLEAN],
           breaker'.open = breaker.open, UNCHANGED <<gauge, asked_open>>
    PROVE  BreakerInv'
<1>1. Cardinality(Attempts') \in Nat /\ Cardinality(Attempts') <= Cardinality(Attempts)
  <2>1. \A c \in AiCallers : Remaining(c) \in Int /\ Remaining(c)' \in Int
    BY ConstantsOfCalls, SMT DEF Remaining, CallsTypeOK
  <2> QED
    BY <2>1, FewerAttempts
<1>2. Cardinality(Attempts) \in Nat /\ Cardinality(AiCallers) * (MaxAiRetries + 1) \in Nat
  BY AttemptsFinite, ConstantsOfCalls, SMT
<1> DEFINE bound == Cardinality(AiCallers) * (MaxAiRetries + 1)
<1>3. bound \in Nat
  BY <1>2
<1>4. breaker.open => asked_open + Cardinality(Attempts) <= bound
  BY DEF BreakerInv
<1> HIDE DEF bound
<1>5. asked_open \in Nat
  BY DEF BreakerInv
<1>6. breaker.open => asked_open + Cardinality(Attempts') <= bound
  BY <1>1, <1>2, <1>3, <1>4, <1>5, SMT
<1> QED
  BY <1>6 DEF BreakerInv, bound

\* A failure counts, and may open the breaker.
LEMMA BreakerFails ==
    ASSUME CallsTypeOK, CallsTypeOK', BreakerInv, breaker_failure, UNCHANGED asked_open,
           \A c \in AiCallers : Remaining(c)' <= Remaining(c)
    PROVE  BreakerInv'
<1> DEFINE opens == breaker.failures + 1 >= BreakerFailures /\ ~breaker.open
<1>1. /\ breaker' = [failures |-> breaker.failures + 1, open |-> breaker.open \/ opens,
                    cooled |-> breaker.cooled]
      /\ gauge' = IF opens THEN gauge + 1 ELSE gauge
  BY DEF breaker_failure
<1>2. breaker'.open = (breaker.open \/ opens)
  BY <1>1
<1>3. breaker' \in [failures : Nat, open : BOOLEAN, cooled : BOOLEAN]
  <2>1. breaker.failures + 1 \in Nat
    BY SMT DEF BreakerInv
  <2> QED
    BY <1>1, <2>1 DEF BreakerInv
<1>4. CASE ~opens
  BY <1>1, <1>2, <1>3, <1>4, BreakerStays DEF BreakerInv
<1>5. CASE opens
  <2>1. breaker'.open /\ ~breaker.open
    BY <1>2, <1>5
  <2>2. asked_open' = 0 /\ gauge' = 0 + 1
    BY <1>1, <1>5, <2>1 DEF BreakerInv
  <2>3. /\ Cardinality(Attempts') \in Nat
        /\ Cardinality(Attempts') <= Cardinality(AiCallers) * (MaxAiRetries + 1)
    BY SomeAttempts DEF Attempts
  <2>4. 0 + 1 = 1 /\ 0 \in Nat /\ 0 + Cardinality(Attempts') = Cardinality(Attempts')
    BY <2>3, SMT
  <2> QED
    BY <1>3, <2>1, <2>2, <2>3, <2>4 DEF BreakerInv
<1> QED
  BY <1>4, <1>5

\* A closed breaker.
LEMMA BreakerCloses ==
    ASSUME BreakerInv,
           breaker' = [failures |-> 0, open |-> FALSE, cooled |-> FALSE], asked_open' = 0,
           gauge' = IF breaker.open THEN gauge - 1 ELSE gauge
    PROVE  BreakerInv'
<1>1. ~breaker'.open /\ breaker' \in [failures : Nat, open : BOOLEAN, cooled : BOOLEAN]
  <2>1. 0 \in Nat
    BY SMT
  <2> QED
    BY <2>1
<1>2. gauge' = 0 /\ 0 \in Nat
  BY SMT DEF BreakerInv
<1> QED
  BY <1>1, <1>2 DEF BreakerInv

\* A call returns.
LEMMA CallReturns ==
    ASSUME CallsTypeOK, NEW c \in AiCallers, propose_returns(c), UNCHANGED ai_retries
    PROVE  /\ CallsTypeOK' /\ Admitted' = Admitted \ {c}
           /\ \A d \in AiCallers : Remaining(d)' <= Remaining(d)
<1>1. /\ ai_call'[c] = "IDLE" /\ \A d \in AiCallers : d # c => ai_call'[d] = ai_call[d]
      /\ CallsTypeOK'
  BY DEF propose_returns, CallsTypeOK
<1>2. Admitted' = Admitted \ {c}
  BY <1>1 DEF Admitted
<1>3. \A d \in AiCallers : Remaining(d)' <= Remaining(d)
  <2>1. Remaining(c)' = 0
    BY <1>1 DEF Remaining
  <2>2. 0 <= Remaining(c)
    BY ConstantsOfCalls, SMT DEF Remaining, CallsTypeOK
  <2>3. \A d \in AiCallers : d # c => Remaining(d)' = Remaining(d)
    BY <1>1 DEF Remaining
  <2>4. \A d \in AiCallers : Remaining(d) <= Remaining(d)
    BY RemainingType, SMT
  <2> QED
    BY <2>1, <2>2, <2>3, <2>4
<1> QED
  BY <1>1, <1>2, <1>3

\* A call asks the provider, for the first time or again.
LEMMA CallAsks ==
    ASSUME StaleInv, NEW c \in AiCallers, asks(c), ai_call[c] \in {"WAITING", "SLEEPING"},
           UNCHANGED <<ai_retries, budget_entries, breaker, gauge>>
    PROVE  StaleInv'
<1>1. /\ ai_call'[c] = "ASKING" /\ \A d \in AiCallers : d # c => ai_call'[d] = ai_call[d]
      /\ CallsTypeOK'
  BY DEF asks, StaleInv, CallsTypeOK
<1>2. Admitted' \subseteq Admitted
  BY <1>1 DEF Admitted
<1>3. BudgetInv'
  BY <1>2, BudgetStays DEF StaleInv
<1>4. CASE ~breaker.open
  <2>1. asked_open' = asked_open /\ breaker' = breaker /\ gauge' = gauge
    BY <1>4 DEF asks
  <2>2. BreakerInv'
    BY <1>4, <2>1 DEF StaleInv, BreakerInv
  <2> QED
    BY <1>1, <1>3, <2>2 DEF StaleInv
<1>5. CASE breaker.open
  <2>1. asked_open' = asked_open + 1 /\ asked_open \in Nat
    BY <1>5 DEF asks, StaleInv, BreakerInv
  <2>2. Remaining(c) \in 1..(MaxAiRetries + 1) /\ Remaining(c)' = Remaining(c) - 1
    <3>1. ai_retries[c] \in 0..MaxAiRetries /\ (ai_call[c] = "WAITING" => ai_retries[c] = 0)
      BY DEF StaleInv, CallsTypeOK
    <3>2. Remaining(c)' = MaxAiRetries - ai_retries[c]
      BY <1>1 DEF Remaining
    <3>3. Remaining(c) = MaxAiRetries + 1 - ai_retries[c]
      BY <3>1, ConstantsOfCalls, SMT DEF Remaining
    <3> QED
      BY <3>1, <3>2, <3>3, ConstantsOfCalls, SMT
  <2>3. \A d \in AiCallers : d # c => Remaining(d)' = Remaining(d)
    BY <1>1 DEF Remaining
  <2>4. Cardinality(Attempts') \in Nat /\ Cardinality(Attempts') + 1 = Cardinality(Attempts)
    BY <2>2, <2>3, OneAttemptLess
  <2>5. asked_open' \in Nat /\ asked_open' + Cardinality(Attempts') = asked_open + Cardinality(Attempts)
    BY <2>1, <2>4, SMT
  <2>6. breaker' = breaker /\ gauge' = gauge
    OBVIOUS
  <2>7. asked_open + Cardinality(Attempts) <= Cardinality(AiCallers) * (MaxAiRetries + 1)
    BY <1>5 DEF StaleInv, BreakerInv
  <2>8. BreakerInv'
    BY <1>5, <2>5, <2>6, <2>7 DEF StaleInv, BreakerInv
  <2> QED
    BY <1>1, <1>3, <2>8 DEF StaleInv
<1> QED
  BY <1>4, <1>5

\* A call is admitted: under the limit, and through a closed breaker.
LEMMA CallStarts ==
    ASSUME StaleInv, NEW c \in AiCallers, propose(c)
    PROVE  StaleInv'
<1>1. CallsTypeOK'
  <2>1. 0 \in 0..MaxAiRetries
    BY ConstantsOfCalls, SMT
  <2> QED
    BY <2>1 DEF propose, StaleInv, CallsTypeOK
<1>2. BudgetInv'
  <2>1. Cardinality(Admitted') \in Nat /\ Cardinality(Admitted') <= Cardinality(AiCallers)
    BY SomeCallers DEF Admitted
  <2>2. budget_entries' = budget_entries /\ budget_entries < BudgetLimit /\ budget_entries \in Nat
    BY DEF propose, budget_allow, StaleInv, BudgetInv
  <2> QED
    BY <2>1, <2>2, ConstantsOfCalls, SMT DEF BudgetInv
<1>3. CASE breaker.open
  <2>1. /\ breaker' = [failures |-> 0, open |-> FALSE, cooled |-> FALSE] /\ gauge' = gauge - 1
        /\ asked_open' = IF breaker'.open THEN asked_open ELSE 0
    BY <1>3 DEF propose, breaker_allow
  <2>2. asked_open' = 0
    BY <2>1
  <2>3. BreakerInv'
    BY <1>3, <2>1, <2>2, BreakerCloses DEF StaleInv
  <2> QED
    BY <1>1, <1>2, <2>3 DEF StaleInv
<1>4. CASE ~breaker.open
  <2>1. UNCHANGED <<breaker, gauge>> /\ asked_open' = 0
    BY <1>4 DEF propose, breaker_allow
  <2>2. BreakerInv'
    BY <1>4, <2>1 DEF StaleInv, BreakerInv
  <2> QED
    BY <1>1, <1>2, <2>2 DEF StaleInv
<1> QED
  BY <1>3, <1>4

\* A valid answer is charged, and its call is under way no more.
LEMMA CallAnswered ==
    ASSUME StaleInv, NEW c \in AiCallers, provider_answers(c)
    PROVE  StaleInv'
<1>1. CallsTypeOK' /\ Admitted' = Admitted \ {c}
  BY CallReturns DEF provider_answers, StaleInv
<1>2. c \in Admitted
  BY DEF provider_answers, Admitted
<1>3. IsFiniteSet(Admitted) /\ Cardinality(Admitted) \in Nat /\ Cardinality(Admitted') \in Nat
  BY SomeCallers DEF Admitted
<1>4. Cardinality(Admitted') = Cardinality(Admitted) - 1
  BY <1>1, <1>2, <1>3, FS_RemoveElement
<1>5. budget_entries' = budget_entries + 1
  BY DEF provider_answers
<1>6. BudgetInv'
  BY <1>3, <1>4, <1>5, ConstantsOfCalls, SMT DEF StaleInv, BudgetInv
<1>7. BreakerInv'
  BY BreakerCloses DEF provider_answers, breaker_success, StaleInv
<1> QED
  BY <1>1, <1>6, <1>7 DEF StaleInv

\* The other ways out of a request.
LEMMA CallFails ==
    ASSUME StaleInv, NEW c \in AiCallers,
           invalid_response(c) \/ provider_fails(c) \/ status_error(c)
    PROVE  StaleInv'
<1>1. UNCHANGED <<budget_entries, asked_open>>
  BY DEF invalid_response, provider_fails, status_error
<1>2. CASE propose_returns(c) /\ UNCHANGED ai_retries
  <2>1. /\ CallsTypeOK' /\ Admitted' = Admitted \ {c}
        /\ \A d \in AiCallers : Remaining(d)' <= Remaining(d)
    BY <1>2, CallReturns DEF StaleInv
  <2>2. BudgetInv'
    BY <1>1, <2>1, BudgetStays DEF StaleInv
  <2>3. CASE breaker_failure
    BY <1>1, <2>1, <2>2, <2>3, BreakerFails DEF StaleInv
  <2>4. CASE UNCHANGED <<breaker, gauge>>
    <3>1. breaker' \in [failures : Nat, open : BOOLEAN, cooled : BOOLEAN]
      BY <2>4 DEF StaleInv, BreakerInv
    <3> QED
      BY <1>1, <2>1, <2>2, <2>4, <3>1, BreakerStays DEF StaleInv
  <2> QED
    BY <2>3, <2>4 DEF invalid_response, provider_fails, status_error
<1>3. CASE /\ ai_call[c] = "ASKING" /\ ~(ai_retries[c] >= MaxAiRetries) /\ breaker_failure
           /\ ai_retries' = [ai_retries EXCEPT ![c] = @ + 1]
           /\ ai_call' = [ai_call EXCEPT ![c] = "SLEEPING"]
  <2>1. /\ ai_call'[c] = "SLEEPING" /\ \A d \in AiCallers : d # c => ai_call'[d] = ai_call[d]
        /\ ai_retries'[c] = ai_retries[c] + 1
        /\ \A d \in AiCallers : d # c => ai_retries'[d] = ai_retries[d]
    BY <1>3 DEF StaleInv, CallsTypeOK
  <2>2. ai_retries[c] \in 0..MaxAiRetries /\ ai_retries[c] + 1 \in 0..MaxAiRetries
    BY <1>3, ConstantsOfCalls, SMT DEF StaleInv, CallsTypeOK
  <2>3. CallsTypeOK'
    BY <1>3, <2>1, <2>2 DEF StaleInv, CallsTypeOK
  <2>4. Admitted' \subseteq Admitted
    BY <1>3, <2>1 DEF Admitted
  <2>5. \A d \in AiCallers : Remaining(d)' <= Remaining(d)
    <3>1. Remaining(c)' = Remaining(c)
      BY <1>3, <2>1, <2>2, ConstantsOfCalls, SMT DEF Remaining
    <3>2. \A d \in AiCallers : d # c => Remaining(d)' = Remaining(d)
      BY <2>1 DEF Remaining
    <3>3. \A d \in AiCallers : Remaining(d) <= Remaining(d)
      BY RemainingType, SMT DEF StaleInv
    <3> QED
      BY <3>1, <3>2, <3>3
  <2>6. BudgetInv'
    BY <1>1, <2>4, BudgetStays DEF StaleInv
  <2>7. BreakerInv'
    BY <1>1, <1>3, <2>3, <2>5, BreakerFails DEF StaleInv
  <2> QED
    BY <2>3, <2>6, <2>7 DEF StaleInv
<1> QED
  BY <1>2, <1>3 DEF invalid_response, provider_fails, status_error

LEMMA StaleStart == OrchestratorInit => StaleInv
<1> SUFFICES ASSUME OrchestratorInit PROVE StaleInv
  OBVIOUS
<1>1. 0 \in 0..MaxAiRetries /\ 0 \in Nat
  BY ConstantsOfCalls, SMT
<1>2. CallsTypeOK
  BY <1>1 DEF OrchestratorInit, CallsTypeOK
<1>3. Admitted = {}
  BY DEF Admitted, OrchestratorInit
<1>4. BudgetInv
  <2>1. Cardinality(Admitted) = 0
    BY <1>3, FS_EmptySet
  <2> QED
    BY <2>1, ConstantsOfCalls, SMT DEF BudgetInv, OrchestratorInit
<1>5. BreakerInv
  BY <1>1 DEF BreakerInv, OrchestratorInit
<1> QED
  BY <1>2, <1>4, <1>5 DEF StaleInv

LEMMA StaleStep == StaleInv /\ [OrchestratorNext]_aiVars => StaleInv'
<1> SUFFICES ASSUME StaleInv, [OrchestratorNext]_aiVars PROVE StaleInv'
  OBVIOUS
<1>1. CASE /\ UNCHANGED <<ai_call, ai_retries, budget_entries, gauge, asked_open>>
           /\ breaker' \in [failures : Nat, open : BOOLEAN, cooled : BOOLEAN]
           /\ breaker'.open = breaker.open
  <2>1. CallsTypeOK' /\ Admitted' = Admitted /\ \A c \in AiCallers : Remaining(c)' = Remaining(c)
    BY <1>1 DEF StaleInv, CallsTypeOK, Admitted, Remaining
  <2>2. \A d \in AiCallers : Remaining(d) <= Remaining(d)
    BY RemainingType, SMT DEF StaleInv
  <2>3. BudgetInv'
    BY <1>1, <2>1, BudgetStays DEF StaleInv
  <2>4. BreakerInv'
    BY <1>1, <2>1, <2>2, BreakerStays DEF StaleInv
  <2> QED
    BY <2>1, <2>3, <2>4 DEF StaleInv
<1>2. CASE UNCHANGED aiVars
  BY <1>1, <1>2 DEF aiVars, StaleInv, BreakerInv
<1>3. CASE reset_seconds_pass
  <2>1. \A b \in [failures : Nat, open : BOOLEAN, cooled : BOOLEAN] :
           /\ [b EXCEPT !.cooled = TRUE] \in [failures : Nat, open : BOOLEAN, cooled : BOOLEAN]
           /\ [b EXCEPT !.cooled = TRUE].open = b.open
    OBVIOUS
  <2>2. /\ breaker' \in [failures : Nat, open : BOOLEAN, cooled : BOOLEAN]
        /\ breaker'.open = breaker.open
    BY <1>3, <2>1 DEF reset_seconds_pass, StaleInv, BreakerInv
  <2> QED
    BY <1>1, <1>3, <2>2 DEF reset_seconds_pass
<1>4. ASSUME NEW c \in AiCallers, enters_semaphore(c) \/ wakes(c) PROVE StaleInv'
  BY <1>4, CallAsks DEF enters_semaphore, wakes
<1> QED
  BY <1>2, <1>3, <1>4, CallStarts, CallAnswered, CallFails DEF OrchestratorNext, ends

\* For any number of callers, slots and retries, the ledger exceeds the limit
\* by less than the calls under way, and an open breaker lets through no more
\* requests than the calls admitted before it opened can make: propose asks
\* both before it waits, and asks neither of them again.
THEOREM StaleChecksStayBounded == OrchestratorSpec => []StaleChecksAreBounded
<1>1. StaleInv => StaleChecksAreBounded
  <2> SUFFICES ASSUME StaleInv PROVE StaleChecksAreBounded
    OBVIOUS
  <2>1. budget_entries < BudgetLimit + Cardinality(AiCallers)
    <3>1. Cardinality(Admitted) \in Nat
      BY SomeCallers DEF Admitted
    <3> QED
      BY <3>1, ConstantsOfCalls, SMT DEF StaleInv, BudgetInv
  <2>2. breaker.open => asked_open <= Cardinality(AiCallers) * (MaxAiRetries + 1)
    <3>1. Cardinality(AiCallers) * (MaxAiRetries + 1) \in Nat
      BY ConstantsOfCalls, SMT
    <3>2. \A a, b, n \in Nat : a + b <= n => a <= n
      BY SMT
    <3> QED
      BY <3>1, <3>2, AttemptsFinite DEF StaleInv, BreakerInv
  <2> QED
    BY <2>1, <2>2 DEF StaleInv, BreakerInv, StaleChecksAreBounded
<1> QED
  BY <1>1, StaleStart, StaleStep, PTL DEF OrchestratorSpec

============================================================================
