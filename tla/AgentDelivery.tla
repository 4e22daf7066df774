---------------------------- MODULE AgentDelivery ----------------------------
(***************************************************************************)
(* Telemetry delivery of one MirageSpider agent: the encrypted SQLite      *)
(* queue and sequence store on its disk, the two ways an event leaves the  *)
(* agent (flush_queue and the immediate path of record_tamper and          *)
(* submit_fingerprint_snapshot), the HTTP round trip, the row-locked       *)
(* transaction of mirage-agent-ingestion and the JetStream stream it       *)
(* publishes to before it commits.                                         *)
(*                                                                         *)
(* The agent's coroutines share one event loop, so a step is what runs     *)
(* between two awaits.  The server takes the agents row FOR UPDATE, so one *)
(* handler at a time is between its publish and its commit; the model      *)
(* splits a handler there, which is where a crash leaves a trace.          *)
(***************************************************************************)
EXTENDS Integers, Sequences, FiniteSets

CONSTANTS
    UrgentKinds,     \* event types sent at once: a subset of Urgent
    MaxEvents,       \* bound: events the agent records
    MaxFaults,       \* bound: crashes, lost messages, timeouts, revocations
    MaxCorruptions,  \* bound: queue files found corrupt at start-up
    QueueCapacity,   \* EncryptedEventQueue.max_queue_size
    BatchSize        \* batch_size of flush_queue

Urgent == {"spider.tamper", "spider.fingerprint_snapshot"}
Kinds == {"spider.observation"} \cup Urgent

ASSUME BoundsAssumption ==
    /\ UrgentKinds \subseteq Urgent
    /\ MaxEvents \in Nat
    /\ MaxFaults \in Nat
    /\ MaxCorruptions \in Nat
    /\ QueueCapacity \in Nat
    /\ BatchSize \in Nat \ {0}

VARIABLES
    sequence_state,  \* sequence_state.value in the queue file
    queue,           \* queue_events rows of the queue file
    flush,           \* local state of the flush_queue coroutine
    urgent,          \* requests of immediate submissions still awaited
    requests,        \* HTTP requests not yet handled, late copies included
    responses,       \* HTTP responses on their way to a waiting client
    locked,          \* the request whose handler holds the agents row, if any
    receipts,        \* agent_telemetry_receipts, as the accepted events
    last_sequence,   \* agents.last_sequence
    authorised,      \* the agents row matches the certificate and is ACTIVE
    snapshots,       \* sandbox_fingerprint_snapshots: the latest one, if any
    stream,          \* messages stored by JetStream, in order
    window,          \* events JetStream still remembers for deduplication
    events,          \* history: every event built so far
    returned,        \* history: events whose record call returned normally
    quarantined,     \* history: rows set aside with a corrupt queue file
    faults,          \* number of faults so far
    corruptions      \* number of corrupt queue files so far

agentVars == <<sequence_state, queue, flush, urgent, returned>>
netVars == <<requests, responses>>
serverVars == <<locked, receipts, last_sequence, snapshots>>
natsVars == <<stream, window>>
vars == <<agentVars, netVars, serverVars, authorised, natsVars, events,
          quarantined, faults, corruptions>>

----------------------------------------------------------------------------
(* Data *)

Event == [id : Nat, seq : Nat, kind : Kinds, valid : BOOLEAN]
Row == [row : Nat, ev : Event, status : {"PENDING", "ACKNOWLEDGED", "DEAD_LETTER"}]
\* try is the fault count when the request was sent: a copy is only resent
\* while an earlier one is alive after a fault, so it tells copies apart.
Request == [ev : Event, try : Nat]
Response == [req : Request, code : {202, 400, 403, 409, 500}]

pending == {r \in queue : r.status = "PENDING"}
full == Cardinality(pending) >= QueueCapacity

----------------------------------------------------------------------------
(* EncryptedEventQueue *)

enqueue(ev) ==
    queue \cup {[row |-> Cardinality(queue) + 1, ev |-> ev, status |-> "PENDING"]}

\* PENDING rows ORDER BY id LIMIT BatchSize, as a set of rows.
peek_batch(q) ==
    LET p == {r \in q : r.status = "PENDING"}
    IN  {r \in p : Cardinality({s \in p : s.row < r.row}) < BatchSize}

mark(r, status) == (queue \ {r}) \cup {[r EXCEPT !.status = status]}

----------------------------------------------------------------------------
(* flush_queue: current is the row whose submission is awaited, rest the   *)
(* rows of the batch behind it.  No current row: the coroutine is not      *)
(* running.                                                                *)

Idle == [current |-> {}, rest |-> {}, progressed |-> FALSE, try |-> 0]

flushRequest == {[ev |-> r.ev, try |-> flush.try] : r \in flush.current}
awaited == flushRequest \cup urgent

\* Send the first row of the page and await its response.
Send(page, progressed) ==
    \E r \in page :
        /\ \A s \in page : r.row <= s.row
        /\ flush' = [current |-> {r}, rest |-> page \ {r},
                     progressed |-> progressed, try |-> faults]
        /\ requests' = requests \cup {[ev |-> r.ev, try |-> faults]}

Stop == flush' = Idle /\ UNCHANGED requests

\* The top of the while loop: take the next batch or leave.
NextBatch(q) ==
    IF peek_batch(q) = {} THEN Stop ELSE Send(peek_batch(q), FALSE)

\* The row is settled: go on with the batch, or take the next one.
NextRow(q) ==
    IF flush.rest = {} THEN NextBatch(q) ELSE Send(flush.rest, TRUE)

\* A failure that may pass: stop here, and try again at once only if this
\* batch got somewhere.
Retry == IF flush.progressed THEN NextBatch(queue) ELSE Stop

FlushStart ==
    /\ flush.current = {}
    /\ pending # {}
    /\ NextBatch(queue)
    /\ UNCHANGED <<sequence_state, queue, urgent, returned, responses,
                   serverVars, authorised, natsVars, events, quarantined,
                   faults, corruptions>>

\* One await of flush_queue ends with a response: ack, dead-letter, or stop.
FlushResponse ==
    \E r \in flush.current, resp \in responses :
        /\ resp.req = [ev |-> r.ev, try |-> flush.try]
        /\ responses' = responses \ {resp}
        /\ \/ /\ resp.code = 202
              /\ queue' = mark(r, "ACKNOWLEDGED")
              /\ NextRow(queue')
           \/ /\ resp.code = 400
              /\ queue' = mark(r, "DEAD_LETTER")
              /\ NextRow(queue')
           \/ /\ resp.code \notin {202, 400}
              /\ queue' = queue
              /\ Retry
        /\ UNCHANGED <<sequence_state, urgent, returned, serverVars,
                       authorised, natsVars, events, quarantined, faults,
                       corruptions>>

----------------------------------------------------------------------------
(* Recording an event *)

NewEvent(kind, valid) ==
    [id |-> Cardinality(events) + 1, seq |-> sequence_state + 1,
     kind |-> kind, valid |-> valid]

\* next_sequence commits on its own: a refused enqueue still uses a number.
record_observation(valid) ==
    LET ev == NewEvent("spider.observation", valid) IN
    /\ Cardinality(events) < MaxEvents
    /\ sequence_state' = sequence_state + 1
    /\ events' = events \cup {ev}
    /\ IF full
       THEN UNCHANGED <<queue, returned>>
       ELSE queue' = enqueue(ev) /\ returned' = returned \cup {ev}
    /\ UNCHANGED <<flush, urgent, netVars, serverVars, authorised, natsVars,
                   quarantined, faults, corruptions>>

\* record_tamper and submit_fingerprint_snapshot, up to their await.
submit_now(kind, valid) ==
    LET ev == NewEvent(kind, valid)
        req == [ev |-> ev, try |-> faults] IN
    /\ Cardinality(events) < MaxEvents
    /\ sequence_state' = sequence_state + 1
    /\ events' = events \cup {ev}
    /\ urgent' = urgent \cup {req}
    /\ requests' = requests \cup {req}
    /\ UNCHANGED <<queue, flush, returned, responses, serverVars, authorised,
                   natsVars, quarantined, faults, corruptions>>

\* Mutant: swallow QueueCapacityExceeded.
Fallback_swallowed(ev) ==
    /\ queue' = IF full THEN queue ELSE enqueue(ev)
    /\ returned' = returned \cup {ev}

\* Any exception: the durable queue, unless it is full and enqueue raises.
Fallback(ev) ==
    IF full
    THEN UNCHANGED <<queue, returned>>
    ELSE queue' = enqueue(ev) /\ returned' = returned \cup {ev}

UrgentResponse ==
    \E resp \in responses :
        /\ resp.req \in urgent
        /\ responses' = responses \ {resp}
        /\ urgent' = urgent \ {resp.req}
        /\ \/ /\ resp.code = 202
              /\ returned' = returned \cup {resp.req.ev}
              /\ UNCHANGED queue
           \/ /\ resp.code # 202
              /\ Fallback(resp.req.ev)
        /\ UNCHANGED <<sequence_state, flush, requests, serverVars, authorised,
                       natsVars, events, quarantined, faults, corruptions>>

----------------------------------------------------------------------------
(* mirage-agent-ingestion *)

Reply(req, code) ==
    responses' = IF req \in awaited
                 THEN responses \cup {[req |-> req, code |-> code]}
                 ELSE responses

\* Mutant: no receipt lookup.
Verdict_no_replay(ev) ==
    IF ~authorised THEN 403
    ELSE IF ev.seq <= last_sequence THEN 409
    ELSE IF ~ev.valid THEN 400
    ELSE 0

\* The checks before publishing, in the order of the handler; 0 is "go on".
Verdict(ev) ==
    IF ~authorised THEN 403
    ELSE IF ev \in receipts THEN 202
    ELSE IF (\E e \in receipts : e.seq = ev.seq) \/ ev.seq <= last_sequence THEN 409
    ELSE IF ~ev.valid THEN 400
    ELSE 0

\* JetStream drops a message whose Nats-Msg-Id is still in the window.
publish_event(ev) ==
    IF ev \in window
    THEN UNCHANGED natsVars
    ELSE stream' = Append(stream, ev) /\ window' = window \cup {ev}

\* Mutant: publish before the checks.
SubmitAnswered_publish_first(req) ==
    /\ locked = {}
    /\ Verdict(req.ev) # 0
    /\ requests' = requests \ {req}
    /\ publish_event(req.ev)
    /\ Reply(req, Verdict(req.ev))
    /\ UNCHANGED <<agentVars, serverVars, authorised, events, quarantined,
                   faults, corruptions>>

\* A handler that answers without publishing anything.
SubmitAnswered(req) ==
    /\ locked = {}
    /\ Verdict(req.ev) # 0
    /\ requests' = requests \ {req}
    /\ Reply(req, Verdict(req.ev))
    /\ UNCHANGED <<agentVars, serverVars, authorised, natsVars, events,
                   quarantined, faults, corruptions>>

\* Mutant: answer 202 before the commit.
SubmitPublish_early_reply(req) ==
    /\ locked = {}
    /\ Verdict(req.ev) = 0
    /\ requests' = requests \ {req}
    /\ publish_event(req.ev)
    /\ locked' = {req}
    /\ Reply(req, 202)
    /\ UNCHANGED <<agentVars, receipts, last_sequence, snapshots, authorised,
                   events, quarantined, faults, corruptions>>

\* A handler that publishes; the transaction and the row lock stay open.
SubmitPublish(req) ==
    /\ locked = {}
    /\ Verdict(req.ev) = 0
    /\ requests' = requests \ {req}
    /\ publish_event(req.ev)
    /\ locked' = {req}
    /\ UNCHANGED <<agentVars, responses, receipts, last_sequence, snapshots,
                   authorised, events, quarantined, faults, corruptions>>

\* publish raises, with the message stored or not: rollback and a 500.
SubmitPublishFails(req) ==
    /\ locked = {}
    /\ faults < MaxFaults
    /\ Verdict(req.ev) = 0
    /\ requests' = requests \ {req}
    /\ publish_event(req.ev) \/ UNCHANGED natsVars
    /\ Reply(req, 500)
    /\ faults' = faults + 1
    /\ UNCHANGED <<agentVars, serverVars, authorised, events, quarantined,
                   corruptions>>

\* The rest of the transaction: snapshot cache, receipt, last_sequence.
SubmitCommit(req) ==
    /\ req \in locked
    /\ receipts' = receipts \cup {req.ev}
    /\ last_sequence' = req.ev.seq
    /\ snapshots' = IF req.ev.kind = "spider.fingerprint_snapshot"
                    THEN {req.ev} ELSE snapshots
    /\ locked' = {}
    /\ Reply(req, 202)
    /\ UNCHANGED <<agentVars, requests, authorised, natsVars, events,
                   quarantined, faults, corruptions>>

\* Mutant: the handler reads the agents row without FOR UPDATE.
Revoke_no_lock ==
    /\ authorised
    /\ faults < MaxFaults
    /\ authorised' = FALSE
    /\ faults' = faults + 1
    /\ UNCHANGED <<agentVars, netVars, serverVars, natsVars, events,
                   quarantined, corruptions>>

\* revoke_agent and a later enroll_agent update the agents row, so they wait
\* for a handler that holds it.  last_sequence survives both.
Revoke ==
    /\ authorised
    /\ locked = {}
    /\ faults < MaxFaults
    /\ authorised' = FALSE
    /\ faults' = faults + 1
    /\ UNCHANGED <<agentVars, netVars, serverVars, natsVars, events,
                   quarantined, corruptions>>

\* A new process enrols before it starts flushing.  A request still under way
\* carries the old certificate: a 403 that nobody awaits, so it is dropped.
Reenrol ==
    /\ ~authorised
    /\ locked = {}
    /\ authorised' = TRUE
    /\ flush' = Idle
    /\ urgent' = {}
    /\ requests' = {}
    /\ responses' = {}
    /\ UNCHANGED <<sequence_state, queue, returned, serverVars, natsVars,
                   events, quarantined, faults, corruptions>>

----------------------------------------------------------------------------
(* Failures *)

\* A crash or a dropped connection on the server side: an open transaction
\* is rolled back, what it published stays.
ServerCrash ==
    /\ locked # {}
    /\ faults < MaxFaults
    /\ locked' = {}
    /\ faults' = faults + 1
    /\ UNCHANGED <<agentVars, netVars, receipts, last_sequence, snapshots,
                   authorised, natsVars, events, quarantined, corruptions>>

LoseMessage ==
    /\ faults < MaxFaults
    /\ faults' = faults + 1
    /\ \/ \E req \in requests : requests' = requests \ {req} /\ UNCHANGED responses
       \/ \E resp \in responses : responses' = responses \ {resp} /\ UNCHANGED requests
    /\ UNCHANGED <<agentVars, serverVars, authorised, natsVars, events,
                   quarantined, corruptions>>

\* The client's await ends without a response, because the request or the
\* response is gone, or because the timeout fires while the server is late.
NoResponse(req) ==
    /\ \A resp \in responses : resp.req # req
    /\ IF req \in requests \cup locked
       THEN faults < MaxFaults /\ faults' = faults + 1
       ELSE UNCHANGED faults

\* flush_queue does not catch network errors: the call ends.
FlushNetworkError ==
    /\ \E req \in flushRequest : NoResponse(req)
    /\ flush' = Idle
    /\ UNCHANGED <<sequence_state, queue, urgent, returned, netVars,
                   serverVars, authorised, natsVars, events, quarantined,
                   corruptions>>

UrgentNetworkError ==
    \E req \in urgent :
        /\ NoResponse(req)
        /\ urgent' = urgent \ {req}
        /\ Fallback(req.ev)
        /\ UNCHANGED <<sequence_state, flush, netVars, serverVars, authorised,
                       natsVars, events, quarantined, corruptions>>

\* The agent process dies and is started again.  burnt: it died between
\* next_sequence and enqueue.  A corrupt file is replaced by a fresh one.
AgentRestart(burnt, corrupt) ==
    /\ faults < MaxFaults
    /\ faults' = faults + 1
    /\ flush' = Idle
    /\ urgent' = {}
    /\ responses' = {}
    /\ IF corrupt
       THEN /\ corruptions < MaxCorruptions
            /\ corruptions' = corruptions + 1
            /\ sequence_state' = 0
            /\ queue' = {}
            /\ quarantined' = quarantined \cup {r.ev : r \in queue}
       ELSE /\ sequence_state' = sequence_state + burnt
            /\ UNCHANGED <<queue, quarantined, corruptions>>
    /\ UNCHANGED <<returned, requests, serverVars, authorised, natsVars, events>>

\* duplicate_window passes.
WindowExpires ==
    \E ev \in window :
        /\ window' = window \ {ev}
        /\ UNCHANGED <<agentVars, netVars, serverVars, authorised, stream,
                       events, quarantined, faults, corruptions>>

----------------------------------------------------------------------------
Init ==
    /\ sequence_state = 0
    /\ queue = {}
    /\ flush = Idle
    /\ urgent = {}
    /\ requests = {}
    /\ responses = {}
    /\ locked = {}
    /\ receipts = {}
    /\ last_sequence = 0
    /\ authorised = TRUE
    /\ snapshots = {}
    /\ stream = <<>>
    /\ window = {}
    /\ events = {}
    /\ returned = {}
    /\ quarantined = {}
    /\ faults = 0
    /\ corruptions = 0

Agent ==
    \/ FlushStart
    \/ FlushResponse
    \/ FlushNetworkError
    \/ UrgentResponse
    \/ UrgentNetworkError

Server ==
    \E req \in requests \cup locked :
        \/ req \in requests /\ SubmitAnswered(req)
        \/ req \in requests /\ SubmitPublish(req)
        \/ SubmitCommit(req)

Produce ==
    \E valid \in BOOLEAN :
        \/ record_observation(valid)
        \/ \E kind \in UrgentKinds : submit_now(kind, valid)

Fault ==
    \/ \E req \in requests : SubmitPublishFails(req)
    \/ ServerCrash
    \/ LoseMessage
    \/ \E burnt \in {0, 1}, corrupt \in BOOLEAN : AgentRestart(burnt, corrupt)
    \/ WindowExpires
    \/ Revoke

Next == Produce \/ Agent \/ Server \/ Reenrol \/ Fault

Spec == Init /\ [][Next]_vars

\* The service loop keeps calling flush_queue, an await ends, and a request
\* that reached the server is handled.  Nothing makes an operator enrol a
\* revoked agent again, and nothing makes the network lose a message.
Fairness ==
    /\ WF_vars(FlushStart)
    /\ WF_vars(FlushResponse)
    /\ WF_vars(FlushNetworkError)
    /\ WF_vars(UrgentResponse)
    /\ WF_vars(UrgentNetworkError)
    /\ WF_vars(Server)

FairSpec == Spec /\ Fairness

\* An agent that has nothing urgent to report: everything goes through the
\* queue.
RoutineNext ==
    \/ \E valid \in BOOLEAN : record_observation(valid)
    \/ FlushStart
    \/ FlushResponse
    \/ FlushNetworkError
    \/ Server
    \/ Reenrol
    \/ Fault

RoutineSpec == Init /\ [][RoutineNext]_vars /\ Fairness

----------------------------------------------------------------------------
(* Properties *)

\* Type invariant of every table, file and in-flight message.
TypeOK ==
    /\ sequence_state \in Nat
    /\ queue \subseteq Row
    /\ flush \in [current : SUBSET Row, rest : SUBSET Row,
                 progressed : BOOLEAN, try : Nat]
    /\ urgent \subseteq Request
    /\ requests \subseteq Request
    /\ responses \subseteq Response
    /\ locked \subseteq Request
    /\ receipts \subseteq Event
    /\ last_sequence \in Nat
    /\ authorised \in BOOLEAN
    /\ snapshots \subseteq Event
    /\ stream \in Seq(Event)
    /\ window \subseteq Event
    /\ events \subseteq Event
    /\ returned \subseteq Event
    /\ quarantined \subseteq Event
    /\ faults \in Nat
    /\ corruptions \in Nat

published == {stream[i] : i \in DOMAIN stream}

\* An event the agent believes delivered is delivered: a row that flush_queue
\* acknowledged has a committed receipt for that very event, and the event is
\* on the stream.  The row is acked from a response, so a reply sent before
\* the commit, or for another event, would break it.
AckedIsDurable ==
    \A r \in queue :
        r.status = "ACKNOWLEDGED" => r.ev \in receipts /\ r.ev \in published

\* No silent loss: once record_observation, record_tamper or
\* submit_fingerprint_snapshot returned, the event is accepted by the server,
\* still a row of the queue file (dead letters included), or in a quarantined
\* file, whatever crashed in between.
NothingLost ==
    \A ev \in returned :
        \/ ev \in receipts
        \/ \E r \in queue : r.ev = ev
        \/ ev \in quarantined

\* Only an event the server rejects for what it is gets dead-lettered: the
\* agent never gives up on a valid event.
DeadLettersAreInvalid ==
    \A r \in queue : r.status = "DEAD_LETTER" => ~r.ev.valid

\* The fingerprint gate's cache holds the newest accepted snapshot: late,
\* resent and replayed submissions never put an older observation back.
SnapshotIsNewest ==
    \A ev \in receipts :
        ev.kind = "spider.fingerprint_snapshot" =>
            \E s \in snapshots : ev.seq <= s.seq

\* "Events arrive ordered": the server accepts an event only when its
\* sequence number is above that of everything accepted before.
AcceptedInOrder ==
    [][\A ev \in receipts' \ receipts : \A old \in receipts : old.seq < ev.seq]_vars

\* A replay has no second effect: an event with a receipt is never stored on
\* the stream again, even after the deduplication window has passed.
NoEffectAfterReceipt ==
    [][\A i \in DOMAIN stream' \ DOMAIN stream : stream'[i] \notin receipts]_vars

\* A revoked agent gets nothing accepted: the row lock keeps a revocation
\* from landing between the status check and the commit.
AcceptedOnlyIfAuthorised ==
    [][receipts' # receipts => authorised]_vars

\* What ties the five places together, and makes the properties above
\* inductive: a 202 on its way stands for a receipt and a 400 for an invalid
\* event; the open handler's event is published, in order and not accepted
\* yet; receipts and the deduplication window only know published events.
DeliveryInv ==
    /\ \A resp \in responses :
          /\ resp.code = 202 => resp.req.ev \in receipts
          /\ resp.code = 400 => ~resp.req.ev.valid
    /\ \A req \in locked :
          /\ locked = {req}
          /\ authorised
          /\ req.ev \in published
          /\ req.ev \notin receipts
          /\ last_sequence < req.ev.seq
    /\ \A ev \in receipts : ev.seq <= last_sequence
    /\ receipts \cup window \subseteq published

confirmed == {r.ev : r \in {q \in queue : q.status = "ACKNOWLEDGED"}}

Log == INSTANCE TelemetryLog WITH emitted <- published, log <- receipts

\* The queue, the retries and the replies together implement the telemetry
\* log: an event is emitted, accepted in order, and only then confirmed.
ImplementsLog == Log!Spec

\* Every queued row is eventually delivered or dead-lettered, if the agent
\* does not stay revoked: no rejection blocks the head of the queue for good.
QueueDrains ==
    <>[]authorised =>
        \A n \in 1..MaxEvents :
            (\E r \in pending : r.row = n) ~> ~(\E r \in pending : r.row = n)

============================================================================
