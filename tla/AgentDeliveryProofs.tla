------------------------ MODULE AgentDeliveryProofs ------------------------
(***************************************************************************)
(* Proofs about AgentDelivery for every queue capacity, batch size and     *)
(* number of events and faults, and about DashboardProjection for every    *)
(* number of events, transactions and updates.                             *)
(***************************************************************************)
EXTENDS AgentDelivery, DashboardProjection, CommonLemmas, TLAPS

\* Most steps are first-order; those with arithmetic cite SMT.
USE Zenon

\* Row numbers and event identities are counted, so the counted sets have to
\* be finite.
TypeInv == TypeOK /\ IsFiniteSet(queue) /\ IsFiniteSet(events)

----------------------------------------------------------------------------
(* Typing of the operators the actions are built from. *)

\* A new row is well typed and enqueue adds just that row.
LEMMA EnqueueType ==
    ASSUME TypeInv, NEW ev \in Event
    PROVE  enqueue(ev) \subseteq Row /\ IsFiniteSet(enqueue(ev))
<1>1. Cardinality(queue) \in Nat
  BY FS_CardinalityType DEF TypeInv
<1>2. [row |-> Cardinality(queue) + 1, ev |-> ev, status |-> "PENDING"] \in Row
  BY <1>1, SMT DEF Row
<1>3. IsFiniteSet(enqueue(ev))
  BY FS_AddElement DEF TypeInv, enqueue
<1> QED
  BY <1>2, <1>3 DEF TypeInv, TypeOK, enqueue

\* Acknowledging or dead-lettering a row keeps the file well typed.
LEMMA MarkType ==
    ASSUME TypeInv, NEW r \in Row,
           NEW status \in {"PENDING", "ACKNOWLEDGED", "DEAD_LETTER"}
    PROVE  mark(r, status) \subseteq Row /\ IsFiniteSet(mark(r, status))
<1>1. [r EXCEPT !.status = status] \in Row
  BY DEF Row
<1>2. IsFiniteSet(mark(r, status))
  BY FS_RemoveElement, FS_AddElement DEF TypeInv, mark
<1> QED
  BY <1>1, <1>2 DEF TypeInv, TypeOK, mark

\* build_event makes a well-typed event.
LEMMA NewEventType ==
    ASSUME TypeInv, NEW kind \in Kinds, NEW valid \in BOOLEAN
    PROVE  NewEvent(kind, valid) \in Event
<1>1. Cardinality(events) \in Nat
  BY FS_CardinalityType DEF TypeInv
<1> QED
  BY <1>1, SMT DEF TypeInv, TypeOK, NewEvent, Event

\* Sending a page of rows types the coroutine state and the request.
LEMMA SendType ==
    ASSUME TypeInv, NEW page \in SUBSET Row, NEW progressed \in BOOLEAN,
           Send(page, progressed)
    PROVE  /\ flush' \in [current : SUBSET Row, rest : SUBSET Row,
                          progressed : BOOLEAN, try : Nat]
           /\ requests' \subseteq Request
BY SMT DEF TypeInv, TypeOK, Send, Row, Request

\* Stopping types the coroutine state too.
LEMMA StopType ==
    ASSUME TypeInv, Stop
    PROVE  /\ flush' \in [current : SUBSET Row, rest : SUBSET Row,
                          progressed : BOOLEAN, try : Nat]
           /\ requests' \subseteq Request
BY DEF TypeInv, TypeOK, Stop, Idle

\* The head of the while loop and the step to the next row are built from
\* Send and Stop.
LEMMA LoopType ==
    ASSUME TypeInv, NEW q \in SUBSET Row,
           NextBatch(q) \/ NextRow(q)
    PROVE  /\ flush' \in [current : SUBSET Row, rest : SUBSET Row,
                          progressed : BOOLEAN, try : Nat]
           /\ requests' \subseteq Request
<1>1. peek_batch(q) \in SUBSET Row
  BY DEF peek_batch
<1>2. flush.rest \in SUBSET Row
  BY DEF TypeInv, TypeOK
<1> QED
  BY <1>1, <1>2, SendType, StopType DEF NextBatch, NextRow

\* Publishing keeps the stream a sequence of events.
LEMMA PublishType ==
    ASSUME TypeInv, NEW ev \in Event, publish_event(ev)
    PROVE  stream' \in Seq(Event) /\ window' \subseteq Event
BY SMT DEF TypeInv, TypeOK, publish_event, natsVars

----------------------------------------------------------------------------
(* The type invariant *)

\* The agent's side of a flush round trip keeps the types.
LEMMA FlushTyping ==
    ASSUME TypeInv, FlushStart \/ FlushResponse \/ FlushNetworkError
    PROVE  TypeInv'
<1>1. CASE FlushStart
  <2>1. queue \in SUBSET Row
    BY DEF TypeInv, TypeOK
  <2> QED
    BY <1>1, <2>1, LoopType
    DEF FlushStart, TypeInv, TypeOK, serverVars, natsVars
<1>2. CASE FlushResponse
  <2>1. PICK r \in flush.current, resp \in responses :
           /\ responses' = responses \ {resp}
           /\ \/ /\ \/ queue' = mark(r, "ACKNOWLEDGED")
                    \/ queue' = mark(r, "DEAD_LETTER")
                 /\ NextRow(queue')
              \/ queue' = queue /\ Retry
    BY <1>2, SMT DEF FlushResponse
  <2>2. r \in Row
    BY DEF TypeInv, TypeOK
  <2>3. queue' \in SUBSET Row /\ IsFiniteSet(queue')
    BY <2>1, <2>2, MarkType DEF TypeInv, TypeOK
  <2>4. /\ flush' \in [current : SUBSET Row, rest : SUBSET Row,
                       progressed : BOOLEAN, try : Nat]
        /\ requests' \subseteq Request
    BY <2>1, <2>3, LoopType, StopType DEF Retry
  <2> QED
    BY <1>2, <2>1, <2>3, <2>4, SMT
    DEF FlushResponse, TypeInv, TypeOK, serverVars, natsVars
<1>3. CASE FlushNetworkError
  BY <1>3, SMT DEF FlushNetworkError, NoResponse, Idle, TypeInv, TypeOK, netVars,
              serverVars, natsVars
<1> QED
  BY <1>1, <1>2, <1>3

\* Recording an event and ending an immediate submission keep the types.
LEMMA RecordTyping ==
    ASSUME TypeInv,
           Produce \/ UrgentResponse \/ UrgentNetworkError
    PROVE  TypeInv'
<1>1. ASSUME NEW valid \in BOOLEAN, record_observation(valid)
      PROVE  TypeInv'
  <2>1. NewEvent("spider.observation", valid) \in Event
    BY NewEventType DEF Kinds
  <2>2. events' \subseteq Event /\ IsFiniteSet(events')
    BY <1>1, <2>1, FS_AddElement DEF record_observation, TypeInv, TypeOK
  <2>3. queue' \subseteq Row /\ IsFiniteSet(queue') /\ returned' \subseteq Event
    BY <1>1, <2>1, EnqueueType DEF record_observation, TypeInv, TypeOK
  <2> QED
    BY <1>1, <2>2, <2>3, SMT
    DEF record_observation, TypeInv, TypeOK, netVars, serverVars, natsVars
<1>2. ASSUME NEW valid \in BOOLEAN, NEW kind \in UrgentKinds,
             submit_now(kind, valid)
      PROVE  TypeInv'
  <2>1. NewEvent(kind, valid) \in Event
    BY NewEventType, BoundsAssumption DEF Kinds
  <2>2. events' \subseteq Event /\ IsFiniteSet(events')
    BY <1>2, <2>1, FS_AddElement DEF submit_now, TypeInv, TypeOK
  <2>3. [ev |-> NewEvent(kind, valid), try |-> faults] \in Request
    BY <2>1 DEF Request, TypeInv, TypeOK
  <2> QED
    BY <1>2, <2>2, <2>3, SMT
    DEF submit_now, TypeInv, TypeOK, serverVars, natsVars
<1>3. ASSUME NEW req \in urgent, Fallback(req.ev)
      PROVE  queue' \subseteq Row /\ IsFiniteSet(queue') /\ returned' \subseteq Event
  <2>1. req.ev \in Event
    BY DEF TypeInv, TypeOK, Request
  <2> QED
    BY <1>3, <2>1, EnqueueType DEF Fallback, TypeInv, TypeOK
<1>4. CASE UrgentResponse
  <2>1. PICK resp \in responses :
           /\ resp.req \in urgent
           /\ responses' = responses \ {resp}
           /\ urgent' = urgent \ {resp.req}
           /\ \/ returned' = returned \cup {resp.req.ev} /\ UNCHANGED queue
              \/ Fallback(resp.req.ev)
    BY <1>4, SMT DEF UrgentResponse
  <2>2. resp.req.ev \in Event
    BY <2>1 DEF TypeInv, TypeOK, Request
  <2>3. queue' \subseteq Row /\ IsFiniteSet(queue') /\ returned' \subseteq Event
    BY <2>1, <2>2, <1>3 DEF TypeInv, TypeOK
  <2> QED
    BY <1>4, <2>1, <2>3, SMT DEF UrgentResponse, TypeInv, TypeOK, serverVars, natsVars
<1>5. CASE UrgentNetworkError
  <2>1. PICK req \in urgent :
           NoResponse(req) /\ urgent' = urgent \ {req} /\ Fallback(req.ev)
    BY <1>5 DEF UrgentNetworkError
  <2>2. queue' \subseteq Row /\ IsFiniteSet(queue') /\ returned' \subseteq Event
    BY <2>1, <1>3
  <2> QED
    BY <1>5, <2>1, <2>2, SMT
    DEF UrgentNetworkError, NoResponse, TypeInv, TypeOK, netVars, serverVars, natsVars
<1> QED
  BY <1>1, <1>2, <1>4, <1>5 DEF Produce

\* Handling a request keeps the types.
LEMMA ServerTyping ==
    ASSUME TypeInv,
           Server \/ \E req \in requests : SubmitPublishFails(req)
    PROVE  TypeInv'
<1>1. ASSUME NEW req \in Request, NEW code \in {202, 400, 403, 409, 500},
             Reply(req, code)
      PROVE  responses' \subseteq Response
  BY <1>1, SMT DEF Reply, Response, TypeInv, TypeOK
<1>2. \A req \in requests \cup locked : req \in Request /\ req.ev \in Event
  BY DEF TypeInv, TypeOK, Request
<1>3. ASSUME NEW req \in requests, SubmitAnswered(req)
      PROVE  TypeInv'
  <2>1. Verdict(req.ev) \in {202, 400, 403, 409, 500}
    BY <1>3, SMT DEF SubmitAnswered, Verdict
  <2> QED
    BY <1>1, <1>2, <1>3, <2>1, SMT
    DEF SubmitAnswered, TypeInv, TypeOK, agentVars, serverVars, natsVars
<1>4. ASSUME NEW req \in requests, SubmitPublish(req)
      PROVE  TypeInv'
  <2>1. stream' \in Seq(Event) /\ window' \subseteq Event
    BY <1>2, <1>4, PublishType DEF SubmitPublish
  <2> QED
    BY <1>2, <1>4, <2>1 DEF SubmitPublish, TypeInv, TypeOK, agentVars
<1>5. ASSUME NEW req \in locked, SubmitCommit(req)
      PROVE  TypeInv'
  <2>1. req.ev.seq \in Nat
    BY <1>2 DEF Event
  <2> QED
    BY <1>1, <1>2, <1>5, <2>1, SMT DEF SubmitCommit, TypeInv, TypeOK, agentVars, natsVars
<1>6. ASSUME NEW req \in requests, SubmitPublishFails(req)
      PROVE  TypeInv'
  <2>1. stream' \in Seq(Event) /\ window' \subseteq Event
    BY <1>2, <1>6, PublishType, SMT DEF SubmitPublishFails, natsVars, TypeInv, TypeOK
  <2> QED
    BY <1>1, <1>2, <1>6, <2>1, SMT DEF SubmitPublishFails, TypeInv, TypeOK, agentVars, serverVars
<1> QED
  BY <1>3, <1>4, <1>5, <1>6 DEF Server, SubmitCommit

\* Crashes, lost messages, revocation and re-enrolment keep the types.
LEMMA FaultTyping ==
    ASSUME TypeInv,
           \/ ServerCrash \/ LoseMessage \/ WindowExpires \/ Revoke \/ Reenrol
           \/ \E burnt \in {0, 1}, corrupt \in BOOLEAN : AgentRestart(burnt, corrupt)
    PROVE  TypeInv'
<1>1. CASE ServerCrash
  BY <1>1, SMT DEF ServerCrash, TypeInv, TypeOK, agentVars, netVars, natsVars
<1>2. CASE LoseMessage
  BY <1>2, SMT DEF LoseMessage, TypeInv, TypeOK, agentVars, serverVars, natsVars
<1>3. CASE WindowExpires
  BY <1>3 DEF WindowExpires, TypeInv, TypeOK, agentVars, netVars, serverVars
<1>4. CASE Revoke
  <2>1. authorised' \in BOOLEAN
    BY <1>4 DEF Revoke
  <2>2. UNCHANGED <<agentVars, netVars, serverVars, natsVars, events,
                    quarantined, corruptions>>
    BY <1>4 DEF Revoke
  <2>3. faults' \in Nat
    <3>1. faults' = faults + 1
      BY <1>4 DEF Revoke
    <3> QED
      BY <3>1, SMT DEF TypeInv, TypeOK
  <2> QED
    BY <2>1, <2>2, <2>3 DEF TypeInv, TypeOK, agentVars, netVars, serverVars, natsVars
<1>5. CASE Reenrol
  <2>1. flush' = Idle /\ urgent' = {} /\ requests' = {} /\ responses' = {}
    BY <1>5 DEF Reenrol
  <2>2. authorised' \in BOOLEAN
    BY <1>5 DEF Reenrol
  <2>3. UNCHANGED <<sequence_state, queue, returned, locked, receipts,
                    last_sequence, snapshots, stream, window, events,
                    quarantined, faults, corruptions>>
    BY <1>5 DEF Reenrol, serverVars, natsVars
  <2> QED
    BY <2>1, <2>2, <2>3 DEF TypeInv, TypeOK, Idle
<1>6. ASSUME NEW burnt \in {0, 1}, NEW corrupt \in BOOLEAN,
             AgentRestart(burnt, corrupt)
      PROVE  TypeInv'
  <2>1. {r.ev : r \in queue} \subseteq Event
    BY DEF TypeInv, TypeOK, Row
  <2>2. CASE corrupt
    <3>1. queue' = {} /\ sequence_state' = 0 /\ corruptions' = corruptions + 1
      BY <1>6, <2>2 DEF AgentRestart
    <3>2. quarantined' \subseteq Event
      BY <1>6, <2>1, <2>2 DEF AgentRestart, TypeInv, TypeOK
    <3>3. IsFiniteSet(queue')
      BY <3>1, FS_EmptySet
    <3> QED
      BY <1>6, <3>1, <3>2, <3>3, SMT
      DEF AgentRestart, Idle, TypeInv, TypeOK, serverVars, natsVars
  <2>3. CASE ~corrupt
    BY <1>6, <2>3, SMT DEF AgentRestart, Idle, TypeInv, TypeOK, serverVars, natsVars
  <2> QED
    BY <2>2, <2>3
<1> QED
  BY <1>1, <1>2, <1>3, <1>4, <1>5, <1>6

\* Every step keeps the types.
LEMMA TypeStep ==
    ASSUME TypeInv, [Next]_vars
    PROVE  TypeInv'
<1>1. CASE Produce
  BY <1>1, RecordTyping
<1>2. CASE Agent
  BY <1>2, FlushTyping, RecordTyping DEF Agent
<1>3. CASE Server
  BY <1>3, ServerTyping
<1>4. CASE Reenrol \/ Fault
  BY <1>4, ServerTyping, FaultTyping DEF Fault
<1>5. CASE UNCHANGED vars
  BY <1>5 DEF vars, agentVars, netVars, serverVars, natsVars, TypeInv, TypeOK
<1> QED
  BY <1>1, <1>2, <1>3, <1>4, <1>5 DEF Next

\* Initially every table, file and channel is empty.
LEMMA TypeInit == Init => TypeInv
BY FS_EmptySet, SMT DEF Init, Idle, TypeInv, TypeOK

\* The variables keep their types in every reachable state: queue rows,
\* requests, responses, receipts and the stream, through every crash.
THEOREM Typing == Spec => []TypeOK
<1>1. TypeInv /\ [Next]_vars => TypeInv'
  BY TypeStep
<1>2. TypeInv => TypeOK
  BY DEF TypeInv
<1> QED
  BY TypeInit, <1>1, <1>2, PTL DEF Spec

----------------------------------------------------------------------------
(* The safety invariants *)

Inv ==
    /\ TypeInv
    /\ DeliveryInv
    /\ AckedIsDurable
    /\ NothingLost
    /\ DeadLettersAreInvalid
    /\ SnapshotIsNewest

\* Publishing an event makes it visible and hides nothing.
LEMMA PublishGrows ==
    ASSUME TypeInv, NEW ev \in Event, publish_event(ev),
           window \subseteq published
    PROVE  /\ published' = published \cup {ev}
           /\ window' \subseteq published'
<1>1. CASE ev \in window
  BY <1>1 DEF publish_event, natsVars, published
<1>2. CASE ev \notin window
  <2>1. stream \in Seq(Event) /\ stream' = Append(stream, ev)
    BY <1>2 DEF publish_event, TypeInv, TypeOK
  <2>2. /\ Len(stream') = Len(stream) + 1
        /\ stream'[Len(stream) + 1] = ev
        /\ \A i \in 1..Len(stream) : stream'[i] = stream[i]
        /\ Len(stream) \in Nat
        /\ DOMAIN stream = 1..Len(stream)
        /\ DOMAIN stream' = 1..(Len(stream) + 1)
    BY <2>1, SMT
  <2>3. published' = published \cup {ev}
    BY <2>2, SMT DEF published
  <2> QED
    BY <1>2, <2>3 DEF publish_event
<1> QED
  BY <1>1, <1>2

\* A step that leaves the server, the stream, the queue and the history
\* alone, and adds no response, keeps the invariants.
LEMMA QuietStep ==
    ASSUME Inv, TypeInv', responses' \subseteq responses,
           UNCHANGED <<queue, returned, quarantined, locked, receipts,
                       last_sequence, snapshots, authorised, stream>>,
           window' \subseteq window
    PROVE  Inv'
<1>1. published' = published
  BY DEF published
<1>2. DeliveryInv'
  BY <1>1, SMT DEF Inv, DeliveryInv
<1> QED
  BY <1>1, <1>2 DEF Inv, AckedIsDurable, NothingLost, DeadLettersAreInvalid,
                    SnapshotIsNewest

\* enqueue adds a PENDING row for its event and keeps the others.
LEMMA EnqueueKeeps ==
    ASSUME Inv, TypeInv', NEW ev \in Event, queue' = enqueue(ev),
           returned' \subseteq returned \cup {ev},
           responses' \subseteq responses,
           UNCHANGED <<quarantined, locked, receipts, last_sequence,
                       snapshots, authorised, stream, window>>
    PROVE  Inv'
<1>1. published' = published
  BY DEF published
<1>2. DeliveryInv'
  BY <1>1, SMT DEF Inv, DeliveryInv
<1>3. \A r \in queue' : r \in queue \/ (r.status = "PENDING" /\ r.ev = ev)
  BY SMT DEF enqueue
<1>4. queue \subseteq queue' /\ \E r \in queue' : r.ev = ev
  <2> DEFINE n == [row |-> Cardinality(queue) + 1, ev |-> ev, status |-> "PENDING"]
  <2>1. queue' = queue \cup {n}
    BY DEF enqueue
  <2>2. n.ev = ev
    OBVIOUS
  <2> HIDE DEF n
  <2> QED
    BY <2>1, <2>2
<1>5. NothingLost'
  BY <1>4 DEF Inv, NothingLost
<1>6. AckedIsDurable' /\ DeadLettersAreInvalid'
  BY <1>1, <1>3 DEF Inv, AckedIsDurable, DeadLettersAreInvalid
<1>7. SnapshotIsNewest'
  BY DEF Inv, SnapshotIsNewest
<1> QED
  BY <1>2, <1>5, <1>6, <1>7 DEF Inv


\* Settling a row of the queue changes its status and nothing else.
LEMMA MarkKeeps ==
    ASSUME Inv, TypeInv', NEW r \in Row, NEW status \in {"ACKNOWLEDGED", "DEAD_LETTER"},
           queue' = mark(r, status),
           status = "ACKNOWLEDGED" => r.ev \in receipts,
           status = "DEAD_LETTER" => ~r.ev.valid,
           responses' \subseteq responses,
           UNCHANGED <<returned, quarantined, locked, receipts, last_sequence,
                       snapshots, authorised, stream, window>>
    PROVE  Inv'
<1> DEFINE n == [r EXCEPT !.status = status]
<1>1. published' = published
  BY DEF published
<1>2. DeliveryInv'
  BY <1>1, SMT DEF Inv, DeliveryInv
<1>3. n.ev = r.ev /\ n.status = status
  BY DEF Row
<1>4. queue' = (queue \ {r}) \cup {n}
  BY DEF mark
<1> HIDE DEF n
<1>5. NothingLost'
  BY <1>3, <1>4 DEF Inv, NothingLost
<1>6. AckedIsDurable'
  BY <1>1, <1>3, <1>4 DEF Inv, AckedIsDurable, DeliveryInv
<1>7. DeadLettersAreInvalid'
  BY <1>3, <1>4 DEF Inv, DeadLettersAreInvalid
<1>8. SnapshotIsNewest'
  BY DEF Inv, SnapshotIsNewest
<1> QED
  BY <1>2, <1>5, <1>6, <1>7, <1>8 DEF Inv

\* A reply that tells the truth keeps what DeliveryInv says of responses.
LEMMA ReplyKeeps ==
    ASSUME Inv, NEW req \in Request, NEW code, Reply(req, code),
           receipts \subseteq receipts',
           code = 202 => req.ev \in receipts',
           code = 400 => ~req.ev.valid
    PROVE  \A resp \in responses' :
              /\ resp.code = 202 => resp.req.ev \in receipts'
              /\ resp.code = 400 => ~resp.req.ev.valid
<1>1. \A resp \in responses' :
         resp \in responses \/ (resp.req = req /\ resp.code = code)
  BY SMT DEF Reply
<1> QED
  BY <1>1, SMT DEF Inv, DeliveryInv


\* The agent's steps keep the invariants.
LEMMA AgentStep ==
    ASSUME Inv, TypeInv', Agent \/ Produce
    PROVE  Inv'
<1>1. CASE FlushStart \/ FlushNetworkError
  BY <1>1, QuietStep
  DEF FlushStart, FlushNetworkError, netVars, serverVars, natsVars
<1>2. CASE FlushResponse
  <2>1. PICK r \in flush.current, resp \in responses :
           /\ resp.req = [ev |-> r.ev, try |-> flush.try]
           /\ responses' = responses \ {resp}
           /\ \/ resp.code = 202 /\ queue' = mark(r, "ACKNOWLEDGED")
              \/ resp.code = 400 /\ queue' = mark(r, "DEAD_LETTER")
              \/ queue' = queue
    BY <1>2, SMT DEF FlushResponse
  <2>2. UNCHANGED <<returned, quarantined, locked, receipts, last_sequence,
                    snapshots, authorised, stream, window>>
    BY <1>2, SMT DEF FlushResponse, serverVars, natsVars
  <2>3. r \in Row /\ resp.req.ev = r.ev
    BY <2>1, SMT DEF Inv, TypeInv, TypeOK
  <2>4. CASE resp.code = 202 /\ queue' = mark(r, "ACKNOWLEDGED")
    <3>1. r.ev \in receipts
      BY <2>3, <2>4, SMT DEF Inv, DeliveryInv
    <3> QED
      BY <2>1, <2>2, <2>3, <2>4, <3>1, MarkKeeps
  <2>5. CASE resp.code = 400 /\ queue' = mark(r, "DEAD_LETTER")
    <3>1. ~r.ev.valid
      BY <2>3, <2>5, SMT DEF Inv, DeliveryInv
    <3> QED
      BY <2>1, <2>2, <2>3, <2>5, <3>1, MarkKeeps, SMT
  <2>6. CASE queue' = queue
    BY <2>1, <2>2, <2>6, QuietStep
  <2> QED
    BY <2>1, <2>4, <2>5, <2>6, SMT
<1>3. ASSUME NEW req \in urgent, Fallback(req.ev), responses' \subseteq responses,
             UNCHANGED <<quarantined, locked, receipts, last_sequence,
                         snapshots, authorised, stream, window>>
      PROVE  Inv'
  <2>1. req.ev \in Event
    BY DEF Inv, TypeInv, TypeOK, Request
  <2>2. CASE full
    BY <1>3, <2>2, QuietStep DEF Fallback
  <2>3. CASE ~full
    BY <1>3, <2>1, <2>3, EnqueueKeeps DEF Fallback
  <2> QED
    BY <2>2, <2>3
<1>4. CASE UrgentResponse
  <2>1. PICK resp \in responses :
           /\ resp.req \in urgent
           /\ responses' = responses \ {resp}
           /\ \/ /\ resp.code = 202
                 /\ returned' = returned \cup {resp.req.ev}
                 /\ queue' = queue
              \/ Fallback(resp.req.ev)
    BY <1>4, SMT DEF UrgentResponse
  <2>2. UNCHANGED <<quarantined, locked, receipts, last_sequence, snapshots,
                    authorised, stream, window>>
    BY <1>4 DEF UrgentResponse, serverVars, natsVars
  <2>3. CASE /\ resp.code = 202
             /\ returned' = returned \cup {resp.req.ev}
             /\ queue' = queue
    <3>1. published' = published
      BY <2>2 DEF published
    <3>2. resp.req.ev \in receipts
      BY <2>3, SMT DEF Inv, DeliveryInv
    <3>3. DeliveryInv'
      BY <2>1, <2>2, <3>1, SMT DEF Inv, DeliveryInv
    <3>4. NothingLost'
      BY <2>2, <2>3, <3>2, SMT DEF Inv, NothingLost
    <3>5. AckedIsDurable' /\ DeadLettersAreInvalid' /\ SnapshotIsNewest'
      BY <2>2, <2>3, <3>1, SMT
      DEF Inv, AckedIsDurable, DeadLettersAreInvalid, SnapshotIsNewest
    <3> QED
      BY <3>3, <3>4, <3>5 DEF Inv
  <2> QED
    BY <2>1, <2>2, <2>3, <1>3
<1>5. CASE UrgentNetworkError
  BY <1>3, <1>5 DEF UrgentNetworkError, netVars, serverVars, natsVars
<1>6. ASSUME NEW valid \in BOOLEAN, record_observation(valid)
      PROVE  Inv'
  <2>1. NewEvent("spider.observation", valid) \in Event
    BY NewEventType DEF Kinds, Inv
  <2>2. CASE full
    BY <1>6, <2>2, QuietStep DEF record_observation, netVars, serverVars, natsVars
  <2>3. CASE ~full
    BY <1>6, <2>1, <2>3, EnqueueKeeps
    DEF record_observation, netVars, serverVars, natsVars
  <2> QED
    BY <2>2, <2>3
<1>7. ASSUME NEW valid \in BOOLEAN, NEW kind \in UrgentKinds,
             submit_now(kind, valid)
      PROVE  Inv'
  BY <1>7, QuietStep DEF submit_now, serverVars, natsVars
<1> QED
  BY <1>1, <1>2, <1>4, <1>5, <1>6, <1>7 DEF Agent, Produce


\* An event that passes every check of submit_event is authorised, new, above
\* the last accepted one, and valid.
LEMMA VerdictGoesOn ==
    ASSUME NEW ev, Verdict(ev) = 0
    PROVE  /\ authorised
           /\ ev \notin receipts
           /\ ~(ev.seq <= last_sequence)
           /\ ev.valid
<1>1. authorised
  BY SMT DEF Verdict
<1>2. ev \notin receipts
  BY <1>1, SMT DEF Verdict
<1>3. ~((\E e \in receipts : e.seq = ev.seq) \/ ev.seq <= last_sequence)
  BY <1>1, <1>2, SMT DEF Verdict
<1>4. ev.valid
  BY <1>1, <1>2, <1>3, SMT DEF Verdict
<1> QED
  BY <1>1, <1>2, <1>3, <1>4

\* The ingestion handler's steps keep the invariants.
LEMMA ServerStep ==
    ASSUME Inv, TypeInv', NEW req \in Request,
           \/ SubmitAnswered(req)
           \/ SubmitPublish(req)
           \/ SubmitPublishFails(req)
           \/ SubmitCommit(req)
    PROVE  Inv'
<1>1. req.ev \in Event
  BY DEF Request
<1>2. CASE SubmitAnswered(req)
  <2>1. UNCHANGED <<queue, returned, quarantined, locked, receipts,
                    last_sequence, snapshots, authorised, stream, window>>
    BY <1>2 DEF SubmitAnswered, agentVars, serverVars, natsVars
  <2>2. published' = published
    BY <2>1 DEF published
  <2>3. /\ Verdict(req.ev) = 202 => req.ev \in receipts
        /\ Verdict(req.ev) = 400 => ~req.ev.valid
    BY SMT DEF Verdict
  <2>4. \A resp \in responses' :
           /\ resp.code = 202 => resp.req.ev \in receipts'
           /\ resp.code = 400 => ~resp.req.ev.valid
    <3>1. Reply(req, Verdict(req.ev))
      BY <1>2 DEF SubmitAnswered
    <3>2. receipts \subseteq receipts' /\ receipts' = receipts
      BY <2>1
    <3> QED
      BY <2>3, <3>1, <3>2, ReplyKeeps, SMT
  <2>5. DeliveryInv'
    BY <2>1, <2>2, <2>4 DEF Inv, DeliveryInv
  <2> QED
    BY <2>1, <2>2, <2>5 DEF Inv, AckedIsDurable, NothingLost,
                            DeadLettersAreInvalid, SnapshotIsNewest
<1>3. ASSUME publish_event(req.ev),
             Verdict(req.ev) = 0,
             locked' = {} \/ locked' = {req},
             UNCHANGED <<queue, returned, quarantined, receipts,
                         last_sequence, snapshots, authorised>>,
             \A resp \in responses' :
                /\ resp.code = 202 => resp.req.ev \in receipts'
                /\ resp.code = 400 => ~resp.req.ev.valid
      PROVE  Inv'
  <2>1. /\ published' = published \cup {req.ev}
        /\ window' \subseteq published'
    BY <1>1, <1>3, PublishGrows DEF Inv, DeliveryInv
  <2>2. authorised /\ req.ev \notin receipts
    BY <1>3, VerdictGoesOn
  <2>3. last_sequence < req.ev.seq
    <3>1. ~(req.ev.seq <= last_sequence)
      BY <1>3, VerdictGoesOn
    <3>2. last_sequence \in Nat
      BY DEF Inv, TypeInv, TypeOK
    <3>3. req.ev.seq \in Nat
      BY <1>1 DEF Event
    <3> QED
      BY <3>1, <3>2, <3>3, SMT
  <2>4. \A q \in locked' : /\ locked' = {q}
                           /\ authorised'
                           /\ q.ev \in published'
                           /\ q.ev \notin receipts'
                           /\ last_sequence' < q.ev.seq
    BY <1>3, <2>1, <2>2, <2>3
  <2>5. \A ev \in receipts' : ev.seq <= last_sequence'
    BY <1>3 DEF Inv, DeliveryInv
  <2>6. receipts' \cup window' \subseteq published'
    BY <1>3, <2>1 DEF Inv, DeliveryInv
  <2>7. DeliveryInv'
    BY <1>3, <2>4, <2>5, <2>6 DEF DeliveryInv
  <2>8. AckedIsDurable'
    BY <1>3, <2>1 DEF Inv, AckedIsDurable
  <2>9. NothingLost' /\ DeadLettersAreInvalid' /\ SnapshotIsNewest'
    BY <1>3 DEF Inv, NothingLost, DeadLettersAreInvalid, SnapshotIsNewest
  <2> QED
    BY <2>7, <2>8, <2>9 DEF Inv
<1>4. CASE SubmitPublish(req)
  <2>1. UNCHANGED <<queue, returned, quarantined, receipts, last_sequence,
                    snapshots, authorised, responses>>
    BY <1>4 DEF SubmitPublish, agentVars
  <2>2. \A resp \in responses' :
           /\ resp.code = 202 => resp.req.ev \in receipts'
           /\ resp.code = 400 => ~resp.req.ev.valid
    BY <2>1, SMT DEF Inv, DeliveryInv
  <2> QED
    BY <1>3, <1>4, <2>1, <2>2 DEF SubmitPublish
<1>5. CASE SubmitPublishFails(req)
  <2>1. /\ UNCHANGED <<queue, returned, quarantined, locked, receipts,
                       last_sequence, snapshots, authorised>>
        /\ locked' = {}
    BY <1>5 DEF SubmitPublishFails, agentVars, serverVars
  <2>2. \A resp \in responses' :
           /\ resp.code = 202 => resp.req.ev \in receipts'
           /\ resp.code = 400 => ~resp.req.ev.valid
    <3>1. Reply(req, 500)
      BY <1>5, SMT DEF SubmitPublishFails
    <3>2. receipts \subseteq receipts'
      BY <2>1
    <3> QED
      BY <3>1, <3>2, ReplyKeeps, SMT
  <2>3. CASE publish_event(req.ev)
    BY <1>3, <1>5, <2>1, <2>2, <2>3, SMT DEF SubmitPublishFails
  <2>4. CASE UNCHANGED natsVars
    <3>1. published' = published
      BY <2>4 DEF natsVars, published
    <3>2. DeliveryInv'
      BY <2>1, <2>2, <2>4, <3>1 DEF Inv, DeliveryInv, natsVars
    <3> QED
      BY <2>1, <3>1, <3>2 DEF Inv, AckedIsDurable, NothingLost,
                              DeadLettersAreInvalid, SnapshotIsNewest
  <2> QED
    BY <1>5, <2>3, <2>4, SMT DEF SubmitPublishFails
<1>6. CASE SubmitCommit(req)
  <2>1. /\ req \in locked
        /\ receipts' = receipts \cup {req.ev}
        /\ last_sequence' = req.ev.seq
        /\ locked' = {}
        /\ UNCHANGED <<queue, returned, quarantined, stream, window>>
    BY <1>6 DEF SubmitCommit, agentVars, natsVars
  <2>2. published' = published
    BY <2>1 DEF published
  <2>3. req.ev \in published /\ last_sequence < req.ev.seq
    BY <2>1 DEF Inv, DeliveryInv
  <2>4. \A resp \in responses' :
           /\ resp.code = 202 => resp.req.ev \in receipts'
           /\ resp.code = 400 => ~resp.req.ev.valid
    <3>1. Reply(req, 202)
      BY <1>6 DEF SubmitCommit
    <3>2. receipts \subseteq receipts' /\ req.ev \in receipts'
      BY <2>1
    <3> QED
      BY <3>1, <3>2, ReplyKeeps, SMT
  <2>5. \A ev \in receipts : ev.seq <= req.ev.seq
    <3> SUFFICES ASSUME NEW ev \in receipts PROVE ev.seq <= req.ev.seq
      OBVIOUS
    <3>1. ev.seq <= last_sequence
      BY DEF Inv, DeliveryInv
    <3>2. ev.seq \in Nat /\ last_sequence \in Nat /\ req.ev.seq \in Nat
      BY <1>1 DEF Inv, TypeInv, TypeOK, Event
    <3> QED
      BY <2>3, <3>1, <3>2, SMT
  <2>6. \A ev \in receipts' : ev.seq <= last_sequence'
    <3>1. req.ev.seq \in Nat
      BY <1>1 DEF Event
    <3> QED
      BY <2>1, <2>5, <3>1, SMT
  <2>7. DeliveryInv'
    BY <2>1, <2>2, <2>3, <2>4, <2>6 DEF Inv, DeliveryInv
  <2>8. AckedIsDurable' /\ NothingLost' /\ DeadLettersAreInvalid'
    BY <2>1, <2>2 DEF Inv, AckedIsDurable, NothingLost, DeadLettersAreInvalid
  <2>9. SnapshotIsNewest'
    <3>1. CASE req.ev.kind = "spider.fingerprint_snapshot"
      BY <1>6, <2>1, <2>6, <3>1 DEF SubmitCommit, SnapshotIsNewest
    <3>2. CASE req.ev.kind # "spider.fingerprint_snapshot"
      BY <1>6, <2>1, <3>2 DEF SubmitCommit, Inv, SnapshotIsNewest
    <3> QED
      BY <3>1, <3>2
  <2> QED
    BY <2>7, <2>8, <2>9 DEF Inv
<1> QED
  BY <1>2, <1>4, <1>5, <1>6

\* Crashes, losses, revocation and re-enrolment keep the invariants.
LEMMA FaultStep ==
    ASSUME Inv, TypeInv',
           \/ ServerCrash
           \/ LoseMessage
           \/ \E burnt \in {0, 1}, corrupt \in BOOLEAN : AgentRestart(burnt, corrupt)
           \/ WindowExpires
           \/ Revoke
           \/ Reenrol
    PROVE  Inv'
<1>1. CASE LoseMessage
  BY <1>1, QuietStep DEF LoseMessage, agentVars, serverVars, natsVars
<1>2. CASE WindowExpires
  BY <1>2, QuietStep DEF WindowExpires, agentVars, netVars, serverVars
<1>3. ASSUME locked' = {}, responses' \subseteq responses,
             UNCHANGED <<queue, returned, quarantined, receipts, last_sequence,
                         snapshots, stream, window>>
      PROVE  Inv'
  <2>1. published' = published
    BY <1>3 DEF published
  <2>2. DeliveryInv'
    BY <1>3, <2>1, ZenonT(30) DEF Inv, DeliveryInv
  <2> QED
    BY <1>3, <2>1, <2>2 DEF Inv, AckedIsDurable, NothingLost,
                            DeadLettersAreInvalid, SnapshotIsNewest
<1>4. CASE ServerCrash
  BY <1>3, <1>4 DEF ServerCrash, agentVars, netVars, natsVars
<1>5. CASE Revoke
  BY <1>3, <1>5 DEF Revoke, agentVars, netVars, serverVars, natsVars
<1>6. CASE Reenrol
  BY <1>3, <1>6 DEF Reenrol, agentVars, netVars, serverVars, natsVars
<1>7. ASSUME NEW burnt \in {0, 1}, NEW corrupt \in BOOLEAN,
             AgentRestart(burnt, corrupt)
      PROVE  Inv'
  <2>1. /\ responses' = {}
        /\ UNCHANGED <<returned, locked, receipts, last_sequence, snapshots,
                       authorised, stream, window>>
    BY <1>7 DEF AgentRestart, serverVars, natsVars
  <2>2. CASE corrupt
    <3>1. queue' = {} /\ quarantined' = quarantined \cup {r.ev : r \in queue}
      BY <1>7, <2>2 DEF AgentRestart
    <3>2. published' = published
      BY <2>1 DEF published
    <3>3. DeliveryInv'
      BY <2>1, <3>2 DEF Inv, DeliveryInv
    <3>4. NothingLost'
      BY <2>1, <3>1 DEF Inv, NothingLost
    <3> QED
      BY <2>1, <3>1, <3>3, <3>4
      DEF Inv, AckedIsDurable, DeadLettersAreInvalid, SnapshotIsNewest
  <2>3. CASE ~corrupt
    <3>1. UNCHANGED <<queue, quarantined>>
      BY <1>7, <2>3 DEF AgentRestart
    <3> QED
      BY <2>1, <3>1, QuietStep
  <2> QED
    BY <2>2, <2>3
<1> QED
  BY <1>1, <1>2, <1>4, <1>5, <1>6, <1>7

\* Every step keeps the inductive invariant.
LEMMA InvStep ==
    ASSUME Inv, [Next]_vars
    PROVE  Inv'
<1>1. TypeInv'
  BY TypeStep DEF Inv
<1>2. CASE Produce \/ Agent
  BY <1>1, <1>2, AgentStep
<1>3. CASE Server
  <2>1. requests \cup locked \subseteq Request
    BY DEF Inv, TypeInv, TypeOK
  <2> QED
    BY <1>1, <1>3, <2>1, ServerStep DEF Server
<1>4. CASE Reenrol \/ Fault
  <2>1. requests \subseteq Request
    BY DEF Inv, TypeInv, TypeOK
  <2> QED
    BY <1>1, <1>4, <2>1, ServerStep, FaultStep DEF Fault
<1>5. CASE UNCHANGED vars
  BY <1>1, <1>5, QuietStep DEF vars, agentVars, netVars, serverVars, natsVars
<1> QED
  BY <1>2, <1>3, <1>4, <1>5 DEF Next

\* The inductive invariant holds initially, when everything is empty.
LEMMA InvInit == Init => Inv
BY TypeInit DEF Init, Inv, DeliveryInv, AckedIsDurable, NothingLost,
                DeadLettersAreInvalid, SnapshotIsNewest, published

\* The inductive invariant holds in every reachable state.
LEMMA Invariance == Spec => []Inv
<1>1. Inv /\ [Next]_vars => Inv'
  BY InvStep
<1> QED
  BY InvInit, <1>1, PTL DEF Spec


----------------------------------------------------------------------------
(* The theorems *)

\* A row that flush_queue acknowledged has a committed receipt, and its event
\* is on the stream.
THEOREM AckedEventsAreDurable == Spec => []AckedIsDurable
<1>1. Inv => AckedIsDurable
  BY DEF Inv
<1> QED
  BY Invariance, <1>1, PTL

\* An event whose record call returned is accepted, queued or quarantined.
THEOREM NoEventIsLost == Spec => []NothingLost
<1>1. Inv => NothingLost
  BY DEF Inv
<1> QED
  BY Invariance, <1>1, PTL

\* flush_queue gives up only on events the server rejects for their content.
THEOREM OnlyInvalidEventsAreDeadLettered == Spec => []DeadLettersAreInvalid
<1>1. Inv => DeadLettersAreInvalid
  BY DEF Inv
<1> QED
  BY Invariance, <1>1, PTL

\* The snapshot cache is never behind the accepted snapshots.
THEOREM SnapshotNeverGoesBack == Spec => []SnapshotIsNewest
<1>1. Inv => SnapshotIsNewest
  BY DEF Inv
<1> QED
  BY Invariance, <1>1, PTL

\* Only SubmitCommit writes a receipt.
LEMMA OnlyCommitWritesReceipts ==
    ASSUME Inv, [Next]_vars, receipts' # receipts
    PROVE  \E req \in locked : SubmitCommit(req)
BY ZenonT(30) DEF Next, Produce, record_observation, submit_now, Agent, FlushStart,
       FlushResponse, FlushNetworkError, UrgentResponse, UrgentNetworkError,
       Server, SubmitAnswered, SubmitPublish, SubmitCommit, Reenrol, Fault,
       SubmitPublishFails, ServerCrash, LoseMessage, AgentRestart,
       WindowExpires, Revoke, vars, serverVars

\* Receipts are written in sequence order: what SubmitCommit accepts is above
\* everything accepted before.
LEMMA AcceptStep ==
    ASSUME Inv, NEW req \in locked, SubmitCommit(req)
    PROVE  /\ authorised
           /\ req.ev \in published
           /\ receipts' = receipts \cup {req.ev}
           /\ \A old \in receipts : old.seq < req.ev.seq
<1>1. /\ authorised
      /\ req.ev \in published
      /\ last_sequence < req.ev.seq
      /\ \A old \in receipts : old.seq <= last_sequence
  BY DEF Inv, DeliveryInv
<1>2. req.ev.seq \in Nat /\ last_sequence \in Nat /\ \A old \in receipts : old.seq \in Nat
  BY DEF Inv, TypeInv, TypeOK, Event, Request
<1>3. \A old \in receipts : old.seq < req.ev.seq
  BY <1>1, <1>2, SMT
<1> QED
  BY <1>1, <1>3 DEF SubmitCommit

\* The server accepts one agent's events in strictly increasing sequence
\* order, through resends, replays, crashes and replaced queue files.
THEOREM EventsAreAcceptedInOrder == Spec => AcceptedInOrder
<1>1. Inv /\ [Next]_vars
        => [\A ev \in receipts' \ receipts : \A old \in receipts : old.seq < ev.seq]_vars
  <2> SUFFICES ASSUME Inv, [Next]_vars, NEW ev \in receipts' \ receipts, NEW old \in receipts
               PROVE  old.seq < ev.seq
    OBVIOUS
  <2>1. PICK req \in locked : SubmitCommit(req)
    BY OnlyCommitWritesReceipts
  <2> QED
    BY <2>1, AcceptStep
<1> QED
  BY Invariance, <1>1, PTL DEF Spec, AcceptedInOrder

\* No event is accepted from a revoked agent, however its requests and the
\* revocation interleave.
THEOREM RevokedAgentsAreRefused == Spec => AcceptedOnlyIfAuthorised
<1>1. Inv /\ [Next]_vars => [receipts' # receipts => authorised]_vars
  BY OnlyCommitWritesReceipts, AcceptStep
<1> QED
  BY Invariance, <1>1, PTL DEF Spec, AcceptedOnlyIfAuthorised


\* Only a handler whose checks passed stores a message, and it has written
\* no receipt yet.
LEMMA OnlyNewEventsArePublished ==
    ASSUME Inv, [Next]_vars, stream' # stream
    PROVE  \E ev \in Event :
              /\ publish_event(ev)
              /\ ev \notin receipts
              /\ UNCHANGED <<receipts, queue>>
<1>1. PICK req \in requests :
         /\ SubmitPublish(req) \/ SubmitPublishFails(req)
  BY DEF Next, Produce, record_observation, submit_now, Agent, FlushStart,
         FlushResponse, FlushNetworkError, UrgentResponse, UrgentNetworkError,
         Server, SubmitAnswered, SubmitCommit, Reenrol, Fault, ServerCrash,
         LoseMessage, AgentRestart, WindowExpires, Revoke, vars, natsVars
<1>2. /\ publish_event(req.ev)
      /\ Verdict(req.ev) = 0
      /\ UNCHANGED <<receipts, queue>>
  BY <1>1 DEF SubmitPublish, SubmitPublishFails, agentVars, serverVars, natsVars
<1>3. authorised
  BY <1>2, SMT DEF Verdict
<1>4. req.ev \notin receipts
  BY <1>2, <1>3, SMT DEF Verdict
<1>5. req.ev \in Event
  BY DEF Inv, TypeInv, TypeOK, Request
<1> QED
  BY <1>2, <1>4, <1>5

\* An event with a receipt is never stored on the stream again, whatever is
\* resent and however late.
THEOREM ReplaysHaveNoEffect == Spec => NoEffectAfterReceipt
<1>1. Inv /\ [Next]_vars
        => [\A i \in DOMAIN stream' \ DOMAIN stream : stream'[i] \notin receipts]_vars
  <2> SUFFICES ASSUME Inv, [Next]_vars, NEW i \in DOMAIN stream' \ DOMAIN stream
               PROVE  stream'[i] \notin receipts
    OBVIOUS
  <2>1. PICK ev \in Event : publish_event(ev) /\ ev \notin receipts
    BY OnlyNewEventsArePublished
  <2>2. stream \in Seq(Event) /\ stream' = Append(stream, ev)
    BY <2>1 DEF publish_event, natsVars, Inv, TypeInv, TypeOK
  <2>3. i = Len(stream) + 1
    BY <2>2, SMT
  <2> QED
    BY <2>1, <2>2, <2>3, SMT
<1> QED
  BY Invariance, <1>1, PTL DEF Spec, NoEffectAfterReceipt

----------------------------------------------------------------------------
(* Refinement of TelemetryLog *)

\* The rows flush_queue works on are PENDING until it settles them.
FlushInv == \A r \in flush.current \cup flush.rest : r.status = "PENDING"

\* The loop of flush_queue only takes PENDING rows.
LEMMA LoopTakesPending ==
    ASSUME NEW q, FlushInv,
           NextRow(q) \/ Retry \/ NextBatch(q) \/ NextBatch(queue) \/ flush' = Idle
    PROVE  FlushInv'
<1>1. ASSUME NEW page, NEW p \in BOOLEAN, Send(page, p),
             \A r \in page : r.status = "PENDING"
      PROVE  FlushInv'
  <2>1. PICK r \in page : flush' = [current |-> {r}, rest |-> page \ {r},
                                     progressed |-> p, try |-> faults]
    BY <1>1 DEF Send
  <2>2. flush'.current = {r} /\ flush'.rest = page \ {r}
    BY <2>1
  <2> QED
    BY <1>1, <2>2 DEF FlushInv
<1>2. CASE flush' = Idle
  BY <1>2 DEF Idle, FlushInv
<1>3. ASSUME NEW x, NextBatch(x) PROVE FlushInv'
  <2>1. \A r \in peek_batch(x) : r.status = "PENDING"
    BY DEF peek_batch
  <2> QED
    BY <1>1, <1>2, <1>3, <2>1 DEF NextBatch, Stop
<1>4. CASE Send(flush.rest, TRUE)
  <2>1. \A r \in flush.rest : r.status = "PENDING"
    BY DEF FlushInv
  <2> QED
    BY <1>1, <1>4, <2>1
<1> QED
  BY <1>2, <1>3, <1>4 DEF NextRow, Retry, Stop

\* So they are PENDING in every reachable state.
LEMMA FlushInvariance == Spec => []FlushInv
<1>1. Init => FlushInv
  BY SMT DEF Init, Idle, FlushInv
<1>2. FlushInv /\ [Next]_vars => FlushInv'
  <2> SUFFICES ASSUME FlushInv, [Next]_vars PROVE FlushInv'
    OBVIOUS
  <2>1. CASE flush' = flush
    BY <2>1 DEF FlushInv
  <2>2. CASE FlushStart \/ FlushResponse \/ FlushNetworkError
    BY <2>2, LoopTakesPending, ZenonT(30) DEF FlushStart, FlushResponse, FlushNetworkError
  <2>3. ASSUME NEW burnt \in {0, 1}, NEW corrupt \in BOOLEAN,
               AgentRestart(burnt, corrupt)
        PROVE  FlushInv'
    BY <2>3, LoopTakesPending DEF AgentRestart
  <2>4. CASE Reenrol
    BY <2>4, LoopTakesPending DEF Reenrol
  <2> QED
    BY <2>1, <2>2, <2>3, <2>4, ZenonT(30)
    DEF Next, Produce, record_observation, submit_now, Agent, UrgentResponse,
        UrgentNetworkError, Server, SubmitAnswered, SubmitPublish,
        SubmitCommit, Fault, SubmitPublishFails, ServerCrash,
        LoseMessage, WindowExpires, Revoke, vars, agentVars
<1> QED
  BY <1>1, <1>2, PTL DEF Spec


\* What a step does to the confirmed events: nothing, one more accepted
\* event, or all of them forgotten with a corrupt queue file.
LEMMA ConfirmStep ==
    ASSUME Inv, FlushInv, [Next]_vars
    PROVE  \/ confirmed' = confirmed
           \/ \E ev \in receipts : confirmed' = confirmed \cup {ev}
           \/ confirmed' = {}
<1>1. CASE queue' = queue
  BY <1>1 DEF confirmed
<1>2. ASSUME NEW ev, queue' = enqueue(ev)
      PROVE  confirmed' = confirmed
  <2> DEFINE n == [row |-> Cardinality(queue) + 1, ev |-> ev, status |-> "PENDING"]
  <2>1. queue' = queue \cup {n} /\ n.status = "PENDING"
    BY <1>2 DEF enqueue
  <2> HIDE DEF n
  <2> QED
    BY <2>1 DEF confirmed
<1>3. ASSUME NEW r \in flush.current, NEW status \in {"ACKNOWLEDGED", "DEAD_LETTER"},
             queue' = mark(r, status)
      PROVE  confirmed' = IF status = "ACKNOWLEDGED" THEN confirmed \cup {r.ev}
                                                     ELSE confirmed
  <2> DEFINE n == [r EXCEPT !.status = status]
  <2>1. r \in Row /\ r.status = "PENDING"
    BY DEF FlushInv, Inv, TypeInv, TypeOK
  <2>2. queue' = (queue \ {r}) \cup {n} /\ n.ev = r.ev /\ n.status = status
    BY <1>3, <2>1 DEF mark, Row
  <2> HIDE DEF n
  <2> QED
    BY <2>1, <2>2 DEF confirmed
<1>4. CASE FlushResponse
  <2>1. PICK r \in flush.current, resp \in responses :
           /\ resp.req = [ev |-> r.ev, try |-> flush.try]
           /\ \/ resp.code = 202 /\ queue' = mark(r, "ACKNOWLEDGED") /\ NextRow(queue')
              \/ resp.code = 400 /\ queue' = mark(r, "DEAD_LETTER") /\ NextRow(queue')
              \/ resp.code \notin {202, 400} /\ queue' = queue /\ Retry
    BY <1>4, SMT DEF FlushResponse
  <2>2. resp.req.ev = r.ev
    <3>1. resp.req = [ev |-> r.ev, try |-> flush.try]
      BY <2>1
    <3> QED
      BY <3>1, SMT
  <2>3. resp.code = 202 => resp.req.ev \in receipts
    BY SMT DEF Inv, DeliveryInv
  <2>4. CASE resp.code = 202 /\ queue' = mark(r, "ACKNOWLEDGED")
    <3>1. confirmed' = confirmed \cup {r.ev}
      BY <1>3, <2>4
    <3> QED
      BY <2>2, <2>3, <2>4, <3>1
  <2>5. CASE queue' = mark(r, "DEAD_LETTER")
    BY <1>3, <2>5
  <2> QED
    BY <1>1, <2>1, <2>4, <2>5, SMT
<1>5. CASE queue' = {}
  BY <1>5 DEF confirmed
<1> QED
  BY <1>1, <1>2, <1>4, <1>5, ZenonT(30)
  DEF Next, Produce, record_observation, submit_now, Agent, FlushStart,
      FlushNetworkError, UrgentResponse, UrgentNetworkError, Fallback,
      Server, SubmitAnswered, SubmitPublish, SubmitCommit, Reenrol, Fault,
      SubmitPublishFails, ServerCrash, LoseMessage, AgentRestart,
      WindowExpires, Revoke, vars, agentVars

\* Only the agent's own steps touch its queue file, only SubmitCommit the
\* receipts, and only a publishing handler the stream: one at a time.
LEMMA OneStageAtATime ==
    ASSUME [Next]_vars
    PROVE  \/ queue' = queue /\ receipts' = receipts
           \/ queue' = queue /\ stream' = stream
           \/ receipts' = receipts /\ stream' = stream
BY ZenonT(30) DEF Next, Produce, record_observation, submit_now, Agent, FlushStart,
       FlushResponse, FlushNetworkError, UrgentResponse, UrgentNetworkError,
       Server, SubmitAnswered, SubmitPublish, SubmitCommit, Reenrol, Fault,
       SubmitPublishFails, ServerCrash, LoseMessage, AgentRestart,
       WindowExpires, Revoke, vars, agentVars, serverVars, natsVars

\* Agent, network, ingestion and stream together implement the telemetry log.
THEOREM DeliveryImplementsLog == Spec => ImplementsLog
<1>1. Init => Log!Init
  BY SMT DEF Init, Log!Init, published, confirmed
<1>2. Inv /\ FlushInv /\ [Next]_vars => [Log!Next]_(Log!vars)
  <2> SUFFICES ASSUME Inv, FlushInv, [Next]_vars
               PROVE  Log!Next \/ UNCHANGED Log!vars
    OBVIOUS
  <2>1. CASE stream' # stream
    <3>1. PICK ev \in Event :
             /\ publish_event(ev)
             /\ ev \notin receipts
             /\ UNCHANGED <<receipts, queue>>
      BY <2>1, OnlyNewEventsArePublished
    <3>2. published' = published \cup {ev}
      BY <3>1, PublishGrows DEF Inv, DeliveryInv
    <3>3. confirmed' = confirmed
      BY <3>1 DEF confirmed
    <3> QED
      BY <3>1, <3>2, <3>3 DEF Log!Next, Log!Emit
  <2>2. CASE receipts' # receipts
    <3>1. PICK req \in locked : SubmitCommit(req)
      BY <2>2, OnlyCommitWritesReceipts
    <3>2. UNCHANGED <<published, confirmed>>
      BY <2>2, OneStageAtATime DEF published, confirmed
    <3>3. /\ req.ev \in published
          /\ receipts' = receipts \cup {req.ev}
          /\ \A old \in receipts : old.seq < req.ev.seq
      BY <3>1, AcceptStep
    <3> QED
      BY <3>2, <3>3 DEF Log!Next, Log!Accept
  <2>3. CASE stream' = stream /\ receipts' = receipts
    <3>1. published' = published
      BY <2>3 DEF published
    <3> QED
      BY <2>3, <3>1, ConfirmStep
      DEF Log!Next, Log!Confirm, Log!Forget, Log!vars
  <2> QED
    BY <2>1, <2>2, <2>3
<1> QED
  BY Invariance, FlushInvariance, <1>1, <1>2, PTL DEF Spec, ImplementsLog, Log!Spec

----------------------------------------------------------------------------
(* The dashboard's updates *)

\* A transaction that has drawn its numbers and may commit them.
Numbered(t) == txn[t].kind \in {"PROJECT", "REBUILD"} /\ txn[t].phase = "WRITTEN"

\* Strengthens StreamMissesNothing: one transaction at a time holds the offset
\* row, it holds it as long as it has numbers, and its numbers are above all
\* that is committed and all that the browser has seen.
StreamInv ==
    /\ outbox \subseteq CaseEvents
    /\ drawn \in Nat /\ cursor \in 0..drawn /\ updates \subseteq 1..drawn
    /\ txn = [t \in Transactions |-> txn[t]]
    /\ \A s, t \in Transactions : txn[s].offset /\ txn[t].offset => s = t
    /\ \A t \in Transactions :
          txn[t].kind = "PROJECT" /\ txn[t].phase = "LOCKED" => txn[t].offset
    /\ \A t \in Transactions : Numbered(t) =>
          /\ txn[t].offset
          /\ txn[t].ids \subseteq (cursor + 1)..drawn
          /\ \A u \in txn[t].ids, v \in updates : v < u
    /\ StreamMissesNothing

\* largest finds the greatest of some bounded numbers.
LEMMA LargestElement ==
    ASSUME NEW S \in SUBSET Nat, S # {}, NEW bound \in Nat, \A n \in S : n <= bound
    PROVE  largest(S) \in S /\ \A m \in S : m <= largest(S)
BY GreatestElement DEF largest

\* The first n of some rows: there is one, and whoever has read the largest
\* has read all up to it (dashboard_stream's ORDER BY and LIMIT).
LEMMA BatchIsPrefix ==
    ASSUME NEW S \in SUBSET Nat, S # {}, IsFiniteSet(S), NEW n \in Nat \ {0},
           NEW bound \in Nat, \A u \in S : u <= bound
    PROVE  /\ largest(batch(S, n)) \in S
           /\ \A u \in S : u <= largest(batch(S, n)) => u \in batch(S, n)
<1> DEFINE upto(u) == {v \in S : v <= u}
<1>1. \A u \in S : IsFiniteSet(upto(u)) /\ Cardinality(upto(u)) \in Nat
  BY FS_Subset, FS_CardinalityType
<1>2. batch(S, n) # {}
  <2>1. PICK u \in S : \A v \in S : u <= v
    BY LeastElement
  <2>2. \A v \in S : v <= u <=> v = u
    BY <2>1, SMT
  <2>3. upto(u) = {u}
    BY <2>2
  <2>4. Cardinality(upto(u)) = 1
    BY <2>3, FS_Singleton
  <2> QED
    BY <2>4, SMT DEF batch
<1>3. batch(S, n) \in SUBSET S
  BY DEF batch
<1>4. largest(batch(S, n)) \in batch(S, n)
  BY <1>2, <1>3, LargestElement
<1>5. ASSUME NEW u \in S, NEW w \in batch(S, n), u <= w PROVE u \in batch(S, n)
  <2>1. upto(u) \subseteq upto(w) /\ w \in S
    <3>1. w \in S
      BY <1>3
    <3>2. \A v \in S : v <= u => v <= w
      BY <1>5, <3>1, SMT
    <3> QED
      BY <3>1, <3>2
  <2>2. Cardinality(upto(u)) <= Cardinality(upto(w))
    BY <1>1, <2>1, FS_Subset
  <2>3. Cardinality(upto(w)) <= n
    BY DEF batch
  <2>4. Cardinality(upto(u)) <= n
    BY <1>1, <2>1, <2>2, <2>3, SMT
  <2> QED
    BY <2>4 DEF batch
<1> QED
  BY <1>3, <1>4, <1>5

\* The read model is empty at first.
LEMMA StreamStart == ProjectionInit => StreamInv
<1> SUFFICES ASSUME ProjectionInit PROVE StreamInv
  OBVIOUS
<1>1. /\ outbox = {} /\ updates = {} /\ drawn = 0 /\ cursor = 0
      /\ txn = [t \in Transactions |-> txn[t]]
      /\ \A t \in Transactions : ~txn[t].offset /\ txn[t].kind = "NONE"
  BY DEF ProjectionInit, NoTxn
<1>2. 0 \in Nat /\ 0 \in 0..0
  BY SMT
<1> QED
  BY <1>1, <1>2 DEF StreamInv, Numbered, StreamMissesNothing

\* A transaction that takes numbers takes them above all others, under the
\* lock of the offset row.
LEMMA DrawKeeps ==
    ASSUME StreamInv, NEW t \in Transactions, NEW k \in Nat, NEW event, NEW prior,
           draw(t, k, event, prior), offset_free(t),
           txn[t].kind \in {"PROJECT", "REBUILD"},
           UNCHANGED <<outbox, tables, cursor, told, started>>
    PROVE  StreamInv'
<1>1. \A s \in Transactions : s # t => txn'[s] = txn[s] /\ ~txn[s].offset
  BY DEF draw, offset_free, StreamInv
<1>2. /\ txn'[t].offset
      /\ txn'[t].kind = txn[t].kind /\ txn'[t].phase = "WRITTEN"
      /\ txn'[t].ids = (drawn + 1)..(drawn + k)
  BY DEF draw, StreamInv
<1>3. txn' = [s \in Transactions |-> txn'[s]]
  BY DEF draw, StreamInv
<1>4. \A s \in Transactions : s # t => ~Numbered(s)
  BY <1>1 DEF StreamInv
<1>5. drawn' = drawn + k /\ drawn \in Nat /\ drawn' \in Nat
  BY SMT DEF draw, StreamInv
<1>6. /\ outbox' \subseteq CaseEvents /\ cursor' \in 0..drawn' /\ updates' \subseteq 1..drawn'
      /\ StreamMissesNothing'
  BY <1>5, SMT DEF StreamInv, tables, StreamMissesNothing
<1>7. /\ txn'[t].ids \subseteq (cursor' + 1)..drawn'
      /\ \A u \in txn'[t].ids, v \in updates' : v < u
  BY <1>2, <1>5, SMT DEF StreamInv, tables
<1>8. \A s \in Transactions : Numbered(s)' => s = t
  BY <1>1, <1>4 DEF Numbered
<1> QED
  BY <1>1, <1>2, <1>3, <1>5, <1>6, <1>7, <1>8 DEF StreamInv

\* A commit shows the numbers of the one transaction that has some.
LEMMA CommitKeeps ==
    ASSUME StreamInv, NEW t \in Transactions, Numbered(t),
           txn' = [txn EXCEPT ![t] = NoTxn], updates' = updates \cup txn[t].ids,
           UNCHANGED <<outbox, drawn, cursor, told>>
    PROVE  StreamInv'
<1>1. \A s \in Transactions : s # t => txn'[s] = txn[s] /\ ~Numbered(s)
  BY DEF StreamInv
<1>2. txn'[t] = NoTxn /\ txn' = [s \in Transactions |-> txn'[s]]
  BY DEF StreamInv
<1>3. \A s \in Transactions : ~Numbered(s)'
  BY <1>1, <1>2 DEF Numbered, NoTxn
<1>4. updates' \subseteq 1..drawn' /\ StreamMissesNothing'
  BY SMT DEF StreamInv, StreamMissesNothing
<1>5. /\ \A r, s \in Transactions : txn'[r].offset /\ txn'[s].offset => r = s
      /\ \A s \in Transactions :
            txn'[s].kind = "PROJECT" /\ txn'[s].phase = "LOCKED" => txn'[s].offset
  BY <1>1, <1>2 DEF StreamInv, NoTxn
<1> QED
  BY <1>2, <1>3, <1>4, <1>5 DEF StreamInv

\* A step of one transaction that neither draws nor commits.
LEMMA QuietKeeps ==
    ASSUME StreamInv, NEW t \in Transactions, NEW x,
           txn' = [txn EXCEPT ![t] = x], UNCHANGED <<outbox, tables, drawn, cursor, told>>,
           x.offset => offset_free(t),
           x.kind = "PROJECT" /\ x.phase = "LOCKED" => x.offset,
           x.kind \in {"PROJECT", "REBUILD"} => x.phase # "WRITTEN"
    PROVE  StreamInv'
<1>1. \A s \in Transactions : s # t => txn'[s] = txn[s]
  BY DEF StreamInv
<1>2. txn'[t] = x /\ txn' = [s \in Transactions |-> txn'[s]]
  BY DEF StreamInv
<1>3. \A s \in Transactions : Numbered(s)' => s # t /\ Numbered(s) /\ txn'[s] = txn[s]
  BY <1>1, <1>2 DEF Numbered
<1>4. \A r, s \in Transactions : txn'[r].offset /\ txn'[s].offset => r = s
  BY <1>1, <1>2 DEF StreamInv, offset_free
<1>5. \A s \in Transactions :
         txn'[s].kind = "PROJECT" /\ txn'[s].phase = "LOCKED" => txn'[s].offset
  BY <1>1, <1>2 DEF StreamInv
<1>6. /\ outbox' \subseteq CaseEvents /\ drawn' \in Nat /\ cursor' \in 0..drawn'
      /\ updates' \subseteq 1..drawn' /\ StreamMissesNothing'
  BY DEF StreamInv, StreamMissesNothing, tables
<1>7. \A s \in Transactions : Numbered(s)' =>
          /\ txn'[s].offset /\ txn'[s].ids \subseteq (cursor' + 1)..drawn'
          /\ \A u \in txn'[s].ids, v \in updates' : v < u
  BY <1>3 DEF StreamInv, tables
<1> QED
  BY <1>2, <1>4, <1>5, <1>6, <1>7 DEF StreamInv

\* Every step of the projector and of the stream keeps the invariant.
LEMMA StreamStep == StreamInv /\ [ProjectionNext]_projectionVars => StreamInv'
<1> SUFFICES ASSUME StreamInv, [ProjectionNext]_projectionVars PROVE StreamInv'
  OBVIOUS
<1>1. CASE dashboard_stream
  <2> DEFINE above == {u \in updates : u > cursor}
  <2>1. /\ above \in SUBSET Nat /\ above # {} /\ IsFiniteSet(above)
        /\ \A u \in above : u <= drawn
    <3>1. above \in SUBSET (1..drawn) /\ drawn \in Nat
      BY DEF StreamInv
    <3>2. IsFiniteSet(1..drawn)
      BY <3>1, FS_Interval, SMT
    <3>3. IsFiniteSet(above)
      BY <3>1, <3>2, FS_Subset
    <3>4. above # {}
      BY <1>1 DEF dashboard_stream
    <3> QED
      BY <3>1, <3>3, <3>4, SMT
  <2>2. PICK n \in Nat \ {0} : /\ told' = told \cup batch(above, n)
                               /\ cursor' = largest(batch(above, n))
    <3>1. Cardinality(above) \in Nat
      BY <2>1, FS_CardinalityType
    <3> QED
      BY <1>1, <3>1, ProjectionAssumption, SMT DEF dashboard_stream
  <2>3. /\ cursor' \in above
        /\ \A u \in above : u <= cursor' => u \in told'
    <3>1. drawn \in Nat
      BY DEF StreamInv
    <3> QED
      BY <2>1, <2>2, <3>1, BatchIsPrefix
  <2>4. UNCHANGED <<outbox, updates, txn, drawn>>
    BY <1>1 DEF dashboard_stream, tables
  <2>5. StreamMissesNothing' /\ cursor' \in 0..drawn'
    <3>1. \A u \in updates : u <= cursor => u \in told'
      BY <2>2 DEF StreamInv, StreamMissesNothing
    <3>2. \A u \in updates : u <= cursor \/ u \in above
      BY SMT DEF StreamInv
    <3>3. cursor' \in 0..drawn
      BY <2>1, <2>3, SMT
    <3> QED
      BY <2>3, <2>4, <3>1, <3>2, <3>3 DEF StreamMissesNothing
  <2>6. \A t \in Transactions : Numbered(t) => txn[t].ids \subseteq (cursor' + 1)..drawn
    <3>1. cursor' \in updates /\ cursor' \in Nat
      BY <2>1, <2>3
    <3> QED
      BY <3>1, SMT DEF StreamInv
  <2>7. \A t \in Transactions : Numbered(t)' = Numbered(t)
    BY <2>4 DEF Numbered
  <2> QED
    BY <2>4, <2>5, <2>6, <2>7 DEF StreamInv
<1>2. ASSUME NEW e \in CaseEvents, event_written(e) PROVE StreamInv'
  BY <1>2 DEF event_written, StreamInv, StreamMissesNothing, Numbered, tables
<1>3. ASSUME NEW e \in CaseEvents, NEW t \in Transactions, project_looks(t, e) PROVE StreamInv'
  BY <1>3, QuietKeeps DEF project_looks
<1>4. ASSUME NEW t \in Transactions, project_locks(t) PROVE StreamInv'
  BY <1>4, QuietKeeps DEF project_locks
<1>5. ASSUME NEW t \in Transactions, project_writes(t) PROVE StreamInv'
  <2>1. offset_free(t)
    BY <1>5 DEF project_writes, offset_free, StreamInv
  <2>2. (IF gap(txn[t].prior, txn[t].event.sequence) THEN 2 ELSE 1) \in Nat
    OBVIOUS
  <2> QED
    BY <1>5, <2>1, <2>2, DrawKeeps DEF project_writes
<1>6. ASSUME NEW t \in Transactions, rebuild_replays(t) PROVE StreamInv'
  <2>1. Cardinality(outbox) \in Nat
    BY ProjectionAssumption, FS_Subset, FS_CardinalityType DEF StreamInv
  <2>2. \A gaps \in SUBSET (1..Cardinality(outbox)) :
           Cardinality(outbox) + Cardinality(gaps) + 1 \in Nat
    <3> TAKE gaps \in SUBSET (1..Cardinality(outbox))
    <3>0. IsFiniteSet(1..Cardinality(outbox))
      BY <2>1, FS_Interval, SMT
    <3>1. Cardinality(gaps) \in Nat
      BY <3>0, FS_Subset, FS_CardinalityType
    <3> QED
      BY <2>1, <3>1, SMT
  <2>3. \E k \in Nat : \E event, prior : draw(t, k, event, prior)
    <3>1. PICK f \in orders(outbox) :
             \E gaps \in SUBSET (1..Cardinality(outbox)), prior \in {replay(offset, f)[0],
                 project_authoritative_snapshot(replay(offset, f)[0]),
                 replay(offset, f)[Cardinality(outbox)]} :
               draw(t, Cardinality(outbox) + Cardinality(gaps) + 1, f, prior)
      BY <1>6 DEF rebuild_replays
    <3> QED
      BY <2>2, <3>1
  <2> QED
    BY <1>6, <2>3, DrawKeeps DEF rebuild_replays
<1>7. ASSUME NEW t \in Transactions, project_commits(t) \/ rebuild_commits(t) PROVE StreamInv'
  BY <1>7, CommitKeeps DEF project_commits, rebuild_commits, Numbered
<1>8. ASSUME NEW t \in Transactions, rebuild_marks(t) PROVE StreamInv'
  <2> DEFINE x == [kind |-> "REBUILD", phase |-> "MARKED", offset |-> offset.version = 0,
                   summary |-> summary # "NONE"]
  <2>1. x.kind = "REBUILD" /\ x.phase = "MARKED" /\ (x.offset => offset.version = 0)
    OBVIOUS
  <2>2. /\ txn' = [txn EXCEPT ![t] = x] /\ UNCHANGED <<outbox, tables, drawn, cursor, told>>
        /\ offset.version = 0 => offset_free(t)
    BY <1>8 DEF rebuild_marks
  <2> HIDE DEF x
  <2> QED
    BY <2>1, <2>2, QuietKeeps
<1>9. ASSUME NEW t \in Transactions, txn_aborts(t) PROVE StreamInv'
  BY <1>9, QuietKeeps DEF txn_aborts, NoTxn
<1>10. CASE UNCHANGED projectionVars
  BY <1>10 DEF projectionVars, tables, StreamInv, StreamMissesNothing, Numbered
<1> QED
  BY <1>1, <1>2, <1>3, <1>4, <1>5, <1>6, <1>7, <1>8, <1>9, <1>10 DEF ProjectionNext

\* For any case events, transactions and batch size, a browser that resumes
\* from the last number it received has missed no update: _publish_update
\* numbers under the lock of the offset row, so numbers become visible in the
\* order in which they are drawn (project_event, rebuild_case,
\* dashboard_stream).
THEOREM StreamIsComplete == ProjectionSpec => []StreamMissesNothing
<1>1. StreamInv => StreamMissesNothing
  BY DEF StreamInv
<1> QED
  BY <1>1, StreamStart, StreamStep, PTL DEF ProjectionSpec

----------------------------------------------------------------------------
\* The offset row.
OffsetRow == [version : Nat, last : Nat, gap : BOOLEAN]

\* The offset row before the first event of a replay.
Cleared(o) == [version |-> o.version, last |-> 0, gap |-> FALSE]

LEMMA AdvancedRow ==
    ASSUME NEW o \in OffsetRow, NEW n \in Nat
    PROVE  /\ advanced(o, n) \in OffsetRow
           /\ advanced(o, n).version = o.version + 1
           /\ advanced(o, n).last = IF n > o.last THEN n ELSE o.last
BY SMT DEF advanced, OffsetRow, gap

\* replay is the function its recursive definition describes.
LEMMA ReplayExists ==
    ASSUME NEW o \in OffsetRow, NEW n \in Nat, NEW f, DOMAIN f = 1..n,
           \A i \in 1..n : f[i].sequence \in Nat
    PROVE  /\ replay(o, f) \in [0..n -> OffsetRow]
           /\ replay(o, f)[0] = Cleared(o)
           /\ \A i \in 1..n : replay(o, f)[i] = advanced(replay(o, f)[i - 1], f[i].sequence)
<1> DEFINE a == Cleared(o)
           step == [x \in (1..n) \X OffsetRow |-> advanced(x[2], f[x[1]].sequence)]
           Body(g) == [i \in 0..n |-> IF i = 0 THEN a ELSE advanced(g[i - 1], f[i].sequence)]
<1>1. Cardinality(DOMAIN f) = n
  <2>1. Cardinality(1..n) = IF 1 > n THEN 0 ELSE n - 1 + 1
    BY FS_Interval, SMT
  <2> QED
    BY <2>1, SMT
<1>2. a \in OffsetRow
  BY SMT DEF Cleared, OffsetRow
<1>3. step \in [(1..n) \X OffsetRow -> OffsetRow]
  <2>1. \A x \in (1..n) \X OffsetRow : x[1] \in 1..n /\ x[2] \in OffsetRow
    BY SMT
  <2>2. \A x \in (1..n) \X OffsetRow : advanced(x[2], f[x[1]].sequence) \in OffsetRow
    BY <2>1, AdvancedRow
  <2> QED
    BY <2>2
<1>4. \E g : RecursiveOn(n, OffsetRow, a, step, g)
  <2> HIDE DEF a, step
  <2> QED
    BY <1>2, <1>3, IntervalRecursion
<1>5. PICK g \in [0..n -> OffsetRow] :
         g[0] = a /\ \A i \in 1..n : g[i] = advanced(g[i - 1], f[i].sequence)
  <2> DEFINE st == step
  <2>1. \A i \in 1..n, r \in OffsetRow : st[<<i, r>>] = advanced(r, f[i].sequence)
    BY SMT
  <2>2. PICK g : RecursiveOn(n, OffsetRow, a, st, g)
    BY <1>4
  <2> HIDE DEF st
  <2>3. /\ g \in [0..n -> OffsetRow] /\ g[0] = a
        /\ \A i \in 1..n : g[i] = st[<<i, g[i - 1]>>]
    BY <2>2 DEF RecursiveOn
  <2>4. \A i \in 1..n : g[i - 1] \in OffsetRow
    <3>1. \A i \in 1..n : i - 1 \in 0..n
      BY SMT
    <3> QED
      BY <2>3, <3>1
  <2> QED
    BY <2>1, <2>3, <2>4
<1>6. \A i \in 0..n : i = 0 \/ i \in 1..n
  BY SMT
<1>7. g = Body(g)
  <2>1. g = [i \in 0..n |-> g[i]]
    OBVIOUS
  <2>2. \A i \in 0..n : g[i] = IF i = 0 THEN a ELSE advanced(g[i - 1], f[i].sequence)
    BY <1>5, <1>6
  <2> QED
    BY <2>1, <2>2
<1>8. replay(o, f) = CHOOSE h : h = Body(h)
  BY <1>1 DEF replay, Cleared
<1>9. replay(o, f) = Body(replay(o, f))
  BY <1>7, <1>8
<1> DEFINE h == replay(o, f)
<1>10. h = Body(h)
  BY <1>9
<1> HIDE DEF h, a
<1>11. h[0] = a /\ \A i \in 1..n : h[i] = advanced(h[i - 1], f[i].sequence)
  <2>1. 0 \in 0..n /\ \A i \in 1..n : i \in 0..n /\ i # 0
    BY SMT
  <2>2. \A i \in 0..n : h[i] = IF i = 0 THEN a ELSE advanced(h[i - 1], f[i].sequence)
    BY <1>10
  <2> QED
    BY <2>1, <2>2
<1>12. \A i \in 0..n : h[i] \in OffsetRow
  <2> DEFINE T == {i \in 0..n : h[i] \in OffsetRow}
  <2>1. 0 \in T
    <3>1. 0 \in 0..n
      BY SMT
    <3> QED
      BY <1>2, <1>11, <3>1
  <2>2. ASSUME NEW i \in 1..n, i - 1 \in T PROVE i \in T
    <3>1. i \in 0..n
      BY SMT
    <3> QED
      BY <1>11, <2>2, <3>1, AdvancedRow
  <2> HIDE DEF T
  <2>3. \A i \in 0..n : i \in T
    BY <2>1, <2>2, IntervalInduction
  <2> QED
    BY <2>3 DEF T
<1>13. h \in [0..n -> OffsetRow]
  BY <1>10, <1>12
<1> QED
  BY <1>11, <1>13 DEF h, a

\* What a replay of n events leaves in the offset row.
LEMMA ReplayResult ==
    ASSUME NEW o \in OffsetRow, NEW n \in Nat, NEW f, DOMAIN f = 1..n,
           \A i \in 1..n : f[i].sequence \in Nat
    PROVE  \A i \in 0..n :
              /\ replay(o, f)[i] \in OffsetRow
              /\ replay(o, f)[i].version = o.version + i
              /\ \/ replay(o, f)[i].last = 0
                 \/ \E j \in 1..n : f[j].sequence = replay(o, f)[i].last
<1> DEFINE h == replay(o, f)
           Good(i) == /\ h[i].version = o.version + i
                      /\ h[i].last = 0 \/ \E j \in 1..n : f[j].sequence = h[i].last
           T == {i \in 0..n : Good(i)}
<1>1. /\ h \in [0..n -> OffsetRow]
      /\ h[0] = Cleared(o)
      /\ \A i \in 1..n : h[i] = advanced(h[i - 1], f[i].sequence)
  BY ReplayExists
<1>2. 0 \in T
  <2>1. h[0].version = o.version /\ h[0].last = 0
    <3>1. Cleared(o).version = o.version /\ Cleared(o).last = 0
      BY DEF Cleared
    <3>2. h[0] = Cleared(o)
      BY <1>1
    <3> HIDE DEF h
    <3> QED
      BY <3>1, <3>2
  <2>2. o.version \in Nat
    BY DEF OffsetRow
  <2>3. o.version + 0 = o.version /\ 0 \in 0..n
    BY <2>2, SMT
  <2> HIDE DEF h
  <2>4. Good(0)
    BY <2>1, <2>3
  <2> QED
    BY <2>3, <2>4
<1>3. ASSUME NEW i \in 1..n, i - 1 \in T PROVE i \in T
  <2> HIDE DEF h
  <2> DEFINE p == h[i - 1]
             m == f[i].sequence
  <2>1. p.version = o.version + (i - 1) /\ (p.last = 0 \/ \E j \in 1..n : f[j].sequence = p.last)
    BY <1>3
  <2>2. p \in OffsetRow /\ m \in Nat /\ i \in 0..n
    <3>1. i - 1 \in 0..n /\ i \in 0..n
      BY SMT
    <3> QED
      BY <1>1, <3>1
  <2>3. h[i] = advanced(p, m)
    BY <1>1
  <2>4. /\ h[i].version = p.version + 1
        /\ h[i].last = IF m > p.last THEN m ELSE p.last
    <3> HIDE DEF p, m
    <3>1. /\ advanced(p, m).version = p.version + 1
          /\ advanced(p, m).last = IF m > p.last THEN m ELSE p.last
      BY <2>2, AdvancedRow
    <3> QED
      BY <2>3, <3>1
  <2>5. o.version + (i - 1) + 1 = o.version + i
    <3>1. o.version \in Nat
      BY DEF OffsetRow
    <3> QED
      BY <3>1, SMT
  <2>6. h[i].version = o.version + i
    BY <2>1, <2>4, <2>5
  <2>7. h[i].last = 0 \/ \E j \in 1..n : f[j].sequence = h[i].last
    BY <2>1, <2>4
  <2> QED
    BY <2>2, <2>6, <2>7
<1>4. \A i \in 0..n : i \in T
  <2> HIDE DEF T
  <2> QED
    BY <1>2, <1>3, IntervalInduction
<1> HIDE DEF h
<1>5. \A i \in 0..n : h[i] \in OffsetRow /\ Good(i)
  BY <1>1, <1>4
<1> QED
  BY <1>5 DEF h

\* The rows a rebuild is about to write: new versions, and the last number is
\* that of a replayed event.
Replayed(x) ==
    /\ x.prior \in OffsetRow
    /\ \A i \in DOMAIN x.event : i \in Nat \ {0} /\ offset.version + i <= x.prior.version
    /\ x.prior.last = 0 \/ \E i \in DOMAIN x.event : x.event[i].sequence = x.prior.last

\* What a transaction relies on: the offset row it read is still the row.
ReadIsCurrent(x) ==
    /\ x.kind = "PROJECT" =>
          /\ x.event \in CaseEvents
          /\ x.phase \in {"LOCKED", "WRITTEN"} => x.prior = offset
    /\ x.kind = "REBUILD" /\ x.phase = "WRITTEN" => Replayed(x)

\* Strengthens HolesAreFlagged.
HoleInv ==
    /\ offset \in OffsetRow
    /\ base \in Nat /\ base <= offset.last /\ (base = 0 => offset.last = 0)
    /\ \A r \in projected : r.version \in Nat /\ r.version <= offset.version
    /\ \A t \in Transactions : ReadIsCurrent(txn[t])
    /\ HolesAreFlagged

LEMMA HoleStart == ProjectionInit => HoleInv
<1> SUFFICES ASSUME ProjectionInit PROVE HoleInv
  OBVIOUS
<1>1. offset \in OffsetRow /\ offset.last = 0 /\ base = 0 /\ projected = {}
  BY SMT DEF ProjectionInit, OffsetRow
<1>2. \A t \in Transactions : txn[t].kind = "NONE"
  BY DEF ProjectionInit, NoTxn
<1>3. 0 \in Nat /\ 0 <= 0 /\ ~(0 > 0)
  BY SMT
<1> QED
  BY <1>1, <1>2, <1>3 DEF HoleInv, HolesAreFlagged, ReadIsCurrent

\* A step of one transaction that does not commit.
LEMMA UncommittedHoles ==
    ASSUME StreamInv, HoleInv, NEW t \in Transactions, NEW x,
           txn' = [txn EXCEPT ![t] = x], UNCHANGED tables, ReadIsCurrent(x)
    PROVE  HoleInv'
<1>1. UNCHANGED <<projected, offset, base>>
  BY DEF tables
<1>2. \A s \in Transactions : txn'[s] = txn[s] \/ txn'[s] = x
  BY DEF StreamInv
<1>3. \A s \in Transactions : ReadIsCurrent(txn'[s])
  BY <1>2 DEF HoleInv
<1>4. \A s \in Transactions : ReadIsCurrent(txn[s])'
  BY <1>1, <1>3 DEF ReadIsCurrent, Replayed
<1> QED
  BY <1>1, <1>4 DEF HoleInv, HolesAreFlagged

\* At a commit no other transaction relies on the offset row: it is locked.
LEMMA OthersReadNothing ==
    ASSUME StreamInv, HoleInv, NEW t \in Transactions, Numbered(t),
           txn' = [txn EXCEPT ![t] = NoTxn]
    PROVE  \A s \in Transactions : ReadIsCurrent(txn[s])'
<1>1. txn'[t].kind = "NONE" /\ \A s \in Transactions : s # t => txn'[s] = txn[s] /\ ~txn[s].offset
  BY DEF StreamInv, NoTxn
<1>2. ASSUME NEW s \in Transactions, s # t PROVE ReadIsCurrent(txn[s])'
  <2>1. txn'[s] = txn[s] /\ ~txn[s].offset /\ ReadIsCurrent(txn[s])
    BY <1>1, <1>2 DEF HoleInv
  <2>2. /\ txn[s].kind = "PROJECT" => txn[s].phase \notin {"LOCKED", "WRITTEN"}
        /\ ~(txn[s].kind = "REBUILD" /\ txn[s].phase = "WRITTEN")
    BY <2>1 DEF StreamInv, Numbered
  <2> QED
    BY <2>1, <2>2 DEF ReadIsCurrent
<1>3. ReadIsCurrent(txn[t])'
  BY <1>1 DEF ReadIsCurrent
<1> QED
  BY <1>2, <1>3

\* An event is projected on the offset row that was read: a jump is flagged.
LEMMA ProjectHoles ==
    ASSUME StreamInv, HoleInv, NEW t \in Transactions, project_commits(t)
    PROVE  HoleInv'
<1> DEFINE n == txn[t].event.sequence
           v == offset.version + 1
           e == txn[t].event
           x == event_to_records(e, v)
<1>1. txn[t].prior = offset /\ e \in CaseEvents /\ n \in Nat
  BY ProjectionAssumption DEF project_commits, HoleInv, ReadIsCurrent
<1>2. /\ projected' = projected \cup {x}
      /\ offset' = [version |-> v, last |-> advanced(offset, n).last,
                    gap |-> offset.gap \/ gap(offset, n)]
      /\ base' = IF base = 0 THEN n ELSE base
      /\ txn' = [txn EXCEPT ![t] = NoTxn]
  BY <1>1 DEF project_commits
<1>3. offset' = [version |-> v, last |-> IF n > offset.last THEN n ELSE offset.last,
                 gap |-> offset.gap \/ gap(offset, n)]
  BY <1>2 DEF advanced
<1>4. x.event = e /\ x.version = v
  BY DEF event_to_records
<1>5. offset.version \in Nat /\ offset.last \in Nat /\ offset.gap \in BOOLEAN
  BY DEF HoleInv, OffsetRow
<1>6. /\ offset'.version = v /\ offset'.last = (IF n > offset.last THEN n ELSE offset.last)
      /\ offset'.gap = (offset.gap \/ gap(offset, n)) /\ v \in Nat
  <2>1. v \in Nat
    BY <1>5, SMT
  <2> HIDE DEF n, v
  <2> QED
    BY <1>3, <2>1
<1> HIDE DEF n, v, e, x
<1>7. offset' \in OffsetRow
  <2>1. (IF n > offset.last THEN n ELSE offset.last) \in Nat
    BY <1>1, <1>5
  <2>2. (offset.gap \/ gap(offset, n)) \in BOOLEAN
    OBVIOUS
  <2> QED
    BY <1>3, <1>6, <2>1, <2>2 DEF OffsetRow
<1>14. base \in Nat /\ base <= offset.last /\ (base = 0 => offset.last = 0)
  BY DEF HoleInv
<1>15. base' = IF base = 0 THEN n ELSE base
  BY <1>2
<1>16. offset'.last = IF n > offset.last THEN n ELSE offset.last
  BY <1>6
<1>8. base' \in Nat /\ base' <= offset'.last /\ (base' = 0 => offset'.last = 0)
  BY <1>1, <1>5, <1>14, <1>15, <1>16, SMT
<1>9. \A r \in projected : r.version \in Nat /\ r.version <= v /\ r.version # v
  BY <1>5, SMT DEF HoleInv, v
<1>10. \A r \in projected' : r.version \in Nat /\ r.version <= offset'.version
  <2>1. v <= v
    BY <1>6, SMT
  <2> QED
    BY <1>2, <1>4, <1>6, <1>9, <2>1
<1>11. \A r, s \in projected' : r.version = s.version => r = s
  BY <1>2, <1>4, <1>9 DEF HoleInv, HolesAreFlagged
<1>12. ASSUME base' > 0, NEW m \in base'..offset'.last, ~offset'.gap
       PROVE  \E r \in projected' : r.event.sequence = m
  <2>1. CASE m = n
    BY <1>2, <1>4, <2>1 DEF n, e
  <2>2. CASE m # n
    <3>1. ~offset.gap /\ ~(offset.last > 0 /\ n > offset.last + 1)
      BY <1>6, <1>12 DEF gap
    <3>2. base > 0 /\ m \in base..offset.last
      BY <1>1, <1>5, <1>12, <1>14, <1>15, <1>16, <2>2, <3>1, SMT
    <3> QED
      BY <1>2, <3>1, <3>2 DEF HoleInv, HolesAreFlagged
  <2> QED
    BY <2>1, <2>2
<1>13. \A s \in Transactions : ReadIsCurrent(txn[s])'
  <2>1. Numbered(t)
    BY DEF project_commits, Numbered
  <2> QED
    BY <1>2, <2>1, OthersReadNothing
<1> QED
  BY <1>7, <1>8, <1>10, <1>11, <1>12, <1>13 DEF HoleInv, HolesAreFlagged

\* A rebuild writes the rows of its replay, numbered in its order.
LEMMA RebuildHoles ==
    ASSUME StreamInv, HoleInv, NEW t \in Transactions, rebuild_commits(t)
    PROVE  HoleInv'
<1> DEFINE f == txn[t].event
           p == txn[t].prior
           v(i) == offset.version + i
<1>1. /\ p \in OffsetRow
      /\ \A i \in DOMAIN f : i \in Nat \ {0} /\ v(i) <= p.version
      /\ p.last = 0 \/ \E i \in DOMAIN f : f[i].sequence = p.last
  BY DEF rebuild_commits, HoleInv, ReadIsCurrent, Replayed
<1>2. /\ projected' = {event_to_records(f[i], v(i)) : i \in DOMAIN f}
      /\ offset' = [p EXCEPT !.gap = FALSE] /\ base' = p.last
      /\ txn' = [txn EXCEPT ![t] = NoTxn]
  BY DEF rebuild_commits
<1> HIDE DEF f, p
<1>3. /\ offset' \in OffsetRow /\ offset'.version = p.version /\ offset'.last = p.last
      /\ p.version \in Nat /\ p.last \in Nat
  <2>1. p.version \in Nat /\ p.last \in Nat
    BY <1>1 DEF OffsetRow
  <2>2. \A q \in OffsetRow : /\ [q EXCEPT !.gap = FALSE] \in OffsetRow
                             /\ [q EXCEPT !.gap = FALSE].version = q.version
                             /\ [q EXCEPT !.gap = FALSE].last = q.last
    BY DEF OffsetRow
  <2> QED
    BY <1>1, <1>2, <2>1, <2>2
<1>4. offset.version \in Nat
  BY DEF HoleInv, OffsetRow
<1>5. \A r \in projected' : \E i \in DOMAIN f : r = event_to_records(f[i], v(i))
  BY <1>2
<1>6. /\ \A i \in DOMAIN f : v(i) \in Nat
      /\ \A i, j \in DOMAIN f : v(i) = v(j) => i = j
  BY <1>1, <1>4, SMT
<1>7. \A i \in DOMAIN f : /\ event_to_records(f[i], v(i)).version = v(i)
                          /\ event_to_records(f[i], v(i)).event = f[i]
  BY DEF event_to_records
<1> HIDE DEF v
<1>8. \A r \in projected' : r.version \in Nat /\ r.version <= offset'.version
  <2> SUFFICES ASSUME NEW r \in projected'
               PROVE  r.version \in Nat /\ r.version <= offset'.version
    OBVIOUS
  <2>1. PICK i \in DOMAIN f : r = event_to_records(f[i], v(i))
    BY <1>5
  <2>2. r.version = v(i)
    BY <1>7, <2>1
  <2> QED
    BY <1>1, <1>3, <1>6, <2>2
<1>9. \A r, s \in projected' : r.version = s.version => r = s
  <2> SUFFICES ASSUME NEW r \in projected', NEW s \in projected', r.version = s.version
               PROVE  r = s
    OBVIOUS
  <2>1. PICK i \in DOMAIN f : r = event_to_records(f[i], v(i))
    BY <1>5
  <2>2. PICK j \in DOMAIN f : s = event_to_records(f[j], v(j))
    BY <1>5
  <2>3. v(i) = v(j)
    BY <1>7, <2>1, <2>2
  <2>4. i = j
    BY <1>6, <2>3
  <2> QED
    BY <2>1, <2>2, <2>4
<1>10. base' \in Nat /\ base' <= offset'.last /\ (base' = 0 => offset'.last = 0)
  BY <1>2, <1>3, SMT
<1>11. ASSUME base' > 0, NEW m \in base'..offset'.last
       PROVE  \E r \in projected' : r.event.sequence = m
  <2>1. m = p.last /\ p.last # 0
    BY <1>2, <1>3, <1>11, SMT
  <2>2. PICK i \in DOMAIN f : f[i].sequence = p.last
    BY <1>1, <2>1
  <2>3. event_to_records(f[i], v(i)) \in projected'
    BY <1>2
  <2> QED
    BY <1>7, <2>1, <2>2, <2>3
<1>12. \A s \in Transactions : ReadIsCurrent(txn[s])'
  <2>1. Numbered(t)
    BY DEF rebuild_commits, Numbered
  <2> QED
    BY <1>2, <2>1, OthersReadNothing
<1> QED
  BY <1>3, <1>8, <1>9, <1>10, <1>11, <1>12 DEF HoleInv, HolesAreFlagged

\* A replay finds what its commit relies on.
LEMMA ReplayHoles ==
    ASSUME StreamInv, HoleInv, NEW t \in Transactions, rebuild_replays(t)
    PROVE  HoleInv'
<1> DEFINE n == Cardinality(outbox)
<1>1. n \in Nat
  BY ProjectionAssumption, FS_Subset, FS_CardinalityType DEF StreamInv
<1>2. PICK f \in orders(outbox) : \E k : draw(t, k, f,
         IF n = 0 THEN project_authoritative_snapshot(replay(offset, f)[0]) ELSE replay(offset, f)[n])
  BY DEF rebuild_replays
<1>3. DOMAIN f = 1..n /\ \A i \in 1..n : f[i] \in CaseEvents
  BY DEF orders, StreamInv
<1>4. \A i \in 1..n : f[i].sequence \in Nat
  BY <1>3, ProjectionAssumption
<1> DEFINE h == replay(offset, f)
           p == IF n = 0 THEN project_authoritative_snapshot(h[0]) ELSE h[n]
<1>5. \A i \in 0..n :
         /\ h[i] \in OffsetRow /\ h[i].version = offset.version + i
         /\ h[i].last = 0 \/ \E j \in 1..n : f[j].sequence = h[i].last
  BY <1>1, <1>3, <1>4, ReplayResult DEF HoleInv
<1> HIDE DEF n, h
<1>6. 0 \in 0..n /\ n \in 0..n /\ (n = 0 => 1..n = {})
  BY <1>1, SMT
<1>7. /\ p \in OffsetRow
      /\ p.last = 0 \/ \E j \in 1..n : f[j].sequence = p.last
      /\ n # 0 => p.version = offset.version + n
  <2>1. CASE n = 0
    <3>1. h[0] \in OffsetRow /\ (h[0].last = 0 \/ \E j \in 1..n : f[j].sequence = h[0].last)
      BY <1>5, <1>6
    <3>2. p \in OffsetRow /\ p.last = h[0].last
      BY <2>1, <3>1, SMT DEF OffsetRow, project_authoritative_snapshot
    <3> QED
      BY <2>1, <3>1, <3>2
  <2>2. CASE n # 0
    BY <1>5, <1>6, <2>2
  <2> QED
    BY <2>1, <2>2
<1>8. PICK x : /\ txn' = [txn EXCEPT ![t] = x] /\ x.kind = "REBUILD"
               /\ x.event = f /\ x.prior = p
  <2>1. PICK k : draw(t, k, f, p)
    BY <1>2 DEF n, h
  <2> HIDE DEF p
  <2> DEFINE y == [kind |-> txn[t].kind, phase |-> "WRITTEN", event |-> f, offset |-> TRUE,
                   summary |-> TRUE, prior |-> p, ids |-> (drawn + 1)..(drawn + k)]
  <2>2. txn' = [txn EXCEPT ![t] = y] /\ txn[t].kind = "REBUILD"
    BY <2>1 DEF draw, rebuild_replays, StreamInv
  <2>3. y.kind = txn[t].kind /\ y.event = f /\ y.prior = p
    OBVIOUS
  <2> HIDE DEF y
  <2> QED
    BY <2>2, <2>3
<1> HIDE DEF p
<1>9. \A i \in 1..n : i \in Nat \ {0} /\ offset.version + i <= p.version
  <2>1. offset.version \in Nat
    BY DEF HoleInv, OffsetRow
  <2>2. ASSUME n # 0 PROVE \A i \in 1..n : i \in Nat \ {0} /\ offset.version + i <= p.version
    BY <1>1, <1>7, <2>1, <2>2, SMT
  <2> QED
    BY <1>6, <2>2
<1>10. ReadIsCurrent(x)
  BY <1>3, <1>7, <1>8, <1>9 DEF ReadIsCurrent, Replayed
<1>11. UNCHANGED tables
  BY DEF rebuild_replays
<1> QED
  BY <1>8, <1>10, <1>11, UncommittedHoles

LEMMA HoleStep == StreamInv /\ HoleInv /\ [ProjectionNext]_projectionVars => HoleInv'
<1> SUFFICES ASSUME StreamInv, HoleInv, [ProjectionNext]_projectionVars PROVE HoleInv'
  OBVIOUS
<1>1. CASE UNCHANGED <<tables, txn>>
  <2>1. \A s \in Transactions : ReadIsCurrent(txn[s])'
    BY <1>1 DEF HoleInv, ReadIsCurrent, Replayed, tables
  <2> QED
    BY <1>1, <2>1 DEF HoleInv, HolesAreFlagged, tables
<1>2. dashboard_stream \/ UNCHANGED projectionVars => UNCHANGED <<tables, txn>>
  BY DEF dashboard_stream, projectionVars, tables
<1>3. \A e \in CaseEvents : event_written(e) => UNCHANGED <<tables, txn>>
  BY DEF event_written
<1>4. ASSUME NEW e \in CaseEvents, NEW t \in Transactions, project_looks(t, e) PROVE HoleInv'
  <2> DEFINE x == [kind |-> "PROJECT", phase |-> "LOOKED", event |-> e, offset |-> FALSE,
                   summary |-> FALSE]
  <2>1. txn' = [txn EXCEPT ![t] = x] /\ UNCHANGED tables
    BY <1>4 DEF project_looks
  <2>2. x.kind = "PROJECT" /\ x.phase = "LOOKED" /\ x.event = e
    OBVIOUS
  <2> HIDE DEF x
  <2>3. ReadIsCurrent(x)
    BY <2>2 DEF ReadIsCurrent
  <2> QED
    BY <2>1, <2>3, UncommittedHoles
<1>5. ASSUME NEW t \in Transactions, project_locks(t) PROVE HoleInv'
  <2> DEFINE x == [kind |-> "PROJECT", phase |-> "LOCKED", event |-> txn[t].event,
                   offset |-> TRUE, summary |-> FALSE, prior |-> offset]
  <2>1. txn' = [txn EXCEPT ![t] = x] /\ UNCHANGED tables
    BY <1>5 DEF project_locks, StreamInv
  <2>2. x.kind = "PROJECT" /\ x.event = txn[t].event /\ x.prior = offset
    OBVIOUS
  <2>3. txn[t].event \in CaseEvents
    BY <1>5 DEF project_locks, HoleInv, ReadIsCurrent
  <2> HIDE DEF x
  <2>4. ReadIsCurrent(x)
    BY <2>2, <2>3 DEF ReadIsCurrent
  <2> QED
    BY <2>1, <2>4, UncommittedHoles
<1>6. ASSUME NEW t \in Transactions, project_writes(t) PROVE HoleInv'
  <2>1. PICK k : draw(t, k, txn[t].event, txn[t].prior)
    BY <1>6 DEF project_writes
  <2> DEFINE x == [kind |-> txn[t].kind, phase |-> "WRITTEN", event |-> txn[t].event,
                   offset |-> TRUE, summary |-> TRUE, prior |-> txn[t].prior,
                   ids |-> (drawn + 1)..(drawn + k)]
  <2>2. txn' = [txn EXCEPT ![t] = x] /\ UNCHANGED tables
    BY <1>6, <2>1 DEF project_writes, draw, StreamInv
  <2>3. x.kind = txn[t].kind /\ x.event = txn[t].event /\ x.prior = txn[t].prior
    OBVIOUS
  <2>4. /\ txn[t].kind = "PROJECT" /\ txn[t].event \in CaseEvents /\ txn[t].prior = offset
    BY <1>6 DEF project_writes, HoleInv, ReadIsCurrent
  <2> HIDE DEF x
  <2>5. ReadIsCurrent(x)
    BY <2>3, <2>4 DEF ReadIsCurrent
  <2> QED
    BY <2>2, <2>5, UncommittedHoles
<1>7. ASSUME NEW t \in Transactions, rebuild_marks(t) PROVE HoleInv'
  <2> DEFINE x == [kind |-> "REBUILD", phase |-> "MARKED", offset |-> offset.version = 0,
                   summary |-> summary # "NONE"]
  <2>1. txn' = [txn EXCEPT ![t] = x] /\ UNCHANGED tables
    BY <1>7 DEF rebuild_marks
  <2>2. x.kind = "REBUILD" /\ x.phase = "MARKED"
    OBVIOUS
  <2> HIDE DEF x
  <2>3. ReadIsCurrent(x)
    BY <2>2 DEF ReadIsCurrent
  <2> QED
    BY <2>1, <2>3, UncommittedHoles
<1>8. ASSUME NEW t \in Transactions, txn_aborts(t) PROVE HoleInv'
  <2>1. NoTxn.kind = "NONE"
    BY DEF NoTxn
  <2>2. ReadIsCurrent(NoTxn)
    BY <2>1 DEF ReadIsCurrent
  <2> QED
    BY <1>8, <2>2, UncommittedHoles DEF txn_aborts
<1> QED
  BY <1>1, <1>2, <1>3, <1>4, <1>5, <1>6, <1>7, <1>8, ProjectHoles, ReplayHoles, RebuildHoles
  DEF ProjectionNext

\* For any case events and transactions, a number that no projected event has
\* is flagged as a gap, from the first projected event or the end of the last
\* rebuild on, and versions are unique: the gap test of project_event reads
\* the offset row it updates, which stays locked in between.
THEOREM HolesAreMarked == ProjectionSpec => []HolesAreFlagged
<1>1. HoleInv => HolesAreFlagged
  BY DEF HoleInv
<1> QED
  BY <1>1, StreamStart, StreamStep, HoleStart, HoleStep, PTL DEF ProjectionSpec

=============================================================================
