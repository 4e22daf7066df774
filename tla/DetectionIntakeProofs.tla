----------------------- MODULE DetectionIntakeProofs -----------------------
(***************************************************************************)
(* Proofs about DetectionIntake for any number of messages, workers and    *)
(* failures.  A worker acts on what it read some steps ago, so the         *)
(* invariant says which of its findings stay true: rows are only added,    *)
(* hence a processed event and an existing case stay, while the absence of *)
(* either does not and is left to the unique indexes.  The same invariant  *)
(* carries the refinement of CorrelationLog.                               *)
(*                                                                         *)
(* The same question about RouteCache, for any number of requests: an      *)
(* answer was true when it was read, and the invariant bounds how long ago *)
(* that was; and about EvidenceLedger, AnalystDirectives and               *)
(* EvidenceVerification, where what was read is kept true by a row lock or *)
(* by the advisory lock of the evidence source.                            *)
(***************************************************************************)
EXTENDS DetectionIntake, RouteCache, EvidenceLedger, AnalystDirectives,
        EvidenceVerification, CommonLemmas, TLAPS

\* Most steps are first-order; those with arithmetic cite SMT.
USE Zenon

\* What a worker in the middle of process may rely on.
Relies(w, m) ==
    current(w, m) =>
        /\ phase[w] = "READ" /\ decision[w] = "EXISTING" => key(m) \in cases
        /\ phase[w] = "READ" /\ decision[w] = "ALREADY" => event[m] \in processed
        /\ phase[w] = "DONE" => event[m] \in processed
        /\ phase[w] = "DEAD" => m \in failed_stream

WorkerInv == \A w \in Workers, m \in Messages : Relies(w, m)

Inv == TypeOK /\ WorkerInv /\ EffectOnce /\ OneCasePerKey /\ AckedIsHandled

----------------------------------------------------------------------------
\* A worker has one current message, the first of its batch.
LEMMA CurrentIsUnique ==
    ASSUME NEW w, NEW m, NEW n, current(w, m), current(w, n)
    PROVE  m = n
BY IntakeAssumption, SMT DEF current, batch

\* Every step keeps the types; the server's limit bounds the delivery counts.
LEMMA TypeStep == TypeOK /\ [Next]_vars => TypeOK'
<1> SUFFICES ASSUME TypeOK, [Next]_vars PROVE TypeOK'
  OBVIOUS
<1> USE IntakeAssumption DEF TypeOK, fixed
<1>1. ASSUME NEW w \in Workers, fetch(w) PROVE TypeOK'
  <2>1. PICK b \in SUBSET available :
           /\ delivered' = [m \in Messages |-> delivered[m] + IF m \in b THEN 1 ELSE 0]
           /\ outstanding' = outstanding \cup b
           /\ held' = [held EXCEPT ![w] = [m \in Messages |-> IF m \in b THEN delivered'[m] ELSE 0]]
    BY <1>1 DEF fetch
  <2>2. delivered' \in [Messages -> 0..max_deliver]
    BY <2>1, SMT DEF available
  <2>3. held' \in [Workers -> [Messages -> 0..max_deliver]]
    BY <2>1, <2>2, SMT
  <2>4. outstanding' \subseteq Messages
    BY <2>1 DEF available
  <2> QED
    BY <1>1, <2>2, <2>3, <2>4 DEF fetch, tableVars
<1>2. ASSUME NEW m \in Messages, ack_wait(m) PROVE TypeOK'
  BY <1>2 DEF ack_wait, workerVars, tableVars
<1>3. ASSUME NEW w \in Workers, NEW m \in Messages, correlate_read(w, m) PROVE TypeOK'
  BY <1>3 DEF correlate_read, streamVars, tableVars
<1>4. ASSUME NEW w \in Workers, NEW m \in Messages, correlate_commit(w, m) PROVE TypeOK'
  <2>1. cases' \subseteq Keys /\ processed' \subseteq Detections
    BY <1>4, SMT DEF correlate_commit, key, tableVars
  <2>2. created' \in [Keys -> Nat] /\ audited' \in [Detections -> Nat]
    <3>1. CASE UNCHANGED tableVars
      BY <3>1 DEF tableVars
    <3>2. CASE decision[w] # "ALREADY"
      <4>1. audited' \in [Detections -> Nat]
        BY <1>4, <3>2, SMT DEF correlate_commit
      <4>2. created' = created \/ created' = [created EXCEPT ![key(m)] = @ + 1]
        BY <1>4, <3>2 DEF correlate_commit
      <4> QED
        BY <4>1, <4>2, SMT DEF key
    <3> QED
      BY <1>4, <3>1, <3>2 DEF correlate_commit
  <2> QED
    BY <1>4, <2>1, <2>2 DEF correlate_commit, streamVars
<1>5. ASSUME NEW w \in Workers, NEW m \in Messages, correlate_raises(w, m) PROVE TypeOK'
  BY <1>5 DEF correlate_raises, streamVars, tableVars
<1>6. ASSUME NEW w \in Workers, NEW m \in Messages, ack(w, m) \/ nak(w, m) PROVE TypeOK'
  <2>1. held' \in [Workers -> [Messages -> 0..max_deliver]]
    BY <1>6, SMT DEF ack, nak, drop
  <2> QED
    BY <1>6, <2>1 DEF ack, nak, drop, tableVars
<1>7. ASSUME NEW w \in Workers, NEW m \in Messages, _dead_letter(w, m) PROVE TypeOK'
  BY <1>7 DEF _dead_letter, streamVars, tableVars
<1>8. ASSUME NEW w \in Workers, crash(w) PROVE TypeOK'
  BY <1>8, SMT DEF crash, fault, streamVars, tableVars
<1>9. ASSUME NEW w \in Workers, db_error(w) PROVE TypeOK'
  BY <1>9, SMT DEF db_error, fault, streamVars, tableVars
<1>11. ASSUME NEW w \in Workers, db_drop(w) PROVE TypeOK'
  <2>1. phase' = phase \/ phase' = [phase EXCEPT ![w] = "FAILED"]
    BY <1>11 DEF db_drop
  <2> QED
    BY <1>11, <2>1, SMT DEF db_drop, fault, streamVars, tableVars
<1>10. CASE UNCHANGED vars
  BY <1>10 DEF vars, streamVars, workerVars, tableVars
<1> QED
  BY <1>1, <1>2, <1>3, <1>4, <1>5, <1>6, <1>7, <1>8, <1>9, <1>10, <1>11
     DEF Next, process

----------------------------------------------------------------------------
\* Rows are only ever added.
LEMMA RowsStay ==
    ASSUME [Next]_vars
    PROVE  cases \subseteq cases' /\ processed \subseteq processed'
           /\ failed_stream \subseteq failed_stream' /\ fixed
<1> DEFINE Other == fixed /\ UNCHANGED <<cases, processed, failed_stream>>
<1>1. ASSUME NEW w \in Workers, fetch(w) \/ crash(w) \/ db_error(w) \/ db_drop(w)
      PROVE  Other
  <2>1. CASE fetch(w)
    BY <2>1 DEF fetch, fixed, tableVars
  <2>2. CASE crash(w)
    BY <2>2 DEF crash, fixed, tableVars
  <2>3. CASE db_error(w)
    BY <2>3 DEF db_error, fixed, tableVars
  <2>4. CASE db_drop(w)
    BY <2>4 DEF db_drop, fixed, tableVars
  <2> QED
    BY <1>1, <2>1, <2>2, <2>3, <2>4
<1>2. ASSUME NEW w \in Workers, NEW m \in Messages,
             correlate_read(w, m) \/ correlate_raises(w, m) \/ ack(w, m) \/ nak(w, m)
      PROVE  Other
  <2>1. CASE correlate_read(w, m)
    BY <2>1 DEF correlate_read, fixed, tableVars
  <2>2. CASE correlate_raises(w, m)
    BY <2>2 DEF correlate_raises, fixed, tableVars
  <2>3. CASE ack(w, m)
    BY <2>3 DEF ack, fixed, tableVars
  <2>4. CASE nak(w, m)
    BY <2>4 DEF nak, fixed, tableVars
  <2> QED
    BY <1>2, <2>1, <2>2, <2>3, <2>4
<1>3. ASSUME NEW w \in Workers, NEW m \in Messages, correlate_commit(w, m)
      PROVE  cases \subseteq cases' /\ processed \subseteq processed'
             /\ failed_stream \subseteq failed_stream' /\ fixed
  BY <1>3 DEF correlate_commit, tableVars, fixed
<1>4. ASSUME NEW w \in Workers, NEW m \in Messages, _dead_letter(w, m)
      PROVE  cases \subseteq cases' /\ processed \subseteq processed'
             /\ failed_stream \subseteq failed_stream' /\ fixed
  BY <1>4 DEF _dead_letter, tableVars, fixed
<1>5. ASSUME NEW m \in Messages, ack_wait(m) PROVE Other
  BY <1>5 DEF ack_wait, fixed, tableVars
<1>6. CASE UNCHANGED vars
  BY <1>6 DEF vars, fixed, tableVars
<1> QED
  BY <1>1, <1>2, <1>3, <1>4, <1>5, <1>6 DEF Next, process

\* A worker that keeps its message and phase keeps what it relies on.
LEMMA OthersRely ==
    ASSUME WorkerInv, [Next]_vars, NEW v \in Workers, NEW n \in Messages,
           held'[v] = held[v], phase'[v] = phase[v], decision'[v] = decision[v]
    PROVE  Relies(v, n)'
<1>1. current(v, n)' = current(v, n)
  BY DEF current, batch
<1>2. key(n)' = key(n) /\ event'[n] = event[n]
  BY RowsStay DEF key, fixed
<1> QED
  BY <1>1, <1>2, RowsStay DEF Relies, WorkerInv

\* A worker between two messages relies on nothing.
LEMMA IdleRelies ==
    ASSUME NEW v, NEW n, phase'[v] \in {"IDLE", "FAILED"}
    PROVE  Relies(v, n)'
BY DEF Relies

\* What workers rely on stays true: rows are not deleted, and the only steps
\* that start relying on something have just seen or written it.
LEMMA WorkerStep == TypeOK /\ WorkerInv /\ [Next]_vars => WorkerInv'
<1> SUFFICES ASSUME TypeOK, WorkerInv, [Next]_vars,
                    NEW v \in Workers, NEW n \in Messages
             PROVE  Relies(v, n)'
  BY DEF WorkerInv
<1> USE DEF TypeOK
<1>1. CASE UNCHANGED <<held[v], phase[v], decision[v]>>
  BY <1>1, OthersRely
<1>2. CASE phase'[v] \in {"IDLE", "FAILED"}
  BY <1>2, IdleRelies, SMT
<1>3. ASSUME NEW w \in Workers, fetch(w) PROVE Relies(v, n)'
  BY <1>1, <1>2, <1>3 DEF fetch
<1>4. ASSUME NEW m \in Messages, ack_wait(m) PROVE Relies(v, n)'
  BY <1>1, <1>4 DEF ack_wait, workerVars
<1>5. ASSUME NEW w \in Workers, NEW m \in Messages, correlate_read(w, m) PROVE Relies(v, n)'
  <2>1. CASE v # w
    BY <1>1, <1>5, <2>1 DEF correlate_read
  <2>2. CASE v = w /\ phase'[w] = "READ" /\ current(w, n)
    <3>1. n = m
      BY <1>5, <2>2, CurrentIsUnique DEF correlate_read
    <3> QED
      BY <1>5, <2>2, <3>1 DEF correlate_read, Relies, fixed, tableVars, key
  <2>3. current(w, n)' = current(w, n)
    BY <1>5 DEF correlate_read, current, batch
  <2>4. CASE v = w /\ ~current(w, n)
    BY <2>3, <2>4 DEF Relies
  <2> QED
    BY <1>2, <1>5, <2>1, <2>2, <2>4 DEF correlate_read
<1>6. ASSUME NEW w \in Workers, NEW m \in Messages, correlate_commit(w, m) PROVE Relies(v, n)'
  <2>1. CASE v # w
    BY <1>1, <1>6, <2>1 DEF correlate_commit
  <2>2. CASE v = w /\ current(w, n)
    <3>1. n = m
      BY <1>6, <2>2, CurrentIsUnique DEF correlate_commit
    <3>2. event[m] \in processed'
      BY <1>6 DEF correlate_commit, WorkerInv, Relies, tableVars
    <3> QED
      BY <1>6, <2>2, <3>1, <3>2 DEF correlate_commit, Relies, fixed
  <2>3. current(w, n)' = current(w, n)
    BY <1>6 DEF correlate_commit, current, batch
  <2>4. CASE v = w /\ ~current(w, n)
    BY <2>3, <2>4 DEF Relies
  <2> QED
    BY <2>1, <2>2, <2>4
<1>7. ASSUME NEW w \in Workers, NEW m \in Messages,
             correlate_raises(w, m) \/ ack(w, m) \/ nak(w, m)
      PROVE  Relies(v, n)'
  BY <1>1, <1>2, <1>7 DEF correlate_raises, ack, nak, drop
<1>8. ASSUME NEW w \in Workers, NEW m \in Messages, _dead_letter(w, m) PROVE Relies(v, n)'
  <2>1. CASE v # w
    BY <1>1, <1>8, <2>1 DEF _dead_letter
  <2>2. CASE v = w /\ current(w, n)
    <3>1. n = m
      BY <1>8, <2>2, CurrentIsUnique DEF _dead_letter
    <3> QED
      BY <1>8, <2>2, <3>1 DEF _dead_letter, Relies
  <2>3. current(w, n)' = current(w, n)
    BY <1>8 DEF _dead_letter, current, batch
  <2>4. CASE v = w /\ ~current(w, n)
    BY <2>3, <2>4 DEF Relies
  <2> QED
    BY <2>1, <2>2, <2>4
<1>9. ASSUME NEW w \in Workers, crash(w) \/ db_error(w) PROVE Relies(v, n)'
  BY <1>1, <1>2, <1>9 DEF crash, db_error
<1>10. ASSUME NEW w \in Workers, db_drop(w) PROVE Relies(v, n)'
  <2>1. phase'[v] = phase[v] \/ phase'[v] = "FAILED"
    BY <1>10 DEF db_drop
  <2> QED
    BY <1>1, <1>2, <1>10, <2>1 DEF db_drop
<1>11. CASE UNCHANGED vars
  BY <1>1, <1>11 DEF vars, workerVars
<1> QED
  BY <1>3, <1>4, <1>5, <1>6, <1>7, <1>8, <1>9, <1>10, <1>11 DEF Next, process

\* Only correlate_commit writes rows and only ack acknowledges; both keep the
\* three facts, the first because the indexes refuse what a race made stale.
LEMMA RowsStep ==
    Inv /\ [Next]_vars => EffectOnce' /\ OneCasePerKey' /\ AckedIsHandled'
<1> SUFFICES ASSUME Inv, [Next]_vars
             PROVE  EffectOnce' /\ OneCasePerKey' /\ AckedIsHandled'
  OBVIOUS
<1> USE DEF Inv, TypeOK
<1>1. CASE UNCHANGED tableVars /\ acked' = acked
  BY <1>1, RowsStay DEF EffectOnce, OneCasePerKey, AckedIsHandled, tableVars, fixed
<1>2. ASSUME NEW w \in Workers, NEW m \in Messages, correlate_commit(w, m), decision[w] # "ALREADY"
      PROVE  EffectOnce' /\ OneCasePerKey' /\ AckedIsHandled'
  <2>1. event[m] \notin processed /\ (decision[w] = "CREATE" => key(m) \notin cases)
    BY <1>2 DEF correlate_commit, unique_violation
  <2>2. decision[w] # "CREATE" => key(m) \in cases
    BY <1>2 DEF correlate_commit, WorkerInv, Relies
  <2>3. EffectOnce'
    BY <1>2, <2>1, SMT DEF correlate_commit, EffectOnce
  <2>4. \A k \in Keys : created'[k] = IF k \in cases' THEN 1 ELSE 0
    <3>1. CASE decision[w] = "CREATE"
      BY <1>2, <2>1, <3>1, SMT DEF correlate_commit, OneCasePerKey, key
    <3>2. CASE decision[w] # "CREATE"
      BY <1>2, <2>2, <3>2 DEF correlate_commit, OneCasePerKey, key
    <3> QED
      BY <3>1, <3>2
  <2>5. \A d \in processed' : correlation_key'[d] \in cases'
    BY <1>2, SMT DEF correlate_commit, OneCasePerKey, key, fixed
  <2>6. AckedIsHandled'
    BY <1>2, RowsStay DEF correlate_commit, AckedIsHandled, fixed, streamVars
  <2> QED
    BY <2>3, <2>4, <2>5, <2>6 DEF OneCasePerKey
<1>3. ASSUME NEW w \in Workers, NEW m \in Messages, correlate_commit(w, m), decision[w] = "ALREADY"
      PROVE  UNCHANGED tableVars /\ acked' = acked
  BY <1>3 DEF correlate_commit, streamVars
<1>4. ASSUME NEW w \in Workers, NEW m \in Messages, ack(w, m)
      PROVE  EffectOnce' /\ OneCasePerKey' /\ AckedIsHandled'
  <2>1. event[m] \in processed \/ m \in failed_stream
    BY <1>4 DEF ack, WorkerInv, Relies
  <2>2. EffectOnce' /\ OneCasePerKey'
    BY <1>4 DEF ack, EffectOnce, OneCasePerKey, tableVars, fixed
  <2>3. AckedIsHandled'
    BY <1>4, <2>1 DEF ack, AckedIsHandled, tableVars, fixed
  <2> QED
    BY <2>2, <2>3
<1>5. CASE UNCHANGED vars
  BY <1>1, <1>5 DEF vars, tableVars, streamVars
<1>6. \/ UNCHANGED tableVars /\ acked' = acked
      \/ UNCHANGED vars
      \/ \E w \in Workers, m \in Messages : correlate_commit(w, m) \/ ack(w, m)
  BY ZenonT(30) DEF Next, process, fetch, ack_wait, correlate_read, correlate_raises, nak, _dead_letter,
         crash, db_error, db_drop, streamVars
<1> QED
  BY <1>1, <1>2, <1>3, <1>4, <1>5, <1>6

----------------------------------------------------------------------------
\* The invariant holds throughout.
THEOREM Invariance == Spec => [](Inv)
<1>1. Init => Inv
  <2> SUFFICES ASSUME Init PROVE Inv
    OBVIOUS
  <2>1. TypeOK
    BY IntakeAssumption, SMT DEF Init, TypeOK
  <2>2. WorkerInv
    BY DEF Init, WorkerInv, Relies
  <2> QED
    BY <2>1, <2>2 DEF Init, Inv, EffectOnce, OneCasePerKey, AckedIsHandled
<1>2. Inv /\ [Next]_vars => Inv'
  BY TypeStep, WorkerStep, RowsStep DEF Inv
<1> QED
  BY <1>1, <1>2, PTL DEF Spec

\* The variables keep their types: no copy of a message counts more than
\* max_deliver deliveries.
THEOREM Typing == Spec => []TypeOK
BY Invariance, PTL DEF Inv

\* However many workers, copies and failures, a detection leaves one audit row,
\* exactly when processed_events has it.
THEOREM EffectIsOnce == Spec => []EffectOnce
BY Invariance, PTL DEF Inv

\* Workers that race on one correlation key make one case and announce it once.
THEOREM OneCaseForAKey == Spec => []OneCasePerKey
BY Invariance, PTL DEF Inv

\* Nothing is acknowledged that was neither processed nor dead-lettered.
THEOREM AcknowledgedIsHandled == Spec => []AckedIsHandled
BY Invariance, PTL DEF Inv

----------------------------------------------------------------------------
(* Refinement: the correlation log *)

\* A commit is the correlation of its message, whatever the worker had read.
LEMMA CommitCorrelates ==
    ASSUME Inv, NEW w \in Workers, NEW m \in Messages, correlate_commit(w, m),
           decision[w] # "ALREADY"
    PROVE  Correlation!Correlate(event[m], correlation_key[event[m]])
<1> USE DEF Inv
<1>1. event[m] \notin processed /\ (decision[w] = "CREATE" => key(m) \notin cases)
  BY DEF correlate_commit, unique_violation
<1>2. decision[w] # "CREATE" => key(m) \in cases
  <2>1. decision[w] \in {"ALREADY", "EXISTING", "CREATE"}
    BY DEF TypeOK
  <2> QED
    BY <2>1 DEF correlate_commit, WorkerInv, Relies
<1>3. created' = IF key(m) \in cases THEN created ELSE [created EXCEPT ![key(m)] = @ + 1]
  BY <1>1, <1>2 DEF correlate_commit
<1> QED
  BY <1>1, <1>3 DEF correlate_commit, Correlation!Correlate, key, streamVars

\* Workers, redeliveries and failures implement the correlation log, for any
\* number of messages, workers and faults (DeadLetterAwareConsumer.process,
\* correlate_detection).
THEOREM IntakeImplementsCorrelation == Spec => ImplementsCorrelation
<1>1. Init => Correlation!Init
  <2> SUFFICES ASSUME Init PROVE Correlation!Init
    OBVIOUS
  <2>1. DOMAIN correlation_key = Detections
    BY DEF Init
  <2> QED
    BY <2>1 DEF Init, Correlation!Init
<1>2. Inv /\ [Next]_vars => [Correlation!Next]_(Correlation!vars)
  <2> SUFFICES ASSUME Inv, [Next]_vars
               PROVE  Correlation!Next \/ UNCHANGED Correlation!vars
    OBVIOUS
  <2>1. UNCHANGED <<event, correlation_key>>
    BY RowsStay DEF fixed
  <2>2. CASE UNCHANGED tableVars /\ UNCHANGED <<acked, failed_stream>>
    BY <2>1, <2>2 DEF tableVars, Correlation!vars
  <2>3. ASSUME NEW w \in Workers, NEW m \in Messages, correlate_commit(w, m)
        PROVE  Correlation!Next \/ UNCHANGED Correlation!vars
    <3>1. CASE decision[w] = "ALREADY"
      BY <2>2, <2>3, <3>1 DEF correlate_commit, streamVars
    <3>2. CASE decision[w] # "ALREADY"
      BY <2>1, <2>3, <3>2, CommitCorrelates DEF Correlation!Next, Correlation!fixed
    <3> QED
      BY <3>1, <3>2
  <2>4. ASSUME NEW w \in Workers, NEW m \in Messages, ack(w, m)
        PROVE  Correlation!Next
    <3>1. event[m] \in processed \/ m \in failed_stream
      BY <2>4 DEF ack, Inv, WorkerInv, Relies
    <3>2. Correlation!Settle(m)
      BY <2>4, <3>1 DEF ack, tableVars, Correlation!Settle
    <3> QED
      BY <2>1, <3>2 DEF Correlation!Next, Correlation!fixed
  <2>5. ASSUME NEW w \in Workers, NEW m \in Messages, _dead_letter(w, m)
        PROVE  Correlation!Next
    <3>1. Correlation!GiveUp(m)
      BY <2>5 DEF _dead_letter, tableVars, streamVars, Correlation!GiveUp
    <3> QED
      BY <2>1, <3>1 DEF Correlation!Next, Correlation!fixed
  <2>6. \/ UNCHANGED tableVars /\ UNCHANGED <<acked, failed_stream>>
        \/ \E w \in Workers, m \in Messages :
              correlate_commit(w, m) \/ ack(w, m) \/ _dead_letter(w, m)
    <3>1. ASSUME NEW w \in Workers, fetch(w) \/ crash(w) \/ db_error(w) \/ db_drop(w)
          PROVE  UNCHANGED tableVars /\ UNCHANGED <<acked, failed_stream>>
      BY <3>1 DEF fetch, crash, db_error, db_drop, streamVars
    <3>2. ASSUME NEW w \in Workers, NEW m \in Messages,
                 correlate_read(w, m) \/ correlate_raises(w, m) \/ nak(w, m)
          PROVE  UNCHANGED tableVars /\ UNCHANGED <<acked, failed_stream>>
      BY <3>2 DEF correlate_read, correlate_raises, nak, streamVars
    <3>3. ASSUME NEW m \in Messages, ack_wait(m)
          PROVE  UNCHANGED tableVars /\ UNCHANGED <<acked, failed_stream>>
      BY <3>3 DEF ack_wait
    <3>4. CASE UNCHANGED vars
      BY <3>4 DEF vars, streamVars
    <3> QED
      BY <3>1, <3>2, <3>3, <3>4 DEF Next, process
  <2> QED
    BY <2>2, <2>3, <2>4, <2>5, <2>6
<1> QED
  BY Invariance, <1>1, <1>2, PTL DEF Spec, ImplementsCorrelation, Correlation!Spec

----------------------------------------------------------------------------
(* Route lookups *)

\* Rows, entry and requests of the route lookup are well formed.
RouteTypeOK ==
    /\ now \in Nat /\ answered \in Int
    /\ \A d \in decisions : d.target \in Targets
    /\ last_true \in [Targets -> Nat]
    /\ entry = NoEntry \/ (entry.target \in Targets /\ entry.at \in Nat)
    /\ DOMAIN request = Requests
    /\ \A r \in Requests :
          resolved(r) => request[r].target \in Targets /\ request[r].since \in Nat

\* Strengthens AnswerIsRecent.  The database's answer is true now; what a
\* request resolved was true when it asked, at most MaxDelay ago; what the
\* cache holds was true at most MaxDelay before its date.
RouteInv ==
    /\ RouteTypeOK
    /\ last_true[resolve_route(decisions, now)] = now
    /\ \A t \in Targets : last_true[t] <= now
    /\ \A r \in Requests : resolved(r) =>
          request[r].since <= last_true[request[r].target] /\ now - request[r].since <= MaxDelay
    /\ entry # NoEntry => entry.at <= last_true[entry.target] + MaxDelay
    /\ answered <= Ttl + MaxDelay

\* A lookup answers a target.
LEMMA RouteIsTarget ==
    ASSUME NEW rows, NEW t, \A d \in rows : d.target \in Targets
    PROVE  resolve_route(rows, t) \in Targets
BY DEF resolve_route, Targets, DEFAULT_TARGET

\* What seen_true notes, for rows and a time that is not in the past.
LEMMA SeenTrue ==
    ASSUME NEW rows, NEW t \in Nat, \A d \in rows : d.target \in Targets,
           last_true \in [Targets -> Nat], \A u \in Targets : last_true[u] <= t
    PROVE  /\ seen_true(rows, t) \in [Targets -> Nat]
           /\ seen_true(rows, t)[resolve_route(rows, t)] = t
           /\ \A u \in Targets : last_true[u] <= seen_true(rows, t)[u] /\ seen_true(rows, t)[u] <= t
<1>1. PICK x : x = resolve_route(rows, t)
  OBVIOUS
<1>2. x \in Targets
  BY <1>1, RouteIsTarget
<1>3. seen_true(rows, t) = [last_true EXCEPT ![x] = t]
  BY <1>1 DEF seen_true
<1>4. PICK f : f = [last_true EXCEPT ![x] = t]
  OBVIOUS
<1>5. f \in [Targets -> Nat] /\ f[x] = t /\ \A u \in Targets : last_true[u] <= f[u] /\ f[u] <= t
  BY <1>2, <1>4, SMT
<1> QED
  BY <1>1, <1>3, <1>4, <1>5

\* Nothing is cached and the default target is the answer at first.
LEMMA RouteStart == RouteInit => RouteInv
<1> SUFFICES ASSUME RouteInit PROVE RouteInv
  OBVIOUS
<1>1. resolve_route(decisions, now) = "ENDPOINT"
  BY DEF RouteInit, resolve_route, DEFAULT_TARGET
<1>2. RouteTypeOK
  BY SMT DEF RouteInit, RouteTypeOK, resolved
<1> QED
  BY <1>1, <1>2, RouteAssumption, SMT DEF RouteInit, RouteInv, resolved, Targets

\* Every step of the clock, of an analyst and of a request keeps the invariant.
LEMMA RouteStep == RouteInv /\ [RouteNext]_routeVars => RouteInv'
<1> SUFFICES ASSUME RouteInv, [RouteNext]_routeVars PROVE RouteInv'
  OBVIOUS
<1> USE RouteAssumption
<1>1. CASE clock_ticks
  <2>1. /\ now' = now + 1 /\ now' \in Nat /\ last_true' = seen_true(decisions, now')
        /\ UNCHANGED <<decisions, entry, request, answered>>
        /\ \A r \in Requests : resolved(r) => now - request[r].since < MaxDelay
    BY <1>1, SMT DEF clock_ticks, RouteInv, RouteTypeOK
  <2>2. /\ last_true' \in [Targets -> Nat]
        /\ last_true'[resolve_route(decisions, now')] = now'
        /\ \A u \in Targets : last_true[u] <= last_true'[u] /\ last_true'[u] <= now'
    <3>1. \A u \in Targets : last_true[u] <= now'
      BY <2>1, SMT DEF RouteInv, RouteTypeOK
    <3> QED
      BY <2>1, <3>1, SeenTrue DEF RouteInv, RouteTypeOK
  <2>3. RouteTypeOK'
    BY <2>1, <2>2 DEF RouteInv, RouteTypeOK, resolved
  <2>4. (last_true[resolve_route(decisions, now)] = now)'
    BY <2>1, <2>2
  <2>5. ASSUME NEW r \in Requests, resolved(r)
        PROVE  request[r].since <= last_true'[request[r].target]
               /\ now' - request[r].since <= MaxDelay
    BY <2>1, <2>2, <2>5, SMT DEF RouteInv, RouteTypeOK
  <2>6. entry # NoEntry => entry.at <= last_true'[entry.target] + MaxDelay
    BY <2>2, SMT DEF RouteInv, RouteTypeOK
  <2> QED
    BY <2>1, <2>2, <2>3, <2>4, <2>5, <2>6 DEF RouteInv, resolved
<1>2. ASSUME NEW target \in Targets, NEW until \in (now + 1)..NoEnd,
             write_routing_decision(target, until)
      PROVE  RouteInv'
  <2>1. PICK d : d = [target |-> target, from |-> now, until |-> until]
    OBVIOUS
  <2>2. /\ decisions' = decisions \cup {d} /\ d.target \in Targets
        /\ last_true' = seen_true(decisions', now)
        /\ UNCHANGED <<now, entry, request, answered>>
    BY <1>2, <2>1 DEF write_routing_decision
  <2>3. \A e \in decisions' : e.target \in Targets
    BY <2>2 DEF RouteInv, RouteTypeOK
  <2>4. /\ last_true' \in [Targets -> Nat]
        /\ last_true'[resolve_route(decisions', now)] = now
        /\ \A u \in Targets : last_true[u] <= last_true'[u] /\ last_true'[u] <= now
    BY <2>2, <2>3, SeenTrue DEF RouteInv, RouteTypeOK
  <2>5. RouteTypeOK'
    BY <2>2, <2>3, <2>4 DEF RouteInv, RouteTypeOK, resolved
  <2>6. ASSUME NEW r \in Requests, resolved(r)
        PROVE  request[r].since <= last_true'[request[r].target]
               /\ now - request[r].since <= MaxDelay
    BY <2>4, <2>6, SMT DEF RouteInv, RouteTypeOK
  <2>7. entry # NoEntry => entry.at <= last_true'[entry.target] + MaxDelay
    BY <2>4, SMT DEF RouteInv, RouteTypeOK
  <2> QED
    BY <2>2, <2>4, <2>5, <2>6, <2>7 DEF RouteInv, resolved
<1>3. ASSUME NEW r \in Requests, route_hits(r) PROVE RouteInv'
  <2>1. /\ entry # NoEntry /\ now - entry.at <= Ttl /\ answered' = now - last_true[entry.target]
        /\ UNCHANGED <<now, decisions, entry, request, last_true>>
    BY <1>3 DEF route_hits, fresh, answer, cache_hit
  <2>2. answered' \in Int /\ answered' <= Ttl + MaxDelay
    BY <2>1, SMT DEF RouteInv, RouteTypeOK
  <2> QED
    BY <2>1, <2>2 DEF RouteInv, RouteTypeOK, resolved
<1>4. ASSUME NEW r \in Requests, route_misses(r) PROVE RouteInv'
  <2>1. /\ entry' = NoEntry /\ request' = [request EXCEPT ![r] = Missed]
        /\ UNCHANGED <<now, decisions, last_true, answered>>
    BY <1>4 DEF route_misses
  <2>2. DOMAIN request' = Requests
        /\ \A s \in Requests : resolved(s)' => resolved(s) /\ request'[s] = request[s]
    BY <2>1 DEF RouteInv, RouteTypeOK, resolved
  <2> QED
    BY <2>1, <2>2 DEF RouteInv, RouteTypeOK
<1>5. ASSUME NEW r \in Requests, route_resolves(r) PROVE RouteInv'
  <2>1. PICK q : q = [target |-> resolve_route(decisions, now), since |-> now]
    OBVIOUS
  <2>2. request' = [request EXCEPT ![r] = q]
        /\ UNCHANGED <<now, decisions, entry, last_true, answered>>
    BY <1>5, <2>1 DEF route_resolves
  <2>3. q.target \in Targets /\ q.since = now /\ last_true[q.target] = now
    BY <2>1, RouteIsTarget DEF RouteInv, RouteTypeOK
  <2>4. DOMAIN request' = Requests
        /\ \A s \in Requests : request'[s] = IF s = r THEN q ELSE request[s]
    BY <2>2 DEF RouteInv, RouteTypeOK
  <2>5. \A s \in Requests : resolved(s)' => s = r \/ (resolved(s) /\ request'[s] = request[s])
    BY <2>4 DEF resolved
  <2> QED
    BY <2>2, <2>3, <2>4, <2>5, SMT DEF RouteInv, RouteTypeOK
<1>6. ASSUME NEW r \in Requests, route_sets(r) PROVE RouteInv'
  <2>1. /\ resolved(r) /\ entry' = [target |-> request[r].target, at |-> now]
        /\ answered' = now - last_true[request[r].target]
        /\ request' = [request EXCEPT ![r] = Quiet]
        /\ UNCHANGED <<now, decisions, last_true>>
    BY <1>6 DEF route_sets, answer
  <2>2. /\ request[r].target \in Targets /\ request[r].since \in Nat
        /\ request[r].since <= last_true[request[r].target] /\ now - request[r].since <= MaxDelay
    BY <2>1 DEF RouteInv, RouteTypeOK
  <2>3. now <= last_true[request[r].target] + MaxDelay /\ answered' \in Int
        /\ answered' <= Ttl + MaxDelay
    BY <2>1, <2>2, SMT DEF RouteInv, RouteTypeOK
  <2>4. entry'.target = request[r].target /\ entry'.at = now
    BY <2>1
  <2>5. DOMAIN request' = Requests
        /\ \A s \in Requests : resolved(s)' => resolved(s) /\ request'[s] = request[s]
    BY <2>1 DEF RouteInv, RouteTypeOK, resolved
  <2> QED
    BY <2>1, <2>2, <2>3, <2>4, <2>5 DEF RouteInv, RouteTypeOK
<1>7. ASSUME NEW r \in Requests, route_fails(r) PROVE RouteInv'
  <2>1. request' = [request EXCEPT ![r] = Quiet]
        /\ UNCHANGED <<now, decisions, entry, last_true, answered>>
    BY <1>7 DEF route_fails
  <2>2. DOMAIN request' = Requests
        /\ \A s \in Requests : resolved(s)' => resolved(s) /\ request'[s] = request[s]
    BY <2>1 DEF RouteInv, RouteTypeOK, resolved
  <2> QED
    BY <2>1, <2>2 DEF RouteInv, RouteTypeOK
<1>8. CASE UNCHANGED routeVars
  BY <1>8 DEF routeVars, RouteInv, RouteTypeOK, resolved
<1> QED
  BY <1>1, <1>2, <1>3, <1>4, <1>5, <1>6, <1>7, <1>8 DEF RouteNext

\* However requests overlap, an answer was the database's at most the lifetime
\* of an entry and the time of one request ago (RouteCache.get and set).
THEOREM AnswersAreRecent == RouteSpec => []AnswerIsRecent
<1>1. RouteInv => AnswerIsRecent
  BY DEF RouteInv, AnswerIsRecent
<1> QED
  BY <1>1, RouteStart, RouteStep, PTL DEF RouteSpec

----------------------------------------------------------------------------
(* The evidence ledger *)

\* Strengthens CallbackHasOwnEvidence: a call that was handed an existing row
\* by acquire has found its own bytes in it, and rows only ever come to the
\* end of the ledger.
LedgerInv ==
    /\ \E S : evidence_rows \in Seq(S)
    /\ evidence_call = [c \in Calls |-> evidence_call[c]]
    /\ \A c \in Calls : evidence_call[c].pc = "stored" /\ evidence_call[c].row # 0 =>
          /\ evidence_call[c].row \in DOMAIN evidence_rows
          /\ evidence_rows[evidence_call[c].row].bytes = bytes(evidence_call[c].req)
    /\ \A b \in callbacks :
          /\ b = [req |-> b.req, row |-> b.row]
          /\ b.row \in DOMAIN evidence_rows
          /\ evidence_rows[b.row].bytes = b.req

\* The ledger is empty at first.
LEMMA LedgerStart == LedgerInit => LedgerInv
<1> SUFFICES ASSUME LedgerInit PROVE LedgerInv
  OBVIOUS
<1>1. evidence_rows \in Seq({})
  BY SMT DEF LedgerInit
<1> QED
  BY <1>1 DEF LedgerInit, LedgerInv, NoCall

\* A call that goes on, or ends, without a row of its own leaves the ledger.
LEMMA CallKeeps ==
    ASSUME LedgerInv, NEW c \in Calls, NEW to, call_goes(c, to),
           to.pc = "stored" /\ to.row # 0 =>
              to.row \in DOMAIN evidence_rows /\ evidence_rows[to.row].bytes = bytes(to.req),
           UNCHANGED <<evidence_rows, callbacks>>
    PROVE  LedgerInv'
<1>1. /\ evidence_call' = [d \in Calls |-> evidence_call'[d]]
      /\ evidence_call'[c] = to
      /\ \A d \in Calls : d # c => evidence_call'[d] = evidence_call[d]
  BY DEF call_goes, LedgerInv
<1> QED
  BY <1>1, SMT DEF LedgerInv, bytes

\* acquire hands out an existing row only after the comparison.
LEMMA ChecksKeep ==
    ASSUME LedgerInv, NEW c \in Calls, NEW r, NEW n, acquire_checks(c, r, n)
    PROVE  LedgerInv'
<1> DEFINE taken == {i \in of_source(r[1]) : evidence_rows[i].seq = n /\ same_evidence(i, r)}
           row == CHOOSE i \in taken : TRUE
           to == IF taken # {}
                 THEN IF r[1] = "upload" THEN NoCall
                      ELSE [pc |-> "stored", req |-> r, seq |-> n, row |-> row, object |-> 0]
                 ELSE IF n <= max_sequence(r[1]) THEN NoCall
                 ELSE [pc |-> "storing", req |-> r, seq |-> n]
<1>1. call_goes(c, to) /\ UNCHANGED <<evidence_rows, callbacks>>
  BY DEF acquire_checks
<1>2. taken # {} => row \in DOMAIN evidence_rows /\ evidence_rows[row].bytes = bytes(r)
  BY DEF of_source, same_evidence
<1>3. to.pc = "stored" => taken # {} /\ to.row = row /\ to.req = r
  BY DEF NoCall
<1> HIDE DEF to, row, taken
<1> QED
  BY <1>1, <1>2, <1>3, CallKeeps

\* A commit adds at most one row, behind the others, and a callback's row
\* points to its own bytes.
LEMMA CommitKeepsEvidence ==
    ASSUME LedgerInv, NEW c \in Calls, evidence_commits(c)
    PROVE  LedgerInv'
<1> DEFINE r == evidence_call[c].req
           new == evidence_call[c].row = 0
           row == IF new THEN Len(evidence_rows) + 1 ELSE evidence_call[c].row
           x == evidence_row(r, evidence_call[c].seq, evidence_call[c].object)
<1>0. /\ evidence_call[c].pc = "stored" /\ call_goes(c, NoCall)
      /\ \/ UNCHANGED <<evidence_rows, callbacks>>
         \/ /\ evidence_rows' = IF ~new THEN evidence_rows ELSE Append(evidence_rows, x)
            /\ callbacks' = IF r[1] = "callback"
                            THEN callbacks \cup {[req |-> r, row |-> row]} ELSE callbacks
  BY DEF evidence_commits
<1>1. CASE UNCHANGED <<evidence_rows, callbacks>>
  BY <1>0, <1>1, CallKeeps DEF NoCall
<1>2. CASE /\ evidence_rows' = IF ~new THEN evidence_rows ELSE Append(evidence_rows, x)
           /\ callbacks' = IF r[1] = "callback"
                           THEN callbacks \cup {[req |-> r, row |-> row]} ELSE callbacks
  <2>1. PICK S : evidence_rows \in Seq(S)
    BY DEF LedgerInv
  <2>2. x.bytes = bytes(r)
    BY DEF evidence_row
  <2> HIDE DEF x
  <2>3. /\ evidence_rows' \in Seq(S \cup {x})
        /\ \A i \in DOMAIN evidence_rows :
              i \in DOMAIN evidence_rows' /\ evidence_rows'[i] = evidence_rows[i]
        /\ new => row \in DOMAIN evidence_rows' /\ evidence_rows'[row] = x
    <3>1. evidence_rows \in Seq(S \cup {x})
      BY <2>1, SMT
    <3>2. CASE ~new
      BY <1>2, <3>1, <3>2
    <3>3. CASE new
      <4>1. evidence_rows' = Append(evidence_rows, x) /\ row = Len(evidence_rows) + 1
        BY <1>2, <3>3
      <4> QED
        BY <3>1, <4>1, AppendProperties, SMT
    <3> QED
      BY <3>2, <3>3
  <2>4. row \in DOMAIN evidence_rows' /\ evidence_rows'[row].bytes = bytes(r)
    BY <1>0, <2>2, <2>3 DEF LedgerInv
  <2>5. r[1] = "callback" => bytes(r) = r
    BY DEF bytes
  <2> HIDE DEF r, new, row
  <2>6. \A b \in callbacks' :
          /\ b = [req |-> b.req, row |-> b.row]
          /\ b.row \in DOMAIN evidence_rows'
          /\ evidence_rows'[b.row].bytes = b.req
    BY <1>2, <2>3, <2>4, <2>5, SMT DEF LedgerInv
  <2>7. /\ evidence_call' = [d \in Calls |-> evidence_call'[d]]
        /\ evidence_call'[c] = NoCall
        /\ \A d \in Calls : d # c => evidence_call'[d] = evidence_call[d]
    BY <1>0 DEF call_goes, LedgerInv
  <2>8. \A d \in Calls : evidence_call'[d].pc = "stored" /\ evidence_call'[d].row # 0 =>
          /\ evidence_call'[d].row \in DOMAIN evidence_rows'
          /\ evidence_rows'[evidence_call'[d].row].bytes = bytes(evidence_call'[d].req)
    BY <2>3, <2>7, SMT DEF LedgerInv, NoCall
  <2> QED
    BY <2>3, <2>6, <2>7, <2>8 DEF LedgerInv, bytes
<1> QED
  BY <1>0, <1>1, <1>2

\* Every step of a callback, an upload and a failure keeps the invariant.
LEMMA LedgerStep == LedgerInv /\ [LedgerNext]_ledgerVars => LedgerInv'
<1> SUFFICES ASSUME LedgerInv, [LedgerNext]_ledgerVars PROVE LedgerInv'
  OBVIOUS
<1>1. ASSUME NEW t \in Tokens, revoke_canary_token(t) \/ callback_too_late(t)
      PROVE  LedgerInv'
  BY <1>1 DEF revoke_canary_token, callback_too_late, LedgerInv, bytes
<1>2. ASSUME NEW c \in Calls, NEW r \in Callbacks, callback_arrives(c, r) PROVE LedgerInv'
  BY <1>2, CallKeeps DEF callback_arrives
<1>3. ASSUME NEW c \in Calls, NEW r \in Uploads, upload_arrives(c, r) PROVE LedgerInv'
  BY <1>3, ChecksKeep DEF upload_arrives
<1>4. ASSUME NEW c \in Calls, callback_acquires(c) PROVE LedgerInv'
  BY <1>4, ChecksKeep DEF callback_acquires
<1>5. ASSUME NEW c \in Calls, put(c) PROVE LedgerInv'
  BY <1>5, CallKeeps DEF put
<1>6. ASSUME NEW c \in Calls, evidence_commits(c) PROVE LedgerInv'
  BY <1>6, CommitKeepsEvidence
<1>7. ASSUME NEW c \in Calls, call_fails(c) PROVE LedgerInv'
  BY <1>7, CallKeeps DEF call_fails, NoCall
<1>8. CASE UNCHANGED ledgerVars
  BY <1>8 DEF ledgerVars, LedgerInv, bytes
<1> QED
  BY <1>1, <1>2, <1>3, <1>4, <1>5, <1>6, <1>7, <1>8 DEF LedgerNext

\* For any tokens, uploads and connections: every stored callback has a row of
\* its own that holds its bytes, also when several callbacks read one number
\* before they take the source's lock (canary_callback, acquire).
THEOREM CallbacksOwnTheirEvidence == LedgerSpec => []CallbackHasOwnEvidence
<1>1. LedgerInv => CallbackHasOwnEvidence
  BY SMT DEF LedgerInv, CallbackHasOwnEvidence
<1> QED
  BY <1>1, LedgerStart, LedgerStep, PTL DEF LedgerSpec

\* The objects of rows, those of calls about to insert theirs, and the rest.
Used == {evidence_rows[i].object : i \in DOMAIN evidence_rows}
PendingObjects ==
    {evidence_call[c].object : c \in {d \in Calls : evidence_call[d].pc = "stored"}}
Orphans == DOMAIN objects \ (Used \cup PendingObjects)

\* A call between the lock of its source and its end, and one of them that
\* will insert a row.
InSource(c) == evidence_call[c].pc \in {"storing", "stored"}
Inserting(c) ==
    \/ evidence_call[c].pc = "storing"
    \/ evidence_call[c].pc = "stored" /\ evidence_call[c].row = 0

\* What a call relies on: its number is above those of its source, and its
\* object is its own.
CallInv(c) ==
    /\ call_busy(c) => evidence_call[c].seq \in Nat
    /\ Inserting(c) => \A i \in of_source(evidence_call[c].req[1]) :
                          evidence_rows[i].seq < evidence_call[c].seq
    /\ evidence_call[c].pc = "stored" =>
          IF evidence_call[c].row = 0
          THEN /\ evidence_call[c].object \in DOMAIN objects \ Used
               /\ objects[evidence_call[c].object] = bytes(evidence_call[c].req)
          ELSE evidence_call[c].object = 0

\* What a row relies on.
RowsInv ==
    /\ Len(evidence_rows) \in Nat /\ DOMAIN evidence_rows = 1..Len(evidence_rows)
    /\ Len(objects) \in Nat /\ DOMAIN objects = 1..Len(objects)
    /\ \A i \in DOMAIN evidence_rows :
          /\ evidence_rows[i].object \in DOMAIN objects
          /\ evidence_rows[i].bytes = objects[evidence_rows[i].object]
    /\ \E n \in Nat : \A i \in DOMAIN evidence_rows : evidence_rows[i].seq \in 0..n
    /\ IsFiniteSet(Used) /\ Cardinality(Used) = Len(evidence_rows)

CallsInv ==
    /\ evidence_call = [c \in Calls |-> evidence_call[c]]
    /\ \A c \in Calls : CallInv(c)
    /\ \A c, d \in Calls :
          InSource(c) /\ InSource(d) /\ evidence_call[c].req[1] = evidence_call[d].req[1] => c = d
    /\ \A c, d \in Calls :
          /\ evidence_call[c].pc = "stored" /\ evidence_call[d].pc = "stored"
          /\ evidence_call[c].object = evidence_call[d].object /\ evidence_call[c].object # 0
          => c = d

OrphansInv == ledger_faults \in Nat /\ Cardinality(Orphans) <= ledger_faults

\* Strengthens OrphansNeedFault.
StoreInv ==
    /\ \E S : evidence_rows \in Seq(S) /\ objects \in Seq(S)
    /\ RowsInv /\ CallsInv /\ OrphansInv

\* The highest number of a source, 0 without one.
LEMMA HighestNumber ==
    ASSUME RowsInv, NEW s
    PROVE  /\ max_sequence(s) \in Nat
           /\ \A i \in of_source(s) : evidence_rows[i].seq <= max_sequence(s)
<1> DEFINE T == {0} \cup {evidence_rows[i].seq : i \in of_source(s)}
<1>1. PICK n \in Nat : \A i \in DOMAIN evidence_rows : evidence_rows[i].seq \in 0..n
  BY DEF RowsInv
<1>2. T \in SUBSET (0..n)
  <2>1. 0 \in 0..n
    BY SMT
  <2> QED
    BY <1>1, <2>1 DEF of_source
<1>3. T \in SUBSET Nat /\ T # {} /\ \A m \in T : m <= n
  BY <1>2, SMT
<1>4. \E x \in T : \A y \in T : y <= x
  BY <1>3, GreatestElement
<1>5. \E x \in T : \A y \in T : x >= y
  BY <1>3, <1>4, SMT
<1>6. Max(T) \in T /\ \A y \in T : Max(T) >= y
  BY <1>5 DEF Max
<1>7. max_sequence(s) = Max(T)
  BY DEF max_sequence
<1>8. \A i \in of_source(s) : evidence_rows[i].seq \in T
  OBVIOUS
<1> HIDE DEF T
<1>9. \A m \in T : (\A y \in T : m >= y) => m \in Nat /\ \A y \in T : y <= m
  BY <1>3, SMT
<1> QED
  BY <1>6, <1>7, <1>8, <1>9

\* There are no more orphans than before, or one more for a failure.
LEMMA OrphansBound ==
    ASSUME OrphansInv, RowsInv, NEW x,
           \/ Orphans' \subseteq Orphans /\ UNCHANGED ledger_faults
           \/ Orphans' \subseteq Orphans \cup {x} /\ ledger_faults' = ledger_faults + 1
    PROVE  OrphansInv'
<1>1. IsFiniteSet(Orphans)
  <2>1. IsFiniteSet(DOMAIN objects)
    BY FS_Interval, SMT DEF RowsInv
  <2> QED
    BY <2>1, FS_Subset DEF Orphans
<1>2. Cardinality(Orphans) \in Nat
  BY <1>1, FS_CardinalityType
<1>3. CASE Orphans' \subseteq Orphans /\ UNCHANGED ledger_faults
  <2>1. IsFiniteSet(Orphans') /\ Cardinality(Orphans') <= Cardinality(Orphans)
    BY <1>1, <1>3, FS_Subset
  <2>2. Cardinality(Orphans') \in Nat
    BY <2>1, FS_CardinalityType
  <2> QED
    BY <1>2, <1>3, <2>1, <2>2, SMT DEF OrphansInv
<1>4. CASE Orphans' \subseteq Orphans \cup {x} /\ ledger_faults' = ledger_faults + 1
  <2>1. /\ IsFiniteSet(Orphans \cup {x})
        /\ Cardinality(Orphans \cup {x}) \in {Cardinality(Orphans), Cardinality(Orphans) + 1}
    BY <1>1, FS_AddElement
  <2>2. IsFiniteSet(Orphans') /\ Cardinality(Orphans') <= Cardinality(Orphans \cup {x})
    BY <1>4, <2>1, FS_Subset
  <2>3. Cardinality(Orphans') \in Nat
    BY <2>2, FS_CardinalityType
  <2> QED
    BY <1>2, <1>4, <2>1, <2>2, <2>3, SMT DEF OrphansInv
<1> QED
  BY <1>3, <1>4

\* A call that goes on without touching the ledger and the store.
LEMMA CallMoves ==
    ASSUME StoreInv, NEW c \in Calls, NEW to, call_goes(c, to),
           UNCHANGED <<evidence_rows, objects>>,
           to.pc # "idle" => to.seq \in Nat,
           to.pc = "storing" => \A i \in of_source(to.req[1]) : evidence_rows[i].seq < to.seq,
           to.pc = "stored" => to.row # 0 /\ to.object = 0,
           to.pc \in {"storing", "stored"} => source_free(to.req[1]),
           \/ evidence_call[c].pc # "stored" /\ UNCHANGED ledger_faults
           \/ evidence_call[c].object = 0 /\ UNCHANGED ledger_faults
           \/ ledger_faults' = ledger_faults + 1
    PROVE  StoreInv'
<1>1. /\ evidence_call'[c] = to
      /\ \A d \in Calls : d # c => evidence_call'[d] = evidence_call[d]
      /\ evidence_call' = [d \in Calls |-> evidence_call'[d]]
  BY DEF call_goes, StoreInv, CallsInv
<1>2. Used' = Used /\ \A s : of_source(s)' = of_source(s)
  BY DEF Used, of_source
<1>3. \A d \in Calls : CallInv(d)'
  <2>1. CallInv(c)'
    BY <1>1, <1>2 DEF CallInv, Inserting, call_busy
  <2>2. ASSUME NEW d \in Calls, d # c PROVE CallInv(d)'
    BY <1>1, <1>2, <2>2 DEF StoreInv, CallsInv, CallInv, Inserting, call_busy, bytes
  <2> QED
    BY <2>1, <2>2
<1>4. \A d, e \in Calls :
         InSource(d)' /\ InSource(e)' /\ evidence_call'[d].req[1] = evidence_call'[e].req[1]
            => d = e
  <2>1. \A d \in Calls : d # c => /\ InSource(d)' <=> InSource(d)
                                 /\ evidence_call'[d].req = evidence_call[d].req
    BY <1>1 DEF InSource
  <2>2. \A d \in Calls : InSource(c)' /\ InSource(d) => evidence_call[d].req[1] # to.req[1]
    BY <1>1 DEF InSource, source_free
  <2>3. evidence_call'[c] = to
    BY <1>1
  <2>4. ASSUME NEW d \in Calls, NEW e \in Calls, InSource(d)', InSource(e)',
               evidence_call'[d].req[1] = evidence_call'[e].req[1]
        PROVE  d = e
    <3>1. CASE d # c /\ e # c
      BY <2>1, <2>4, <3>1 DEF StoreInv, CallsInv
    <3>2. CASE d = c /\ e # c
      BY <2>1, <2>2, <2>3, <2>4, <3>2
    <3>3. CASE d # c /\ e = c
      BY <2>1, <2>2, <2>3, <2>4, <3>3
    <3> QED
      BY <3>1, <3>2, <3>3
  <2> QED
    BY <2>4
<1>5. \A d, e \in Calls :
         /\ evidence_call'[d].pc = "stored" /\ evidence_call'[e].pc = "stored"
         /\ evidence_call'[d].object = evidence_call'[e].object /\ evidence_call'[d].object # 0
         => d = e
  <2>1. \A d \in Calls :
           evidence_call'[d].pc = "stored" /\ evidence_call'[d].object # 0 => d # c
    BY <1>1
  <2>2. \A d \in Calls : d # c => evidence_call'[d] = evidence_call[d]
    BY <1>1
  <2>3. ASSUME NEW d \in Calls, NEW e \in Calls,
               evidence_call'[d].pc = "stored", evidence_call'[e].pc = "stored",
               evidence_call'[d].object = evidence_call'[e].object,
               evidence_call'[d].object # 0
        PROVE  d = e
    <3>1. evidence_call'[d] = evidence_call[d] /\ evidence_call'[e] = evidence_call[e]
      BY <2>1, <2>2, <2>3
    <3> QED
      BY <2>3, <3>1 DEF StoreInv, CallsInv
  <2> QED
    BY <2>3
<1>6. CallsInv'
  BY <1>1, <1>3, <1>4, <1>5 DEF CallsInv
<1>7. RowsInv' /\ \E S : evidence_rows' \in Seq(S) /\ objects' \in Seq(S)
  BY <1>2 DEF StoreInv, RowsInv
<1>8. /\ Orphans' \subseteq Orphans \cup {evidence_call[c].object}
      /\ evidence_call[c].pc # "stored" \/ evidence_call[c].object = 0 => Orphans' \subseteq Orphans
  <2>1. \A d \in Calls : d # c /\ evidence_call[d].pc = "stored" =>
           evidence_call[d].object \in PendingObjects'
    BY <1>1 DEF PendingObjects
  <2>2. \A o \in PendingObjects :
           o \in PendingObjects' \/ (o = evidence_call[c].object /\ evidence_call[c].pc = "stored")
    BY <2>1 DEF PendingObjects
  <2>3. 0 \notin DOMAIN objects
    BY SMT DEF StoreInv, RowsInv
  <2> QED
    BY <1>2, <2>2, <2>3 DEF Orphans
<1>9. OrphansInv'
  BY <1>8, OrphansBound DEF StoreInv
<1> QED
  BY <1>6, <1>7, <1>9 DEF StoreInv

\* A put gives the call an object of its own, so no orphan.
LEMMA PutKeeps ==
    ASSUME StoreInv, NEW c \in Calls, put(c)
    PROVE  StoreInv'
<1> DEFINE to == [pc |-> "stored", req |-> evidence_call[c].req, seq |-> evidence_call[c].seq,
                  row |-> 0, object |-> Len(objects) + 1]
<1>0. evidence_call' = [d \in Calls |-> evidence_call'[d]]
  BY DEF put, call_goes, StoreInv, CallsInv
<1>1. /\ evidence_call[c].pc = "storing"
      /\ evidence_call'[c].pc = "stored" /\ evidence_call'[c].row = 0
      /\ evidence_call'[c].req = evidence_call[c].req
      /\ evidence_call'[c].seq = evidence_call[c].seq
      /\ evidence_call'[c].object = Len(objects) + 1
      /\ \A d \in Calls : d # c => evidence_call'[d] = evidence_call[d]
  <2>1. /\ evidence_call'[c] = to
        /\ \A d \in Calls : d # c => evidence_call'[d] = evidence_call[d]
    BY DEF put, call_goes, StoreInv, CallsInv
  <2>2. /\ to.pc = "stored" /\ to.row = 0 /\ to.req = evidence_call[c].req
        /\ to.seq = evidence_call[c].seq /\ to.object = Len(objects) + 1
    OBVIOUS
  <2> HIDE DEF to
  <2> QED
    BY <2>1, <2>2 DEF put
<1> HIDE DEF to
<1>1a. \A d \in Calls : d # c => evidence_call'[d] = evidence_call[d]
  BY <1>1
<1>2. evidence_rows' = evidence_rows /\ ledger_faults' = ledger_faults
  BY DEF put
<1>3. Used' = Used /\ \A s : of_source(s)' = of_source(s)
  BY <1>2 DEF Used, of_source
<1>4. PICK S : evidence_rows \in Seq(S) /\ objects \in Seq(S)
  BY DEF StoreInv
<1> DEFINE x == bytes(evidence_call[c].req)
           T == S \cup {x}
<1>5. evidence_rows' \in Seq(T) /\ objects \in Seq(T) /\ x \in T
  BY <1>2, <1>4, SMT
<1>6. objects' = Append(objects, x)
  BY DEF put
<1>7. /\ objects' \in Seq(T) /\ Len(objects') = Len(objects) + 1
      /\ DOMAIN objects' = DOMAIN objects \cup {Len(objects) + 1}
      /\ \A o \in DOMAIN objects : objects'[o] = objects[o]
      /\ objects'[Len(objects) + 1] = x
      /\ Len(objects) + 1 \notin DOMAIN objects
      /\ DOMAIN objects' = 1..Len(objects')
      /\ Len(objects') \in Nat
      /\ Len(objects) + 1 # 0
  <2> HIDE DEF x, T
  <2> QED
    BY <1>5, <1>6, SMT
<1>8. RowsInv'
  BY <1>2, <1>3, <1>7 DEF StoreInv, RowsInv
<1>9. Used \subseteq DOMAIN objects
  BY DEF Used, StoreInv, RowsInv
<1>10. \A d \in Calls : CallInv(d)'
  <2>1. CallInv(c)'
    <3>1. CallInv(c) /\ evidence_call[c].pc = "storing"
      BY DEF put, StoreInv, CallsInv
    <3>2. call_busy(c) /\ Inserting(c)
      BY <3>1 DEF call_busy, Inserting
    <3>3. objects'[Len(objects) + 1] = bytes(evidence_call'[c].req)
      BY <1>1, <1>7
    <3> HIDE DEF x, T
    <3> QED
      BY <1>1, <1>2, <1>3, <1>7, <1>9, <3>1, <3>2, <3>3 DEF CallInv, bytes
  <2>2. ASSUME NEW d \in Calls, d # c PROVE CallInv(d)'
    <3>1. evidence_call'[d] = evidence_call[d] /\ CallInv(d)
      BY <1>1a, <2>2 DEF StoreInv, CallsInv
    <3>2. /\ DOMAIN objects \subseteq DOMAIN objects'
          /\ \A o \in DOMAIN objects : objects'[o] = objects[o]
      BY <1>7
    <3> QED
      BY <1>2, <1>3, <3>1, <3>2 DEF CallInv, Inserting, call_busy, bytes
  <2> QED
    BY <2>1, <2>2
<1>11. \A d, e \in Calls :
          InSource(d)' /\ InSource(e)' /\ evidence_call'[d].req[1] = evidence_call'[e].req[1]
             => d = e
  <2>1. \A d \in Calls : /\ InSource(d)' => InSource(d)
                         /\ evidence_call'[d].req = evidence_call[d].req
    BY <1>1 DEF InSource
  <2> QED
    BY <2>1 DEF StoreInv, CallsInv
<1>12. \A d \in Calls : d # c /\ evidence_call[d].pc = "stored" =>
          evidence_call[d].object # Len(objects) + 1
  BY <1>7 DEF StoreInv, CallsInv, CallInv
<1>13. \A d, e \in Calls :
         /\ evidence_call'[d].pc = "stored" /\ evidence_call'[e].pc = "stored"
         /\ evidence_call'[d].object = evidence_call'[e].object /\ evidence_call'[d].object # 0
         => d = e
  <2>1. ASSUME NEW d \in Calls, NEW e \in Calls, d # e,
               evidence_call'[d].pc = "stored", evidence_call'[e].pc = "stored",
               evidence_call'[d].object = evidence_call'[e].object,
               evidence_call'[d].object # 0
        PROVE  FALSE
    <3>1. CASE d # c /\ e # c
      BY <1>1a, <2>1, <3>1 DEF StoreInv, CallsInv
    <3>2. CASE d = c
      BY <1>1, <1>12, <2>1, <3>2
    <3>3. CASE e = c
      BY <1>1, <1>12, <2>1, <3>3
    <3> QED
      BY <3>1, <3>2, <3>3
  <2> QED
    BY <2>1
<1>14. CallsInv'
  BY <1>0, <1>10, <1>11, <1>13 DEF CallsInv
<1>15. Orphans' \subseteq Orphans
  <2>1. PendingObjects \subseteq PendingObjects' /\ Len(objects) + 1 \in PendingObjects'
    <3>1. \A d \in Calls : evidence_call[d].pc = "stored" =>
             evidence_call'[d].pc = "stored" /\ evidence_call'[d].object = evidence_call[d].object
      BY <1>1, <1>1a
    <3>2. PendingObjects \subseteq PendingObjects'
      BY <3>1 DEF PendingObjects
    <3>3. Len(objects) + 1 \in PendingObjects'
      BY <1>1 DEF PendingObjects
    <3> QED
      BY <3>2, <3>3
  <2> QED
    BY <1>3, <1>7, <2>1 DEF Orphans
<1>16. OrphansInv'
  BY <1>2, <1>15, OrphansBound DEF StoreInv
<1> QED
  BY <1>5, <1>7, <1>8, <1>14, <1>16 DEF StoreInv

\* An insert ties the call's object to its row.  The lock of the source keeps
\* its number above those of the source, so the insert is not refused.
LEMMA InsertKeeps ==
    ASSUME StoreInv, NEW c \in Calls, evidence_commits(c), evidence_call[c].row = 0
    PROVE  StoreInv'
<1> DEFINE r == evidence_call[c].req
           n == evidence_call[c].seq
           o == evidence_call[c].object
           x == evidence_row(r, n, o)
<1>0. evidence_call' = [d \in Calls |-> evidence_call'[d]]
  BY DEF evidence_commits, call_goes, StoreInv, CallsInv
<1>1. /\ evidence_call[c].pc = "stored" /\ evidence_call'[c].pc = "idle"
      /\ \A d \in Calls : d # c => evidence_call'[d] = evidence_call[d]
      /\ objects' = objects /\ ledger_faults' = ledger_faults
  BY DEF evidence_commits, call_goes, StoreInv, CallsInv, NoCall
<1>2. /\ n \in Nat /\ \A i \in of_source(r[1]) : evidence_rows[i].seq < n
      /\ o \in DOMAIN objects \ Used /\ objects[o] = bytes(r)
  BY <1>1 DEF StoreInv, CallsInv, CallInv, Inserting, call_busy
<1>3. ~\E i \in of_source(r[1]) : evidence_rows[i].seq = n
  BY <1>2, SMT
<1>4. evidence_rows' = Append(evidence_rows, x)
  BY <1>3 DEF evidence_commits
<1>5. x.source = r[1] /\ x.seq = n /\ x.bytes = bytes(r) /\ x.object = o
  BY DEF evidence_row
<1>6. PICK S : evidence_rows \in Seq(S) /\ objects \in Seq(S)
  BY DEF StoreInv
<1> DEFINE T == S \cup {x}
           L == Len(evidence_rows)
<1>7. evidence_rows \in Seq(T) /\ objects' \in Seq(T) /\ x \in T
  BY <1>1, <1>6, SMT
<1> HIDE DEF x, T
<1>8. /\ evidence_rows' \in Seq(T) /\ Len(evidence_rows') = L + 1 /\ L \in Nat
      /\ DOMAIN evidence_rows' = DOMAIN evidence_rows \cup {L + 1}
      /\ \A i \in DOMAIN evidence_rows : evidence_rows'[i] = evidence_rows[i]
      /\ evidence_rows'[L + 1] = x
      /\ DOMAIN evidence_rows' = 1..Len(evidence_rows')
      /\ Len(evidence_rows') \in Nat
  BY <1>4, <1>7, SMT
<1> HIDE DEF L
<1>9. Used' = Used \cup {o}
  <2>1. \A i \in DOMAIN evidence_rows : evidence_rows'[i].object = evidence_rows[i].object
    BY <1>8
  <2>2. evidence_rows'[L + 1].object = o
    BY <1>5, <1>8
  <2> HIDE DEF o
  <2>3. \A i \in DOMAIN evidence_rows' : evidence_rows'[i].object \in Used \cup {o}
    BY <1>8, <2>1, <2>2 DEF Used
  <2>4. \A i \in DOMAIN evidence_rows : evidence_rows[i].object \in Used'
    BY <1>8, <2>1 DEF Used
  <2>5. o \in Used'
    BY <1>8, <2>2 DEF Used
  <2> QED
    BY <2>3, <2>4, <2>5 DEF Used
<1> HIDE DEF r, n, o
<1>11. RowsInv'
  <2>1. \A i \in DOMAIN evidence_rows' :
           /\ evidence_rows'[i].object \in DOMAIN objects'
           /\ evidence_rows'[i].bytes = objects'[evidence_rows'[i].object]
    BY <1>1, <1>2, <1>5, <1>8 DEF StoreInv, RowsInv
  <2>2. \E m \in Nat : \A i \in DOMAIN evidence_rows' : evidence_rows'[i].seq \in 0..m
    <3>1. PICK k \in Nat : \A i \in DOMAIN evidence_rows : evidence_rows[i].seq \in 0..k
      BY DEF StoreInv, RowsInv
    <3>2. /\ k + n \in Nat /\ n \in 0..(k + n)
          /\ \A j \in 0..k : j \in 0..(k + n)
      BY <1>2, SMT
    <3>3. \A i \in DOMAIN evidence_rows' : evidence_rows'[i].seq \in 0..(k + n)
      BY <1>5, <1>8, <3>1, <3>2
    <3> QED
      BY <3>2, <3>3
  <2>3. IsFiniteSet(Used') /\ Cardinality(Used') = Len(evidence_rows')
    <3>1. IsFiniteSet(Used) /\ Cardinality(Used) = L
      BY DEF StoreInv, RowsInv, L
    <3>2. /\ IsFiniteSet(Used \cup {o})
          /\ Cardinality(Used \cup {o}) = Cardinality(Used) + 1
      BY <1>2, <3>1, FS_AddElement
    <3> QED
      BY <1>8, <1>9, <3>1, <3>2
  <2> QED
    BY <1>1, <1>8, <2>1, <2>2, <2>3 DEF StoreInv, RowsInv
<1>12. \A d \in Calls : CallInv(d)'
  <2>1. CallInv(c)'
    BY <1>1 DEF CallInv, Inserting, call_busy
  <2>2. ASSUME NEW d \in Calls, d # c PROVE CallInv(d)'
    <3>1. evidence_call'[d] = evidence_call[d] /\ CallInv(d)
      BY <1>1, <2>2 DEF StoreInv, CallsInv
    <3>2. Inserting(d) => \A i \in DOMAIN evidence_rows' :
             evidence_rows'[i].source = evidence_call[d].req[1] =>
                i \in DOMAIN evidence_rows /\ evidence_rows'[i] = evidence_rows[i]
      <4>1. Inserting(d) => evidence_call[d].req[1] # r[1]
        BY <1>1, <2>2 DEF Inserting, InSource, StoreInv, CallsInv, r
      <4> QED
        BY <1>5, <1>8, <4>1
    <3>3. evidence_call[d].pc = "stored" /\ evidence_call[d].object \in DOMAIN objects =>
             evidence_call[d].object # o
      <4>1. 0 \notin DOMAIN objects
        BY SMT DEF StoreInv, RowsInv
      <4> QED
        BY <1>1, <2>2, <4>1 DEF StoreInv, CallsInv, o
    <3> QED
      BY <1>1, <1>9, <3>1, <3>2, <3>3 DEF CallInv, Inserting, call_busy, of_source, bytes
  <2> QED
    BY <2>1, <2>2
<1>13. /\ \A d, e \in Calls :
             InSource(d)' /\ InSource(e)'
             /\ evidence_call'[d].req[1] = evidence_call'[e].req[1] => d = e
       /\ \A d, e \in Calls :
             /\ evidence_call'[d].pc = "stored" /\ evidence_call'[e].pc = "stored"
             /\ evidence_call'[d].object = evidence_call'[e].object
             /\ evidence_call'[d].object # 0
             => d = e
  <2>1. \A d \in Calls : InSource(d)' => d # c
    BY <1>1 DEF InSource
  <2>2. \A d \in Calls : d # c => (InSource(d)' <=> InSource(d))
    BY <1>1 DEF InSource
  <2>3. \A d \in Calls : evidence_call'[d].pc = "stored" => d # c
    BY <1>1
  <2>4. \A d \in Calls : d # c => evidence_call'[d] = evidence_call[d]
    BY <1>1
  <2>5. \A d, e \in Calls :
           InSource(d)' /\ InSource(e)'
           /\ evidence_call'[d].req[1] = evidence_call'[e].req[1] => d = e
    BY <2>1, <2>2, <2>4 DEF StoreInv, CallsInv
  <2>6. ASSUME NEW d \in Calls, NEW e \in Calls,
               evidence_call'[d].pc = "stored", evidence_call'[e].pc = "stored",
               evidence_call'[d].object = evidence_call'[e].object,
               evidence_call'[d].object # 0
        PROVE  d = e
    <3>1. evidence_call'[d] = evidence_call[d] /\ evidence_call'[e] = evidence_call[e]
      BY <2>3, <2>4, <2>6
    <3> QED
      BY <2>6, <3>1 DEF StoreInv, CallsInv
  <2> QED
    BY <2>5, <2>6
<1>14. CallsInv'
  BY <1>0, <1>12, <1>13 DEF CallsInv
<1>15. Orphans' \subseteq Orphans
  <2>1. \A d \in Calls : d # c /\ evidence_call[d].pc = "stored" =>
           evidence_call[d].object \in PendingObjects'
    BY <1>1 DEF PendingObjects
  <2>2. \A q \in PendingObjects : q \in PendingObjects' \/ q = o
    BY <2>1 DEF PendingObjects, o
  <2> QED
    BY <1>1, <1>9, <2>2 DEF Orphans
<1>16. OrphansInv'
  BY <1>1, <1>15, OrphansBound DEF StoreInv
<1> QED
  BY <1>7, <1>8, <1>11, <1>14, <1>16 DEF StoreInv

\* The checks of acquire: only a number above those of the source goes on to
\* the store.
LEMMA ChecksMove ==
    ASSUME StoreInv, NEW c \in Calls, NEW q, NEW n \in Nat, acquire_checks(c, q, n),
           evidence_call[c].pc # "stored"
    PROVE  StoreInv'
<1> DEFINE taken == {i \in of_source(q[1]) : evidence_rows[i].seq = n /\ same_evidence(i, q)}
           k == CHOOSE i \in taken : TRUE
<1>1. source_free(q[1]) /\ UNCHANGED <<evidence_rows, objects, ledger_faults>>
  BY DEF acquire_checks
<1>2. \/ call_goes(c, NoCall)
      \/ taken # {} /\ call_goes(c, [pc |-> "stored", req |-> q, seq |-> n, row |-> k, object |-> 0])
      \/ ~(n <= max_sequence(q[1])) /\ call_goes(c, [pc |-> "storing", req |-> q, seq |-> n])
  BY DEF acquire_checks
<1>3. CASE call_goes(c, NoCall)
  <2>1. NoCall.pc = "idle"
    BY DEF NoCall
  <2> QED
    BY <1>1, <1>3, <2>1, CallMoves
<1>4. CASE taken # {} /\ call_goes(c, [pc |-> "stored", req |-> q, seq |-> n, row |-> k, object |-> 0])
  <2> DEFINE to == [pc |-> "stored", req |-> q, seq |-> n, row |-> k, object |-> 0]
  <2>1. k \in taken
    BY <1>4
  <2>2. 0 \notin taken
    BY SMT DEF of_source, StoreInv, RowsInv
  <2>3. to.pc = "stored" /\ to.req = q /\ to.seq = n /\ to.row # 0 /\ to.object = 0
    BY <2>1, <2>2
  <2>4. call_goes(c, to)
    BY <1>4
  <2> HIDE DEF to
  <2> QED
    BY <1>1, <2>3, <2>4, CallMoves
<1>5. CASE ~(n <= max_sequence(q[1])) /\ call_goes(c, [pc |-> "storing", req |-> q, seq |-> n])
  <2> DEFINE to == [pc |-> "storing", req |-> q, seq |-> n]
  <2>1. to.pc = "storing" /\ to.req = q /\ to.seq = n /\ call_goes(c, to)
    BY <1>5
  <2>2. /\ max_sequence(q[1]) \in Nat
        /\ \A i \in of_source(q[1]) : evidence_rows[i].seq <= max_sequence(q[1])
    BY HighestNumber DEF StoreInv
  <2>3. \A i \in of_source(q[1]) : evidence_rows[i].seq \in Nat
    <3>1. PICK m \in Nat : \A i \in DOMAIN evidence_rows : evidence_rows[i].seq \in 0..m
      BY DEF StoreInv, RowsInv
    <3> QED
      BY <3>1, SMT DEF of_source
  <2>4. \A a \in Nat, b \in Nat : a <= b /\ ~(n <= b) => a < n
    BY SMT
  <2>5. \A i \in of_source(q[1]) : evidence_rows[i].seq < n
    BY <1>5, <2>2, <2>3, <2>4
  <2> HIDE DEF to
  <2> QED
    BY <1>1, <2>1, <2>5, CallMoves
<1> QED
  BY <1>2, <1>3, <1>4, <1>5

LEMMA StoreStart ==
    ASSUME LedgerInit
    PROVE  StoreInv
<1>1. DOMAIN evidence_rows = {} /\ DOMAIN objects = {} /\ Len(evidence_rows) = 0 /\ Len(objects) = 0
  BY SMT DEF LedgerInit
<1>2. Used = {} /\ Orphans = {}
  BY <1>1 DEF Used, Orphans
<1>3. IsFiniteSet({}) /\ Cardinality({}) = 0
  BY FS_EmptySet
<1>4. RowsInv
  <2>1. 1..0 = {} /\ 0 \in Nat
    BY SMT
  <2> QED
    BY <1>1, <1>2, <1>3, <2>1 DEF RowsInv
<1>5. \A c \in Calls : evidence_call[c].pc = "idle"
  BY DEF LedgerInit, NoCall
<1>6. CallsInv
  BY <1>5 DEF CallsInv, CallInv, InSource, Inserting, call_busy, LedgerInit
<1>7. OrphansInv
  BY <1>2, <1>3, SMT DEF OrphansInv, LedgerInit
<1>8. evidence_rows \in Seq({}) /\ objects \in Seq({})
  BY SMT DEF LedgerInit
<1> QED
  BY <1>4, <1>6, <1>7, <1>8 DEF StoreInv

LEMMA StoreStep ==
    ASSUME LedgerAssumption, StoreInv, [LedgerNext]_ledgerVars
    PROVE  StoreInv'
<1>1. CASE UNCHANGED <<evidence_rows, objects, evidence_call, ledger_faults>>
  <2>1. Used' = Used /\ PendingObjects' = PendingObjects
    BY <1>1 DEF Used, PendingObjects
  <2>2. RowsInv' /\ OrphansInv'
    BY <1>1, <2>1 DEF StoreInv, RowsInv, OrphansInv, Orphans
  <2>3. \A c \in Calls : CallInv(c)'
    BY <1>1, <2>1 DEF StoreInv, CallsInv, CallInv, Inserting, call_busy, of_source, bytes
  <2>4. CallsInv'
    BY <1>1, <2>3 DEF StoreInv, CallsInv, InSource
  <2> QED
    BY <1>1, <2>2, <2>4 DEF StoreInv
<1>2. ASSUME NEW c \in Calls, NEW q \in Callbacks, callback_arrives(c, q) PROVE StoreInv'
  <2> DEFINE to == [pc |-> "numbered", req |-> q, seq |-> max_sequence("callback") + 1]
  <2>1. max_sequence("callback") + 1 \in Nat
    <3>1. max_sequence("callback") \in Nat
      BY HighestNumber DEF StoreInv
    <3> QED
      BY <3>1, SMT
  <2>2. to.pc = "numbered" /\ to.seq \in Nat
    BY <2>1
  <2>3. /\ call_goes(c, to) /\ UNCHANGED <<evidence_rows, objects, ledger_faults>>
        /\ evidence_call[c].pc = "idle"
    BY <1>2 DEF callback_arrives, call_busy
  <2> HIDE DEF to
  <2> QED
    BY <2>2, <2>3, CallMoves
<1>3. ASSUME NEW c \in Calls, NEW q \in Uploads, upload_arrives(c, q) PROVE StoreInv'
  <2>1. q[2] \in Nat
    <3>1. q[2] \in Numbers
      BY SMT DEF Uploads
    <3> QED
      BY <3>1 DEF LedgerAssumption
  <2>2. evidence_call[c].pc # "stored" /\ acquire_checks(c, q, q[2])
    BY <1>3 DEF upload_arrives, call_busy
  <2> QED
    BY <2>1, <2>2, ChecksMove
<1>4. ASSUME NEW c \in Calls, callback_acquires(c) PROVE StoreInv'
  <2>1. evidence_call[c].pc = "numbered" /\ acquire_checks(c, evidence_call[c].req, evidence_call[c].seq)
    BY <1>4 DEF callback_acquires
  <2>2. evidence_call[c].seq \in Nat
    BY <2>1 DEF StoreInv, CallsInv, CallInv, call_busy
  <2> QED
    BY <2>1, <2>2, ChecksMove
<1>5. ASSUME NEW c \in Calls, put(c) PROVE StoreInv'
  BY <1>5, PutKeeps
<1>6. ASSUME NEW c \in Calls, evidence_commits(c) PROVE StoreInv'
  <2>1. CASE evidence_call[c].row = 0
    BY <1>6, <2>1, InsertKeeps
  <2>2. CASE evidence_call[c].row # 0
    <3>1. /\ call_goes(c, NoCall) /\ UNCHANGED <<evidence_rows, objects, ledger_faults>>
          /\ evidence_call[c].pc = "stored"
      BY <1>6, <2>2 DEF evidence_commits
    <3>2. evidence_call[c].object = 0
      BY <2>2, <3>1 DEF StoreInv, CallsInv, CallInv
    <3>3. NoCall.pc = "idle"
      BY DEF NoCall
    <3> QED
      BY <3>1, <3>2, <3>3, CallMoves
  <2> QED
    BY <2>1, <2>2
<1>7. ASSUME NEW c \in Calls, call_fails(c) PROVE StoreInv'
  <2>1. /\ call_goes(c, NoCall) /\ UNCHANGED <<evidence_rows, objects>>
        /\ ledger_faults' = ledger_faults + 1
    BY <1>7 DEF call_fails, ledger_fault
  <2>2. NoCall.pc = "idle"
    BY DEF NoCall
  <2> QED
    BY <2>1, <2>2, CallMoves
<1>8. ASSUME NEW t \in Tokens, revoke_canary_token(t) \/ callback_too_late(t)
      PROVE  UNCHANGED <<evidence_rows, objects, evidence_call, ledger_faults>>
  BY <1>8 DEF revoke_canary_token, callback_too_late
<1>9. UNCHANGED ledgerVars => UNCHANGED <<evidence_rows, objects, evidence_call, ledger_faults>>
  BY DEF ledgerVars
<1> QED
  BY <1>1, <1>2, <1>3, <1>4, <1>5, <1>6, <1>7, <1>8, <1>9 DEF LedgerNext

\* acquire keeps the ledger and the object store in step, whatever the number
\* of connections: every row has an object of its own with its bytes, and
\* there are no more orphaned objects than crashes and failed statements.
THEOREM OrphansAreTracesOfFaults == LedgerSpec => []OrphansNeedFault
<1>1. LedgerInit => StoreInv
  BY StoreStart
<1>2. StoreInv /\ [LedgerNext]_ledgerVars => StoreInv'
  BY StoreStep, LedgerAssumption
<1>3. StoreInv => OrphansNeedFault
  BY DEF StoreInv, RowsInv, OrphansInv, OrphansNeedFault, Used, PendingObjects, Orphans
<1> QED
  BY <1>1, <1>2, <1>3, PTL DEF LedgerSpec

----------------------------------------------------------------------------
(* Directives *)

\* A directive that moved the strategy or was withdrawn is past every status
\* from which apply_directive_strategy starts.
PastApplying(d) == directive_status[d] \notin OpenDirective \cup {"NONE"}

\* Strengthens StrategyOncePerDirective: what a worker has read is still so,
\* and no other worker holds it.
DirectivesInv ==
    /\ DirectivesTypeOK
    /\ \A w, x \in StrategyWorkers : \A d \in applying[w] : d \in applying[x] => w = x
    /\ \A w \in StrategyWorkers : \A d \in applying[w] :
          directive_status[d] \in {"ACKNOWLEDGED", "QUEUED"}
    /\ \A d \in Directives : phase_changes[d] # 0 \/ d \in withdrawn => PastApplying(d)

\* No directive exists at first.
LEMMA DirectivesStart == DirectivesInit => DirectivesInv
BY SMT DEF DirectivesInit, DirectivesInv, DirectivesTypeOK, DirectiveStatuses

\* Every step of the API and of the workers keeps the invariant.
LEMMA DirectivesStep == DirectivesInv /\ [DirectivesNext]_directiveVars => DirectivesInv'
<1> SUFFICES ASSUME DirectivesInv, [DirectivesNext]_directiveVars PROVE DirectivesInv'
  OBVIOUS
<1> USE DEF DirectivesInv, DirectivesTypeOK, PastApplying, OpenDirective, DirectiveStatuses
<1>1. CASE list_directives
  BY <1>1 DEF list_directives, directive_unlocked
<1>2. ASSUME NEW w \in StrategyWorkers, apply_rolls_back(w) PROVE DirectivesInv'
  BY <1>2, SMT DEF apply_rolls_back
<1>3. ASSUME NEW w \in StrategyWorkers, NEW d \in Directives, apply_reads(w, d)
      PROVE  DirectivesInv'
  BY <1>3, SMT DEF apply_reads, directive_unlocked
<1>4. ASSUME NEW w \in StrategyWorkers, NEW d \in Directives, apply_commits(w, d)
      PROVE  DirectivesInv'
  BY <1>4, SMT DEF apply_commits
<1>5. ASSUME NEW d \in Directives, submit_looks(d) PROVE DirectivesInv'
  BY <1>5, SMT DEF submit_looks
<1>6. ASSUME NEW d \in Directives, submit_inserts(d) PROVE DirectivesInv'
  BY <1>6, SMT DEF submit_inserts
<1>7. ASSUME NEW d \in Directives, expires_at_passes(d) PROVE DirectivesInv'
  BY <1>7 DEF expires_at_passes
<1>8. ASSUME NEW d \in Directives, acknowledge_directive(d) PROVE DirectivesInv'
  BY <1>8, SMT DEF acknowledge_directive, directive_unlocked
<1>9. ASSUME NEW d \in Directives, cancel_directive(d) PROVE DirectivesInv'
  BY <1>9, SMT DEF cancel_directive, directive_unlocked
<1>10. ASSUME NEW d \in Directives, NEW verdict \in {"APPLIED", "REJECTED"},
              link_directive_result(d, verdict)
       PROVE  DirectivesInv'
  BY <1>10, SMT DEF link_directive_result, directive_unlocked
<1>11. CASE UNCHANGED directiveVars
  BY <1>11 DEF directiveVars
<1> QED
  BY <1>1, <1>2, <1>3, <1>4, <1>5, <1>6, <1>7, <1>8, <1>9, <1>10, <1>11 DEF DirectivesNext

\* A directive moves the strategy of its case at most once, and never after a
\* committed cancellation or expiry (apply_directive_strategy).
THEOREM StrategyMovesOnce == DirectivesSpec => StrategyOncePerDirective
<1>1. ASSUME DirectivesInv, DirectivesNext, NEW d \in Directives,
             phase_changes'[d] # phase_changes[d]
      PROVE  phase_changes[d] = 0 /\ d \notin withdrawn
  <2>1. PICK w \in StrategyWorkers, f \in Directives : apply_commits(w, f)
    BY <1>1 DEF DirectivesNext, list_directives, apply_rolls_back, apply_reads, submit_looks,
       submit_inserts, expires_at_passes, acknowledge_directive, cancel_directive,
       link_directive_result
  <2>2. f = d
    BY <1>1, <2>1 DEF apply_commits, DirectivesInv, DirectivesTypeOK
  <2>3. directive_status[d] \in {"ACKNOWLEDGED", "QUEUED"}
    BY <1>1, <2>1, <2>2 DEF apply_commits, DirectivesInv
  <2> QED
    BY <1>1, <2>3 DEF DirectivesInv, PastApplying, OpenDirective
<1>2. DirectivesInv /\ [DirectivesNext]_directiveVars =>
        [\A d \in Directives : phase_changes'[d] # phase_changes[d] =>
            phase_changes[d] = 0 /\ d \notin withdrawn]_directiveVars
  BY <1>1
<1> QED
  BY <1>2, DirectivesStart, DirectivesStep, PTL DEF DirectivesSpec, StrategyOncePerDirective

----------------------------------------------------------------------------
(* Verification of evidence *)

\* Strengthens DamageBlocksExport.  A damage verdict is true of the object
\* for good; an open verdict VERIFIED on a row means that no damage of it is
\* in the history, since nobody else can commit one for that row.
VerificationInv ==
    /\ VerificationTypeOK
    /\ \A v, w \in Verifiers : \A d \in verdicts[v], e \in verdicts[w] :
          d.row = e.row => v = w /\ d = e
    /\ \A v \in Verifiers : \A d \in verdicts[v] :
          d.status \in DamageVerdicts => stored[d.row] # "INTACT"
    /\ \A h \in verification_history :
          h.status \in DamageVerdicts =>
             /\ stored[h.row] # "INTACT"
             /\ verification_status[h.row] # "VERIFIED"
             /\ \A v \in Verifiers : \A d \in verdicts[v] :
                   d.row = h.row => d.status # "VERIFIED"

\* No row has been verified at first.
LEMMA VerificationStart == VerificationInit => VerificationInv
BY VerificationAssumption, SMT
DEF VerificationInit, VerificationInv, VerificationTypeOK, ObjectStates, VerificationStatuses,
    DamageVerdicts

\* What verify writes for a row, read or not.
LEMMA VerdictOfRead ==
    ASSUME VerificationTypeOK, NEW i \in EvidenceRows
    PROVE  /\ digest_verdict(i) \in VerificationStatuses
           /\ digest_verdict(i) \in DamageVerdicts => stored[i] # "INTACT"
           /\ digest_verdict(i) = "VERIFIED" => stored[i] = "INTACT"
BY DEF VerificationTypeOK, ObjectStates, digest_verdict, VerificationStatuses, DamageVerdicts

\* Adding one verdict to the open ones, under the lock of its row.
LEMMA VerdictAdded ==
    ASSUME VerificationInv, NEW v \in Verifiers, NEW i \in EvidenceRows,
           NEW s \in VerificationStatuses,
           evidence_row_free(i),
           s \in DamageVerdicts => stored[i] # "INTACT",
           s = "VERIFIED" => stored[i] = "INTACT",
           verdicts' = [verdicts EXCEPT ![v] = @ \cup {[row |-> i, status |-> s]}],
           mishaps' \in 0..MaxMishaps,
           UNCHANGED <<stored, verification_status, verification_history>>
    PROVE  VerificationInv'
<1>1. PICK r : r = [row |-> i, status |-> s]
  OBVIOUS
<1>2. r.row = i /\ r.status = s /\ r \in [row : EvidenceRows, status : VerificationStatuses]
  BY <1>1
<1>3. \A w \in Verifiers : verdicts'[w] = IF w = v THEN verdicts[w] \cup {r} ELSE verdicts[w]
  BY <1>1 DEF VerificationInv, VerificationTypeOK
<1>4. VerificationTypeOK'
  BY <1>1, <1>2 DEF VerificationInv, VerificationTypeOK
<1>5. \A w \in Verifiers : \A d \in verdicts[w] : d.row # i
  BY DEF evidence_row_free
<1> QED
  BY <1>2, <1>3, <1>4, <1>5, SMT DEF VerificationInv

\* Every step of the store and of the verifiers keeps the invariant.
LEMMA VerificationStep ==
    VerificationInv /\ [VerificationNext]_verificationVars => VerificationInv'
<1> SUFFICES ASSUME VerificationInv, [VerificationNext]_verificationVars
             PROVE  VerificationInv'
  OBVIOUS
<1> USE VerificationAssumption
<1>1. ASSUME NEW i \in EvidenceRows, damage(i) PROVE VerificationInv'
  BY <1>1, SMT DEF damage, mishap, VerificationInv, VerificationTypeOK, ObjectStates
<1>2. ASSUME NEW v \in Verifiers, NEW i \in EvidenceRows, verify(v, i) PROVE VerificationInv'
  <2>1. evidence_row_free(i) /\ UNCHANGED <<stored, verification_status, verification_history>>
    BY <1>2 DEF verify
  <2>2. CASE /\ verdicts' = [verdicts EXCEPT ![v] =
                               @ \cup {[row |-> i, status |-> digest_verdict(i)]}]
             /\ UNCHANGED mishaps
    <3>1. mishaps' \in 0..MaxMishaps
      BY <2>2 DEF VerificationInv, VerificationTypeOK
    <3>2. VerificationTypeOK
      BY DEF VerificationInv
    <3> QED
      BY <2>1, <2>2, <3>1, <3>2, VerdictOfRead, VerdictAdded
  <2>3. CASE /\ mishap
             /\ verdicts' = [verdicts EXCEPT ![v] = @ \cup {[row |-> i, status |-> "FAILED"]}]
    <3>1. mishaps' \in 0..MaxMishaps
      BY <2>3, SMT DEF mishap, VerificationInv, VerificationTypeOK
    <3>2. "FAILED" \in VerificationStatuses /\ "FAILED" \notin DamageVerdicts
      BY DEF VerificationStatuses, DamageVerdicts
    <3> QED
      BY <2>1, <2>3, <3>1, <3>2, VerdictAdded
  <2> QED
    BY <1>2, <2>2, <2>3 DEF verify
<1>3. ASSUME NEW v \in Verifiers, verification_commits(v) PROVE VerificationInv'
  <2>1. \A w \in Verifiers : verdicts'[w] = IF w = v THEN {} ELSE verdicts[w]
    BY <1>3 DEF verification_commits, VerificationInv, VerificationTypeOK
  <2>2. \A d \in verdicts[v] : verification_status'[d.row] = d.status
    <3> SUFFICES ASSUME NEW d \in verdicts[v] PROVE verification_status'[d.row] = d.status
      OBVIOUS
    <3>1. d.row \in EvidenceRows
      BY SMT DEF VerificationInv, VerificationTypeOK
    <3>2. \A e \in verdicts[v] : e.row = d.row => e = d
      BY DEF VerificationInv
    <3>3. (CHOOSE e \in verdicts[v] : e.row = d.row) = d
      BY <3>2
    <3> QED
      BY <1>3, <3>1, <3>3 DEF verification_commits
  <2>3. \A i \in EvidenceRows : (\A d \in verdicts[v] : d.row # i) =>
           verification_status'[i] = verification_status[i]
    BY <1>3 DEF verification_commits
  <2>4. VerificationTypeOK'
    <3>1. \A i \in EvidenceRows : verification_status'[i] \in VerificationStatuses
      BY <2>2, <2>3, SMT DEF VerificationInv, VerificationTypeOK
    <3>2. verification_status' \in [EvidenceRows -> VerificationStatuses]
      BY <1>3, <3>1 DEF verification_commits
    <3> QED
      BY <1>3, <3>2 DEF verification_commits, VerificationInv, VerificationTypeOK
  <2>5. ASSUME NEW h \in verification_history', h.status \in DamageVerdicts
        PROVE  /\ stored'[h.row] # "INTACT"
               /\ verification_status'[h.row] # "VERIFIED"
               /\ \A w \in Verifiers : \A d \in verdicts'[w] :
                     d.row = h.row => d.status # "VERIFIED"
    <3>1. UNCHANGED stored
      BY <1>3 DEF verification_commits
    <3>2. CASE h \in verdicts[v]
      <4>1. stored[h.row] # "INTACT"
        BY <2>5, <3>2 DEF VerificationInv
      <4>2. verification_status'[h.row] # "VERIFIED"
        BY <2>2, <2>5, <3>2 DEF DamageVerdicts
      <4>3. \A w \in Verifiers : \A d \in verdicts'[w] : d.row # h.row
        <5>1. \A w \in Verifiers : w # v => \A d \in verdicts[w] : d.row # h.row
          BY <3>2 DEF VerificationInv
        <5>2. \A w \in Verifiers : \A d \in verdicts'[w] : w # v /\ d \in verdicts[w]
          BY <2>1
        <5> QED
          BY <5>1, <5>2
      <4> QED
        BY <3>1, <4>1, <4>2, <4>3
    <3>3. CASE h \in verification_history
      <4>1. h.row \in EvidenceRows
        BY <3>3 DEF VerificationInv, VerificationTypeOK
      <4>2. verification_status'[h.row] # "VERIFIED"
        <5>1. CASE \E d \in verdicts[v] : d.row = h.row
          <6>1. PICK d \in verdicts[v] : d.row = h.row
            BY <5>1
          <6>2. d.status # "VERIFIED"
            BY <2>5, <3>3, <6>1 DEF VerificationInv
          <6> QED
            BY <2>2, <6>1, <6>2
        <5>2. CASE \A d \in verdicts[v] : d.row # h.row
          BY <2>3, <2>5, <3>3, <4>1, <5>2 DEF VerificationInv
        <5> QED
          BY <5>1, <5>2
      <4>3. \A w \in Verifiers : verdicts'[w] \subseteq verdicts[w]
        BY <2>1
      <4> QED
        BY <2>5, <3>1, <3>3, <4>2, <4>3 DEF VerificationInv
    <3> QED
      BY <1>3, <3>2, <3>3 DEF verification_commits
  <2> QED
    BY <1>3, <2>1, <2>4, <2>5, SMT DEF verification_commits, VerificationInv
<1>4. ASSUME NEW v \in Verifiers, verification_rolls_back(v) PROVE VerificationInv'
  <2>1. \A w \in Verifiers : verdicts'[w] = IF w = v THEN {} ELSE verdicts[w]
    BY <1>4 DEF verification_rolls_back, VerificationInv, VerificationTypeOK
  <2> QED
    BY <1>4, <2>1, SMT DEF verification_rolls_back, mishap, VerificationInv, VerificationTypeOK
<1>5. CASE UNCHANGED verificationVars
  BY <1>5, SMT DEF verificationVars, VerificationInv, VerificationTypeOK
<1> QED
  BY <1>1, <1>2, <1>3, <1>4, <1>5 DEF VerificationNext

\* Once damage to an object of the case is committed, the case stays
\* ineligible for export, whatever other verifications were under way
\* (verify, export_eligibility).
THEOREM CommittedDamageBlocksExport == VerificationSpec => []DamageBlocksExport
<1>1. VerificationInv => DamageBlocksExport
  BY DEF VerificationInv, VerificationTypeOK, DamageBlocksExport, export_eligibility
<1> QED
  BY <1>1, VerificationStart, VerificationStep, PTL DEF VerificationSpec

============================================================================
