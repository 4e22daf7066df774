------------------------ MODULE CaseLifecycleProofs ------------------------
(***************************************************************************)
(* Proofs about CaseLifecycle for any number of callers and any baseline.  *)
(* The invariant pins the case to the linear order of the states and says  *)
(* what the one caller that holds the row lock knows: its version is the   *)
(* current one, and between SANDBOX_ACTIVE and ENGAGING it carries exactly *)
(* one evaluation, which passed.  From it also follows that the callers    *)
(* and their locks together implement GatedCase.                           *)
(*                                                                         *)
(* Then about AiSnapshot, for lists, sizes and bounds of any value: a      *)
(* round of its loop takes the first item of the order the properties      *)
(* compare it with, whichever list that item is in.                        *)
(***************************************************************************)
EXTENDS CaseLifecycle, AiSnapshot, CommonLemmas, TLAPS

\* Most steps are first-order; those with arithmetic cite SMT.
USE Zenon

Order == <<"CREATED", "ARMED", "MONITORING", "STEERING_PENDING", "SANDBOX_ACTIVE", "ENGAGING",
           "CONCLUDING", "EVIDENCE_VERIFYING", "EXPORTED", "DESTROYED">>

\* The case is where its version says, and so is every row.
Chain ==
    /\ version \in 1..10 /\ state = Order[version]
    /\ Len(transitions) = version - 1
    /\ \A i \in 1..Len(transitions) :
          /\ transitions[i].from = Order[i] /\ transitions[i].to = Order[i + 1]
          /\ transitions[i].new_version = i + 1 /\ transitions[i].wanted = i

\* What a caller with an open transaction knows.
Holds(c) ==
    /\ call[c] \in {"GATED", "MOVED"} => lock = {c} /\ expected[c] = version /\ version < 10
    /\ call[c] = "GATED" => gate = <<>> /\ version = 5
    /\ call[c] = "MOVED" /\ version # 5 => gate = <<>>
    /\ call[c] = "MOVED" /\ version = 5 =>
          Len(gate) = 1 /\ passed(gate[1].observed)

LockInv ==
    /\ \A c \in Callers : Holds(c)
    /\ lock = {} => gate = <<>>

\* Exactly the cases that engaged have a passed record, and only one.
Records ==
    /\ \A i \in 1..Len(evaluations) : passed(evaluations[i].observed) => version > 5
    /\ version > 5 => \E i \in 1..Len(evaluations) : passed(evaluations[i].observed)
    /\ \A i, j \in 1..Len(evaluations) :
          passed(evaluations[i].observed) /\ passed(evaluations[j].observed) => i = j

Inv == TypeOK /\ Chain /\ LockInv /\ Records /\ BlockIsRecorded

----------------------------------------------------------------------------
\* The transition table follows the order.
LEMMA Successors ==
    ASSUME NEW v \in 1..10
    PROVE  /\ Order[v] \in DOMAIN ALLOWED_TRANSITIONS <=> v < 10
           /\ v < 10 => ALLOWED_TRANSITIONS[Order[v]] = Order[v + 1]
           /\ Order[v] = GATED_STATE <=> v = 5
           /\ Order[v] = "ENGAGING" <=> v = 6
           /\ Order[v] \in States
<1>1. DOMAIN ALLOWED_TRANSITIONS =
         {"CREATED", "ARMED", "MONITORING", "STEERING_PENDING", "SANDBOX_ACTIVE", "ENGAGING",
          "CONCLUDING", "EVIDENCE_VERIFYING", "EXPORTED"}
  BY DEF ALLOWED_TRANSITIONS
<1>2. v \in {1, 2, 3, 4, 5, 6, 7, 8, 9, 10}
  BY SMT
<1>3. Order[1] = "CREATED" /\ Order[2] = "ARMED" /\ Order[3] = "MONITORING"
      /\ Order[4] = "STEERING_PENDING" /\ Order[5] = "SANDBOX_ACTIVE" /\ Order[6] = "ENGAGING"
      /\ Order[7] = "CONCLUDING" /\ Order[8] = "EVIDENCE_VERIFYING" /\ Order[9] = "EXPORTED"
      /\ Order[10] = "DESTROYED"
  BY DEF Order
<1>4. ALLOWED_TRANSITIONS["CREATED"] = "ARMED" /\ ALLOWED_TRANSITIONS["ARMED"] = "MONITORING"
      /\ ALLOWED_TRANSITIONS["MONITORING"] = "STEERING_PENDING"
      /\ ALLOWED_TRANSITIONS["STEERING_PENDING"] = "SANDBOX_ACTIVE"
      /\ ALLOWED_TRANSITIONS["SANDBOX_ACTIVE"] = "ENGAGING"
      /\ ALLOWED_TRANSITIONS["ENGAGING"] = "CONCLUDING"
      /\ ALLOWED_TRANSITIONS["CONCLUDING"] = "EVIDENCE_VERIFYING"
      /\ ALLOWED_TRANSITIONS["EVIDENCE_VERIFYING"] = "EXPORTED"
      /\ ALLOWED_TRANSITIONS["EXPORTED"] = "DESTROYED"
  BY DEF ALLOWED_TRANSITIONS
<1>5. Order[v] \in DOMAIN ALLOWED_TRANSITIONS <=> v < 10
  BY <1>1, <1>2, <1>3, SMT
<1>6. v < 10 => ALLOWED_TRANSITIONS[Order[v]] = Order[v + 1]
  BY <1>2, <1>3, <1>4, SMT
<1>7. Order[v] = GATED_STATE <=> v = 5
  BY <1>2, <1>3 DEF GATED_STATE
<1>8. Order[v] = "ENGAGING" <=> v = 6
  BY <1>2, <1>3
<1>9. Order[v] \in States
  BY <1>1, <1>2, <1>3 DEF States
<1> QED
  BY <1>5, <1>6, <1>7, <1>8, <1>9

\* Counting passed SHOULD checks and counting missing ones is the same test.
LEMMA PassedReference ==
    ASSUME NEW o
    PROVE  passed(o) <=> /\ Must \ o = {}
                         /\ 4 * Cardinality(Should \ o) <= Cardinality(Should)
<1>1. Cardinality(Should \ o) = Cardinality(Should) - Cardinality(Should \cap o)
  BY FS_Difference, LifecycleAssumption
<1>2. Cardinality(Should) \in Nat /\ Cardinality(Should \cap o) \in Nat
  BY FS_CardinalityType, FS_Intersection, LifecycleAssumption
<1>3. Must \subseteq o <=> Must \ o = {}
  OBVIOUS
<1> QED
  BY <1>1, <1>2, <1>3, SMT DEF passed

----------------------------------------------------------------------------
\* A step that leaves the case, the evaluations and the gate alone, and moves
\* one caller between phases without a transaction.
LEMMA QuietStep ==
    ASSUME Inv, UNCHANGED <<caseVars, gate, lock>>, TypeOK',
           \A c \in Callers :
              \/ UNCHANGED <<call[c], expected[c]>>
              \/ call[c] \notin {"GATED", "MOVED"} /\ call'[c] \in {"IDLE", "FAILED"}
    PROVE  Inv'
<1> USE DEF Inv
<1>1. Chain'
  BY DEF Chain, caseVars
<1>2. LockInv'
  BY DEF LockInv, Holds, caseVars
<1>3. Records' /\ BlockIsRecorded'
  BY SMT DEF Records, BlockIsRecorded, caseVars
<1> QED
  BY <1>1, <1>2, <1>3

\* Every step keeps the types.
LEMMA TypeStep == Inv /\ [Next]_vars => TypeOK'
<1> SUFFICES ASSUME Inv, [Next]_vars PROVE TypeOK'
  OBVIOUS
<1> USE DEF Inv, TypeOK
<1>1. CASE report_snapshot
  BY <1>1, SMT DEF report_snapshot, caseVars
<1>2. ASSUME NEW c \in Callers, read_version(c) PROVE TypeOK'
  BY <1>2 DEF read_version, caseVars, spider, Ended
<1>3. ASSUME NEW c \in Callers, select_for_update(c) PROVE TypeOK'
  BY <1>3 DEF select_for_update, caseVars, spider, Ended
<1>4. ASSUME NEW c \in Callers, evaluate(c) PROVE TypeOK'
  <2>1. evaluation(c) \in Evaluation
    BY DEF evaluation, Evaluation
  <2>2. gate' = <<evaluation(c)>> \/ gate' = gate
    BY <1>4 DEF evaluate
  <2>3. evaluations' = Append(evaluations, evaluation(c)) \/ evaluations' = evaluations
    BY <1>4 DEF evaluate
  <2>4. gate' \in Seq(Evaluation)
    <3>1. <<evaluation(c)>> \in Seq(Evaluation)
      BY <2>1, SMT
    <3> QED
      BY <2>2, <3>1
  <2>5. evaluations' \in Seq(Evaluation)
    <3>1. Append(evaluations, evaluation(c)) \in Seq(Evaluation)
      BY <2>1, AppendProperties
    <3> QED
      BY <2>3, <3>1
  <2>6. call' \in [Callers -> Ended \cup {"GATED", "MOVED"}] /\ lock' \subseteq Callers
    BY <1>4 DEF evaluate, Ended
  <2> QED
    BY <1>4, <2>4, <2>5, <2>6 DEF evaluate, spider
<1>5. ASSUME NEW c \in Callers, commit(c) PROVE TypeOK'
  <2>1. version \in 1..10 /\ version < 10 /\ version + 1 \in 1..10
    BY <1>5, SMT DEF commit, LockInv, Holds, Chain
  <2>2. state = Order[version] /\ state' = ALLOWED_TRANSITIONS[state]
    BY <1>5 DEF commit, Chain
  <2>3. state' = Order[version + 1]
    BY <2>1, <2>2, Successors
  <2>4. state \in States /\ state' \in States
    BY <2>1, <2>2, <2>3, Successors, ZenonT(30)
  <2>6. [from |-> state, to |-> state', new_version |-> version', wanted |-> expected[c]]
           \in Transition
    BY <1>5, <2>4, SMT DEF commit, Transition
  <2>7. transitions' \in Seq(Transition)
    BY <1>5, <2>6, SMT DEF commit
  <2>8. evaluations' \in Seq(Evaluation)
    BY <1>5, SMT DEF commit
  <2>9. call' \in [Callers -> Ended \cup {"GATED", "MOVED"}]
    BY <1>5 DEF commit, Ended
  <2> QED
    BY <1>5, <2>4, <2>7, <2>8, <2>9, SMT DEF commit, spider
<1>6. ASSUME NEW c \in Callers, rollback(c) PROVE TypeOK'
  BY <1>6, SMT DEF rollback, caseVars, spider, Ended
<1>7. ASSUME NEW c \in Callers, retry(c) PROVE TypeOK'
  BY <1>7, SMT DEF retry, caseVars, spider, Ended
<1>8. CASE UNCHANGED vars
  BY <1>8 DEF vars, caseVars, spider
<1> QED
  BY <1>1, <1>2, <1>3, <1>4, <1>5, <1>6, <1>7, <1>8 DEF Next

----------------------------------------------------------------------------
\* Taking the lock: the caller has just compared its version.
LEMMA SelectStep ==
    ASSUME Inv, TypeOK', NEW c \in Callers, select_for_update(c) PROVE Inv'
<1> USE DEF Inv
<1>1. CASE ~acceptable(c)
  <2>1. \A d \in Callers :
           \/ UNCHANGED <<call[d], expected[d]>>
           \/ call[d] \notin {"GATED", "MOVED"} /\ call'[d] \in {"IDLE", "FAILED"}
    BY <1>1 DEF select_for_update, TypeOK
  <2>2. UNCHANGED <<caseVars, gate, lock>>
    BY <1>1 DEF select_for_update
  <2> QED
    BY <2>1, <2>2, QuietStep
<1>2. CASE acceptable(c)
  <2>1. version < 10 /\ (state = GATED_STATE <=> version = 5)
    BY <1>2, Successors DEF acceptable, Chain
  <2>2. Chain' /\ Records'
    BY DEF Chain, Records, caseVars, select_for_update
  <2>3. \A d \in Callers : call[d] \notin {"GATED", "MOVED"}
    BY DEF LockInv, Holds, select_for_update
  <2>4. LockInv'
    BY <1>2, <2>1, <2>3, SMT DEF LockInv, Holds, select_for_update, acceptable, TypeOK, caseVars
  <2>5. BlockIsRecorded'
    BY <1>2, SMT DEF BlockIsRecorded, select_for_update, caseVars, TypeOK
  <2> QED
    BY <2>2, <2>4, <2>5
<1> QED
  BY <1>1, <1>2

\* The gate: a pass stays with the holder, a block is committed and unlocks.
LEMMA EvaluateStep ==
    ASSUME Inv, TypeOK', NEW c \in Callers, evaluate(c) PROVE Inv'
<1> USE DEF Inv
<1>1. lock = {c} /\ expected[c] = version /\ version = 5 /\ gate = <<>>
  BY DEF evaluate, LockInv, Holds
<1>2. \A d \in Callers : d # c => call[d] \notin {"GATED", "MOVED"}
  BY <1>1 DEF LockInv, Holds
<1>3. Chain'
  BY DEF Chain, evaluate
<1>4. CASE passed(snapshot)
  <2>1. gate' = <<evaluation(c)>> /\ evaluations' = evaluations /\ lock' = lock
        /\ call' = [call EXCEPT ![c] = "MOVED"] /\ expected' = expected /\ version' = version
    BY <1>4 DEF evaluate
  <2>2. Len(gate') = 1 /\ passed(gate'[1].observed)
    BY <1>4, <2>1 DEF evaluation
  <2>3. LockInv'
    BY <1>1, <1>2, <2>1, <2>2, SMT DEF LockInv, Holds, TypeOK
  <2>4. Records' /\ BlockIsRecorded'
    BY <2>1, SMT DEF Records, BlockIsRecorded, TypeOK
  <2> QED
    BY <1>3, <2>3, <2>4
<1>5. CASE ~passed(snapshot)
  <2>1. gate' = gate /\ evaluations' = Append(evaluations, evaluation(c)) /\ lock' = {}
        /\ call' = [call EXCEPT ![c] = "BLOCKED"] /\ expected' = expected /\ version' = version
    BY <1>5 DEF evaluate
  <2>2. LockInv'
    BY <1>1, <1>2, <2>1 DEF LockInv, Holds, TypeOK
  <2>3. /\ Len(evaluations') = Len(evaluations) + 1
        /\ \A i \in 1..Len(evaluations) : evaluations'[i] = evaluations[i]
        /\ evaluations'[Len(evaluations) + 1] = evaluation(c)
        /\ Len(evaluations) \in Nat
    BY <2>1, SMT DEF TypeOK
  <2>4. ~passed(evaluation(c).observed) /\ evaluation(c).by = c
    BY <1>5 DEF evaluation
  <2>5. Records'
    BY <1>1, <2>1, <2>3, <2>4, SMT DEF Records
  <2>6. BlockIsRecorded'
    <3> SUFFICES ASSUME NEW d \in Callers, call'[d] = "BLOCKED"
                 PROVE  \E i \in 1..Len(evaluations') :
                           evaluations'[i].by = d /\ ~passed(evaluations'[i].observed)
      BY DEF BlockIsRecorded
    <3>1. CASE d = c
      BY <2>3, <2>4, <3>1, SMT
    <3>2. CASE d # c
      <4>1. PICK i \in 1..Len(evaluations) :
               evaluations[i].by = d /\ ~passed(evaluations[i].observed)
        BY <2>1, <3>2 DEF BlockIsRecorded, TypeOK
      <4>2. i \in 1..Len(evaluations') /\ evaluations'[i] = evaluations[i]
        BY <2>3, SMT
      <4> QED
        BY <4>1, <4>2
    <3> QED
      BY <3>1, <3>2
  <2> QED
    BY <1>3, <2>2, <2>5, <2>6
<1> QED
  BY <1>4, <1>5

\* A commit that carries an evaluation adds it to the rows.
LEMMA CommitAdds ==
    ASSUME Inv, NEW c \in Callers, commit(c)
    PROVE  Len(gate) = 1 =>
              /\ Len(evaluations') = Len(evaluations) + 1
              /\ \A i \in 1..Len(evaluations) : evaluations'[i] = evaluations[i]
              /\ evaluations'[Len(evaluations) + 1] = gate[1]
              /\ Len(evaluations) \in Nat
<1>1. evaluations' = evaluations \o gate /\ evaluations \in Seq(Evaluation)
      /\ gate \in Seq(Evaluation)
  BY DEF commit, Inv, TypeOK
<1>2. Len(evaluations) \in Nat
  BY <1>1, LenProperties
<1>3. AddsOne(evaluations, gate, evaluations')
  BY <1>1, ConcatOne
<1> QED
  BY <1>2, <1>3 DEF AddsOne

\* The commit: one row more, and with it the passed evaluation if the case engages.
LEMMA CommitStep ==
    ASSUME Inv, TypeOK', NEW c \in Callers, commit(c) PROVE Inv'
<1> USE DEF Inv
<1>1. lock = {c} /\ expected[c] = version /\ version \in 1..9 /\ version + 1 \in 1..10
  BY SMT DEF commit, LockInv, Holds, Chain
<1>2. \A d \in Callers : d # c => call[d] \notin {"GATED", "MOVED"}
  BY <1>1 DEF LockInv, Holds
<1>3. state' = Order[version + 1] /\ version' = version + 1
  <2>1. state' = ALLOWED_TRANSITIONS[state] /\ version' = version + 1 /\ state = Order[version]
    BY DEF commit, Chain
  <2>2. ALLOWED_TRANSITIONS[Order[version]] = Order[version + 1]
    BY <1>1, Successors, SMT
  <2> QED
    BY <2>1, <2>2
<1>4. Chain'
  <2>1. /\ Len(transitions') = Len(transitions) + 1
        /\ \A i \in 1..Len(transitions) : transitions'[i] = transitions[i]
        /\ transitions'[Len(transitions) + 1] =
              [from |-> state, to |-> state', new_version |-> version', wanted |-> expected[c]]
        /\ Len(transitions) \in Nat
    BY SMT DEF commit, TypeOK
  <2>2. /\ transitions'[version].from = Order[version]
        /\ transitions'[version].to = Order[version + 1]
        /\ transitions'[version].new_version = version + 1
        /\ transitions'[version].wanted = version
    BY <1>1, <1>3, <2>1, SMT DEF Chain
  <2>3. ASSUME NEW i \in 1..Len(transitions')
        PROVE  /\ transitions'[i].from = Order[i] /\ transitions'[i].to = Order[i + 1]
               /\ transitions'[i].new_version = i + 1 /\ transitions'[i].wanted = i
    <3>1. CASE i = version
      BY <2>2, <3>1
    <3>2. CASE i # version
      <4>1. i \in 1..Len(transitions)
        BY <1>1, <2>1, <3>2, SMT DEF Chain
      <4> QED
        BY <2>1, <4>1, SMT DEF Chain
    <3> QED
      BY <3>1, <3>2
  <2>4. Len(transitions') = version' - 1
    BY <1>1, <1>3, <2>1, SMT DEF Chain
  <2> QED
    BY <1>1, <1>3, <2>3, <2>4 DEF Chain
<1>5. LockInv'
  BY <1>1, <1>2, SMT DEF LockInv, Holds, commit, TypeOK
<1>6. CASE version # 5
  <2>1. evaluations' = evaluations
    BY <1>6, SMT DEF commit, LockInv, Holds, TypeOK
  <2>2. Records'
    BY <1>1, <1>3, <1>6, <2>1, SMT DEF Records
  <2>3. BlockIsRecorded'
    BY <2>1, ZenonT(30) DEF BlockIsRecorded, commit, TypeOK
  <2> QED
    BY <1>4, <1>5, <2>2, <2>3
<1>7. CASE version = 5
  <2>1. Len(gate) = 1 /\ passed(gate[1].observed)
    BY <1>7 DEF commit, LockInv, Holds
  <2>2. /\ Len(evaluations') = Len(evaluations) + 1
        /\ \A i \in 1..Len(evaluations) : evaluations'[i] = evaluations[i]
        /\ evaluations'[Len(evaluations) + 1] = gate[1]
        /\ Len(evaluations) \in Nat
    BY <2>1, CommitAdds
  <2>3. \A i \in 1..Len(evaluations) : ~passed(evaluations[i].observed)
    BY <1>7, SMT DEF Records
  <2>4. Records'
    BY <1>3, <1>7, <2>1, <2>2, <2>3, SMT DEF Records
  <2>5. BlockIsRecorded'
    <3> SUFFICES ASSUME NEW d \in Callers, call'[d] = "BLOCKED"
                 PROVE  \E i \in 1..Len(evaluations') :
                           evaluations'[i].by = d /\ ~passed(evaluations'[i].observed)
      BY DEF BlockIsRecorded
    <3>1. PICK i \in 1..Len(evaluations) :
             evaluations[i].by = d /\ ~passed(evaluations[i].observed)
      BY DEF BlockIsRecorded, commit, TypeOK
    <3>2. i \in 1..Len(evaluations') /\ evaluations'[i] = evaluations[i]
      BY <2>2, SMT
    <3> QED
      BY <3>1, <3>2
  <2> QED
    BY <1>4, <1>5, <2>4, <2>5
<1> QED
  BY <1>6, <1>7

\* Giving up: the evaluation that was not committed goes with the transaction.
LEMMA RollbackStep ==
    ASSUME Inv, TypeOK', NEW c \in Callers, rollback(c) PROVE Inv'
<1> USE DEF Inv
<1>1. \A d \in Callers : d # c => call[d] \notin {"GATED", "MOVED"}
  BY DEF LockInv, Holds, rollback
<1>2. LockInv'
  BY <1>1, SMT DEF LockInv, Holds, rollback, TypeOK
<1>3. Chain' /\ Records'
  BY DEF Chain, Records, rollback, caseVars
<1>4. BlockIsRecorded'
  BY SMT DEF BlockIsRecorded, rollback, caseVars, TypeOK
<1> QED
  BY <1>2, <1>3, <1>4

----------------------------------------------------------------------------
\* The invariant holds throughout.
THEOREM Invariance == Spec => []Inv
<1>1. Init => Inv
  <2> SUFFICES ASSUME Init PROVE Inv
    OBVIOUS
  <2>1. Order[1] = "CREATED" /\ 1 \in 1..10
    BY SMT DEF Order
  <2>2. state \in States
    BY <2>1, Successors DEF Init
  <2>3. TypeOK
    BY <2>2, SMT DEF Init, TypeOK, Ended
  <2>4. Chain
    BY <2>1, SMT DEF Init, Chain
  <2>5. LockInv
    BY DEF Init, LockInv, Holds
  <2>6. Records /\ BlockIsRecorded
    BY SMT DEF Init, Records, BlockIsRecorded
  <2> QED
    BY <2>3, <2>4, <2>5, <2>6 DEF Inv
<1>2. Inv /\ [Next]_vars => Inv'
  <2> SUFFICES ASSUME Inv, [Next]_vars PROVE Inv'
    OBVIOUS
  <2>1. TypeOK'
    BY TypeStep
  <2>2. CASE report_snapshot \/ UNCHANGED vars
    BY <2>1, <2>2, QuietStep DEF report_snapshot, vars, spider, caseVars
  <2>3. ASSUME NEW c \in Callers, read_version(c) \/ retry(c) PROVE Inv'
    <3>1. \A d \in Callers :
             \/ UNCHANGED <<call[d], expected[d]>>
             \/ call[d] \notin {"GATED", "MOVED"} /\ call'[d] \in {"IDLE", "FAILED"}
      BY <2>3 DEF read_version, retry, Inv, TypeOK, Ended
    <3> QED
      BY <2>1, <2>3, <3>1, QuietStep DEF read_version, retry
  <2> QED
    BY <2>1, <2>2, <2>3, SelectStep, EvaluateStep, CommitStep, RollbackStep DEF Next
<1> QED
  BY <1>1, <1>2, PTL DEF Spec

\* The case, its rows and its callers keep their types.
THEOREM Typing == Spec => []TypeOK
BY Invariance, PTL DEF Inv

\* For any number of callers the transition rows are the linear history of the
\* case, and each step was wanted from the version it left.
THEOREM HistoryStaysLinear == Spec => []HistoryIsLinear
<1>1. Inv => HistoryIsLinear
  <2> SUFFICES ASSUME Inv PROVE HistoryIsLinear
    OBVIOUS
  <2>1. version = Len(transitions) + 1 /\ Len(transitions) \in 0..9
    BY SMT DEF Inv, Chain
  <2>2. \A i \in 1..Len(transitions) :
           LET t == transitions[i] IN
           /\ t.new_version = i + 1 /\ t.wanted = i
           /\ t.from = IF i = 1 THEN "CREATED" ELSE transitions[i - 1].to
    <3> SUFFICES ASSUME NEW i \in 1..Len(transitions)
                 PROVE  /\ transitions[i].new_version = i + 1 /\ transitions[i].wanted = i
                        /\ transitions[i].from = IF i = 1 THEN "CREATED" ELSE transitions[i - 1].to
      OBVIOUS
    <3>1. transitions[i].new_version = i + 1 /\ transitions[i].wanted = i
          /\ transitions[i].from = Order[i]
      BY DEF Inv, Chain
    <3>2. i # 1 => i - 1 \in 1..Len(transitions) /\ i - 1 + 1 = i
      BY <2>1, SMT
    <3>3. i # 1 => transitions[i - 1].to = Order[i]
      BY <3>2, SMT DEF Inv, Chain
    <3> QED
      BY <3>1, <3>3, SMT DEF Order
  <2>3. state = IF transitions = <<>> THEN "CREATED" ELSE transitions[Len(transitions)].to
    <3>1. CASE transitions = <<>>
      BY <2>1, <3>1, SMT DEF Inv, Chain, Order
    <3>2. CASE transitions # <<>>
      <4>1. Len(transitions) > 0
        BY <3>2, <2>1, EmptySeq, SMT DEF Inv, TypeOK
      <4> QED
        BY <2>1, <3>2, <4>1, SMT DEF Inv, Chain
    <3> QED
      BY <3>1, <3>2
  <2> QED
    BY <2>1, <2>2, <2>3 DEF HistoryIsLinear
<1> QED
  BY <1>1, Invariance, PTL

\* A case engages with exactly one passed evaluation, and a passed evaluation
\* is recorded for no other case.
THEOREM EngagedCasesWereGated == Spec => []EngagedWasGated
<1>1. Inv => EngagedWasGated
  <2> SUFFICES ASSUME Inv PROVE EngagedWasGated
    OBVIOUS
  <2>1. engaged <=> version > 5
    <3>1. \A i \in 1..Len(transitions) : i + 1 \in 1..10 /\ transitions[i].to = Order[i + 1]
      BY SMT DEF Inv, Chain
    <3>2. \A i \in 1..Len(transitions) : transitions[i].to = "ENGAGING" <=> i = 5
      <4> SUFFICES ASSUME NEW i \in 1..Len(transitions)
                   PROVE  transitions[i].to = "ENGAGING" <=> i = 5
        OBVIOUS
      <4>1. Order[i + 1] = "ENGAGING" <=> i + 1 = 6
        BY <3>1, Successors
      <4> QED
        BY <3>1, <4>1, SMT
    <3> QED
      BY <3>2, SMT DEF Inv, Chain, engaged
  <2> QED
    BY <2>1, PassedReference DEF Inv, Records, EngagedWasGated
<1> QED
  BY <1>1, Invariance, PTL

\* A caller that was told of a block finds it recorded.
THEOREM BlocksAreRecorded == Spec => []BlockIsRecorded
BY Invariance, PTL DEF Inv

----------------------------------------------------------------------------
(* Refinement: the gated case *)

\* A function on 1..n is a sequence of length n.
LEMMA FunctionIsSeq ==
    ASSUME NEW S, NEW n \in Nat, NEW f \in [1..n -> S]
    PROVE  f \in Seq(S) /\ Len(f) = n
BY SMT

\* The verdicts of a list of evaluations, and of one evaluation more.
Verdicts(q) == [i \in 1..Len(q) |-> passed(q[i].observed)]

LEMMA VerdictsGrow ==
    ASSUME NEW q \in Seq(Evaluation), NEW r \in Seq(Evaluation), NEW b \in BOOLEAN,
           Len(r) = Len(q) + 1, \A i \in 1..Len(q) : r[i] = q[i],
           passed(r[Len(q) + 1].observed) <=> b
    PROVE  Verdicts(r) = Append(Verdicts(q), b)
<1> DEFINE v == Verdicts(q)
           w == Verdicts(r)
<1>1. \A o : passed(o) \in BOOLEAN
  BY DEF passed
<1>2. Len(q) \in Nat /\ Len(r) \in Nat
  BY LenProperties
<1>3. v \in Seq(BOOLEAN) /\ Len(v) = Len(q) /\ w \in Seq(BOOLEAN) /\ Len(w) = Len(r)
  <2>1. v \in [1..Len(q) -> BOOLEAN] /\ w \in [1..Len(r) -> BOOLEAN]
    BY <1>1 DEF Verdicts
  <2> HIDE DEF v, w
  <2> QED
    BY <1>2, <2>1, FunctionIsSeq
<1>4. \A i \in 1..Len(q) : w[i] = v[i]
  <2>1. \A i \in 1..Len(q) : i \in 1..Len(r)
    BY <1>2, SMT
  <2> QED
    BY <2>1 DEF Verdicts
<1>5. w[Len(q) + 1] = b
  <2>1. Len(q) + 1 \in 1..Len(r)
    BY <1>2, SMT
  <2>2. w[Len(q) + 1] = passed(r[Len(q) + 1].observed)
    BY <2>1 DEF Verdicts
  <2> QED
    BY <1>1, <2>2
<1>6. /\ Append(v, b) \in Seq(BOOLEAN) /\ Len(Append(v, b)) = Len(v) + 1
      /\ \A i \in 1..Len(v) : Append(v, b)[i] = v[i]
      /\ Append(v, b)[Len(v) + 1] = b
  <2> HIDE DEF v
  <2> QED
    BY <1>3, AppendProperties, ZenonT(30)
<1>7. \A i \in 1..Len(w) : i = Len(q) + 1 \/ i \in 1..Len(q)
  BY <1>2, <1>3, SMT
<1>8. Len(w) = Len(Append(v, b)) /\ \A i \in 1..Len(w) : w[i] = Append(v, b)[i]
  <2> HIDE DEF v, w
  <2> QED
    BY <1>3, <1>4, <1>5, <1>6, <1>7
<1> DEFINE x == Append(v, b)
<1>9. w = x
  <2>1. x \in Seq(BOOLEAN) /\ w \in Seq(BOOLEAN) /\ Len(w) = Len(x) /\ \A i \in 1..Len(w) : w[i] = x[i]
    BY <1>3, <1>6, <1>8
  <2> HIDE DEF w, x
  <2> QED
    BY <2>1, SeqEqual
<1> QED
  BY <1>9

\* Committing is a move of the gated case.
LEMMA CommitMoves ==
    ASSUME Inv, Inv', NEW c \in Callers, commit(c) PROVE Gate!Move
<1> USE DEF Inv
<1>1. expected[c] = version /\ version \in 1..10 /\ version < 10 /\ state = Order[version]
  BY DEF commit, LockInv, Holds, Chain
<1>2. state \in DOMAIN ALLOWED_TRANSITIONS /\ (state = GATED_STATE <=> version = 5)
  BY <1>1, Successors
<1>3. evaluations \in Seq(Evaluation) /\ gate \in Seq(Evaluation) /\ evaluations' \in Seq(Evaluation)
      /\ evaluations' = evaluations \o gate
  BY DEF commit, TypeOK
<1>4. ASSUME version # 5 PROVE gate_verdicts' = gate_verdicts
  <2>1. gate = << >>
    BY <1>4 DEF commit, LockInv, Holds
  <2>2. evaluations' = evaluations
    BY <1>3, <2>1, SMT
  <2> QED
    BY <2>2 DEF gate_verdicts
<1>5. ASSUME version = 5 PROVE gate_verdicts' = Append(gate_verdicts, TRUE)
  <2>1. Len(gate) = 1 /\ passed(gate[1].observed)
    BY <1>5 DEF commit, LockInv, Holds
  <2>2. /\ Len(evaluations') = Len(evaluations) + 1
        /\ \A i \in 1..Len(evaluations) : evaluations'[i] = evaluations[i]
        /\ evaluations'[Len(evaluations) + 1] = gate[1]
    BY <2>1, CommitAdds
  <2>3. Verdicts(evaluations') = Append(Verdicts(evaluations), TRUE)
    BY <1>3, <2>1, <2>2, VerdictsGrow
  <2> QED
    BY <2>3 DEF gate_verdicts, Verdicts
<1>6. gate_verdicts' = IF state = GATED_STATE THEN Append(gate_verdicts, TRUE) ELSE gate_verdicts
  BY <1>2, <1>4, <1>5
<1> QED
  BY <1>1, <1>2, <1>6 DEF commit, Gate!Move

\* An evaluation that does not pass is a block of it.
LEMMA EvaluateBlocks ==
    ASSUME Inv, Inv', NEW c \in Callers, evaluate(c), evaluations' # evaluations PROVE Gate!Block
<1> USE DEF Inv
<1>1. version = 5 /\ state = Order[5] /\ 5 \in 1..10
  BY SMT DEF evaluate, LockInv, Holds, Chain
<1>2. state = GATED_STATE
  BY <1>1, Successors
<1>3. evaluations' = Append(evaluations, evaluation(c)) /\ ~passed(evaluation(c).observed)
  BY DEF evaluate, evaluation
<1>4. evaluations \in Seq(Evaluation) /\ evaluations' \in Seq(Evaluation) /\ evaluation(c) \in Evaluation
  BY DEF TypeOK, evaluation, Evaluation
<1>5. /\ Len(evaluations') = Len(evaluations) + 1
      /\ \A i \in 1..Len(evaluations) : evaluations'[i] = evaluations[i]
      /\ evaluations'[Len(evaluations) + 1] = evaluation(c)
  BY <1>3, <1>4, AppendProperties, SMT
<1>6. Verdicts(evaluations') = Append(Verdicts(evaluations), FALSE)
  BY <1>3, <1>4, <1>5, VerdictsGrow
<1>7. gate_verdicts' = Append(gate_verdicts, FALSE)
  BY <1>6 DEF gate_verdicts, Verdicts
<1> QED
  BY <1>2, <1>7 DEF evaluate, Gate!Block

\* Callers that race, retry and roll back under the row lock, and a gate whose
\* passed evaluation waits for the commit, implement the gated case, for any
\* number of callers and any baseline (transition_case,
\* enforce_fingerprint_gate_before_engaging).
THEOREM CaseImplementsGatedCase == Spec => ImplementsGatedCase
<1>1. Init => Gate!Init
  <2> SUFFICES ASSUME Init PROVE Gate!Init
    OBVIOUS
  <2>1. gate_verdicts = << >>
    BY SMT DEF Init, gate_verdicts
  <2> QED
    BY <2>1 DEF Init, Gate!Init
<1>2. Inv /\ Inv' /\ [Next]_vars => [Gate!Next]_(Gate!vars)
  <2> SUFFICES ASSUME Inv, Inv', [Next]_vars PROVE Gate!Next \/ UNCHANGED Gate!vars
    OBVIOUS
  <2>1. ASSUME UNCHANGED caseVars PROVE UNCHANGED Gate!vars
    BY <2>1 DEF caseVars, gate_verdicts, Gate!vars
  <2>2. ASSUME NEW c \in Callers, commit(c) PROVE Gate!Next
    BY <2>2, CommitMoves DEF Gate!Next
  <2>3. ASSUME NEW c \in Callers, evaluate(c) PROVE Gate!Next \/ UNCHANGED caseVars
    BY <2>3, EvaluateBlocks DEF Gate!Next, evaluate, caseVars
  <2>4. CASE UNCHANGED vars
    BY <2>1, <2>4 DEF vars
  <2>5. CASE report_snapshot
    BY <2>1, <2>5 DEF report_snapshot
  <2>6. ASSUME NEW c \in Callers,
               read_version(c) \/ select_for_update(c) \/ rollback(c) \/ retry(c)
        PROVE  UNCHANGED caseVars
    BY <2>6 DEF read_version, select_for_update, rollback, retry
  <2> QED
    BY <2>1, <2>2, <2>3, <2>4, <2>5, <2>6 DEF Next
<1> QED
  BY Invariance, <1>1, <1>2, PTL DEF Spec, ImplementsGatedCase, Gate!Spec

----------------------------------------------------------------------------
(* AiSnapshot: sequences, and what a recursion computes *)

\* Induction over sequences, for a set of sequences.
LEMMA SequenceInduction ==
    ASSUME NEW S, NEW T, << >> \in T,
           \A q \in Seq(S), e \in S : q \in T => Append(q, e) \in T
    PROVE  \A q \in Seq(S) : q \in T
<1> TAKE q \in Seq(S)
<1> DEFINE P == {n \in 0..Len(q) : SubSeq(q, 1, n) \in T}
<1>1. Len(q) \in Nat
  BY LenProperties
<1>2. 0 \in P
  <2>1. SubSeq(q, 1, 0) = << >> /\ 0 \in 0..Len(q)
    BY <1>1, SMT
  <2> QED
    BY <2>1
<1>3. ASSUME NEW n \in 1..Len(q), n - 1 \in P PROVE n \in P
  <2>1. n - 1 \in 0..Len(q) /\ n \in 0..Len(q)
    BY <1>1, SMT
  <2>2. SubSeq(q, 1, n - 1) \in Seq(S) /\ q[n] \in S
    BY <2>1, PrefixProperties, LenProperties
  <2>3. Append(SubSeq(q, 1, n - 1), q[n]) \in T
    BY <1>3, <2>2
  <2>4. Append(SubSeq(q, 1, n - 1), q[n]) = SubSeq(q, 1, n)
    BY SMT
  <2> QED
    BY <2>1, <2>3, <2>4
<1> HIDE DEF P
<1>4. \A n \in 0..Len(q) : n \in P
  BY <1>1, <1>2, <1>3, IntervalInduction
<1>5. Len(q) \in P
  BY <1>1, <1>4, SMT
<1>6. SubSeq(q, 1, Len(q)) = q
  BY SMT
<1> QED
  BY <1>5, <1>6 DEF P

\* An empty part of a concatenation, and its first and last elements.
LEMMA ConcatEmpty ==
    ASSUME NEW S, NEW q \in Seq(S)
    PROVE  << >> \o q = q /\ q \o << >> = q
BY SMT

LEMMA ConcatTail ==
    ASSUME NEW S, NEW p \in Seq(S), NEW q \in Seq(S), p # << >>
    PROVE  p \o q # << >> /\ Tail(p \o q) = Tail(p) \o q
BY SMT

LEMMA ConcatAppend ==
    ASSUME NEW S, NEW p \in Seq(S), NEW q \in Seq(S), NEW e \in S
    PROVE  p \o Append(q, e) = Append(p \o q, e)
BY SMT

\* A sequence around one of its elements.
LEMMA SplitAt ==
    ASSUME NEW S, NEW q \in Seq(S), NEW i \in 1..Len(q)
    PROVE  q = Append(SubSeq(q, 1, i - 1), q[i]) \o SubSeq(q, i + 1, Len(q))
<1>1. Append(SubSeq(q, 1, i - 1), q[i]) = SubSeq(q, 1, i)
  BY SMT
<1>2. q = SubSeq(q, 1, i) \o SubSeq(q, i + 1, Len(q))
  BY SMT
<1> QED
  BY <1>1, <1>2

SameSteps(n, A, s, t) == \A i \in 1..n, x \in A : s[<<i, x>>] = t[<<i, x>>]

\* Two recursions with the same steps up to n have the same value at n.
LEMMA SameRecursion ==
    ASSUME NEW n \in Nat, NEW m \in Nat, n <= m, NEW A, NEW a, NEW s, NEW t, NEW g, NEW h,
           RecursiveOn(n, A, a, s, g), RecursiveOn(m, A, a, t, h),
           SameSteps(n, A, s, t)
    PROVE  g[n] = h[n]
<1> DEFINE P == {i \in 0..n : g[i] = h[i]}
<1> USE DEF RecursiveOn, SameSteps
<1>1. 0 \in P
  <2>1. 0 \in 0..n
    BY SMT
  <2> QED
    BY <2>1
<1>2. ASSUME NEW i \in 1..n, i - 1 \in P PROVE i \in P
  <2>1. i \in 0..n /\ i - 1 \in 0..n /\ i \in 1..m
    BY SMT
  <2>2. g[i - 1] \in A /\ h[i - 1] = g[i - 1]
    BY <1>2, <2>1
  <2>3. g[i] = s[<<i, g[i - 1]>>] /\ h[i] = t[<<i, g[i - 1]>>]
    BY <2>1, <2>2
  <2> QED
    BY <2>1, <2>2, <2>3
<1> HIDE DEF P
<1>3. \A i \in 0..n : i \in P
  BY <1>1, <1>2, IntervalInduction
<1>4. n \in 0..n
  BY SMT
<1> QED
  BY <1>3, <1>4 DEF P

----------------------------------------------------------------------------
(* Sizes *)

SumStep(q) == [x \in (1..Len(q)) \X Nat |-> x[2] + q[x[1]].size]

\* total_size is its recursion.
LEMMA SizeRecursion ==
    ASSUME NEW q \in Seq(Item)
    PROVE  \E g : RecursiveOn(Len(q), Nat, 0, SumStep(q), g) /\ total_size(q) = g[Len(q)]
<1> DEFINE n == Len(q)
           Body(h) == [i \in 0..n |-> IF i = 0 THEN 0 ELSE h[i - 1] + q[i].size]
<1>1. n \in Nat /\ 0 \in Nat /\ \A i \in 1..n : q[i].size \in Nat
  <2>1. \A x \in Item : x.size \in Nat
    BY SnapshotAssumption DEF Item
  <2> QED
    BY <2>1, LenProperties, SMT
<1>2. SumStep(q) \in [(1..n) \X Nat -> Nat]
  <2>1. \A x \in (1..n) \X Nat : x[1] \in 1..n /\ x[2] \in Nat
    BY SMT
  <2>2. \A i \in 1..n, k \in Nat : k + q[i].size \in Nat
    BY <1>1, SMT
  <2>3. \A x \in (1..n) \X Nat : x[2] + q[x[1]].size \in Nat
    BY <2>1, <2>2
  <2> QED
    BY <2>3 DEF SumStep
<1>3. PICK g : RecursiveOn(n, Nat, 0, SumStep(q), g)
  <2> HIDE DEF n
  <2> QED
    BY <1>1, <1>2, IntervalRecursion
<1>4. ASSUME NEW h, RecursiveOn(n, Nat, 0, SumStep(q), h) PROVE h = Body(h)
  <2>1. h \in [0..n -> Nat] /\ h[0] = 0 /\ \A i \in 1..n : h[i] = SumStep(q)[<<i, h[i - 1]>>]
    BY <1>4 DEF RecursiveOn
  <2>2. \A i \in 1..n : i - 1 \in 0..n /\ h[i - 1] \in Nat
    <3>1. \A i \in 1..n : i - 1 \in 0..n
      BY <1>1, SMT
    <3> QED
      BY <2>1, <3>1
  <2>3. \A i \in 1..n, k \in Nat : SumStep(q)[<<i, k>>] = k + q[i].size
    BY SMT DEF SumStep
  <2>4. \A i \in 1..n : h[i] = h[i - 1] + q[i].size
    BY <2>1, <2>2, <2>3
  <2>5. \A i \in 0..n : i = 0 \/ i \in 1..n
    BY <1>1, SMT
  <2>6. \A i \in 0..n : h[i] = IF i = 0 THEN 0 ELSE h[i - 1] + q[i].size
    BY <2>1, <2>4, <2>5
  <2>7. h = [i \in 0..n |-> h[i]]
    BY <2>1
  <2> QED
    BY <2>6, <2>7
<1>5. ASSUME NEW h, h = Body(h) PROVE RecursiveOn(n, Nat, 0, SumStep(q), h)
  <2>1. \A i \in 0..n : h[i] = IF i = 0 THEN 0 ELSE h[i - 1] + q[i].size
    BY <1>5
  <2>2. 0 \in 0..n /\ \A i \in 1..n : i \in 0..n /\ i # 0 /\ i - 1 \in 0..n
    BY <1>1, SMT
  <2>3. h[0] = 0 /\ \A i \in 1..n : h[i] = h[i - 1] + q[i].size
    BY <2>1, <2>2
  <2> DEFINE P == {i \in 0..n : h[i] \in Nat}
  <2>4. 0 \in P
    BY <2>2, <2>3, <1>1
  <2>5. ASSUME NEW i \in 1..n, i - 1 \in P PROVE i \in P
    <3>1. h[i - 1] \in Nat /\ q[i].size \in Nat /\ i \in 0..n
      BY <1>1, <2>2, <2>5
    <3>2. h[i - 1] + q[i].size \in Nat
      BY <3>1, SMT
    <3> QED
      BY <2>3, <3>1, <3>2
  <2>6. \A i \in 0..n : i \in P
    <3> HIDE DEF P, n
    <3> QED
      BY <1>1, <2>4, <2>5, IntervalInduction
  <2>7. h \in [0..n -> Nat]
    BY <1>5, <2>6
  <2>8. \A i \in 1..n, k \in Nat : SumStep(q)[<<i, k>>] = k + q[i].size
    BY SMT DEF SumStep
  <2>9. \A i \in 1..n : h[i - 1] \in Nat
    BY <2>2, <2>7
  <2> QED
    BY <2>3, <2>7, <2>8, <2>9 DEF RecursiveOn
<1> DEFINE c == CHOOSE h : h = Body(h)
<1>6. c = Body(c)
  BY <1>3, <1>4
<1>7. total_size(q) = c[n]
  BY DEF total_size
<1> HIDE DEF c
<1> QED
  BY <1>5, <1>6, <1>7

\* The size of an item.
LEMMA ItemSize == \A e \in Item : e.size \in Nat /\ e.active \in BOOLEAN
BY SnapshotAssumption DEF Item

\* Sizes are numbers, that of the empty list is 0.
LEMMA SizeEmpty == total_size(<< >>) = 0 /\ \A q \in Seq(Item) : total_size(q) \in Nat
<1>1. total_size(<< >>) = 0
  <2>1. << >> \in Seq(Item) /\ Len(<< >>) = 0
    BY EmptySeq
  <2>2. PICK f : RecursiveOn(0, Nat, 0, SumStep(<< >>), f) /\ total_size(<< >>) = f[0]
    BY <2>1, SizeRecursion
  <2> QED
    BY <2>2 DEF RecursiveOn
<1>2. ASSUME NEW q \in Seq(Item) PROVE total_size(q) \in Nat
  <2>1. PICK g : RecursiveOn(Len(q), Nat, 0, SumStep(q), g) /\ total_size(q) = g[Len(q)]
    BY SizeRecursion
  <2>2. Len(q) \in 0..Len(q)
    BY SMT
  <2> QED
    BY <2>1, <2>2 DEF RecursiveOn
<1> QED
  BY <1>1, <1>2

\* The size of a list with one item more.
LEMMA SizeAppend ==
    ASSUME NEW q \in Seq(Item), NEW e \in Item
    PROVE  total_size(Append(q, e)) = total_size(q) + e.size
<1> DEFINE n == Len(q)
           r == Append(q, e)
<1>1. n \in Nat /\ n + 1 \in Nat /\ n <= n + 1 /\ n \in 0..n /\ n + 1 \in 1..(n + 1)
      /\ n \in 0..(n + 1) /\ (n + 1) - 1 = n /\ \A i \in 1..n : i \in 1..(n + 1)
  BY SMT
<1>2. r \in Seq(Item) /\ Len(r) = n + 1 /\ r[n + 1] = e /\ \A i \in 1..n : r[i] = q[i]
  BY SMT
<1>3. PICK g : RecursiveOn(n, Nat, 0, SumStep(q), g) /\ total_size(q) = g[n]
  BY SizeRecursion
<1>4. PICK h : RecursiveOn(n + 1, Nat, 0, SumStep(r), h) /\ total_size(r) = h[n + 1]
  <2> HIDE DEF r, n
  <2> QED
    BY <1>2, SizeRecursion
<1>5. \A i \in 1..n, k \in Nat : SumStep(q)[<<i, k>>] = SumStep(r)[<<i, k>>]
  <2>1. \A i \in 1..n, k \in Nat : SumStep(q)[<<i, k>>] = k + q[i].size
    BY SMT DEF SumStep
  <2>2. \A i \in 1..(n + 1), k \in Nat : SumStep(r)[<<i, k>>] = k + r[i].size
    <3> HIDE DEF r, n
    <3> QED
      BY <1>2, SMT DEF SumStep
  <2> HIDE DEF r, n
  <2> TAKE i \in 1..n, k \in Nat
  <2>3. i \in 1..(n + 1) /\ r[i] = q[i]
    BY <1>1, <1>2
  <2> QED
    BY <2>1, <2>2, <2>3
<1>6. h[n] = g[n]
  <2> HIDE DEF r, n
  <2>1. SameSteps(n, Nat, SumStep(q), SumStep(r))
    BY <1>5 DEF SameSteps
  <2>2. g[n] = h[n]
    BY <1>1, <1>3, <1>4, <2>1, SameRecursion, SMT
  <2> QED
    BY <2>2
<1>7. g[n] \in Nat
  BY <1>1, <1>3 DEF RecursiveOn
<1>8. h[n + 1] = h[n] + e.size
  <2> HIDE DEF r, n
  <2>1. h[n + 1] = SumStep(r)[<<n + 1, h[n]>>]
    BY <1>1, <1>4 DEF RecursiveOn
  <2>2. \A k \in Nat : SumStep(r)[<<n + 1, k>>] = k + r[n + 1].size
    BY <1>1, <1>2, SMT DEF SumStep
  <2> QED
    BY <1>2, <1>6, <1>7, <2>1, <2>2
<1> QED
  BY <1>3, <1>4, <1>6, <1>8

\* The size of two lists, one after the other.
LEMMA SizeConcat ==
    ASSUME NEW p \in Seq(Item), NEW q \in Seq(Item)
    PROVE  total_size(p \o q) = total_size(p) + total_size(q)
<1> DEFINE T == {r \in Seq(Item) : total_size(p \o r) = total_size(p) + total_size(r)}
<1>1. << >> \in T
  <2>1. p \o << >> = p /\ << >> \in Seq(Item)
    BY SMT
  <2>2. total_size(p) \in Nat /\ total_size(<< >>) = 0
    BY SizeEmpty
  <2> QED
    BY <2>1, <2>2, SMT
<1>2. ASSUME NEW r \in Seq(Item), NEW e \in Item, r \in T PROVE Append(r, e) \in T
  <2>1. p \o Append(r, e) = Append(p \o r, e) /\ p \o r \in Seq(Item) /\ Append(r, e) \in Seq(Item)
    BY SMT
  <2>2. total_size(Append(p \o r, e)) = total_size(p \o r) + e.size
    BY <2>1, SizeAppend
  <2>3. total_size(Append(r, e)) = total_size(r) + e.size
    BY SizeAppend
  <2>4. total_size(p \o r) = total_size(p) + total_size(r)
    BY <1>2
  <2>5. total_size(p) \in Nat /\ total_size(r) \in Nat /\ e.size \in Nat
    BY SizeEmpty, ItemSize
  <2>6. total_size(p \o Append(r, e)) = total_size(p) + total_size(Append(r, e))
    BY <2>1, <2>2, <2>3, <2>4, <2>5, SMT
  <2> QED
    BY <2>1, <2>6
<1> HIDE DEF T
<1>3. q \in T
  BY <1>1, <1>2, SequenceInduction
<1> QED
  BY <1>3 DEF T

\* The order of a list does not matter to its size.
LEMMA SizeReversed ==
    ASSUME NEW q \in Seq(Item)
    PROVE  Reversed(q) \in Seq(Item) /\ total_size(Reversed(q)) = total_size(q)
<1> DEFINE T == {r \in Seq(Item) : Reversed(r) \in Seq(Item) /\ total_size(Reversed(r)) = total_size(r)}
<1>1. << >> \in T
  <2>1. << >> \in Seq(Item) /\ Reversed(<< >>) = << >>
    BY SMT DEF Reversed
  <2> QED
    BY <2>1
<1>2. ASSUME NEW r \in Seq(Item), NEW e \in Item, r \in T PROVE Append(r, e) \in T
  <2>1. Reversed(r) \in Seq(Item) /\ total_size(Reversed(r)) = total_size(r)
    BY <1>2
  <2>2. /\ Append(r, e) \in Seq(Item) /\ <<e>> \in Seq(Item) /\ <<e>> = Append(<< >>, e)
        /\ << >> \in Seq(Item)
    BY SMT
  <2>3. Reversed(Append(r, e)) = <<e>> \o Reversed(r)
    <3>1. Len(Reversed(r)) = Len(r) /\ \A i \in 1..Len(r) : Reversed(r)[i] = r[Len(r) + 1 - i]
      BY SMT DEF Reversed
    <3> DEFINE R == Reversed(Append(r, e))
               C == <<e>> \o Reversed(r)
    <3>2. /\ C \in Seq(Item) /\ Len(C) = Len(r) + 1 /\ C[1] = e
          /\ \A i \in 2..(Len(r) + 1) : C[i] = Reversed(r)[i - 1]
      BY <2>1, <3>1, SMT
    <3>3. /\ R = [i \in 1..(Len(r) + 1) |-> Append(r, e)[Len(r) + 2 - i]]
      <4>1. Len(Append(r, e)) = Len(r) + 1
        BY SMT
      <4>2. R = [i \in 1..Len(Append(r, e)) |-> Append(r, e)[Len(Append(r, e)) + 1 - i]]
        BY DEF Reversed
      <4>3. Len(Append(r, e)) + 1 = Len(r) + 2
        BY SMT
      <4> HIDE DEF R
      <4> QED
        BY <4>1, <4>2, <4>3, SMT
    <3>4. R[1] = e /\ \A i \in 2..(Len(r) + 1) : R[i] = r[Len(r) + 2 - i]
      <4> HIDE DEF R
      <4> QED
        BY <3>3, SMT
    <3>5. R \in Seq(Item) /\ Len(R) = Len(r) + 1
      <4> HIDE DEF R
      <4> QED
        BY <3>3, SMT
    <3>6. ASSUME NEW i \in 1..(Len(r) + 1) PROVE R[i] = C[i]
      <4> HIDE DEF R, C
      <4>1. CASE i = 1
        BY <3>2, <3>4, <4>1
      <4>2. CASE i # 1
        <5>1. i \in 2..(Len(r) + 1) /\ i - 1 \in 1..Len(r) /\ Len(r) + 1 - (i - 1) = Len(r) + 2 - i
          BY <4>2, SMT
        <5> QED
          BY <3>1, <3>2, <3>4, <5>1
      <4> QED
        BY <4>1, <4>2
    <3> HIDE DEF R, C
    <3>7. R = C
      <4>1. Len(R) = Len(C) /\ \A i \in 1..Len(R) : R[i] = C[i]
        BY <3>2, <3>5, <3>6
      <4> QED
        BY <3>2, <3>5, <4>1, SeqEqual
    <3> QED
      BY <3>7 DEF R, C
  <2>4. total_size(<<e>>) = e.size
    <3>1. total_size(<<e>>) = 0 + e.size
      BY <2>2, SizeAppend, SizeEmpty
    <3> QED
      BY <3>1, ItemSize, SMT
  <2>5. total_size(<<e>> \o Reversed(r)) = e.size + total_size(r)
    <3> DEFINE x == <<e>>
               y == Reversed(r)
    <3>1. x \in Seq(Item) /\ y \in Seq(Item) /\ total_size(x) = e.size /\ total_size(y) = total_size(r)
      BY <2>1, <2>2, <2>4
    <3> HIDE DEF x, y
    <3>2. total_size(x \o y) = total_size(x) + total_size(y)
      BY <3>1, SizeConcat
    <3>3. total_size(x \o y) = e.size + total_size(r)
      BY <3>1, <3>2
    <3> QED
      BY <3>3 DEF x, y
  <2>6. total_size(Append(r, e)) = total_size(r) + e.size
    BY SizeAppend
  <2>7. e.size + total_size(r) = total_size(r) + e.size
    BY ItemSize, SizeEmpty, SMT
  <2>8. <<e>> \o Reversed(r) \in Seq(Item)
    BY <2>1, <2>2, ConcatProperties
  <2> QED
    BY <2>2, <2>3, <2>5, <2>6, <2>7, <2>8
<1> HIDE DEF T
<1>3. q \in T
  BY <1>1, <1>2, SequenceInduction
<1> QED
  BY <1>3 DEF T

----------------------------------------------------------------------------
(* Selections *)

Select(x, e, b) == IF e.active = b THEN Append(x, e) ELSE x

SelectionStep(q, b) == [x \in (1..Len(q)) \X Seq(Item) |-> Select(x[2], q[x[1]], b)]

LEMMA SelectType ==
    ASSUME NEW x \in Seq(Item), NEW e \in Item, NEW b
    PROVE  Select(x, e, b) \in Seq(Item)
BY AppendProperties DEF Select

\* Selected is its recursion.
LEMMA SelectRecursion ==
    ASSUME NEW q \in Seq(Item), NEW b
    PROVE  \E g : /\ RecursiveOn(Len(q), Seq(Item), << >>, SelectionStep(q, b), g)
                  /\ Selected(q, b) = g[Len(q)]
<1> DEFINE n == Len(q)
           A == Seq(Item)
           st == SelectionStep(q, b)
           Body(h) == [i \in 0..n |-> IF i = 0 THEN << >> ELSE Select(h[i - 1], q[i], b)]
<1>1. n \in Nat /\ << >> \in A /\ \A i \in 1..n : q[i] \in Item
  BY LenProperties, EmptySeq
<1>2. \A i \in 1..n, k \in A : st[<<i, k>>] = Select(k, q[i], b) /\ Select(k, q[i], b) \in A
  <2>1. \A i \in 1..n, k \in A : st[<<i, k>>] = Select(k, q[i], b)
    <3> HIDE DEF A
    <3> QED
      BY SMT DEF SelectionStep, A
  <2> QED
    BY <1>1, <2>1, SelectType
<1>3. st \in [(1..n) \X A -> A]
  <2>1. \A x \in (1..n) \X A : x[1] \in 1..n /\ x[2] \in A
    BY SMT
  <2>2. \A x \in (1..n) \X A : Select(x[2], q[x[1]], b) \in A
    BY <1>2, <2>1
  <2> QED
    BY <2>2 DEF SelectionStep
<1>4. PICK g : RecursiveOn(n, A, << >>, st, g)
  <2> HIDE DEF n, A, st
  <2> QED
    BY <1>1, <1>3, IntervalRecursion
<1>5. 0 \in 0..n /\ \A i \in 1..n : i \in 0..n /\ i # 0 /\ i - 1 \in 0..n
  BY <1>1, SMT
<1>6. \A i \in 0..n : i = 0 \/ i \in 1..n
  BY <1>1, SMT
<1>7. ASSUME NEW h, RecursiveOn(n, A, << >>, st, h) PROVE h = Body(h)
  <2> HIDE DEF A, st
  <2>1. h \in [0..n -> A] /\ h[0] = << >> /\ \A i \in 1..n : h[i] = st[<<i, h[i - 1]>>]
    BY <1>7 DEF RecursiveOn
  <2>2. \A i \in 1..n : h[i - 1] \in A
    BY <1>5, <2>1
  <2>3. \A i \in 1..n : h[i] = Select(h[i - 1], q[i], b)
    BY <1>2, <2>1, <2>2
  <2>4. \A i \in 0..n : h[i] = IF i = 0 THEN << >> ELSE Select(h[i - 1], q[i], b)
    BY <1>6, <2>1, <2>3
  <2>5. h = [i \in 0..n |-> h[i]]
    BY <2>1
  <2> QED
    BY <2>4, <2>5
<1>8. ASSUME NEW h, h = Body(h) PROVE RecursiveOn(n, A, << >>, st, h)
  <2> HIDE DEF A, st
  <2>1. \A i \in 0..n : h[i] = IF i = 0 THEN << >> ELSE Select(h[i - 1], q[i], b)
    BY <1>8
  <2>2. h[0] = << >> /\ \A i \in 1..n : h[i] = Select(h[i - 1], q[i], b)
    BY <1>5, <2>1
  <2> DEFINE P == {i \in 0..n : h[i] \in A}
  <2>3. 0 \in P
    BY <1>1, <1>5, <2>2
  <2>4. ASSUME NEW i \in 1..n, i - 1 \in P PROVE i \in P
    BY <1>2, <1>5, <2>2, <2>4
  <2>5. \A i \in 0..n : i \in P
    <3> HIDE DEF P, n
    <3> QED
      BY <1>1, <2>3, <2>4, IntervalInduction
  <2>6. h \in [0..n -> A]
    BY <1>8, <2>5
  <2>7. \A i \in 1..n : h[i - 1] \in A
    BY <1>5, <2>6
  <2>8. \A i \in 1..n : h[i] = st[<<i, h[i - 1]>>]
    BY <1>2, <2>2, <2>7
  <2> QED
    BY <2>2, <2>6, <2>8 DEF RecursiveOn
<1> DEFINE c == CHOOSE h : h = Body(h)
<1>9. c = Body(c)
  <2> HIDE DEF A, st
  <2> QED
    BY <1>4, <1>7
<1>10. Selected(q, b) = c[n]
  BY DEF Selected, Select
<1> HIDE DEF c
<1> QED
  BY <1>8, <1>9, <1>10

\* Selecting from the empty list, and that a selection is a list.
LEMMA SelectEmpty ==
    ASSUME NEW b
    PROVE  Selected(<< >>, b) = << >> /\ \A q \in Seq(Item) : Selected(q, b) \in Seq(Item)
<1>1. Selected(<< >>, b) = << >>
  <2>1. << >> \in Seq(Item) /\ Len(<< >>) = 0
    BY EmptySeq
  <2>2. PICK f : /\ RecursiveOn(0, Seq(Item), << >>, SelectionStep(<< >>, b), f)
                 /\ Selected(<< >>, b) = f[0]
    BY <2>1, SelectRecursion
  <2> QED
    BY <2>2 DEF RecursiveOn
<1>2. ASSUME NEW q \in Seq(Item) PROVE Selected(q, b) \in Seq(Item)
  <2>1. PICK g : /\ RecursiveOn(Len(q), Seq(Item), << >>, SelectionStep(q, b), g)
                 /\ Selected(q, b) = g[Len(q)]
    BY SelectRecursion
  <2>2. Len(q) \in 0..Len(q)
    BY SMT
  <2> QED
    BY <2>1, <2>2 DEF RecursiveOn
<1> QED
  BY <1>1, <1>2

\* Selecting from a list with one item more.
LEMMA SelectAppend ==
    ASSUME NEW q \in Seq(Item), NEW e \in Item, NEW b
    PROVE  Selected(Append(q, e), b) = Select(Selected(q, b), e, b)
<1> DEFINE n == Len(q)
           r == Append(q, e)
           A == Seq(Item)
<1>1. n \in Nat /\ n + 1 \in Nat /\ n <= n + 1 /\ n \in 0..n /\ n + 1 \in 1..(n + 1)
      /\ n \in 0..(n + 1) /\ (n + 1) - 1 = n /\ \A i \in 1..n : i \in 1..(n + 1)
  BY SMT
<1>2. r \in A /\ Len(r) = n + 1 /\ r[n + 1] = e /\ \A i \in 1..n : r[i] = q[i]
  BY SMT
<1>3. PICK g : RecursiveOn(n, A, << >>, SelectionStep(q, b), g) /\ Selected(q, b) = g[n]
  BY SelectRecursion
<1>4. PICK h : RecursiveOn(n + 1, A, << >>, SelectionStep(r, b), h) /\ Selected(r, b) = h[n + 1]
  <2> HIDE DEF r, n
  <2> QED
    BY <1>2, SelectRecursion
<1>5. \A i \in 1..(n + 1), k \in A : SelectionStep(r, b)[<<i, k>>] = Select(k, r[i], b)
  <2> HIDE DEF r, n
  <2> QED
    BY <1>2, SMT DEF SelectionStep
<1>6. \A i \in 1..n, k \in A : SelectionStep(q, b)[<<i, k>>] = SelectionStep(r, b)[<<i, k>>]
  <2>1. \A i \in 1..n, k \in A : SelectionStep(q, b)[<<i, k>>] = Select(k, q[i], b)
    BY SMT DEF SelectionStep
  <2> HIDE DEF r, n, A
  <2> TAKE i \in 1..n, k \in A
  <2>3. i \in 1..(n + 1) /\ r[i] = q[i]
    BY <1>1, <1>2
  <2> QED
    BY <1>5, <2>1, <2>3
<1>7. h[n] = g[n]
  <2> HIDE DEF r, n, A
  <2>1. SameSteps(n, A, SelectionStep(q, b), SelectionStep(r, b))
    BY <1>6 DEF SameSteps
  <2>2. g[n] = h[n]
    BY <1>1, <1>3, <1>4, <2>1, SameRecursion, SMT
  <2> QED
    BY <2>2
<1>8. g[n] \in A
  BY <1>1, <1>3 DEF RecursiveOn
<1>9. h[n + 1] = Select(h[n], e, b)
  <2> HIDE DEF r, n, A
  <2>1. h[n + 1] = SelectionStep(r, b)[<<n + 1, h[n]>>]
    BY <1>1, <1>4 DEF RecursiveOn
  <2> QED
    BY <1>1, <1>2, <1>5, <1>7, <1>8, <2>1
<1> QED
  BY <1>3, <1>4, <1>7, <1>9

\* Selecting from two lists, one after the other.
LEMMA SelectConcat ==
    ASSUME NEW p \in Seq(Item), NEW q \in Seq(Item), NEW b
    PROVE  Selected(p \o q, b) = Selected(p, b) \o Selected(q, b)
<1> DEFINE T == {r \in Seq(Item) : Selected(p \o r, b) = Selected(p, b) \o Selected(r, b)}
           P == Selected(p, b)
<1>1. << >> \in T
  <2>1. P \in Seq(Item) /\ Selected(<< >>, b) = << >>
    BY SelectEmpty
  <2>2. p \o << >> = p /\ << >> \in Seq(Item) /\ P \o << >> = P
    <3> HIDE DEF P
    <3> QED
      BY <2>1, SMT
  <2> QED
    BY <2>1, <2>2
<1>2. ASSUME NEW r \in Seq(Item), NEW e \in Item, r \in T PROVE Append(r, e) \in T
  <2> DEFINE R == Selected(r, b)
  <2>1. p \o Append(r, e) = Append(p \o r, e) /\ p \o r \in Seq(Item) /\ Append(r, e) \in Seq(Item)
    BY SMT
  <2>2. P \in Seq(Item) /\ R \in Seq(Item)
    BY SelectEmpty
  <2>3. Selected(p \o Append(r, e), b) = Select(P \o R, e, b)
    <3>1. Selected(Append(p \o r, e), b) = Select(Selected(p \o r, b), e, b)
      BY <2>1, SelectAppend
    <3> QED
      BY <1>2, <2>1, <3>1
  <2>4. Selected(Append(r, e), b) = Select(R, e, b)
    BY SelectAppend
  <2>5. P \o Append(R, e) = Append(P \o R, e)
    BY <2>2, ConcatAppend, SMT
  <2>6. Select(P \o R, e, b) = P \o Select(R, e, b)
    BY <2>5 DEF Select
  <2> QED
    BY <2>1, <2>3, <2>4, <2>6
<1> HIDE DEF T
<1>3. q \in T
  BY <1>1, <1>2, SequenceInduction
<1> QED
  BY <1>3 DEF T

\* Selecting where there is nothing to select.
LEMMA SelectNone ==
    ASSUME NEW q \in Seq(Item), NEW b, \A i \in 1..Len(q) : q[i].active # b
    PROVE  Selected(q, b) = << >>
<1> DEFINE None(r) == \A i \in 1..Len(r) : r[i].active # b
           T == {r \in Seq(Item) : None(r) => Selected(r, b) = << >>}
<1>1. << >> \in T
  BY EmptySeq, SelectEmpty
<1>2. ASSUME NEW r \in Seq(Item), NEW e \in Item, r \in T PROVE Append(r, e) \in T
  <2>1. /\ Append(r, e) \in Seq(Item) /\ Len(Append(r, e)) = Len(r) + 1
        /\ \A i \in 1..Len(r) : Append(r, e)[i] = r[i]
        /\ Append(r, e)[Len(r) + 1] = e
    BY AppendProperties
  <2>2. Len(r) + 1 \in 1..(Len(r) + 1) /\ \A i \in 1..Len(r) : i \in 1..(Len(r) + 1)
    BY SMT
  <2>3. ASSUME None(Append(r, e)) PROVE Selected(Append(r, e), b) = << >>
    <3>1. None(r) /\ e.active # b
      BY <2>1, <2>2, <2>3
    <3>2. Selected(r, b) = << >>
      BY <1>2, <3>1
    <3> QED
      BY <3>1, <3>2, SelectAppend DEF Select
  <2> HIDE DEF None
  <2> QED
    BY <2>1, <2>3
<1>3. q \in T
  <2> HIDE DEF T
  <2> QED
    BY <1>1, <1>2, SequenceInduction
<1> QED
  BY <1>3

\* A list is as large as its active and its other items together.
LEMMA SizeSelected ==
    ASSUME NEW q \in Seq(Item)
    PROVE  total_size(q) = total_size(Selected(q, TRUE)) + total_size(Selected(q, FALSE))
<1> DEFINE T == {r \in Seq(Item) : total_size(r) = total_size(Selected(r, TRUE))
                                                     + total_size(Selected(r, FALSE))}
<1>1. << >> \in T
  <2>1. total_size(<< >>) = 0 /\ Selected(<< >>, TRUE) = << >> /\ Selected(<< >>, FALSE) = << >>
    BY SizeEmpty, SelectEmpty
  <2>2. 0 = 0 + 0
    BY SMT
  <2> QED
    BY <2>1, <2>2, EmptySeq
<1>2. ASSUME NEW r \in Seq(Item), NEW e \in Item, r \in T PROVE Append(r, e) \in T
  <2> DEFINE a == Selected(r, TRUE)
             o == Selected(r, FALSE)
  <2>1. a \in Seq(Item) /\ o \in Seq(Item) /\ Append(r, e) \in Seq(Item)
    BY SelectEmpty, AppendProperties
  <2>2. /\ Selected(Append(r, e), TRUE) = Select(a, e, TRUE)
        /\ Selected(Append(r, e), FALSE) = Select(o, e, FALSE)
    BY SelectAppend
  <2>3. /\ total_size(Append(r, e)) = total_size(r) + e.size
        /\ total_size(Append(a, e)) = total_size(a) + e.size
        /\ total_size(Append(o, e)) = total_size(o) + e.size
    <3> HIDE DEF a, o
    <3> QED
      BY <2>1, SizeAppend
  <2>4. total_size(r) = total_size(a) + total_size(o)
    BY <1>2
  <2>5. /\ total_size(r) \in Nat /\ total_size(a) \in Nat /\ total_size(o) \in Nat
        /\ e.size \in Nat /\ e.active \in BOOLEAN
    <3> HIDE DEF a, o
    <3> QED
      BY <2>1, SizeEmpty, ItemSize
  <2> HIDE DEF a, o
  <2>6. total_size(Append(r, e)) = total_size(Select(a, e, TRUE)) + total_size(Select(o, e, FALSE))
    <3>1. /\ total_size(r) + e.size = (total_size(a) + e.size) + total_size(o)
          /\ total_size(r) + e.size = total_size(a) + (total_size(o) + e.size)
      BY <2>4, <2>5, SMT
    <3>2. CASE e.active = TRUE
      <4>1. Select(a, e, TRUE) = Append(a, e) /\ Select(o, e, FALSE) = o
        BY <3>2 DEF Select
      <4> QED
        BY <2>3, <3>1, <4>1
    <3>3. CASE e.active = FALSE
      <4>1. Select(a, e, TRUE) = a /\ Select(o, e, FALSE) = Append(o, e)
        BY <3>3 DEF Select
      <4> QED
        BY <2>3, <3>1, <4>1
    <3> QED
      BY <2>5, <3>2, <3>3
  <2> QED
    BY <2>1, <2>2, <2>6
<1> HIDE DEF T
<1>3. q \in T
  BY <1>1, <1>2, SequenceInduction
<1> QED
  BY <1>3 DEF T

----------------------------------------------------------------------------
(* One round of the loop *)

\* The first item goes.
LEMMA PopFirst ==
    ASSUME NEW q \in Seq(Item), q # << >>
    PROVE  pop(q, 1) = Tail(q) /\ Tail(q) \in Seq(Item)
<1>1. SubSeq(q, 1, 1 - 1) = << >> /\ SubSeq(q, 1 + 1, Len(q)) = Tail(q) /\ Tail(q) \in Seq(Item)
  BY SMT
<1>2. << >> \o Tail(q) = Tail(q)
  BY <1>1, SMT
<1> QED
  BY <1>1, <1>2 DEF pop

\* The last item goes, which is the first of the reversed list.
LEMMA PopLast ==
    ASSUME NEW q \in Seq(Item), q # << >>
    PROVE  /\ pop(q, Len(q)) \in Seq(Item)
           /\ Reversed(q) # << >> /\ Reversed(pop(q, Len(q))) = Tail(Reversed(q))
<1> DEFINE f == SubSeq(q, 1, Len(q) - 1)
           n == Len(q)
<1>1. n \in Nat \ {0} /\ f \in Seq(Item) /\ Len(f) = n - 1 /\ \A i \in 1..(n - 1) : f[i] = q[i]
  <2>1. n \in Nat \ {0}
    BY EmptySeq
  <2>2. n - 1 \in 0..Len(q)
    BY <2>1, SMT
  <2> QED
    BY <2>1, <2>2, PrefixProperties
<1>2. pop(q, n) = f
  <2>1. SubSeq(q, n + 1, Len(q)) = << >>
    BY SMT
  <2>2. f \o << >> = f
    <3> HIDE DEF f
    <3> QED
      BY <1>1, SMT
  <2> QED
    BY <2>1, <2>2 DEF pop
<1>3. Reversed(q) \in Seq(Item) /\ Len(Reversed(q)) = n
      /\ \A i \in 1..n : Reversed(q)[i] = q[n + 1 - i]
  BY SMT DEF Reversed
<1> HIDE DEF f
<1>4. Reversed(f) \in Seq(Item) /\ Len(Reversed(f)) = n - 1
      /\ \A i \in 1..(n - 1) : Reversed(f)[i] = f[(n - 1) + 1 - i]
  BY <1>1, SMT DEF Reversed
<1> HIDE DEF n
<1> DEFINE R == Reversed(q)
<1>5. R # << >> /\ Tail(R) \in Seq(Item) /\ Len(Tail(R)) = n - 1
      /\ \A i \in 1..(n - 1) : Tail(R)[i] = R[i + 1]
  <2> HIDE DEF R
  <2>1. R \in Seq(Item) /\ Len(R) = n
    BY <1>3 DEF R
  <2> QED
    BY <1>1, <2>1, SMT
<1>6. ASSUME NEW i \in 1..(n - 1) PROVE Reversed(f)[i] = Tail(R)[i]
  <2>1. /\ i + 1 \in 1..n /\ n + 1 - (i + 1) = (n - 1) + 1 - i
        /\ (n - 1) + 1 - i \in 1..(n - 1)
    BY <1>1, SMT
  <2>2. Reversed(f)[i] = q[(n - 1) + 1 - i]
    BY <1>1, <1>4, <2>1
  <2>3. Tail(R)[i] = q[n + 1 - (i + 1)]
    BY <1>3, <1>5, <2>1
  <2> QED
    BY <2>1, <2>2, <2>3
<1>7. Reversed(f) = Tail(R)
  <2> HIDE DEF R
  <2> QED
    BY <1>4, <1>5, <1>6, SeqEqual
<1> QED
  BY <1>1, <1>2, <1>5, <1>7 DEF n

\* The first inactive directive goes.
LEMMA PopInactive ==
    ASSUME NEW d \in Seq(Item), NEW i \in 1..Len(d), ~d[i].active,
           \A j \in 1..Len(d) : ~d[j].active => i <= j
    PROVE  /\ pop(d, i) \in Seq(Item)
           /\ Selected(pop(d, i), TRUE) = Selected(d, TRUE)
           /\ Selected(d, FALSE) # << >>
           /\ Selected(pop(d, i), FALSE) = Tail(Selected(d, FALSE))
<1> DEFINE p == SubSeq(d, 1, i - 1)
           x == d[i]
           z == SubSeq(d, i + 1, Len(d))
<1>1. p \in Seq(Item) /\ z \in Seq(Item) /\ x \in Item
  BY SMT
<1>2. Len(p) = i - 1 /\ \A j \in 1..Len(p) : p[j] = d[j] /\ j \in 1..Len(d) /\ j < i
  BY SMT
<1>3. d = Append(p, x) \o z
  BY SplitAt
<1>4. pop(d, i) = p \o z
  BY DEF pop
<1>5. x.active = FALSE
  BY <1>1, ItemSize
<1>6. \A j \in 1..Len(p) : p[j].active # FALSE
  <2> TAKE j \in 1..Len(p)
  <2>1. d[j].active
    <3>1. j \in 1..Len(d) /\ ~(i <= j)
      BY <1>2, SMT
    <3> QED
      BY <3>1
  <2> QED
    BY <1>2, <2>1
<1> HIDE DEF p, x, z
<1>7. Selected(p, FALSE) = << >>
  BY <1>1, <1>6, SelectNone
<1>8. Append(p, x) \in Seq(Item) /\ << >> \in Seq(Item)
  BY <1>1, AppendProperties, EmptySeq
<1>9. \A b : /\ Selected(d, b) = Select(Selected(p, b), x, b) \o Selected(z, b)
             /\ Selected(pop(d, i), b) = Selected(p, b) \o Selected(z, b)
  <2> TAKE b
  <2>1. Selected(Append(p, x) \o z, b) = Selected(Append(p, x), b) \o Selected(z, b)
    <3> DEFINE r == Append(p, x)
    <3>1. r \in Seq(Item) /\ z \in Seq(Item)
      BY <1>1, <1>8
    <3> HIDE DEF r
    <3>2. Selected(r \o z, b) = Selected(r, b) \o Selected(z, b)
      BY <3>1, SelectConcat, ZenonT(30)
    <3> QED
      BY <3>2 DEF r
  <2>2. Selected(Append(p, x), b) = Select(Selected(p, b), x, b)
    BY <1>1, SelectAppend
  <2>3. Selected(p \o z, b) = Selected(p, b) \o Selected(z, b)
    BY <1>1, SelectConcat, ZenonT(30)
  <2> QED
    BY <1>3, <1>4, <2>1, <2>2, <2>3
<1>10. Selected(z, FALSE) \in Seq(Item)
  BY <1>1, SelectEmpty
<1>11. Select(<< >>, x, FALSE) = Append(<< >>, x) /\ \A y : Select(y, x, TRUE) = y
  BY <1>5 DEF Select
<1>13. \A u \in Seq(Item) : Append(<< >>, x) \o u # << >> /\ Tail(Append(<< >>, x) \o u) = << >> \o u
  BY <1>1, SMT
<1>12. pop(d, i) \in Seq(Item)
  <2>1. p \o z \in Seq(Item)
    BY <1>1, ConcatProperties
  <2> QED
    BY <1>4, <2>1
<1>14. Selected(pop(d, i), TRUE) = Selected(d, TRUE)
  BY <1>9, <1>11
<1>15. /\ Selected(d, FALSE) = Append(<< >>, x) \o Selected(z, FALSE)
       /\ Selected(pop(d, i), FALSE) = << >> \o Selected(z, FALSE)
  BY <1>7, <1>9, <1>11
<1> QED
  BY <1>10, <1>12, <1>13, <1>14, <1>15

Lists == [SnapshotLists -> Seq(Item)]

\* The reference order, list by list.
LEMMA ListTypes ==
    ASSUME NEW s \in Lists
    PROVE  /\ s.untrusted \in Seq(Item) /\ s.artifacts \in Seq(Item) /\ s.previous \in Seq(Item)
           /\ s.directives \in Seq(Item) /\ s.events \in Seq(Item)
BY DEF Lists, SnapshotLists

\* The four tails of the reference order.
From4(s) == Selected(s.directives, FALSE) \o s.events
From3(s) == s.previous \o From4(s)
From2(s) == Reversed(s.artifacts) \o From3(s)

LEMMA OrderTypes ==
    ASSUME NEW s \in Lists
    PROVE  /\ From4(s) \in Seq(Item) /\ From3(s) \in Seq(Item) /\ From2(s) \in Seq(Item)
           /\ Expendable(s) \in Seq(Item) /\ Expendable(s) = s.untrusted \o From2(s)
           /\ Selected(s.directives, FALSE) \in Seq(Item) /\ Kept(s) \in Seq(Item)
           /\ Reversed(s.artifacts) \in Seq(Item)
<1>1. /\ Selected(s.directives, FALSE) \in Seq(Item) /\ Kept(s) \in Seq(Item)
      /\ Reversed(s.artifacts) \in Seq(Item)
  BY ListTypes, SelectEmpty, SizeReversed DEF Kept
<1>2. From4(s) \in Seq(Item)
  BY <1>1, ListTypes, ConcatProperties DEF From4
<1>3. From3(s) \in Seq(Item)
  BY <1>2, ListTypes, ConcatProperties DEF From3
<1>4. From2(s) \in Seq(Item)
  BY <1>1, <1>3, ConcatProperties DEF From2
<1>5. Expendable(s) = s.untrusted \o From2(s)
  BY DEF Expendable, From2, From3, From4
<1>6. s.untrusted \o From2(s) \in Seq(Item)
  BY <1>4, ListTypes, ConcatProperties
<1> QED
  BY <1>1, <1>2, <1>3, <1>4, <1>5, <1>6

\* The encoding is what is kept and what may be given up.
LEMMA EncodedParts ==
    ASSUME NEW s \in Lists
    PROVE  /\ encoded(s) = Protected + total_size(Kept(s)) + total_size(Expendable(s))
           /\ total_size(Kept(s)) \in Nat /\ total_size(Expendable(s)) \in Nat
<1> DEFINE d == Selected(s.directives, FALSE)
           r == Reversed(s.artifacts)
<1>1. /\ total_size(Expendable(s)) = total_size(s.untrusted) + total_size(From2(s))
      /\ total_size(From2(s)) = total_size(r) + total_size(From3(s))
      /\ total_size(From3(s)) = total_size(s.previous) + total_size(From4(s))
      /\ total_size(From4(s)) = total_size(d) + total_size(s.events)
  <2>1. total_size(s.untrusted \o From2(s)) = total_size(s.untrusted) + total_size(From2(s))
    BY ListTypes, OrderTypes, SizeConcat
  <2>2. total_size(From2(s)) = total_size(r) + total_size(From3(s))
    BY OrderTypes, SizeConcat DEF From2
  <2>3. total_size(From3(s)) = total_size(s.previous) + total_size(From4(s))
    BY ListTypes, OrderTypes, SizeConcat DEF From3
  <2>4. total_size(From4(s)) = total_size(d) + total_size(s.events)
    BY ListTypes, OrderTypes, SizeConcat DEF From4
  <2> QED
    BY <2>1, <2>2, <2>3, <2>4, OrderTypes
<1>2. total_size(r) = total_size(s.artifacts)
  BY ListTypes, SizeReversed
<1>3. total_size(s.directives) = total_size(Kept(s)) + total_size(d)
  BY ListTypes, SizeSelected DEF Kept
<1>4. /\ total_size(s.untrusted) \in Nat /\ total_size(s.artifacts) \in Nat
      /\ total_size(s.previous) \in Nat /\ total_size(s.events) \in Nat
      /\ total_size(Kept(s)) \in Nat /\ total_size(d) \in Nat
      /\ total_size(Expendable(s)) \in Nat /\ Protected \in Nat
  <2>1. Protected \in Nat
    BY SnapshotAssumption
  <2> QED
    BY <2>1, ListTypes, OrderTypes, SizeEmpty
<1> HIDE DEF d, r
<1>5. encoded(s) = Protected + total_size(Kept(s)) + total_size(Expendable(s))
  BY <1>1, <1>2, <1>3, <1>4, SMT DEF encoded
<1> QED
  BY <1>4, <1>5

\* What a round leaves: one list without the item, the other lists as they were.
Popped(s, t) ==
    /\ t \in Lists /\ Expendable(s) # << >> /\ Expendable(t) = Tail(Expendable(s))
    /\ Kept(t) = Kept(s)

\* An item in front of a list that is otherwise the same.
LEMMA TailOf ==
    ASSUME NEW p \in Seq(Item), NEW p2 \in Seq(Item), NEW q \in Seq(Item),
           p # << >>, p2 = Tail(p)
    PROVE  p \o q # << >> /\ p2 \o q = Tail(p \o q)
BY ConcatTail

\* An empty list in front.
LEMMA EmptyFront ==
    ASSUME NEW q \in Seq(Item)
    PROVE  << >> \o q = q
BY ConcatEmpty

\* Lists that are used up.
LEMMA EmptyLists ==
    ASSUME NEW s \in Lists, s.untrusted = << >>, s.artifacts = << >>
    PROVE  Expendable(s) = From3(s) /\ (s.previous = << >> => Expendable(s) = From4(s))
<1>1. Reversed(<< >>) = << >>
  BY SMT DEF Reversed
<1>2. Expendable(s) = From2(s) /\ From2(s) = From3(s)
  <2>1. From2(s) = << >> \o From3(s) /\ Expendable(s) = << >> \o From2(s)
    BY <1>1, OrderTypes DEF From2
  <2> QED
    BY <2>1, OrderTypes, EmptyFront
<1>3. s.previous = << >> => From3(s) = From4(s)
  BY OrderTypes, EmptyFront DEF From3
<1> QED
  BY <1>2, <1>3

\* No directive may go.
LEMMA NoneInactive ==
    ASSUME NEW s \in Lists, inactive_directives(s) = {}
    PROVE  Selected(s.directives, FALSE) = << >>
<1>1. s.directives \in Seq(Item) /\ DOMAIN s.directives = 1..Len(s.directives)
  BY ListTypes, LenProperties
<1>2. \A i \in 1..Len(s.directives) : s.directives[i].active # FALSE
  BY <1>1 DEF inactive_directives
<1> QED
  BY <1>1, <1>2, SelectNone

\* An untrusted item goes.
LEMMA RoundUntrusted ==
    ASSUME NEW s \in Lists, s.untrusted # << >>
    PROVE  Popped(s, [s EXCEPT !["untrusted"] = pop(s.untrusted, 1)])
<1> DEFINE q == pop(s.untrusted, 1)
           t == [s EXCEPT !["untrusted"] = q]
<1>1. q = Tail(s.untrusted) /\ q \in Seq(Item)
  BY ListTypes, PopFirst
<1>2. /\ t \in Lists /\ t.untrusted = q /\ t.artifacts = s.artifacts
      /\ t.previous = s.previous /\ t.directives = s.directives /\ t.events = s.events
  <2> HIDE DEF q
  <2> QED
    BY <1>1, SMT DEF Lists, SnapshotLists
<1> HIDE DEF q, t
<1>3. From2(t) = From2(s) /\ Kept(t) = Kept(s)
  BY <1>2 DEF From2, From3, From4, Kept
<1>4. s.untrusted \o From2(s) # << >> /\ q \o From2(s) = Tail(s.untrusted \o From2(s))
  <2>1. s.untrusted \in Seq(Item) /\ From2(s) \in Seq(Item)
    BY ListTypes, OrderTypes
  <2> QED
    BY <1>1, <2>1, TailOf
<1>5. Expendable(s) = s.untrusted \o From2(s) /\ Expendable(t) = q \o From2(s)
  BY <1>2, <1>3, OrderTypes
<1>6. Popped(s, t)
  BY <1>2, <1>3, <1>4, <1>5 DEF Popped
<1> QED
  BY <1>6 DEF q, t

\* An artifact goes, the last one.
LEMMA RoundArtifacts ==
    ASSUME NEW s \in Lists, s.untrusted = << >>, s.artifacts # << >>
    PROVE  Popped(s, [s EXCEPT !["artifacts"] = pop(s.artifacts, Len(s.artifacts))])
<1> DEFINE q == pop(s.artifacts, Len(s.artifacts))
           t == [s EXCEPT !["artifacts"] = q]
<1>1. /\ q \in Seq(Item) /\ Reversed(s.artifacts) # << >>
      /\ Reversed(q) = Tail(Reversed(s.artifacts))
  BY ListTypes, PopLast
<1>2. /\ t \in Lists /\ t.untrusted = s.untrusted /\ t.artifacts = q
      /\ t.previous = s.previous /\ t.directives = s.directives /\ t.events = s.events
  <2> HIDE DEF q
  <2> QED
    BY <1>1, SMT DEF Lists, SnapshotLists
<1> HIDE DEF q, t
<1>3. From3(t) = From3(s) /\ Kept(t) = Kept(s)
  BY <1>2 DEF From3, From4, Kept
<1>4. /\ Reversed(s.artifacts) \o From3(s) # << >>
      /\ Reversed(q) \o From3(s) = Tail(Reversed(s.artifacts) \o From3(s))
  <2>1. Reversed(q) \in Seq(Item) /\ Reversed(s.artifacts) \in Seq(Item) /\ From3(s) \in Seq(Item)
    BY <1>1, OrderTypes, SizeReversed
  <2> QED
    BY <1>1, <2>1, TailOf
<1>5. Expendable(s) = From2(s) /\ Expendable(t) = From2(t)
  BY <1>2, OrderTypes, EmptyFront
<1>6. From2(s) = Reversed(s.artifacts) \o From3(s) /\ From2(t) = Reversed(q) \o From3(s)
  BY <1>2, <1>3 DEF From2
<1>7. Popped(s, t)
  BY <1>2, <1>3, <1>4, <1>5, <1>6 DEF Popped
<1> QED
  BY <1>7 DEF q, t

\* A previous action goes.
LEMMA RoundPrevious ==
    ASSUME NEW s \in Lists, s.untrusted = << >>, s.artifacts = << >>, s.previous # << >>
    PROVE  Popped(s, [s EXCEPT !["previous"] = pop(s.previous, 1)])
<1> DEFINE q == pop(s.previous, 1)
           t == [s EXCEPT !["previous"] = q]
<1>1. q = Tail(s.previous) /\ q \in Seq(Item)
  BY ListTypes, PopFirst
<1>2. /\ t \in Lists /\ t.untrusted = s.untrusted /\ t.artifacts = s.artifacts
      /\ t.previous = q /\ t.directives = s.directives /\ t.events = s.events
  <2> HIDE DEF q
  <2> QED
    BY <1>1, SMT DEF Lists, SnapshotLists
<1> HIDE DEF q, t
<1>3. From4(t) = From4(s) /\ Kept(t) = Kept(s)
  BY <1>2 DEF From4, Kept
<1>4. s.previous \o From4(s) # << >> /\ q \o From4(s) = Tail(s.previous \o From4(s))
  <2>1. s.previous \in Seq(Item) /\ From4(s) \in Seq(Item)
    BY ListTypes, OrderTypes
  <2> QED
    BY <1>1, <2>1, TailOf
<1>5. Expendable(s) = From3(s) /\ Expendable(t) = From3(t)
  BY <1>2, EmptyLists
<1>6. From3(s) = s.previous \o From4(s) /\ From3(t) = q \o From4(s)
  BY <1>2, <1>3 DEF From3
<1>7. Popped(s, t)
  BY <1>2, <1>3, <1>4, <1>5, <1>6 DEF Popped
<1> QED
  BY <1>7 DEF q, t

\* The first directive that is not active goes.
LEMMA RoundDirectives ==
    ASSUME NEW s \in Lists, s.untrusted = << >>, s.artifacts = << >>, s.previous = << >>,
           NEW i \in inactive_directives(s), \A j \in inactive_directives(s) : i <= j
    PROVE  Popped(s, [s EXCEPT !["directives"] = pop(s.directives, i)])
<1> DEFINE d == s.directives
           q == pop(d, i)
           t == [s EXCEPT !["directives"] = q]
<1>1. /\ q \in Seq(Item) /\ Selected(q, TRUE) = Selected(d, TRUE)
      /\ Selected(d, FALSE) # << >> /\ Selected(q, FALSE) = Tail(Selected(d, FALSE))
  <2>1. d \in Seq(Item) /\ DOMAIN d = 1..Len(d)
    BY ListTypes, LenProperties
  <2>2. /\ i \in 1..Len(d) /\ ~d[i].active
        /\ \A j \in 1..Len(d) : ~d[j].active => i <= j
    BY <2>1 DEF inactive_directives
  <2> HIDE DEF d
  <2> QED
    BY <2>1, <2>2, PopInactive
<1>2. /\ t \in Lists /\ t.untrusted = s.untrusted /\ t.artifacts = s.artifacts
      /\ t.previous = s.previous /\ t.directives = q /\ t.events = s.events
  <2> HIDE DEF q
  <2> QED
    BY <1>1, SMT DEF Lists, SnapshotLists
<1> HIDE DEF q, t
<1>3. Kept(t) = Kept(s)
  BY <1>1, <1>2 DEF Kept
<1>4. /\ Selected(d, FALSE) \o s.events # << >>
      /\ Selected(q, FALSE) \o s.events = Tail(Selected(d, FALSE) \o s.events)
  <2>1. Selected(d, FALSE) \in Seq(Item) /\ Selected(q, FALSE) \in Seq(Item) /\ s.events \in Seq(Item)
    BY <1>1, ListTypes, SelectEmpty
  <2> QED
    BY <1>1, <2>1, TailOf
<1>5. Expendable(s) = From4(s) /\ Expendable(t) = From4(t)
  BY <1>2, EmptyLists
<1>6. From4(s) = Selected(d, FALSE) \o s.events /\ From4(t) = Selected(q, FALSE) \o s.events
  BY <1>2 DEF From4
<1>7. Popped(s, t)
  BY <1>2, <1>3, <1>4, <1>5, <1>6 DEF Popped
<1> QED
  BY <1>7 DEF q, t

\* An event goes.
LEMMA RoundEvents ==
    ASSUME NEW s \in Lists, s.untrusted = << >>, s.artifacts = << >>, s.previous = << >>,
           inactive_directives(s) = {}, s.events # << >>
    PROVE  Popped(s, [s EXCEPT !["events"] = pop(s.events, 1)])
<1> DEFINE q == pop(s.events, 1)
           t == [s EXCEPT !["events"] = q]
<1>1. q = Tail(s.events) /\ q \in Seq(Item)
  BY ListTypes, PopFirst
<1>2. /\ t \in Lists /\ t.untrusted = s.untrusted /\ t.artifacts = s.artifacts
      /\ t.previous = s.previous /\ t.directives = s.directives /\ t.events = q
  <2> HIDE DEF q
  <2> QED
    BY <1>1, SMT DEF Lists, SnapshotLists
<1> HIDE DEF q, t
<1>3. Kept(t) = Kept(s)
  BY <1>2 DEF Kept
<1>4. Selected(s.directives, FALSE) = << >>
  BY NoneInactive
<1>5. Expendable(s) = From4(s) /\ Expendable(t) = From4(t)
  BY <1>2, EmptyLists
<1>6. From4(s) = s.events /\ From4(t) = q
  BY <1>1, <1>2, <1>4, ListTypes, EmptyFront DEF From4
<1>7. Popped(s, t)
  BY <1>1, <1>2, <1>3, <1>5, <1>6 DEF Popped
<1> QED
  BY <1>7 DEF q, t

\* Among the inactive directives there is a first one.
LEMMA FirstInactive ==
    ASSUME NEW s \in Lists,
           {i \in inactive_directives(s) : \A j \in inactive_directives(s) : i <= j} = {}
    PROVE  inactive_directives(s) = {}
<1>1. inactive_directives(s) \in SUBSET Nat
  <2>1. DOMAIN s.directives = 1..Len(s.directives)
    BY ListTypes, LenProperties
  <2>2. \A i \in 1..Len(s.directives) : i \in Nat
    BY SMT
  <2> QED
    BY <2>1, <2>2 DEF inactive_directives
<1> QED
  BY <1>1, LeastElement

\* One round of the loop takes the first item of the reference order.
LEMMA Round ==
    ASSUME NEW s \in Lists, NEW p \in popped(s)
    PROVE  Popped(s, [s EXCEPT ![p.list] = p.left])
<1> DEFINE first == {i \in inactive_directives(s) : \A j \in inactive_directives(s) : i <= j}
<1>1. CASE s.untrusted # << >>
  <2>1. p = [list |-> "untrusted", left |-> pop(s.untrusted, 1)]
    BY <1>1 DEF popped
  <2>2. p.list = "untrusted" /\ p.left = pop(s.untrusted, 1)
    BY <2>1
  <2> QED
    BY <1>1, <2>2, RoundUntrusted
<1>2. CASE s.untrusted = << >> /\ s.artifacts # << >>
  <2>1. p = [list |-> "artifacts", left |-> pop(s.artifacts, Len(s.artifacts))]
    BY <1>2 DEF popped
  <2>2. p.list = "artifacts" /\ p.left = pop(s.artifacts, Len(s.artifacts))
    BY <2>1
  <2> QED
    BY <1>2, <2>2, RoundArtifacts
<1>3. CASE s.untrusted = << >> /\ s.artifacts = << >> /\ s.previous # << >>
  <2>1. p = [list |-> "previous", left |-> pop(s.previous, 1)]
    BY <1>3 DEF popped
  <2>2. p.list = "previous" /\ p.left = pop(s.previous, 1)
    BY <2>1
  <2> QED
    BY <1>3, <2>2, RoundPrevious
<1>4. CASE s.untrusted = << >> /\ s.artifacts = << >> /\ s.previous = << >> /\ first # {}
  <2>1. PICK i \in first : p = [list |-> "directives", left |-> pop(s.directives, i)]
    BY <1>4 DEF popped
  <2>2. p.list = "directives" /\ p.left = pop(s.directives, i)
    BY <2>1
  <2>3. i \in inactive_directives(s) /\ \A j \in inactive_directives(s) : i <= j
    OBVIOUS
  <2> QED
    BY <1>4, <2>2, <2>3, RoundDirectives
<1>5. CASE s.untrusted = << >> /\ s.artifacts = << >> /\ s.previous = << >> /\ first = {}
  <2>1. s.events # << >> /\ p = [list |-> "events", left |-> pop(s.events, 1)]
    BY <1>5 DEF popped
  <2>2. p.list = "events" /\ p.left = pop(s.events, 1)
    BY <2>1
  <2>3. inactive_directives(s) = {}
    BY <1>5, FirstInactive
  <2> QED
    BY <1>5, <2>1, <2>2, <2>3, RoundEvents
<1> QED
  BY <1>1, <1>2, <1>3, <1>4, <1>5

\* No item is left to take.
LEMMA NothingLeft ==
    ASSUME NEW s \in Lists, popped(s) = {}
    PROVE  Expendable(s) = << >>
<1> DEFINE first == {i \in inactive_directives(s) : \A j \in inactive_directives(s) : i <= j}
<1>1. s.untrusted = << >> /\ s.artifacts = << >> /\ s.previous = << >> /\ s.events = << >>
      /\ first = {}
  BY DEF popped
<1>2. inactive_directives(s) = {}
  BY <1>1, FirstInactive
<1>3. Selected(s.directives, FALSE) = << >>
  BY <1>2, NoneInactive
<1>4. From4(s) = << >>
  BY <1>1, <1>3, EmptySeq, EmptyFront DEF From4
<1> QED
  BY <1>1, <1>4, EmptyLists

\* The caps leave lists.
LEMMA CappedType ==
    ASSUME NEW l \in SnapshotLists, NEW q \in Raw(l)
    PROVE  capped(l, q) \in Seq(Item)
<1>1. q \in Seq(Item)
  <2>1. PICK n \in 0..(ListCap[l] + 1) : q \in [1..n -> {i \in Item : i.active => l = "directives"}]
    BY DEF Raw
  <2>2. n \in Nat /\ q \in [1..n -> Item]
    <3>1. n \in Nat
      BY SnapshotAssumption, SMT
    <3> QED
      BY <2>1, <3>1
  <2> QED
    BY <2>2, SMT
<1>2. ListCap[l] \in Nat
  BY SnapshotAssumption
<1>3. Len(q) <= ListCap[l] \/ /\ SubSeq(q, 1, ListCap[l]) \in Seq(Item)
                              /\ SubSeq(q, Len(q) - ListCap[l] + 1, Len(q)) \in Seq(Item)
  BY <1>1, <1>2, SMT
<1> QED
  BY <1>1, <1>3 DEF capped

----------------------------------------------------------------------------
(* The loop *)

\* The size after the first n items of the order are given up.
SizeAfter(n) ==
    Protected + total_size(Kept(source))
              + total_size(SubSeq(Expendable(source), n + 1, Len(Expendable(source))))

\* k items are gone, all of them from the front of the order, and fewer would
\* not have been enough.
Gone(k) ==
    /\ k \in 0..Len(Expendable(source))
    /\ Expendable(ai_snapshot) = SubSeq(Expendable(source), k + 1, Len(Expendable(source)))
    /\ Kept(ai_snapshot) = Kept(source)
    /\ \A n \in 0..(k - 1) : SizeAfter(n) > MaxSnapshot

TrimInv ==
    /\ source \in Lists /\ ai_snapshot \in Lists
    /\ trimming \in {"NEW", "TRIMMING", "DONE", "REFUSED"}
    /\ \E k \in Nat : Gone(k)
    /\ trimming = "DONE" => ~over_limit(ai_snapshot)
    /\ trimming = "REFUSED" => over_limit(ai_snapshot) /\ Expendable(ai_snapshot) = << >>

\* The size of the snapshot with k items gone.
LEMMA GoneSize ==
    ASSUME source \in Lists, ai_snapshot \in Lists, NEW k \in Nat, Gone(k)
    PROVE  encoded(ai_snapshot) = SizeAfter(k) /\ encoded(ai_snapshot) \in Nat
<1>1. encoded(ai_snapshot) = SizeAfter(k)
  BY EncodedParts DEF Gone, SizeAfter
<1>2. Protected \in Nat
  BY SnapshotAssumption
<1>3. Protected + total_size(Kept(ai_snapshot)) + total_size(Expendable(ai_snapshot)) \in Nat
  BY <1>2, EncodedParts, SMT
<1> QED
  BY <1>1, <1>3, EncodedParts

\* Before the first round nothing is gone.
LEMMA NothingGone ==
    ASSUME source \in Lists, ai_snapshot = source
    PROVE  Gone(0)
<1> DEFINE o == Expendable(source)
<1>1. o \in Seq(Item)
  BY OrderTypes
<1>2. 0 \in 0..Len(o) /\ o = SubSeq(o, 0 + 1, Len(o)) /\ \A n \in 0..(0 - 1) : FALSE
  <2> HIDE DEF o
  <2> QED
    BY <1>1, SMT
<1> QED
  BY <1>2 DEF Gone

\* A round that was needed takes one item more.
LEMMA OneMoreGone ==
    ASSUME TrimInv, trim
    PROVE  TrimInv' /\ Popped(ai_snapshot, ai_snapshot')
<1> DEFINE o == Expendable(source)
<1>1. PICK k \in Nat : Gone(k)
  BY DEF TrimInv
<1>2. PICK p \in popped(ai_snapshot) : ai_snapshot' = [ai_snapshot EXCEPT ![p.list] = p.left]
  BY DEF trim
<1>3. Popped(ai_snapshot, ai_snapshot')
  BY <1>2, Round DEF TrimInv
<1>4. over_limit(ai_snapshot) /\ source' = source /\ trimming' = trimming /\ trimming = "TRIMMING"
  BY DEF trim
<1>5. o \in Seq(Item) /\ k \in 0..Len(o) /\ Expendable(ai_snapshot) = SubSeq(o, k + 1, Len(o))
  BY <1>1, OrderTypes DEF TrimInv, Gone
<1>6. /\ k + 1 \in 0..Len(o) /\ k + 1 \in Nat
      /\ Tail(SubSeq(o, k + 1, Len(o))) = SubSeq(o, (k + 1) + 1, Len(o))
  <2>1. SubSeq(o, k + 1, Len(o)) # << >>
    BY <1>3, <1>5 DEF Popped
  <2> HIDE DEF o
  <2> QED
    BY <1>5, <2>1, SMT
<1>7. SizeAfter(k) > MaxSnapshot
  BY <1>1, <1>4, GoneSize DEF TrimInv, over_limit
<1>8. \A n \in 0..((k + 1) - 1) : SizeAfter(n) > MaxSnapshot
  <2>1. \A n \in 0..((k + 1) - 1) : n = k \/ n \in 0..(k - 1)
    BY SMT
  <2> QED
    BY <1>1, <1>7, <2>1 DEF Gone
<1>9. (\A n \in 0..((k + 1) - 1) : SizeAfter(n) > MaxSnapshot)'
  BY <1>4, <1>8 DEF SizeAfter
<1>10. Gone(k + 1)'
  BY <1>1, <1>3, <1>4, <1>5, <1>6, <1>9 DEF Gone, Popped
<1>11. (\E n \in Nat : Gone(n))'
  BY <1>6, <1>10
<1> QED
  BY <1>3, <1>4, <1>11 DEF TrimInv, Popped

LEMMA TrimInit == SnapshotInit => TrimInv
<1> SUFFICES ASSUME SnapshotInit PROVE TrimInv
  OBVIOUS
<1>1. source \in Lists /\ ai_snapshot = source /\ trimming = "NEW"
  BY EmptySeq DEF SnapshotInit, Lists
<1>2. Gone(0) /\ 0 \in Nat
  BY <1>1, NothingGone, SMT
<1> QED
  BY <1>1, <1>2 DEF TrimInv

LEMMA TrimStep == TrimInv /\ [SnapshotNext]_snapshotVars => TrimInv'
<1> SUFFICES ASSUME TrimInv, [SnapshotNext]_snapshotVars PROVE TrimInv'
  OBVIOUS
<1>1. ASSUME NEW lists \in [untrusted : Raw("untrusted"), artifacts : Raw("artifacts"),
                            previous : Raw("previous"), directives : Raw("directives"),
                            events : Raw("events")], assemble(lists)
      PROVE  TrimInv'
  <2>1. \A l \in SnapshotLists : lists[l] \in Raw(l)
    BY DEF SnapshotLists
  <2>2. \A l \in SnapshotLists : capped(l, lists[l]) \in Seq(Item)
    BY <2>1, CappedType
  <2>3. source' \in Lists /\ ai_snapshot' = source' /\ trimming' = "TRIMMING"
    BY <1>1, <2>2 DEF assemble, Lists
  <2>4. Gone(0)'
    <3> DEFINE o == Expendable(source')
    <3>1. o \in Seq(Item)
      BY <2>3, OrderTypes
    <3>2. 0 \in 0..Len(o) /\ o = SubSeq(o, 0 + 1, Len(o)) /\ \A n \in 0..(0 - 1) : FALSE
      <4> HIDE DEF o
      <4> QED
        BY <3>1, SMT
    <3> QED
      BY <2>3, <3>2 DEF Gone
  <2>5. (\E k \in Nat : Gone(k))'
    <3>1. 0 \in Nat
      BY SMT
    <3> QED
      BY <2>4, <3>1
  <2> QED
    BY <2>3, <2>5 DEF TrimInv
<1>2. CASE trim
  BY <1>2, OneMoreGone
<1>3. CASE refuses
  <2>1. source' = source /\ ai_snapshot' = ai_snapshot /\ trimming' = "REFUSED"
    BY <1>3 DEF refuses
  <2>2. over_limit(ai_snapshot) /\ Expendable(ai_snapshot) = << >>
    BY <1>3, NothingLeft DEF refuses, TrimInv
  <2> QED
    BY <2>1, <2>2 DEF TrimInv, Gone, SizeAfter, over_limit, encoded, Kept, Expendable
<1>4. CASE fits
  <2>1. source' = source /\ ai_snapshot' = ai_snapshot /\ trimming' = "DONE"
    BY <1>4 DEF fits
  <2>2. ~over_limit(ai_snapshot)
    BY <1>4 DEF fits
  <2> QED
    BY <2>1, <2>2 DEF TrimInv, Gone, SizeAfter, over_limit, encoded, Kept, Expendable
<1>5. CASE UNCHANGED snapshotVars
  <2>1. source' = source /\ ai_snapshot' = ai_snapshot /\ trimming' = trimming
    BY <1>5 DEF snapshotVars
  <2> QED
    BY <2>1 DEF TrimInv, Gone, SizeAfter, over_limit, encoded, Kept, Expendable
<1> QED
  BY <1>1, <1>2, <1>3, <1>4, <1>5 DEF SnapshotNext

\* assemble_snapshot gives up the shortest beginning of the order that makes
\* the snapshot fit, never an active directive, and refuses exactly when
\* nothing is left to give up; for lists, caps and sizes of any number.
THEOREM SnapshotIsTrimmedLeast == SnapshotSpec => []TrimsLeastInOrder
<1>1. ASSUME TrimInv PROVE TrimsLeastInOrder
  <2> DEFINE o == Expendable(source)
             r == Expendable(ai_snapshot)
  <2>1. PICK k \in Nat : Gone(k)
    BY <1>1 DEF TrimInv
  <2>2. o \in Seq(Item) /\ k \in 0..Len(o) /\ r = SubSeq(o, k + 1, Len(o))
    BY <1>1, <2>1, OrderTypes DEF TrimInv, Gone
  <2>3. k = Len(o) - Len(r)
    <3> HIDE DEF o, r
    <3> QED
      BY <2>2, SMT
  <2>4. encoded(ai_snapshot) = SizeAfter(k) /\ encoded(ai_snapshot) \in Nat
    BY <1>1, <2>1, GoneSize DEF TrimInv
  <2>5. MaxSnapshot \in Nat
    BY SnapshotAssumption
  <2>6. ASSUME trimming = "DONE" PROVE SizeAfter(k) <= MaxSnapshot
    <3>1. ~(encoded(ai_snapshot) > MaxSnapshot)
      BY <1>1, <2>6 DEF TrimInv, over_limit
    <3> QED
      BY <2>4, <2>5, <3>1, SMT
  <2>7. ASSUME trimming = "REFUSED" PROVE \A n \in 0..Len(o) : SizeAfter(n) > MaxSnapshot
    <3>1. SizeAfter(k) > MaxSnapshot /\ r = << >>
      BY <1>1, <2>4, <2>7 DEF TrimInv, over_limit
    <3>2. \A n \in 0..Len(o) : n = k \/ n \in 0..(k - 1)
      <4>1. Len(o) \in Nat
        BY <2>2, LenProperties
      <4>2. Len(r) = 0
        BY <3>1, EmptySeq
      <4> HIDE DEF o, r
      <4> QED
        BY <2>3, <4>1, <4>2, SMT
    <3> QED
      BY <2>1, <3>1, <3>2 DEF Gone
  <2> QED
    BY <2>1, <2>2, <2>3, <2>6, <2>7 DEF TrimsLeastInOrder, Gone, SizeAfter
<1> QED
  BY <1>1, TrimInit, TrimStep, PTL DEF SnapshotSpec

\* Every round of the loop gives up exactly one item, so it ends.
THEOREM LoopRunsOut == SnapshotSpec => EveryRoundGivesUpOne
<1>1. ASSUME TrimInv, [SnapshotNext]_snapshotVars
      PROVE  [trim => /\ Expendable(ai_snapshot) # << >>
                      /\ Expendable(ai_snapshot') = Tail(Expendable(ai_snapshot))]_snapshotVars
  BY <1>1, OneMoreGone DEF Popped
<1> QED
  BY <1>1, TrimInit, TrimStep, PTL DEF SnapshotSpec, EveryRoundGivesUpOne

============================================================================
