--------------------------- MODULE CaseLifecycle ---------------------------
(***************************************************************************)
(* The state machine of one case: transition_case under its optimistic     *)
(* lock, wrapped by the fingerprint gate before ENGAGING, with callers     *)
(* that race, retry after a lost reply, or roll back.                      *)
(*                                                                         *)
(* The transaction is split where others can act: it holds the case row    *)
(* from SELECT ... FOR UPDATE on, but not the fingerprint snapshot, which  *)
(* the Spider replaces at any time.  The caller commits, except that the   *)
(* gate commits a block by itself.                                         *)
(***************************************************************************)
EXTENDS Naturals, Sequences, FiniteSets

CONSTANTS
    Callers,         \* clients that advance the case
    Must, Should,    \* checks of the baseline, by level
    MaxEvaluations,  \* bound: evaluations of the gate
    MaxReports,      \* bound: snapshots the Spider reports
    MaxRetries       \* bound: replies lost and calls rolled back

ASSUME LifecycleAssumption ==
    /\ IsFiniteSet(Must) /\ IsFiniteSet(Should) /\ Must \cap Should = {}
    /\ MaxEvaluations \in Nat /\ MaxReports \in Nat /\ MaxRetries \in Nat

VARIABLES
    state, version,  \* cases
    transitions,     \* case_state_transitions, each with its audit and outbox rows
    evaluations,     \* fingerprint.gate_evaluated and its audit row
    snapshot,        \* checks that the stored snapshot passes
    lock,            \* whose transaction holds the case row, {} if none
    call,            \* where each caller is
    expected,        \* its expected_version, 0 before it read one
    gate,            \* the evaluation its transaction wrote and did not commit
    reports, retries

caseVars == <<state, version, transitions, evaluations>>
spider == <<snapshot, reports>>
vars == <<caseVars, spider, lock, call, expected, gate, retries>>

ALLOWED_TRANSITIONS ==
    [CREATED |-> "ARMED", ARMED |-> "MONITORING", MONITORING |-> "STEERING_PENDING",
     STEERING_PENDING |-> "SANDBOX_ACTIVE", SANDBOX_ACTIVE |-> "ENGAGING",
     ENGAGING |-> "CONCLUDING", CONCLUDING |-> "EVIDENCE_VERIFYING",
     EVIDENCE_VERIFYING |-> "EXPORTED", EXPORTED |-> "DESTROYED"]

States == DOMAIN ALLOWED_TRANSITIONS \cup {"DESTROYED"}
Transition == [from : States, to : States, new_version : Nat, wanted : Nat]
Evaluation == [by : Callers, observed : SUBSET (Must \cup Should)]

GATED_STATE == "SANDBOX_ACTIVE"

Ended == {"IDLE", "DONE", "BLOCKED", "FAILED"}

----------------------------------------------------------------------------
(* Fingerprint comparison *)

\* FingerprintReport.passed: MUST 100%, SHOULD at least 75%.
passed(observed) ==
    /\ Must \subseteq observed
    /\ 4 * Cardinality(Should \cap observed) >= 3 * Cardinality(Should)

\* The Spider reports a new snapshot; a check without an observation fails.
report_snapshot ==
    /\ reports < MaxReports
    /\ reports' = reports + 1
    /\ snapshot' \in SUBSET (Must \cup Should)
    /\ UNCHANGED <<caseVars, lock, call, expected, gate, retries>>

----------------------------------------------------------------------------
(* A call of enforce_fingerprint_gate_before_engaging *)

\* A client learns the version it will name in its next call.
read_version(c) ==
    /\ call[c] \in Ended
    /\ expected[c] # version
    /\ expected' = [expected EXCEPT ![c] = version]
    /\ call' = [call EXCEPT ![c] = "IDLE"]
    /\ UNCHANGED <<caseVars, spider, lock, gate, retries>>

\* Mutant: the caller's version is not compared.
acceptable_any(c) == state \in DOMAIN ALLOWED_TRANSITIONS

\* The version matches, and the state has a successor.
acceptable(c) == expected[c] = version /\ state \in DOMAIN ALLOWED_TRANSITIONS

\* SELECT ... FOR UPDATE.  Only the gated state goes through the evaluation; a
\* caller that gets OptimisticLockConflictError or InvalidTransitionError rolls
\* back.
select_for_update(c) ==
    /\ call[c] = "IDLE" /\ expected[c] # 0
    /\ lock = {}
    /\ \/ /\ acceptable(c)
          /\ lock' = {c}
          /\ call' = [call EXCEPT ![c] = IF state = GATED_STATE THEN "GATED" ELSE "MOVED"]
       \/ /\ ~acceptable(c)
          /\ call' = [call EXCEPT ![c] = "FAILED"]
          /\ UNCHANGED lock
    /\ UNCHANGED <<caseVars, spider, expected, gate, retries>>

evaluation(c) == [by |-> c, observed |-> snapshot]

\* Mutant: a passed evaluation is committed before the transition.
evaluate_early_commit(c) ==
    /\ call[c] = "GATED"
    /\ Len(evaluations) < MaxEvaluations
    /\ evaluations' = Append(evaluations, evaluation(c))
    /\ IF passed(snapshot)
       THEN call' = [call EXCEPT ![c] = "MOVED"] /\ UNCHANGED lock
       ELSE call' = [call EXCEPT ![c] = "BLOCKED"] /\ lock' = {}
    /\ UNCHANGED <<state, version, transitions, spider, expected, gate, retries>>

\* _evaluate_and_record reads the snapshot; a block commits at once and raises.
evaluate(c) ==
    /\ call[c] = "GATED"
    /\ Len(evaluations) < MaxEvaluations
    /\ \/ /\ passed(snapshot)
          /\ gate' = <<evaluation(c)>>
          /\ call' = [call EXCEPT ![c] = "MOVED"]
          /\ UNCHANGED <<evaluations, lock>>
       \/ /\ ~passed(snapshot)
          /\ evaluations' = Append(evaluations, evaluation(c))
          /\ lock' = {}
          /\ call' = [call EXCEPT ![c] = "BLOCKED"]
          /\ UNCHANGED gate
    /\ UNCHANGED <<state, version, transitions, spider, expected, retries>>

\* The statements of transition_case become visible when the caller commits.
commit(c) ==
    /\ call[c] = "MOVED"
    /\ state' = ALLOWED_TRANSITIONS[state]
    /\ version' = version + 1
    /\ transitions' = Append(transitions,
          [from |-> state, to |-> state', new_version |-> version', wanted |-> expected[c]])
    /\ evaluations' = evaluations \o gate
    /\ gate' = <<>>
    /\ lock' = {}
    /\ call' = [call EXCEPT ![c] = "DONE"]
    /\ UNCHANGED <<spider, expected, retries>>

\* The caller rolls back, or its connection is lost.
rollback(c) ==
    /\ retries < MaxRetries
    /\ retries' = retries + 1
    /\ lock = {c}
    /\ gate' = <<>>
    /\ lock' = {}
    /\ call' = [call EXCEPT ![c] = "IDLE"]
    /\ UNCHANGED <<caseVars, spider, expected>>

\* The client never sees the answer and repeats its call.
retry(c) ==
    /\ retries < MaxRetries
    /\ retries' = retries + 1
    /\ call[c] \in {"DONE", "BLOCKED"}
    /\ call' = [call EXCEPT ![c] = "IDLE"]
    /\ UNCHANGED <<caseVars, spider, lock, expected, gate>>

----------------------------------------------------------------------------
Init ==
    /\ state = "CREATED" /\ version = 1
    /\ transitions = <<>> /\ evaluations = <<>>
    /\ snapshot = {}
    /\ lock = {}
    /\ call = [c \in Callers |-> "IDLE"]
    /\ expected = [c \in Callers |-> 0]
    /\ gate = <<>>
    /\ reports = 0 /\ retries = 0

Next ==
    \/ report_snapshot
    \/ \E c \in Callers :
          \/ read_version(c) \/ select_for_update(c) \/ evaluate(c)
          \/ commit(c) \/ rollback(c) \/ retry(c)

Spec == Init /\ [][Next]_vars

----------------------------------------------------------------------------
(* Properties *)

\* Type invariant.
TypeOK ==
    /\ state \in States
    /\ version \in Nat \ {0}
    /\ transitions \in Seq(Transition)
    /\ evaluations \in Seq(Evaluation)
    /\ snapshot \subseteq Must \cup Should
    /\ lock \subseteq Callers
    /\ call \in [Callers -> Ended \cup {"GATED", "MOVED"}]
    /\ expected \in [Callers -> Nat]
    /\ gate \in Seq(Evaluation)
    /\ reports \in Nat /\ retries \in Nat

\* The transition rows are the whole history of the case: one for each
\* version, each starting where the one before ended.  Races and repeated
\* calls move the case only from the version their caller had seen.
HistoryIsLinear ==
    /\ version = Len(transitions) + 1
    /\ \A i \in 1..Len(transitions) :
          LET t == transitions[i] IN
          /\ t.new_version = i + 1 /\ t.wanted = i
          /\ t.from = IF i = 1 THEN "CREATED" ELSE transitions[i - 1].to
    /\ state = IF transitions = <<>> THEN "CREATED" ELSE transitions[Len(transitions)].to

engaged == \E i \in 1..Len(transitions) : transitions[i].to = "ENGAGING"

\* A fingerprint_gate.passed record exists exactly when the case engaged, and
\* then once; it saw all MUST checks and at most a quarter of SHOULD missing.
\* Every other record is a block.
EngagedWasGated ==
    LET good == {i \in 1..Len(evaluations) :
                    /\ Must \ evaluations[i].observed = {}
                    /\ 4 * Cardinality(Should \ evaluations[i].observed) <= Cardinality(Should)}
    IN  /\ engaged <=> good # {}
        /\ \A i, j \in good : i = j

\* A caller that was told of a block finds it recorded, whatever it does with
\* its own transaction.
BlockIsRecorded ==
    \A c \in Callers :
        call[c] = "BLOCKED" =>
            \E i \in 1..Len(evaluations) :
                evaluations[i].by = c /\ ~passed(evaluations[i].observed)

gate_verdicts == [i \in 1..Len(evaluations) |-> passed(evaluations[i].observed)]

Gate == INSTANCE GatedCase
            WITH Successor <- ALLOWED_TRANSITIONS, Start <- "CREATED", Gated <- GATED_STATE,
                 history <- transitions, verdicts <- gate_verdicts

\* The row lock, the two transactions of the gate, rollbacks and repeated
\* calls together implement the gated case: what others see of a call is one
\* move or one block, and a move out of SANDBOX_ACTIVE brings its passed
\* verdict with it.
ImplementsGatedCase == Gate!Spec

============================================================================
