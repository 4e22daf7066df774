--------------------------- MODULE AiOrchestrator ---------------------------
(***************************************************************************)
(* AIOrchestrator.propose with its budget ledger, its circuit breaker and  *)
(* the semaphore before the provider.  Calls run on one event loop, so a   *)
(* step reaches from one await to the next: the budget and the breaker are *)
(* asked before the wait for the semaphore, the ledger is written after    *)
(* the provider's answer.                                                  *)
(*                                                                         *)
(* Every request is for one case and costs one unit, so the daily, the     *)
(* monthly and the per-case limit have the form of BudgetLimit.            *)
(***************************************************************************)
EXTENDS Naturals, Sequences, FiniteSets

CONSTANTS
    AiCallers,       \* tasks that call propose, one call at a time
    BudgetLimit,     \* per_case_limit
    BreakerFailures, \* failure_threshold
    Slots,           \* max_concurrent_requests
    MaxAiRetries,    \* max_retries
    MaxRequests      \* bound: calls of propose

ASSUME OrchestratorAssumption ==
    /\ IsFiniteSet(AiCallers) /\ AiCallers # {}
    /\ {BudgetLimit, BreakerFailures, Slots} \in SUBSET (Nat \ {0})
    /\ {MaxAiRetries, MaxRequests} \in SUBSET Nat

VARIABLES
    ai_call,    \* "IDLE", "WAITING" for a slot, "ASKING", "SLEEPING"
    ai_retries,
    wait_queue, \* waiters of the semaphore, first come first served
    budget_entries, \* requests in the ledger
    breaker,    \* [failures, open, cooled]: cooled once reset_seconds passed
    gauge,      \* circuit_breaker_state
    asked_open, \* provider requests since the breaker opened
    requests

aiVars == <<ai_call, ai_retries, wait_queue, budget_entries, breaker, gauge, asked_open,
            requests>>

\* Mutant: a call that waits for a slot already counts as holding one.
holds_slot_waiting(c) == ai_call[c] # "IDLE"

holds_slot(c) == ai_call[c] \in {"ASKING", "SLEEPING"}

\* Mutant: one request too many passes the limit.
budget_allow_at_limit == budget_entries <= BudgetLimit

budget_allow == budget_entries < BudgetLimit

breaker_allow ==
    IF breaker.open
    THEN /\ breaker.cooled
         /\ breaker' = [failures |-> 0, open |-> FALSE, cooled |-> FALSE]
         /\ gauge' = gauge - 1
    ELSE UNCHANGED <<breaker, gauge>>

breaker_success ==
    /\ breaker' = [failures |-> 0, open |-> FALSE, cooled |-> FALSE]
    /\ gauge' = IF breaker.open THEN gauge - 1 ELSE gauge

breaker_failure ==
    LET opens == breaker.failures + 1 >= BreakerFailures /\ ~breaker.open
    IN  /\ breaker' = [failures |-> breaker.failures + 1, open |-> breaker.open \/ opens,
                       cooled |-> breaker.cooled]
        /\ gauge' = IF opens THEN gauge + 1 ELSE gauge

\* Both checks, then the wait for a slot.  A call that one of them refuses
\* answers FALLBACK_BUDGET_STOP or FALLBACK_CIRCUIT_OPEN at once.
propose(c) ==
    /\ ai_call[c] = "IDLE" /\ requests < MaxRequests
    /\ requests' = requests + 1
    /\ budget_allow /\ breaker_allow
    /\ ai_call' = [ai_call EXCEPT ![c] = "WAITING"]
    /\ ai_retries' = [ai_retries EXCEPT ![c] = 0]
    /\ wait_queue' = Append(wait_queue, c)
    /\ asked_open' = IF breaker'.open THEN asked_open ELSE 0
    /\ UNCHANGED budget_entries

asks(c) ==
    /\ ai_call' = [ai_call EXCEPT ![c] = "ASKING"]
    /\ asked_open' = IF breaker.open THEN asked_open + 1 ELSE asked_open

enters_semaphore(c) ==
    /\ ai_call[c] = "WAITING" /\ Head(wait_queue) = c
    /\ Cardinality({d \in AiCallers : holds_slot(d)}) < Slots
    /\ wait_queue' = Tail(wait_queue)
    /\ asks(c)
    /\ UNCHANGED <<ai_retries, budget_entries, breaker, gauge, requests>>

propose_returns(c) == ai_call' = [ai_call EXCEPT ![c] = "IDLE"]

\* A valid proposal for this case and snapshot.
provider_answers(c) ==
    /\ ai_call[c] = "ASKING"
    /\ breaker_success
    /\ budget_entries' = budget_entries + 1
    /\ asked_open' = 0
    /\ propose_returns(c)
    /\ UNCHANGED <<ai_retries, wait_queue, requests>>

\* Not JSON, not a proposal, expired, or of another case or snapshot.
invalid_response(c) ==
    /\ ai_call[c] = "ASKING"
    /\ breaker_failure
    /\ propose_returns(c)
    /\ UNCHANGED <<ai_retries, wait_queue, budget_entries, asked_open, requests>>

\* A timeout, a transport error or a RuntimeError.
provider_fails(c) ==
    /\ ai_call[c] = "ASKING"
    /\ breaker_failure
    /\ IF ai_retries[c] >= MaxAiRetries
       THEN propose_returns(c) /\ UNCHANGED ai_retries
       ELSE /\ ai_retries' = [ai_retries EXCEPT ![c] = @ + 1]
            /\ ai_call' = [ai_call EXCEPT ![c] = "SLEEPING"]
    /\ UNCHANGED <<wait_queue, budget_entries, asked_open, requests>>

\* raise_for_status, or a body of another form: propose does not catch it, the
\* slot is given back.
status_error(c) ==
    /\ ai_call[c] = "ASKING"
    /\ propose_returns(c)
    /\ UNCHANGED <<ai_retries, wait_queue, budget_entries, breaker, gauge, asked_open,
                   requests>>

\* The breaker is not asked again.
wakes(c) ==
    /\ ai_call[c] = "SLEEPING"
    /\ asks(c)
    /\ UNCHANGED <<ai_retries, wait_queue, budget_entries, breaker, gauge, requests>>

reset_seconds_pass ==
    /\ breaker.open /\ ~breaker.cooled
    /\ breaker' = [breaker EXCEPT !.cooled = TRUE]
    /\ UNCHANGED <<ai_call, ai_retries, wait_queue, budget_entries, gauge, asked_open, requests>>

OrchestratorInit ==
    /\ ai_call = [c \in AiCallers |-> "IDLE"]
    /\ ai_retries = [c \in AiCallers |-> 0]
    /\ wait_queue = <<>>
    /\ budget_entries = 0
    /\ breaker = [failures |-> 0, open |-> FALSE, cooled |-> FALSE]
    /\ gauge = 0 /\ asked_open = 0 /\ requests = 0

ends(c) == provider_answers(c) \/ invalid_response(c) \/ provider_fails(c) \/ status_error(c)

OrchestratorNext ==
    \/ reset_seconds_pass
    \/ \E c \in AiCallers : propose(c) \/ enters_semaphore(c) \/ ends(c) \/ wakes(c)

\* The event loop runs what is ready; wait_for ends every request in time.
OrchestratorFairness ==
    \A c \in AiCallers :
        WF_aiVars(enters_semaphore(c)) /\ WF_aiVars(ends(c)) /\ WF_aiVars(wakes(c))

OrchestratorSpec == OrchestratorInit /\ [][OrchestratorNext]_aiVars /\ OrchestratorFairness

----------------------------------------------------------------------------

\* The calls, the ledger and the breaker.
OrchestratorTypeOK ==
    /\ ai_call \in [AiCallers -> {"IDLE", "WAITING", "ASKING", "SLEEPING"}]
    /\ ai_retries \in [AiCallers -> 0..MaxAiRetries]
    /\ wait_queue \in Seq(AiCallers)
    /\ breaker \in [failures : Nat, open : BOOLEAN, cooled : BOOLEAN]
    /\ {budget_entries, gauge, asked_open, requests} \subseteq Nat

\* Budget and breaker are asked before the wait for a slot and the ledger is
\* charged after the answer, so calls under way can pass a limit that others
\* have used up, but no more than these: the ledger exceeds the limit by less
\* than the number of calls, and an open breaker sees no more requests than
\* the calls admitted before it opened and their retries can make
\* (BudgetLedger.allow and record, CircuitBreaker.allow, propose).
StaleChecksAreBounded ==
    /\ budget_entries < BudgetLimit + Cardinality(AiCallers)
    /\ breaker.open => asked_open <= Cardinality(AiCallers) * (MaxAiRetries + 1)
    /\ gauge = IF breaker.open THEN 1 ELSE 0

\* A call that was admitted returns: the retries are bounded and a slot is
\* given back on every way out (propose).
EveryCallReturns == \A c \in AiCallers : ai_call[c] # "IDLE" ~> ai_call[c] = "IDLE"

=============================================================================
