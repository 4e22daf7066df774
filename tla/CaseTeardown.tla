---------------------------- MODULE CaseTeardown ----------------------------
(***************************************************************************)
(* TeardownWorkflow.execute: twenty-five steps in a fixed order, each      *)
(* written to a journal after it ran, so that a later attempt goes on      *)
(* where the last one was blocked or died.  An attempt is a new workflow   *)
(* object: what is known of the evidence, and the override, are its own;   *)
(* its state is the one in the journal.                                    *)
(***************************************************************************)
EXTENDS Naturals, Sequences

CONSTANTS
    CloudResources, \* [resource_type, temporary, protected_evidence] of the case
    MaxAttempts,    \* bound: calls of execute
    MaxStepFaults   \* bound: steps that fail, adapters that fail, deaths

VARIABLES
    teardown_journal, \* [entries, state] as on disk
    attempt,          \* the running execute, or NoAttempt
    resources_active, \* resources that are active in the cloud
    teardown_attempts, step_faults

teardownVars == <<teardown_journal, attempt, resources_active, teardown_attempts, step_faults>>

TEARDOWN_STEPS == <<
    "block_analyst_directives", "block_direct_messages", "block_ai_mutations",
    "block_artifact_deployments", "mark_case_concluding", "drain_queues",
    "record_remaining_gaps", "capture_final_snapshot", "capture_final_fingerprint",
    "verify_required_evidence", "generate_final_report", "generate_final_manifest",
    "sign_report_and_manifest", "independently_verify_export",
    "revoke_sandbox_certificate", "revoke_temporary_agent_certificates",
    "terminate_sandbox_sessions", "destroy_sandbox",
    "remove_temporary_compute_and_volumes", "remove_temporary_credentials_and_tokens",
    "remove_temporary_public_endpoints", "preserve_evidence_resources",
    "run_inventory", "confirm_no_disallowed_resources", "mark_case_destroyed">>

NoAttempt == [at |-> 0]

step_fault == step_faults < MaxStepFaults /\ step_faults' = step_faults + 1

\* What each destructive step removes.
types(step) ==
    {t \in {"sandbox"} : step = "destroy_sandbox"}
        \cup {t \in {"compute", "volume"} : step = "remove_temporary_compute_and_volumes"}
        \cup {t \in {"credential", "token"} : step = "remove_temporary_credentials_and_tokens"}
        \cup {t \in {"public_endpoint"} : step = "remove_temporary_public_endpoints"}

disposable == {r \in resources_active : r.temporary /\ ~r.protected_evidence}

\* Mutant: a step that was blocked counts as completed.
completed_any_result == {e.step : e \in teardown_journal.entries}

step_completed == {e.step : e \in {f \in teardown_journal.entries : f.result = "PASS"}}

\* The steps that are blocked by what the attempt knows.
raises(step) ==
    \/ step = "record_remaining_gaps" /\ ~attempt.verified /\ attempt.override = "INVALID"
    \/ step = "verify_required_evidence" /\ ~attempt.verified /\ attempt.override = "NONE"
    \/ step = "preserve_evidence_resources" /\ ~\E r \in resources_active : r.protected_evidence
    \/ step = "confirm_no_disallowed_resources" /\ disposable # {}

gap_entry ==
    IF attempt.verified THEN {}
    ELSE {IF attempt.override = "NONE" THEN "evidence_gap_detected" ELSE "evidence_gap_override"}

\* The workflow's state after a step.
applied(step) ==
    LET s == attempt.state
    IN  [case_state |-> IF step = "mark_case_concluding" THEN "CONCLUDING"
                        ELSE IF step = "mark_case_destroyed" THEN "DESTROYED" ELSE s.case_state,
         blocked |-> s.blocked \cup ({step} \cap {TEARDOWN_STEPS[n] : n \in 1..4}),
         revoked |-> s.revoked
             \cup {c \in {"sandbox-cert"} : step = "revoke_sandbox_certificate"}
             \cup {c \in {"agent-cert"} : step = "revoke_temporary_agent_certificates"},
         audit |-> s.audit \cup {e \in gap_entry : step = "record_remaining_gaps"}]

\* The first step that is not in completed, behind the one just journalled.
next_step(from, done) ==
    CHOOSE n \in from..(Len(TEARDOWN_STEPS) + 1) :
        /\ n <= Len(TEARDOWN_STEPS) => TEARDOWN_STEPS[n] \notin done
        /\ \A m \in from..(n - 1) : TEARDOWN_STEPS[m] \in done

teardown_execute ==
    /\ attempt = NoAttempt /\ teardown_attempts < MaxAttempts
    /\ teardown_attempts' = teardown_attempts + 1
    /\ \E verified \in BOOLEAN, override \in {"NONE", "VALID", "INVALID"} :
         attempt' = [at |-> next_step(1, step_completed), completed |-> step_completed,
                     ran |-> "NO", verified |-> verified, override |-> override,
                     state |-> teardown_journal.state]
    /\ UNCHANGED <<teardown_journal, resources_active, step_faults>>

running == attempt # NoAttempt /\ attempt.ran = "NO" /\ attempt.at <= Len(TEARDOWN_STEPS)

\* _apply without an exception.
step_passes ==
    /\ running
    /\ LET step == TEARDOWN_STEPS[attempt.at]
       IN  /\ ~raises(step)
           /\ resources_active' =
                 resources_active \ {r \in disposable : r.resource_type \in types(step)}
           /\ attempt' = [attempt EXCEPT !.ran = "PASS", !.state = applied(step)]
    /\ UNCHANGED <<teardown_journal, teardown_attempts, step_faults>>

\* _apply raises: by what the attempt knows, or because a drain, a snapshot, a
\* verification, a revocation or the adapter fails, which may have deactivated
\* some resources.
step_raises ==
    /\ running
    /\ LET step == TEARDOWN_STEPS[attempt.at]
       IN  \/ raises(step) /\ UNCHANGED <<resources_active, step_faults>>
           \/ /\ step_fault
              /\ \E some \in SUBSET {r \in disposable : r.resource_type \in types(step)} :
                    resources_active' = resources_active \ some
    /\ attempt' = [attempt EXCEPT !.ran = "BLOCKED"]
    /\ UNCHANGED <<teardown_journal, teardown_attempts>>

\* Entry and state replace the journal by a rename; a blocked step ends the
\* attempt.
write_journal ==
    /\ attempt # NoAttempt /\ attempt.ran # "NO"
    /\ teardown_journal' =
         [entries |-> teardown_journal.entries
                        \cup {[step |-> TEARDOWN_STEPS[attempt.at], result |-> attempt.ran]},
          state |-> attempt.state]
    /\ attempt' = IF attempt.ran = "BLOCKED" THEN NoAttempt
                  ELSE [attempt EXCEPT !.ran = "NO",
                                       !.at = next_step(@ + 1, attempt.completed)]
    /\ UNCHANGED <<resources_active, teardown_attempts, step_faults>>

\* execute returns, or its process dies before the journal is written.
attempt_ends ==
    /\ attempt # NoAttempt
    /\ \/ attempt.at > Len(TEARDOWN_STEPS) /\ UNCHANGED step_faults
       \/ step_fault
    /\ attempt' = NoAttempt
    /\ UNCHANGED <<teardown_journal, resources_active, teardown_attempts>>

TeardownInit ==
    /\ teardown_journal =
         [entries |-> {},
          state |-> [case_state |-> "ENGAGING", blocked |-> {}, revoked |-> {}, audit |-> {}]]
    /\ attempt = NoAttempt
    /\ resources_active = CloudResources
    /\ teardown_attempts = 0 /\ step_faults = 0

TeardownNext == teardown_execute \/ step_passes \/ step_raises \/ write_journal \/ attempt_ends

TeardownSpec == TeardownInit /\ [][TeardownNext]_teardownVars

----------------------------------------------------------------------------

step_passed(step) == [step |-> step, result |-> "PASS"] \in teardown_journal.entries

\* The journal and the running attempt.
TeardownTypeOK ==
    /\ \A e \in teardown_journal.entries : e.result \in {"PASS", "BLOCKED"}
    /\ attempt.at \in 0..(Len(TEARDOWN_STEPS) + 1)
    /\ resources_active \subseteq CloudResources

\* Whatever was blocked, failed or died on the way: nothing of the case is
\* deactivated before the journal shows the required evidence verified, the
\* export checked and the certificates revoked; protected evidence stays; and
\* a case is DESTROYED only when no temporary resource of it is left
\* (execute's completed, _apply).
EvidenceBeforeDestruction ==
    /\ resources_active # CloudResources =>
          /\ \A n \in 1..17 : step_passed(TEARDOWN_STEPS[n])
          /\ teardown_journal.state.revoked = {"sandbox-cert", "agent-cert"}
    /\ \A r \in CloudResources : r.protected_evidence => r \in resources_active
    /\ teardown_journal.state.case_state = "DESTROYED" => disposable = {}

=============================================================================
