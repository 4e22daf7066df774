------------------------ MODULE EvidenceVerification ------------------------
(***************************************************************************)
(* Verification of the stored evidence of one case: single rows at an      *)
(* analyst's request, ordered samples of the case by the scheduled and     *)
(* final hooks, and the eligibility test that an export asks for.          *)
(*                                                                         *)
(* A verification is one transaction of its caller.  It holds the lock of  *)
(* every row it has read until that transaction ends, and reads the object *)
(* store in between.  A stored object version never heals.                 *)
(***************************************************************************)
EXTENDS Naturals, FiniteSets

CONSTANTS
    EvidenceRows,  \* required evidence of the case, by (sha256, evidence_id)
    Verifiers,     \* transactions that call verify or verify_case_evidence
    MaxMishaps     \* bound: damaged objects, store errors, rollbacks

ASSUME VerificationAssumption ==
    /\ EvidenceRows \in SUBSET Nat /\ IsFiniteSet(EvidenceRows)
    /\ MaxMishaps \in Nat

VARIABLES
    stored,               \* state of the object version each row points to
    verification_status,  \* evidence_objects.verification_status
    verification_history, \* evidence_verification_history
    verdicts,             \* what each open transaction has written
    mishaps

verificationVars ==
    <<stored, verification_status, verification_history, verdicts, mishaps>>

ObjectStates == {"INTACT", "ALTERED", "MISSING"}
DamageVerdicts == {"HASH_MISMATCH", "MISSING"}
VerificationStatuses == DamageVerdicts \cup {"PENDING", "VERIFIED", "FAILED"}

mishap == mishaps < MaxMishaps /\ mishaps' = mishaps + 1

\* The store loses or alters an object version.
damage(i) ==
    /\ stored[i] = "INTACT" /\ mishap
    /\ \E to \in {"ALTERED", "MISSING"} : stored' = [stored EXCEPT ![i] = to]
    /\ UNCHANGED <<verification_status, verification_history, verdicts>>

\* The digest of what the store returns against the ledger's.
digest_verdict(i) ==
    CASE stored[i] = "INTACT" -> "VERIFIED"
      [] stored[i] = "ALTERED" -> "HASH_MISMATCH"
      [] OTHER -> "MISSING"

\* Mutant: the evidence row is read without FOR UPDATE.
evidence_row_free_always(i) == TRUE

evidence_row_free(i) == \A v \in Verifiers : \A d \in verdicts[v] : d.row # i

\* A case verification goes through its rows in one order.
verify(v, i) ==
    /\ evidence_row_free(i)
    /\ \A d \in verdicts[v] : d.row < i
    /\ \/ /\ verdicts' = [verdicts EXCEPT ![v] =
                             @ \cup {[row |-> i, status |-> digest_verdict(i)]}]
          /\ UNCHANGED mishaps
       \/ /\ mishap  \* the store cannot be read
          /\ verdicts' = [verdicts EXCEPT ![v] = @ \cup {[row |-> i, status |-> "FAILED"]}]
    /\ UNCHANGED <<stored, verification_status, verification_history>>

\* verify_evidence commits after one row, verify_case_evidence after its last;
\* sample_limit ends it anywhere.
verification_commits(v) ==
    /\ verdicts[v] # {}
    /\ verification_status' =
         [i \in EvidenceRows |->
             IF \E d \in verdicts[v] : d.row = i
             THEN (CHOOSE d \in verdicts[v] : d.row = i).status
             ELSE verification_status[i]]
    /\ verification_history' = verification_history \cup verdicts[v]
    /\ verdicts' = [verdicts EXCEPT ![v] = {}]
    /\ UNCHANGED <<stored, mishaps>>

verification_rolls_back(v) ==
    /\ verdicts[v] # {} /\ mishap
    /\ verdicts' = [verdicts EXCEPT ![v] = {}]
    /\ UNCHANGED <<stored, verification_status, verification_history>>

export_eligibility == \A i \in EvidenceRows : verification_status[i] = "VERIFIED"

VerificationInit ==
    /\ stored = [i \in EvidenceRows |-> "INTACT"]
    /\ verification_status = [i \in EvidenceRows |-> "PENDING"]
    /\ verification_history = {}
    /\ verdicts = [v \in Verifiers |-> {}]
    /\ mishaps = 0

VerificationNext ==
    \/ \E i \in EvidenceRows : damage(i) \/ \E v \in Verifiers : verify(v, i)
    \/ \E v \in Verifiers : verification_commits(v) \/ verification_rolls_back(v)

VerificationSpec == VerificationInit /\ [][VerificationNext]_verificationVars

----------------------------------------------------------------------------

\* The rows, the history and the open transactions of the verifiers.
VerificationTypeOK ==
    /\ stored \in [EvidenceRows -> ObjectStates]
    /\ verification_status \in [EvidenceRows -> VerificationStatuses]
    /\ verification_history \subseteq [row : EvidenceRows, status : VerificationStatuses]
    /\ verdicts \in [Verifiers -> SUBSET [row : EvidenceRows, status : VerificationStatuses]]
    /\ mishaps \in 0..MaxMishaps

\* Once a committed verification has found an object altered or missing, the
\* case is never again eligible for export: no verdict that was reached from
\* an earlier read of the object is committed over it (verify's row lock,
\* export_eligibility).
DamageBlocksExport ==
    export_eligibility => \A h \in verification_history : h.status \notin DamageVerdicts

=============================================================================
