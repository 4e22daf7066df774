--------------------------- MODULE EvidenceLedger ---------------------------
(***************************************************************************)
(* The evidence ledger and two of its writers: uploads that carry the      *)
(* number their source gave them, and the callbacks of canary tokens,      *)
(* whose number is read from the ledger.  acquire stores the bytes in the  *)
(* object store before it inserts the row; the store takes no part in the  *)
(* transaction, so a failure in between leaves an object without a row.    *)
(*                                                                         *)
(* A request is <<source, ...>>: <<"callback", token, id>> or              *)
(* <<"upload", number, bytes>>.  The bytes of a callback hold its          *)
(* collector_request_id, so they are the request itself.                   *)
(***************************************************************************)
EXTENDS Naturals, Sequences, FiniteSets, FiniteSetsExt

CONSTANTS
    Tokens, OneTime,  \* canary tokens, those with expected_usage ONE_TIME
    Ids,              \* collector_request_id values, per token
    Numbers, EvidenceBytes, \* source_sequence and content of an upload
    Calls,            \* API connections that run acquire
    MaxRows,          \* bound: rows of the ledger
    MaxLedgerFaults   \* bound: crashes and failed puts

ASSUME LedgerAssumption ==
    /\ OneTime \subseteq Tokens
    /\ Numbers \subseteq Nat
    /\ MaxRows \in Nat /\ MaxLedgerFaults \in Nat

VARIABLES
    tokens,    \* canary_tokens.status
    evidence_rows, \* evidence_objects, in the order of their commits
    objects,   \* object versions of the store: their bytes
    callbacks, \* canary_callbacks: the request and its evidence row
    evidence_call, \* what each connection is doing
    ledger_faults

ledgerVars == <<tokens, evidence_rows, objects, callbacks, evidence_call, ledger_faults>>

Callbacks == {"callback"} \X Tokens \X Ids
Uploads == {"upload"} \X Numbers \X EvidenceBytes
bytes(r) == IF r[1] = "upload" THEN r[3] ELSE r
NoCall == [pc |-> "idle"]
call_goes(c, to) == evidence_call' = [evidence_call EXCEPT ![c] = to]
ledger_fault == ledger_faults < MaxLedgerFaults /\ ledger_faults' = ledger_faults + 1

call_busy(c) == evidence_call[c].pc # "idle"
\* SELECT ... FROM canary_tokens ... FOR UPDATE.
token_locked(t) ==
    \E c \in Calls :
        call_busy(c) /\ evidence_call[c].req[1] = "callback" /\ evidence_call[c].req[2] = t
of_source(s) == {i \in DOMAIN evidence_rows : evidence_rows[i].source = s}
max_sequence(s) == Max({0} \cup {evidence_rows[i].seq : i \in of_source(s)})

----------------------------------------------------------------------------
\* Canary tokens.  An ACTIVE row stands for a token issued by
\* issue_canary_token: nothing happens to it before its first callback.
\* REVOKED and EXPIRED refuse every later callback and are one CLOSED.

revoke_canary_token(t) ==
    /\ tokens[t] \in {"ACTIVE", "USED"} /\ ~token_locked(t)
    /\ tokens' = [tokens EXCEPT ![t] = "CLOSED"]
    /\ UNCHANGED <<evidence_rows, objects, callbacks, evidence_call, ledger_faults>>

\* A callback whose callback_time is at or past expires_at.
callback_too_late(t) ==
    /\ tokens[t] \in {"ACTIVE", "USED"} /\ ~token_locked(t)
    /\ tokens' = [tokens EXCEPT ![t] = "CLOSED"]
    /\ UNCHANGED <<evidence_rows, objects, callbacks, evidence_call, ledger_faults>>

\* The number is read here, before acquire takes the lock of the source.
callback_arrives(c, r) ==
    LET t == r[2] IN
    /\ ~call_busy(c) /\ ~token_locked(t)
    /\ tokens[t] \in {"ACTIVE", "USED"}
    /\ \A b \in callbacks : b.req # r
    /\ ~(t \in OneTime /\ tokens[t] = "USED")
    /\ call_goes(c, [pc |-> "numbered", req |-> r, seq |-> max_sequence("callback") + 1])
    /\ UNCHANGED <<tokens, evidence_rows, objects, callbacks, ledger_faults>>

----------------------------------------------------------------------------
\* EvidenceService.acquire, then the caller's own rows and its commit.

\* Mutant: no advisory lock.
source_free_always(s) == TRUE

\* pg_advisory_xact_lock on the source, held to the end of the transaction.
source_free(s) ==
    \A d \in Calls :
        evidence_call[d].pc \in {"storing", "stored"} => evidence_call[d].req[1] # s

\* Mutant: the row that has the number is returned without a comparison.
same_evidence_always(i, r) == TRUE

same_evidence(i, r) == evidence_rows[i].bytes = bytes(r)

\* The number is taken: the row is returned if it is of the same evidence,
\* else acquire raises.  A smaller number than the last one raises too.
acquire_checks(c, r, n) ==
    LET taken == {i \in of_source(r[1]) : evidence_rows[i].seq = n /\ same_evidence(i, r)} IN
    /\ source_free(r[1])
    /\ call_goes(c, IF taken # {}
               THEN IF r[1] = "upload" THEN NoCall
                    ELSE [pc |-> "stored", req |-> r, seq |-> n,
                          row |-> CHOOSE i \in taken : TRUE, object |-> 0]
               ELSE IF n <= max_sequence(r[1]) THEN NoCall
               ELSE [pc |-> "storing", req |-> r, seq |-> n])
    /\ UNCHANGED <<tokens, evidence_rows, objects, callbacks, ledger_faults>>

callback_acquires(c) ==
    evidence_call[c].pc = "numbered" /\ acquire_checks(c, evidence_call[c].req, evidence_call[c].seq)

upload_arrives(c, r) == ~call_busy(c) /\ acquire_checks(c, r, r[2])

put(c) ==
    /\ evidence_call[c].pc = "storing" /\ Len(evidence_rows) < MaxRows
    /\ objects' = Append(objects, bytes(evidence_call[c].req))
    /\ call_goes(c, [pc |-> "stored", req |-> evidence_call[c].req, seq |-> evidence_call[c].seq,
                row |-> 0, object |-> Len(objects) + 1])
    /\ UNCHANGED <<tokens, evidence_rows, callbacks, ledger_faults>>

evidence_row(r, n, object) ==
    [source |-> r[1], seq |-> n, bytes |-> bytes(r), object |-> object]

\* row 0 is a row to insert; UNIQUE (source_id, source_sequence) refuses a
\* number that was taken in the meantime.
evidence_commits(c) ==
    LET r == evidence_call[c].req
        new == evidence_call[c].row = 0
        row == IF new THEN Len(evidence_rows) + 1 ELSE evidence_call[c].row
        clash == new /\ \E i \in of_source(r[1]) : evidence_rows[i].seq = evidence_call[c].seq
    IN  /\ evidence_call[c].pc = "stored"
        /\ call_goes(c, NoCall)
        /\ IF clash
           THEN UNCHANGED <<evidence_rows, callbacks, tokens>>
           ELSE /\ evidence_rows' = IF ~new THEN evidence_rows
                           ELSE Append(evidence_rows, evidence_row(r, evidence_call[c].seq,
                                                                   evidence_call[c].object))
                /\ callbacks' = IF r[1] = "callback"
                                THEN callbacks \cup {[req |-> r, row |-> row]} ELSE callbacks
                /\ tokens' = IF r[1] = "callback" /\ r[2] \in OneTime
                             THEN [tokens EXCEPT ![r[2]] = "USED"] ELSE tokens
        /\ UNCHANGED <<objects, ledger_faults>>

\* The put or a later statement raises, or the process stops.
call_fails(c) ==
    /\ call_busy(c) /\ ledger_fault
    /\ call_goes(c, NoCall)
    /\ UNCHANGED <<tokens, evidence_rows, objects, callbacks>>

----------------------------------------------------------------------------
LedgerInit ==
    /\ tokens = [t \in Tokens |-> "ACTIVE"]
    /\ evidence_rows = <<>> /\ objects = <<>>
    /\ callbacks = {}
    /\ evidence_call = [c \in Calls |-> NoCall]
    /\ ledger_faults = 0

LedgerNext ==
    \/ \E t \in Tokens : revoke_canary_token(t) \/ callback_too_late(t)
    \/ \E c \in Calls :
           \/ \E r \in Callbacks : callback_arrives(c, r)
           \/ \E r \in Uploads : upload_arrives(c, r)
           \/ callback_acquires(c) \/ put(c) \/ evidence_commits(c) \/ call_fails(c)

LedgerSpec == LedgerInit /\ [][LedgerNext]_ledgerVars

----------------------------------------------------------------------------
\* acquire keeps ledger and store in step: every row has an object of its
\* own with the row's bytes, and an object without a row or a call that is
\* about to insert it is the trace of a failure.  The comment in acquire says
\* so of concurrent uploads: its lock "prevents concurrent uploads from both
\* passing the max-sequence check and creating orphaned versions".
OrphansNeedFault ==
    LET used == {evidence_rows[i].object : i \in DOMAIN evidence_rows}
        pending == {evidence_call[c].object : c \in {d \in Calls : evidence_call[d].pc = "stored"}}
    IN  /\ Cardinality(used) = Len(evidence_rows)
        /\ \A i \in DOMAIN evidence_rows : evidence_rows[i].bytes = objects[evidence_rows[i].object]
        /\ Cardinality(DOMAIN objects \ (used \cup pending)) <= ledger_faults

\* Two callbacks that read the same number do not end up with one evidence
\* object: every stored callback has a row of its own that holds its bytes.
CallbackHasOwnEvidence ==
    \A b \in callbacks :
        /\ evidence_rows[b.row].bytes = b.req
        /\ \A d \in callbacks : d.row = b.row => d = b
====
