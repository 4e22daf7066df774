-------------------------- MODULE AnalystMessages --------------------------
(***************************************************************************)
(* The analyst's direct-message channel: messages written and confirmed    *)
(* through the API, the emergency switches of the case and of the          *)
(* platform, and the workers that display an approved message in the       *)
(* sandbox.                                                                *)
(*                                                                         *)
(* deliver_approved_message runs in one transaction of its caller: the row *)
(* lock it takes is held over the HTTP call to the gateway, and what it    *)
(* wrote counts only when the caller commits.  A display cannot be undone, *)
(* so a crash or a rollback after it leaves a displayed message APPROVED.  *)
(*                                                                         *)
(* A message stands for its (case_id, idempotency_key).  Requests the      *)
(* handlers refuse without a change (wrong author, wrong preview hash,     *)
(* rate limit, unapproved surface, no active session) are not steps.       *)
(* Policy decisions are never updated, so the one that create_message      *)
(* accepted still permits the delivery.                                    *)
(***************************************************************************)
EXTENDS Naturals, Sequences, FiniteSets

CONSTANTS
    Messages,    \* (case_id, idempotency_key) of one case
    Unconfirmed, \* messages that neither content nor policy ask to confirm
    Workers,     \* connections that run deliver_approved_message
    MaxCalls,    \* bound: create and confirm calls past their checks at once
    MaxMessageFaults \* bound: crashes and rollbacks of a delivery

ASSUME MessagesAssumption ==
    /\ IsFiniteSet(Messages) /\ Messages # {} /\ Unconfirmed \subseteq Messages
    /\ IsFiniteSet(Workers)
    /\ MaxCalls \in Nat \ {0} /\ MaxMessageFaults \in Nat

VARIABLES
    status,     \* committed status of each row, "NONE" without a row
    control,    \* analyst_channel_controls: scope -> disabled
    creating,   \* messages with a create call past its checks
    confirming, \* messages with a confirm call past its check
    pc, at,     \* step of each worker, and the message it delivers
    displayed,  \* workers whose delivery displayed its message
    ledger,     \* committed message evidence, in the order of its numbers
    shown,      \* how often the sandbox displayed each message
    posts_lost, \* deliveries that displayed a message and did not commit
    late,       \* messages a worker displayed since the channel went off
    message_faults

apiVars == <<creating, confirming>>
faultVars == <<posts_lost, message_faults>>
sandboxVars == <<shown, late>>
workerVars == <<pc, at, displayed>>
messageVars == <<status, control, apiVars, workerVars, ledger, sandboxVars, faultVars>>

Scopes == {"PLATFORM", "CASE"}
MessageStatuses == {"NONE", "PENDING_CONFIRMATION", "APPROVED", "DELIVERED", "FAILED",
                    "CANCELLED", "BLOCKED"}

\* A worker holds the row lock from SELECT ... FOR UPDATE to the end of its
\* transaction; "settling" and "failing" say what its caller will commit.
Holding == {"posting", "recording", "settling", "failing"}
Steps == {"idle", "blocking", "selecting"} \cup Holding

message_locked(m) == \E w \in Workers : at[w] = m /\ pc[w] \in Holding
channel_disabled == \E s \in Scopes : control[s]

AnyMessage == CHOOSE m \in Messages : TRUE
worker_goes(w, step) == pc' = [pc EXCEPT ![w] = step]
worker_returns(w) ==
    /\ worker_goes(w, "idle")
    /\ at' = [at EXCEPT ![w] = AnyMessage]
    /\ displayed' = displayed \ {w}

----------------------------------------------------------------------------
\* The API.

calls_at_once == Cardinality(creating) + Cardinality(confirming)

create_checks(m) ==
    /\ status[m] = "NONE" /\ m \notin creating /\ calls_at_once < MaxCalls
    /\ ~channel_disabled
    /\ creating' = creating \cup {m}
    /\ UNCHANGED <<status, control, confirming, workerVars, ledger, sandboxVars, faultVars>>

\* A second call for the same message that is past its checks too changes
\* nothing: UNIQUE (case_id, idempotency_key) makes its insert raise.
create_message(m) ==
    /\ m \in creating
    /\ creating' = creating \ {m}
    /\ status' = [status EXCEPT ![m] =
           IF m \in Unconfirmed THEN "APPROVED" ELSE "PENDING_CONFIRMATION"]
    /\ UNCHANGED <<control, confirming, workerVars, ledger, sandboxVars, faultVars>>

confirm_checks(m) ==
    /\ status[m] # "NONE" /\ m \notin confirming /\ calls_at_once < MaxCalls
    /\ ~channel_disabled
    /\ confirming' = confirming \cup {m}
    /\ UNCHANGED <<status, control, creating, workerVars, ledger, sandboxVars, faultVars>>

confirm_message(m) ==
    /\ m \in confirming /\ ~message_locked(m)
    /\ confirming' = confirming \ {m}
    /\ status' = [status EXCEPT ![m] =
           IF @ = "PENDING_CONFIRMATION" THEN "APPROVED" ELSE @]
    /\ UNCHANGED <<control, creating, workerVars, ledger, sandboxVars, faultVars>>

cancel_message(m) ==
    /\ status[m] \in {"PENDING_CONFIRMATION", "APPROVED"} /\ ~message_locked(m)
    /\ status' = [status EXCEPT ![m] = "CANCELLED"]
    /\ UNCHANGED <<control, apiVars, workerVars, ledger, sandboxVars, faultVars>>

\* late starts again whenever the channel is on.
set_channel_control(s, disabled) ==
    /\ control' = [control EXCEPT ![s] = disabled]
    /\ late' = IF \E t \in Scopes : control'[t] THEN late ELSE [w \in Workers |-> 0]
    /\ UNCHANGED <<status, apiVars, workerVars, ledger, shown, faultVars>>

----------------------------------------------------------------------------
\* deliver_approved_message.

\* Mutant: the emergency switches are not read.
deliver_checks_nothing(w, m) ==
    /\ pc[w] = "idle" /\ status[m] # "NONE"
    /\ at' = [at EXCEPT ![w] = m]
    /\ worker_goes(w, "selecting")
    /\ UNCHANGED <<status, control, apiVars, displayed, ledger, sandboxVars, faultVars>>

deliver_checks(w, m) ==
    /\ pc[w] = "idle" /\ status[m] # "NONE"
    /\ at' = [at EXCEPT ![w] = m]
    /\ worker_goes(w, IF channel_disabled THEN "blocking" ELSE "selecting")
    /\ UNCHANGED <<status, control, apiVars, displayed, ledger, sandboxVars, faultVars>>

\* The update has no condition on the status; the function then raises and
\* its caller commits or rolls back.
deliver_blocks(w) ==
    /\ pc[w] = "blocking" /\ ~message_locked(at[w])
    /\ \E committed \in BOOLEAN :
           status' = IF committed THEN [status EXCEPT ![at[w]] = "BLOCKED"] ELSE status
    /\ worker_returns(w)
    /\ UNCHANGED <<control, apiVars, ledger, sandboxVars, faultVars>>

\* Mutant: SELECT without FOR UPDATE.
select_approved_unlocked(w) ==
    /\ pc[w] = "selecting"
    /\ IF status[at[w]] = "APPROVED"
       THEN worker_goes(w, "posting") /\ UNCHANGED <<at, displayed>>
       ELSE worker_returns(w)
    /\ UNCHANGED <<status, control, apiVars, ledger, sandboxVars, faultVars>>

select_approved(w) ==
    /\ pc[w] = "selecting" /\ ~message_locked(at[w])
    /\ IF status[at[w]] = "APPROVED"
       THEN worker_goes(w, "posting") /\ UNCHANGED <<at, displayed>>
       ELSE worker_returns(w)
    /\ UNCHANGED <<status, control, apiVars, ledger, sandboxVars, faultVars>>

displays(w) ==
    /\ shown' = [shown EXCEPT ![at[w]] = @ + 1]
    /\ late' = IF channel_disabled THEN [late EXCEPT ![w] = @ + 1] ELSE late
    /\ displayed' = displayed \cup {w}

\* The gateway answers SUCCESS: the sandbox displayed the message.
post_succeeds(w) ==
    /\ pc[w] = "posting"
    /\ displays(w)
    /\ worker_goes(w, "recording")
    /\ UNCHANGED <<status, control, apiVars, at, ledger, faultVars>>

\* The gateway answers another status, or the call raises: a conflict of the
\* state version, an HTTP error, no connection, or a timeout, after which the
\* sandbox may have displayed the message all the same.
post_fails(w) ==
    /\ pc[w] = "posting"
    /\ displays(w) \/ UNCHANGED <<displayed, sandboxVars>>
    /\ worker_goes(w, "failing")
    /\ UNCHANGED <<status, control, apiVars, at, ledger, faultVars>>

\* The advisory lock of mirage-worker.analyst is held to the end of the
\* transaction, so one worker at a time is past this step.
record_evidence(w) ==
    /\ pc[w] = "recording"
    /\ \A v \in Workers : pc[v] # "settling"
    /\ worker_goes(w, "settling")
    /\ UNCHANGED <<status, control, apiVars, at, displayed, ledger, sandboxVars, faultVars>>

\* The evidence store raises: the message was displayed and becomes FAILED.
evidence_fails(w) ==
    /\ pc[w] = "settling"
    /\ worker_goes(w, "failing")
    /\ UNCHANGED <<status, control, apiVars, at, displayed, ledger, sandboxVars, faultVars>>

\* The caller commits: status, evidence row and audit together.
settle(w) ==
    /\ pc[w] \in {"settling", "failing"}
    /\ status' = [status EXCEPT ![at[w]] =
           IF pc[w] = "settling" THEN "DELIVERED" ELSE "FAILED"]
    /\ ledger' = IF pc[w] = "settling" THEN Append(ledger, at[w]) ELSE ledger
    /\ worker_returns(w)
    /\ UNCHANGED <<control, apiVars, sandboxVars, faultVars>>

\* The worker stops, or its caller rolls back after an exception.
roll_back(w) ==
    /\ pc[w] # "idle" /\ message_faults < MaxMessageFaults
    /\ message_faults' = message_faults + 1
    /\ posts_lost' = [posts_lost EXCEPT ![at[w]] = IF w \in displayed THEN @ + 1 ELSE @]
    /\ worker_returns(w)
    /\ UNCHANGED <<status, control, apiVars, ledger, sandboxVars>>

----------------------------------------------------------------------------
MessagesInit ==
    /\ status = [m \in Messages |-> "NONE"]
    /\ control = [s \in Scopes |-> FALSE]
    /\ creating = {}
    /\ confirming = {}
    /\ pc = [w \in Workers |-> "idle"]
    /\ at = [w \in Workers |-> AnyMessage]
    /\ displayed = {}
    /\ ledger = <<>>
    /\ shown = [m \in Messages |-> 0]
    /\ posts_lost = [m \in Messages |-> 0]
    /\ late = [w \in Workers |-> 0]
    /\ message_faults = 0

MessagesNext ==
    \/ \E m \in Messages :
           \/ create_checks(m) \/ create_message(m)
           \/ confirm_checks(m) \/ confirm_message(m) \/ cancel_message(m)
    \/ \E s \in Scopes, disabled \in BOOLEAN : set_channel_control(s, disabled)
    \/ \E w \in Workers, m \in Messages : deliver_checks(w, m)
    \/ \E w \in Workers :
           \/ deliver_blocks(w) \/ select_approved(w)
           \/ post_succeeds(w) \/ post_fails(w)
           \/ record_evidence(w) \/ evidence_fails(w)
           \/ settle(w) \/ roll_back(w)

MessagesSpec == MessagesInit /\ [][MessagesNext]_messageVars

----------------------------------------------------------------------------
\* The rows, the calls and the workers of the channel.
MessagesTypeOK ==
    /\ status \in [Messages -> MessageStatuses]
    /\ control \in [Scopes -> BOOLEAN]
    /\ creating \in SUBSET Messages /\ confirming \in SUBSET Messages
    /\ pc \in [Workers -> Steps] /\ at \in [Workers -> Messages]
    /\ displayed \in SUBSET Workers
    /\ ledger \in Seq(Messages)
    /\ shown \in [Messages -> Nat] /\ posts_lost \in [Messages -> Nat]
    /\ late \in [Workers -> Nat]
    /\ message_faults \in 0..MaxMessageFaults

evidence_entries(m) == Cardinality({i \in DOMAIN ledger : ledger[i] = m})

\* However many workers deliver a message, it is displayed once, and once more
\* for each delivery that was displayed and then rolled back; and what
\* deliver_approved_message records is what happened: a message has at most
\* one evidence object, a DELIVERED one has it, and an object is of a message
\* that was displayed and is DELIVERED, or BLOCKED by a later call under a
\* disabled channel.
DeliveredOnce ==
    \A m \in Messages :
        /\ shown[m] <= posts_lost[m] + 1
        /\ evidence_entries(m) <= 1
        /\ status[m] = "DELIVERED" => evidence_entries(m) = 1
        /\ evidence_entries(m) = 1 => shown[m] > 0 /\ status[m] \in {"DELIVERED", "BLOCKED"}

\* The emergency switch leaves each worker at most the one delivery whose
\* check came before it: deliver_approved_message reads it before every
\* message, not again before the display.
OneAfterDisable ==
    \A w \in Workers : late[w] <= 1
====
