--------------------------- MODULE SandboxGateway ---------------------------
(***************************************************************************)
(* Structured sandbox actions of one sandbox: the HTTP handler of          *)
(* mirage-sandbox-gateway with its two transactions and the WebSocket      *)
(* round trip between them, the connection handlers and the futures they   *)
(* share, and MirageEnvironmentController with the disk it changes and its *)
(* action journal.                                                         *)
(*                                                                         *)
(* The gateway is one event loop, so a step is what runs between two       *)
(* awaits; a transaction locks the sandbox row and is one step.  The       *)
(* controller executes one frame at a time; the model splits it between    *)
(* the change on disk and the journal entry, where a crash leaves a trace. *)
(***************************************************************************)
EXTENDS Naturals, Sequences, FiniteSets

CONSTANTS
    Actions,         \* action ids: one per call of issue_sandbox_action
    MaxConnections,  \* bound: connections the controller opens
    MaxFaults        \* bound: dropped links, crashes

ASSUME SandboxAssumption ==
    /\ IsFiniteSet(Actions)
    /\ MaxConnections \in Nat
    /\ MaxFaults \in Nat

VARIABLES
    state_version,       \* sandbox_instances.state_version
    status,              \* sandbox_actions.status, "NONE" before the row exists
    command,             \* sandbox_actions: action_type, target, expected version
    call,                \* where each issue_sandbox_action coroutine is
    result,              \* what its future, or its except branch, gave it
    pending_by_sandbox,  \* actions with a registered future
    live_connection,     \* live_connections[sandbox_id], 0 if absent
    handlers,            \* connections whose sandbox_connect coroutine runs
    link,                \* the connection that still carries data, 0 if none
    frames,              \* commands sent to the controller and not yet read
    replies,             \* results sent on each connection and not yet read
    serving,             \* the connection the controller reads from, 0 if none
    doing,               \* the action it applied and has not journalled yet
    disk,                \* actions whose effect is present in the sandbox
    journal,             \* journal_entries.status
    connections,         \* number of connections so far
    faults               \* number of faults so far

dbVars == <<state_version, status, command>>
gatewayVars == <<call, result, pending_by_sandbox, live_connection, handlers>>
linkVars == <<link, frames, replies>>
controllerVars == <<serving, doing, disk, journal>>
vars == <<dbVars, gatewayVars, linkVars, controllerVars, connections, faults>>

----------------------------------------------------------------------------
(* PLACE stands for every action that changes the sandbox and can be       *)
(* undone, SNAPSHOT for REQUEST_SNAPSHOT and CONCLUDE_SESSION, whose       *)
(* rollback would delete a file outside the approved roots.                *)

Types == {"PLACE", "SNAPSHOT", "ROLLBACK"}
STATE_MUTATING_ACTIONS == {"PLACE", "ROLLBACK"}
Outcomes == {"SUCCESS", "FAILED", "REJECTED"}

\* target: target_action_id of a rollback, if the caller gave one.
Command == [type : Types \cup {"NONE"}, target : SUBSET Actions, expected : Nat]
NoCommand == [type |-> "NONE", target |-> {}, expected |-> 0]

Connections == 1..MaxConnections

mutating(a) == command[a].type \in STATE_MUTATING_ACTIONS

----------------------------------------------------------------------------
(* issue_sandbox_action *)

\* First transaction.  The sandbox row exists once a controller has connected.
\* A caller with another expected version gets a 409 and leaves no trace, so
\* only the matching one is a step.
open_pending_action(a, type, target) ==
    /\ call[a] = "IDLE"
    /\ connections > 0
    /\ type # "ROLLBACK" => target = {}
    /\ status' = [status EXCEPT ![a] = "PENDING"]
    /\ command' = [command EXCEPT ![a] =
                      [type |-> type, target |-> target, expected |-> state_version]]
    /\ call' = [call EXCEPT ![a] = "OPENED"]
    /\ UNCHANGED <<state_version, result, pending_by_sandbox, live_connection,
                   handlers, linkVars, controllerVars, connections, faults>>

\* A frame sent on a connection that carries no data any more is lost, or the
\* send raises.
dispatch(a) ==
    /\ call[a] = "OPENED"
    /\ \/ /\ live_connection # 0
          /\ call' = [call EXCEPT ![a] = "WAITING"]
          /\ pending_by_sandbox' = pending_by_sandbox \cup {a}
          /\ frames' = IF live_connection = link THEN Append(frames, a) ELSE frames
          /\ UNCHANGED result
       \/ /\ live_connection = 0 \/ live_connection # link
          /\ call' = [call EXCEPT ![a] = "ANSWERED"]
          /\ result' = [result EXCEPT ![a] = "FAILED"]
          /\ UNCHANGED <<pending_by_sandbox, frames>>
    /\ UNCHANGED <<dbVars, live_connection, handlers, link, replies,
                   controllerVars, connections, faults>>

\* Mutant: the command is sent again instead of giving up.
timeout_resend(a) ==
    /\ a \in pending_by_sandbox
    /\ Len(frames) < 2 /\ live_connection = link
    /\ frames' = Append(frames, a)
    /\ UNCHANGED <<dbVars, gatewayVars, link, replies, controllerVars,
                   connections, faults>>

\* Mutant: no bound on the wait.
timeout_never(a) ==
    /\ FALSE
    /\ UNCHANGED vars

\* wait_for gives up; the frame and its result may still be under way.
timeout(a) ==
    /\ a \in pending_by_sandbox
    /\ call' = [call EXCEPT ![a] = "ANSWERED"]
    /\ result' = [result EXCEPT ![a] = "TIMEOUT"]
    /\ pending_by_sandbox' = pending_by_sandbox \ {a}
    /\ UNCHANGED <<dbVars, live_connection, handlers, linkVars,
                   controllerVars, connections, faults>>

\* Mutant: the version is set without comparing it.
record_action_result_blind(a) ==
    /\ call[a] = "ANSWERED"
    /\ call' = [call EXCEPT ![a] = "RETURNED"]
    /\ status' = [status EXCEPT ![a] = result[a]]
    /\ state_version' = IF result[a] = "SUCCESS" /\ mutating(a)
                        THEN command[a].expected + 1 ELSE state_version
    /\ UNCHANGED <<command, result, pending_by_sandbox, live_connection,
                   handlers, linkVars, controllerVars, connections, faults>>

\* Second transaction: compare and set the version, or raise and roll back.
record_action_result(a) ==
    /\ call[a] = "ANSWERED"
    /\ \/ /\ result[a] = "SUCCESS" /\ mutating(a)
          /\ state_version = command[a].expected
          /\ state_version' = state_version + 1
          /\ status' = [status EXCEPT ![a] = "SUCCESS"]
          /\ call' = [call EXCEPT ![a] = "RETURNED"]
       \/ /\ result[a] = "SUCCESS" /\ mutating(a)
          /\ state_version # command[a].expected
          /\ call' = [call EXCEPT ![a] = "RAISED"]
          /\ UNCHANGED <<state_version, status>>
       \/ /\ ~(result[a] = "SUCCESS" /\ mutating(a))
          /\ status' = [status EXCEPT ![a] = result[a]]
          /\ call' = [call EXCEPT ![a] = "RETURNED"]
          /\ UNCHANGED state_version
    /\ UNCHANGED <<command, result, pending_by_sandbox, live_connection,
                   handlers, linkVars, controllerVars, connections, faults>>

----------------------------------------------------------------------------
(* sandbox_connect *)

sandbox_connect ==
    /\ serving = 0
    /\ connections < MaxConnections
    /\ connections' = connections + 1
    /\ serving' = connections + 1
    /\ link' = connections + 1
    /\ live_connection' = connections + 1
    /\ handlers' = handlers \cup {connections + 1}
    /\ UNCHANGED <<dbVars, call, result, pending_by_sandbox, frames, replies,
                   doing, disk, journal, faults>>

\* Futures that are no longer waited for stay unresolved.
resolve(actions, outcome) ==
    /\ result' = [a \in Actions |-> IF a \in actions THEN outcome ELSE result[a]]
    /\ call' = [a \in Actions |-> IF a \in actions THEN "ANSWERED" ELSE call[a]]
    /\ pending_by_sandbox' = pending_by_sandbox \ actions

\* Mutant: the result goes to whichever future is waiting.
receive_text_any(c) ==
    /\ replies[c] # <<>>
    /\ replies' = [replies EXCEPT ![c] = Tail(@)]
    /\ \/ \E a \in pending_by_sandbox : resolve({a}, Head(replies[c]).outcome)
       \/ pending_by_sandbox = {} /\ UNCHANGED <<call, result, pending_by_sandbox>>
    /\ UNCHANGED <<dbVars, live_connection, handlers, link, frames,
                   controllerVars, connections, faults>>

\* The handler of connection c reads a result; what was sent before the
\* connection closed is still read.
receive_text(c) ==
    /\ replies[c] # <<>>
    /\ replies' = [replies EXCEPT ![c] = Tail(@)]
    /\ resolve({Head(replies[c]).action} \cap pending_by_sandbox,
               Head(replies[c]).outcome)
    /\ UNCHANGED <<dbVars, live_connection, handlers, link, frames,
                   controllerVars, connections, faults>>

\* The finally block: it fails every future of the sandbox, those of a newer
\* connection included.
handler_ends(c) ==
    /\ c # link /\ replies[c] = <<>>
    /\ handlers' = handlers \ {c}
    /\ live_connection' = IF live_connection = c THEN 0 ELSE live_connection
    /\ resolve(pending_by_sandbox, "FAILED")
    /\ UNCHANGED <<dbVars, linkVars, controllerVars, connections, faults>>

----------------------------------------------------------------------------
(* MirageEnvironmentController *)

\* What a handler may report; a rollback needs a journal entry in SUCCESS, and
\* the rollback of a rollback is a noop.
outcomes(a) ==
    CASE command[a].type = "PLACE" -> Outcomes
      [] command[a].type = "SNAPSHOT" -> {"SUCCESS", "FAILED"}
      [] command[a].type = "ROLLBACK" ->
            IF \A t \in command[a].target : journal[t] # "SUCCESS" THEN {"REJECTED"}
            ELSE IF \E t \in command[a].target : command[t].type = "SNAPSHOT" THEN {"FAILED"}
            ELSE IF \E t \in command[a].target : command[t].type = "ROLLBACK" THEN {"SUCCESS"}
            ELSE {"SUCCESS", "FAILED"}

\* What it may leave on disk; a handler that fails half way may have changed it.
effects(a, outcome) ==
    LET done == CASE command[a].type = "PLACE" -> disk \cup {a}
                  [] command[a].type = "SNAPSHOT" -> disk
                  [] command[a].type = "ROLLBACK" -> disk \ command[a].target
    IN  CASE outcome = "SUCCESS" -> {done}
          [] outcome = "FAILED" -> {disk, done}
          [] outcome = "REJECTED" -> {disk}

\* The handler of the next frame runs; frames received before the connection
\* closed are still executed.
execute_action ==
    /\ frames # <<>>
    /\ doing = {}
    /\ LET a == Head(frames) IN
       /\ command[a].type = "ROLLBACK" => command[a].target # {}
       /\ \E outcome \in outcomes(a) :
             /\ doing' = {[action |-> a, outcome |-> outcome]}
             /\ disk' \in effects(a, outcome)
    /\ frames' = Tail(frames)
    /\ UNCHANGED <<dbVars, gatewayVars, link, replies, serving, journal,
                   connections, faults>>

\* A rollback without a target raises out of the serving loop: the connection
\* is closed and opened again.
execute_raises ==
    /\ frames # <<>>
    /\ doing = {}
    /\ command[Head(frames)].type = "ROLLBACK" /\ command[Head(frames)].target = {}
    /\ serving' = 0
    /\ link' = 0 /\ frames' = <<>>
    /\ UNCHANGED <<dbVars, gatewayVars, replies, doing, disk, journal,
                   connections, faults>>

\* mark_status on the target and record; a rejected rollback records nothing.
journalled(d) ==
    LET c == command[d.action] IN
    IF c.type # "ROLLBACK" THEN [journal EXCEPT ![d.action] = d.outcome]
    ELSE IF d.outcome = "REJECTED" THEN journal
    ELSE IF d.outcome = "FAILED" THEN [journal EXCEPT ![d.action] = "FAILED"]
    ELSE [a \in Actions |-> IF a \in c.target THEN "ROLLED_BACK"
                            ELSE IF a = d.action THEN "SUCCESS" ELSE journal[a]]

\* Sending on a closed connection raises: the controller leaves the loop, and
\* the frames it has not read are gone.
send(d) ==
    IF serving = link
    THEN /\ replies' = [replies EXCEPT ![serving] = Append(@, d)]
         /\ UNCHANGED <<frames, serving>>
    ELSE serving' = 0 /\ frames' = <<>> /\ UNCHANGED replies

\* Journal the outcome, then send it.
send_result ==
    \E d \in doing :
       /\ journal' = journalled(d)
       /\ send(d)
       /\ doing' = {}
       /\ UNCHANGED <<dbVars, gatewayVars, link, disk, connections, faults>>

\* The controller notices that its connection is gone.
leave ==
    /\ serving # 0 /\ serving # link
    /\ doing = {} /\ frames = <<>>
    /\ serving' = 0
    /\ UNCHANGED <<dbVars, gatewayVars, linkVars, doing, disk, journal,
                   connections, faults>>

----------------------------------------------------------------------------
(* Failures *)

\* What was received before the connection broke stays readable.
received(s) == {SubSeq(s, 1, n) : n \in 0..Len(s)}

link_drops ==
    /\ faults < MaxFaults
    /\ faults' = faults + 1
    /\ link # 0
    /\ link' = 0
    /\ frames' \in received(frames)
    /\ \E s \in received(replies[link]) : replies' = [replies EXCEPT ![link] = s]
    /\ UNCHANGED <<dbVars, gatewayVars, controllerVars, connections>>

\* mark_status and record are two commits: a crash may fall between them.
half_journalled ==
    {[journal EXCEPT ![t] = "ROLLED_BACK"] :
        t \in {t \in Actions : \E d \in doing :
                 d.outcome = "SUCCESS" /\ t \in command[d.action].target}}

controller_crash ==
    /\ faults < MaxFaults
    /\ faults' = faults + 1
    /\ journal' \in {journal} \cup half_journalled
    /\ doing' = {} /\ serving' = 0
    /\ link' = 0 /\ frames' = <<>>
    /\ UNCHANGED <<dbVars, gatewayVars, replies, disk, connections>>

\* The process and its coroutines go; the rows stay.
gateway_crash ==
    /\ faults < MaxFaults
    /\ faults' = faults + 1
    /\ call' = [a \in Actions |->
                   IF call[a] \in {"OPENED", "WAITING", "ANSWERED"} THEN "LOST" ELSE call[a]]
    /\ pending_by_sandbox' = {} /\ live_connection' = 0 /\ handlers' = {}
    /\ link' = 0
    /\ frames' \in received(frames)
    /\ replies' = [c \in Connections |-> <<>>]
    /\ UNCHANGED <<dbVars, result, controllerVars, connections>>

----------------------------------------------------------------------------
Init ==
    /\ state_version = 0
    /\ status = [a \in Actions |-> "NONE"]
    /\ command = [a \in Actions |-> NoCommand]
    /\ call = [a \in Actions |-> "IDLE"]
    /\ result = [a \in Actions |-> "NONE"]
    /\ pending_by_sandbox = {}
    /\ live_connection = 0
    /\ handlers = {}
    /\ link = 0
    /\ frames = <<>>
    /\ replies = [c \in Connections |-> <<>>]
    /\ serving = 0
    /\ doing = {}
    /\ disk = {}
    /\ journal = [a \in Actions |-> "NONE"]
    /\ connections = 0
    /\ faults = 0

\* Callers learn action ids from earlier responses.
known == {t \in Actions : status[t] # "NONE"}

Gateway ==
    \/ \E a \in Actions :
          \/ \E type \in Types, target \in {{}} \cup {{t} : t \in known} :
                open_pending_action(a, type, target)
          \/ dispatch(a)
          \/ timeout(a)
          \/ record_action_result(a)
    \/ sandbox_connect
    \/ \E c \in handlers : receive_text(c) \/ handler_ends(c)

Controller == execute_action \/ execute_raises \/ send_result \/ leave

Fault == link_drops \/ controller_crash \/ gateway_crash

Next == Gateway \/ Controller \/ Fault

Spec == Init /\ [][Next]_vars

\* The event loop runs a coroutine that can go on, and wait_for gives up.
Fairness ==
    \A a \in Actions :
        WF_vars(dispatch(a)) /\ WF_vars(timeout(a)) /\ WF_vars(record_action_result(a))

FairSpec == Spec /\ Fairness

----------------------------------------------------------------------------
(* Properties *)

\* Type invariant.
TypeOK ==
    /\ state_version \in Nat
    /\ status \in [Actions -> {"NONE", "PENDING", "TIMEOUT"} \cup Outcomes]
    /\ command \in [Actions -> Command]
    /\ call \in [Actions -> {"IDLE", "OPENED", "WAITING", "ANSWERED",
                             "RETURNED", "RAISED", "LOST"}]
    /\ result \in [Actions -> {"NONE", "TIMEOUT"} \cup Outcomes]
    /\ pending_by_sandbox \subseteq Actions
    /\ live_connection \in Nat
    /\ handlers \subseteq Nat
    /\ link \in Nat
    /\ frames \in Seq(Actions)
    /\ replies \in [Connections -> Seq([action : Actions, outcome : Outcomes])]
    /\ serving \in Nat
    /\ doing \subseteq [action : Actions, outcome : Outcomes]
    /\ disk \subseteq Actions
    /\ journal \in [Actions -> {"NONE", "ROLLED_BACK"} \cup Outcomes]
    /\ connections \in Nat
    /\ faults \in Nat

recorded == {a \in Actions : status[a] = "SUCCESS" /\ mutating(a)}

\* The version counts the recorded changes: concurrent commands, late results
\* and crashes never make two of them share a version or skip one.
VersionCountsChanges == state_version = Cardinality(recorded)

\* A recorded SUCCESS is what the controller journalled for that very action,
\* so it can be rolled back later; a recorded rollback has undone its target.
SuccessIsReal ==
    \A a \in Actions :
        status[a] = "SUCCESS" =>
            /\ journal[a] \in {"SUCCESS", "ROLLED_BACK"}
            /\ command[a].type = "ROLLBACK" =>
                  \A t \in command[a].target : t \notin disk /\ journal[t] = "ROLLED_BACK"

\* An action runs at most once, and not before its row is committed: what the
\* controller journalled or is doing is no longer under way.
ExecutedOnce ==
    \A a \in Actions :
        (\E i \in 1..Len(frames) : frames[i] = a) =>
            /\ status[a] # "NONE"
            /\ journal[a] = "NONE" /\ a \notin disk
            /\ \A d \in doing : d.action # a
            /\ \A i, j \in 1..Len(frames) : frames[i] = a /\ frames[j] = a => i = j

\* Every call ends: a silent controller costs a timeout, not a hung request.
CallsEnd ==
    \A a \in Actions : call[a] = "OPENED" ~> call[a] \in {"RETURNED", "RAISED", "LOST"}

\* A settled row is final: a result that arrives after its TIMEOUT, and a
\* second answer of any kind, never rewrite what was recorded or its command.
RecordsAreFinal ==
    [][\A a \in Actions :
          status[a] \notin {"NONE", "PENDING"} =>
              status'[a] = status[a] /\ command'[a] = command[a]]_vars

\* A call raises only when it lost its version to another recorded change:
\* its row is rolled back to PENDING, and the sandbox has moved past the
\* version the command expected.
RaisedLostItsVersion ==
    \A a \in Actions :
        call[a] = "RAISED" =>
            status[a] = "PENDING" /\ command[a].expected < state_version

\* No command is executed without its result being recorded: once a call is
\* over, a journalled action has left PENDING.
ExecutedIsAudited ==
    \A a \in Actions :
        call[a] \in {"RETURNED", "RAISED"} /\ journal[a] = "SUCCESS" => status[a] # "PENDING"

============================================================================
