# TLA+ models of Mirage

These modules model the parts of Mirage whose correctness depends on the order
of steps: agents, services, broker and workers that crash, retry and race with
one another. They are kept beside the code; `PROJECT.json` ("map") names the
lines every definition translates, "hazards" the places where a test would
hardly reach, with the properties that cover them.

## The system

| Part | State | Operations that change it | Talks to |
| --- | --- | --- | --- |
| MirageSpider agent | encrypted SQLite queue, sequence store, identity | record observation, tamper, fingerprint snapshot; flush; recover a corrupt file | agent ingestion (HTTPS, mTLS) |
| Agent ingestion | agents, receipts, snapshots, tokens, certificate history | enrol, renew, revoke, heartbeat, submit telemetry | PostgreSQL, JetStream, step-ca |
| JetStream client | streams, duplicate window, delivery counts | publish, deliver, ack, nak, dead-letter | every service |
| Outbox relay | `outbox_events` | select a batch, publish, mark, back off | PostgreSQL, JetStream |
| Detection adapter | `processed_events`, `cases`, audit | correlate a detection, dead-letter it | JetStream, PostgreSQL |
| Case state machine, fingerprint gate | `cases`, transitions, evaluations | advance a case, block it | PostgreSQL |
| Sandbox gateway | `sandbox_instances`, `sandbox_actions`, live connections, futures | issue an action, record its result, connect, disconnect | environment controller (WebSocket) |
| Environment controller | sandbox disk, action journal | execute, roll back | gateway |
| Routing | `routing_decisions`, per-process cache | write a decision, resolve | API |
| Evidence store | `evidence_objects`, object store | acquire, verify, export | report worker, canary, analyst worker |
| Report worker | `case_reports`, `evidence_exports` | generate an export, a report; cancel, fail | API, object store |
| AI orchestration | budget, circuit breaker, semaphore, snapshot | propose, retry, trim the snapshot | provider |
| Analyst channels | directives, messages, channel controls | submit, cancel, approve, deliver, disable | gateway, evidence |
| Artifacts and canaries | artifacts, deployments, tokens, callbacks | upload, scan, approve, deploy, revoke, ingest | scanner, gateway, evidence |
| Dashboard projection | read model, offsets | project, rebuild | outbox events |
| Teardown, installer | journals of steps | execute, resume, roll back | hosts |

What makes these hard: at-least-once delivery everywhere, processes that die
between two commits, a database commit and a message that cannot be atomic,
optimistic versions read in one transaction and used in another, timeouts that
race a late answer, and queues and windows with limits.

## Modules and runs

A module models one part of the system: its VARIABLES are the part's tables,
files and in-memory tables, an action is what runs between two points where
another process can get in (an await, a commit, a lock, a message). The table
names the run that checks a module's properties and the module that proves them.

| Module | Models | Run | Proofs |
| --- | --- | --- | --- |
| `AgentDelivery`, `TelemetryLog` | an agent's queue, its flush, `submit_telemetry`; the promise it implements | `delivery`, `delivery_liveness`, `delivery_wedge` | `AgentDeliveryProofs` |
| `AnalystMessages` | messages to the sandbox, the emergency switches | `delivery` | `OutboxRelayProofs` |
| `ControllerActions` | the environment controller's disk and journal | `delivery` | `ReportPipelineProofs` |
| `SandboxGateway` | structured actions over a WebSocket | `gateway`, `gateway_audit` | `SandboxGatewayProofs` |
| `OutboxRelay`, `OutboxLog` | relays over `outbox_events`; the promise they implement | `relay` | `OutboxRelayProofs` |
| `AiOrchestrator` | `propose` under budget, breaker and semaphore | `relay` | `OutboxRelayProofs` |
| `AiSnapshot` | assembly and trimming of the AI snapshot | `relay` | `CaseLifecycleProofs` |
| `DetectionIntake`, `CorrelationLog` | the detection adapter on a durable consumer; the promise it implements | `intake`, `intake_last_delivery` | `DetectionIntakeProofs` |
| `CaseLifecycle`, `GatedCase` | the case state machine behind the fingerprint gate; the promise it implements | `lifecycle` | `CaseLifecycleProofs` |
| `ArtifactDeployment` | an artifact from upload to placement | `lifecycle` | `SandboxGatewayProofs` |
| `EvidenceVerification` | verdicts on stored evidence, eligibility of an export | `lifecycle` | `DetectionIntakeProofs` |
| `AnalystDirectives` | directives and the strategy of a case | `lifecycle` | `DetectionIntakeProofs` |
| `AgentEnrollment` | tokens, certificates, revocation | `enrolment`, `enrolment_ca` | `AgentEnrollmentProofs` |
| `EvidenceLedger` | `acquire`, canary callbacks | `enrolment` | `DetectionIntakeProofs` |
| `RouteCache` | routing decisions and the cache of one API process | `enrolment` | `DetectionIntakeProofs` |
| `DashboardProjection` | the read model and its update stream | `enrolment` | `AgentDeliveryProofs` |
| `CaseTeardown`, `ServerInstaller` | the two journalled procedures | `enrolment` | `AgentEnrollmentProofs` |
| `ReportPipeline` | reports and exports of a case | `reports` | `ReportPipelineProofs` |

The runs `delivery`, `lifecycle`, `enrolment` and `relay` check several modules
at once. Their MC modules hold the union of parts that share no state: a
behaviour picks one part (`part`), takes that part's steps and leaves the
variables of the others as they were at first. The state space is the sum of the
parts' spaces, and a property of one part holds in the union exactly when it
holds of the part. A proof module likewise holds the proofs of several parts;
each theorem is about one part's specification.

### AgentDelivery, TelemetryLog (one agent's telemetry path)

`AgentDelivery` joins the Spider's queue file (`agent_queue.py`), its flush loop
and immediate sends (`service_logic.py`), the HTTP exchange
(`agent_http_client.py`) and the handler `submit_telemetry` of the ingestion
service. `queue`, `sequence_state` are the file; `flush` the locals of
`flush_queue`; `urgent` an immediate send under way; `requests` and `responses`
the network, which loses and delays; `locked` the handler that holds the agent
row; `receipts`, `last_sequence`, `authorised`, `snapshots` the database;
`stream`, `window` JetStream. The handler is split at its publish: what happens
before the commit is visible on the stream even when the transaction rolls
back. `TelemetryLog` is the promise: events are emitted, accepted once and in
order, and confirmed to the agent only after that.

`delivery`: nothing recorded is lost, events are accepted only while the agent is
authorised, a replay has no second effect, and the path implements
`TelemetryLog`. `delivery_liveness`: with routine events only, the queue drains.
`delivery_wedge`: the same with an immediate tamper event is violated, the queued
row gets 409 for ever. Three events with a queue and batch of two reach a full
queue, a batch that is refilled, and an urgent event between two queued ones.
One or two faults of any kind are enough for each interleaving of loss and retry
of one request. Fairness: the agent's loop ticks, the network answers or fails,
the server handles what it received; a fault is never required. `RoutineSpec` is
`FairSpec` without the actions of an immediate send, which routine events never
take.

### AnalystMessages (messages displayed in a sandbox)

Messages are created, confirmed and cancelled through the API, two switches
disable the channel, and workers display approved messages.
`deliver_approved_message` holds the row lock over the HTTP call to the gateway,
and its caller commits: a crash or a rollback in between leaves a displayed
message APPROVED. `delivery`: a message is displayed once, and once more for each
such rollback, its evidence object tells whether it was delivered, and after the
switch a worker displays at most the message it had already checked. Two
messages, one to be confirmed, and two workers are the least for two deliveries
of one row and for a delivery across the switch.

### ControllerActions (the environment controller)

A frame is executed on the disk and then recorded in the journal, in two steps
between which the process may die; frames may come again with the same id, and a
rollback is a frame of its own. A file is absent or its content; the decoy
directory, the decoy service and the marker files are the other parts of the
disk. `delivery`: rolling back an action that found nothing in its place, on a
disk that has not changed since, restores the disk. What `reversible` excludes is
what the code does not restore: a file that was overwritten, parent directories
made on the way, a service that was disabled (its prior profile is wrapped into a
new record), a prior state the caller stated wrongly, markers (their paths are
outside the roots and the rollback fails), messages and resets. Three frames give
an action, another one, and a rollback.

### OutboxRelay, OutboxLog (any number of relays over `outbox_events`)

`relay_once` is split into the select that locks rows, one step per publish and
the commit; `todo`, `done`, `failed` are a relay's uncommitted batch. A poison
event is one whose publish is always refused. `OutboxLog` is the promise: rows are
written, stored on the stream, and marked only after that; a marked row is never
stored again, and a second copy costs an id the stream forgot. `relay`: the
relays implement `OutboxLog`, an event has a second copy only if the stream
forgot its id (an outage longer than the duplicate window, `window_expires`), and
everything but poison is published.
Three events, two relays and batches of two make relays share the table and a
poison row sit at the head of a batch. Fairness: relays poll for ever, back-off
elapses, the supervisor restarts a process.

### AiOrchestrator, AiSnapshot (proposals of the AI provider)

Calls of `propose` run on one event loop: budget and breaker are asked before the
wait for a slot, the ledger is charged after the provider's answer. Each call
costs one unit, so the three limits of the ledger have one form. `relay`: the
ledger exceeds the limit by less than the number of calls, an open breaker sees
no more requests than the calls admitted earlier and their retries, and a call
returns. Fairness: the loop runs a call that can go on, and the provider or its
time-out answers. An answer with an error status or an unreadable body ends the
call without a word to the breaker, as in the code.

`assemble_snapshot` cuts the lists of a case to their caps and then takes one item
at a time from the least important list until the encoding fits; an item is its
encoded size. `relay` compares the loop with a reference: what is given up is the
shortest beginning of one order of all items that makes the snapshot fit, what is
left is the rest of that order and every active directive, and the refusal comes
only when no beginning would do. Sizes 1 and 3 and a bound of 6 over 2 protected
units let every list be the one at which the loop stops. Caps of two for
the untrusted content and the directives, of one for the others, let the loop take
two items of one list, or pass over an active directive; a list is offered one
item more than its cap, which the cut makes as good as any longer one.

### DetectionIntake, CorrelationLog (detection adapter on a durable consumer)

Workers fetch messages, run `correlate_detection` in one transaction, and
acknowledge, reject or dead-letter. Messages may carry the same detection, and
detections the same correlation key, chosen in `Init`. The read and the commit
of the transaction are two steps, so two workers can both find no case; the
unique constraints decide. `CorrelationLog` is the promise: a detection is
correlated in one step, once, which opens and announces the case of its key if
there was none; a message is settled only after that, or when it was given up.
`intake`: one audit row per detection, the workers implement `CorrelationLog`,
and every message is settled unless a failure hit it and the server had used up
its deliveries. `intake_last_delivery`: a crash on the last delivery leaves a
message that nobody announces. Two workers and two messages are the least that
race; three detections, one of them malformed, allow a duplicate, a common key
and a message that always fails. Fairness: workers go on as long as they can and
`ack_wait` elapses.

### CaseLifecycle, GatedCase (case state machine behind the fingerprint gate)

Callers learn a version, lock the row, evaluate the gate in `SANDBOX_ACTIVE`,
and commit, roll back, or repeat a call whose answer was lost; the Spider
replaces the snapshot at any time. `gate` is the uncommitted evaluation of a
pass, which is the asymmetry of `enforce_fingerprint_gate_before_engaging`: a
block commits by itself. A comparator is modelled by its verdict, so a snapshot
is the set of checks it passes. `GatedCase` is the promise: a case without
callers and locks, which moves one state at a time, each move a row numbered by
the version it started from, and leaves the gated state together with a passed
verdict; any other verdict leaves it where it is. `lifecycle`: the callers
implement `GatedCase`, and the case engages exactly on one passed evaluation. The gate judges
the snapshot it read; that a newer one may arrive before the commit is part of
the model. One MUST check and four SHOULD checks put the 75 % rule on its
boundary; two evaluations and two snapshots give a block followed by a pass.
Callers and SHOULD checks are symmetric.

### ArtifactDeployment, EvidenceVerification, AnalystDirectives (rows of a case)

`ArtifactDeployment` follows one artifact through the quarantine, the scanners,
the approval, overlapping deploy calls, the download token and the placement; the
quarantine file may change at any time. `lifecycle`: whatever is placed was
scanned, found harmless and approved with those bytes, and of the deployments
opened at one version at most one is DEPLOYED. What carries `sandbox.command` to
the controller is not in the repository and is external. `revoke_artifact` is
left out: its query is ambiguous and raises before it changes anything.

`EvidenceVerification`: a verification is one transaction that holds the lock of
every row it has read. `lifecycle`: a committed verdict of damage makes the case
ineligible for every later export. `AnalystDirectives`: submissions, workers,
cancellation and expiry; a directive moves the strategy at most once, and never
after it was withdrawn. Two callers and two rows of each are the least that
race.

### SandboxGateway (structured actions on one sandbox)

The HTTP handler with its two transactions, the table of futures it shares with
the WebSocket handlers, and the controller with disk and journal. The gateway is
one event loop, so a step is what runs between two awaits. `gateway`: the version
counts the recorded changes, a recorded success is what the controller
journalled, no action runs twice, and every call ends. `gateway_audit`: two
actions opened at one version are both executed and the second is never recorded.
Two actions allow an action and its rollback, or two competitors; two connections
allow a stale handler beside a new one. Fairness: the event loop runs a coroutine
that can go on and `wait_for` expires; nothing is assumed of the controller or
the network.

### AgentEnrollment (tokens, certificates and revocation)

`enroll_agent`, `renew_agent` and `revoke_agent` as concurrent calls on one
database and one step-ca. `call` holds where a call is and its locals, `minted`,
`used` and `expired` the tokens, `agents` and `history` the two tables, `signed`
and `ca_revoked` what step-ca has done. A call is split where it waits: the
token's row stays locked from the UPDATE to the end of the transaction
(`locked`), while renewal and revocation read the agent's row without a lock and
write it later. `fails` ends a call at any point with its open transaction rolled
back. `enrolment`: a token enrols at most once and a certificate that lost its
admission never regains it. `enrolment_ca`: when step-ca fails after the
revocation has committed, the repeated call returns early and step-ca is never
told. Four calls on one agent with two tokens allow an enrolment, a revocation, a
second enrolment and a renewal across them. Left out: roles, profiles and
fingerprints (columns nothing here decides on) and the pure `renewal_due`.

### EvidenceLedger, RouteCache, DashboardProjection (records and what reads them)

`EvidenceLedger`: `acquire` stores the bytes before it inserts the row, and the
store takes no part in the transaction. `enrolment`: every row has an object of
its own with the row's bytes, an object that neither a row nor a call under way
refers to costs a fault, and every stored canary callback has a row of its own.

`RouteCache`: requests miss, resolve and set in separate steps, decisions change
in between, time is counted in ticks. `enrolment`: an answer was true no longer
ago than the lifetime of an entry and the delay of a request.

`DashboardProjection`: a projection or rebuild is a transaction that holds the
offset row; numbers of updates are drawn inside it and become visible at its
commit. `enrolment`: a browser that resumes from its last number has been told
of every update up to it, and a number that was skipped is flagged. The base of
the second property is the last rebuild, which clears the flag whether or not
the outbox was complete.

### CaseTeardown, ServerInstaller (journalled procedures)

`CaseTeardown`: twenty-five steps in a fixed order, each journalled after it ran;
an attempt is blocked, fails or dies anywhere and a later one goes on.
`enrolment`: nothing is deactivated before evidence, export and revocations are
in the journal. `ServerInstaller`: an operation is a plan of steps, executed and
then recorded. `enrolment`: a step succeeds again only when its record was lost,
and the journal claims no success that did not happen. Three attempts with two
faults, and three operations with one, are enough for a resumption of a
resumption.

### ReportPipeline (report worker, reports and exports of one case)

Any number of report workers (`worker.py`, `exporter.py`, `reporter.py`) and the
handlers that create and cancel reports and create and re-verify exports
(`prompt3.py`, `prompt2.py`). `case_reports`, `evidence_exports` and `ledger` (the
worker's rows of `evidence_objects`) are the committed tables; `job` is where a
worker is and what it has read. A worker's step ends where it commits or takes
another lock, so the locks follow from the stages: the row of an export while it
is built, the row of a report except while its package is built (`GENERATING` is
committed first), and the advisory lock of the evidence source, which an export
takes before it reads the sequence and a report only after. An exception, an
ineligible export, a timeout and a crash may come at each point where the code
allows one. `timeout_at` is looked at in one place, so its passing is a choice
there.

`reports`: a package is in the ledger exactly for COMPLETED reports, an export is
signed exactly with its four parts, a verdict is final, and every report gets one
unless a worker died while it generated. The exact form of the last two matters.
CANCELLED is not quite final: a second worker may take up the report as
CANCEL_REQUESTED and write CANCELLED while the first still generates; the first
no longer finds CANCEL_REQUESTED and completes it. And a report whose worker died
in GENERATING is selected by no query; only a cancellation ends it. Two workers
and two reports give the races on a report, on the source and on export versions;
one event (a crash or a call of the export API) is enough for an export version
that was taken, or a report left in GENERATING. Fairness: workers poll for ever,
and a report that is looked at again and again is one day looked at after its
timeout. Left out: audit and outbox rows, progress, the contents of packages,
verification and download of finished reports.

All runs have bounded numbers of events and faults, so the models stop when
these are used up, and deadlock is not checked. That nothing hangs is what the
liveness properties show.

## What is proved

TLAPS checks these theorems for every value of the constants. Each follows from
an inductive invariant that is proved step by step, one lemma or step per action;
type correctness is part of each invariant. Of the properties the passing runs
check, every safety property, every action property and every refinement is a
theorem.

`AgentDeliveryProofs`
- Every safety property of the telemetry path (`NoEventIsLost`,
  `RevokedAgentsAreRefused`, `ReplaysHaveNoEffect`) and the refinement of
  `TelemetryLog` (`DeliveryImplementsLog`). The strengthening is that a 202 on its way stands for a receipt and a
  400 for an invalid event, that the handler which holds the row has published an
  event that is in order and not accepted yet, and that receipts and window only
  know published events. Without it a response could acknowledge a row the
  database does not have. Stated by theorems and not by the run:
  an acknowledged event is durable (`AckedEventsAreDurable`), only invalid events
  are given up (`OnlyInvalidEventsAreDeadLettered`), the snapshot is the newest
  (`SnapshotNeverGoesBack`), acceptance is in order (`EventsAreAcceptedInOrder`).
- `StreamIsComplete`: one transaction at a time holds the offset row, holds it as
  long as it has numbers, and its numbers are above all that the browser has seen
  (`StreamInv`).
- `HolesAreMarked`: what a transaction read from the offset row is still the row
  (`ReadIsCurrent`), which `StreamInv` gives for all the others. The replay of a
  rebuild is a recursive function over the outbox; `ReplayResult` says by
  induction over its length that versions count up and the last number belongs to
  a replayed event.

`SandboxGatewayProofs`
- `ActionsRunOnce` (`ExecutionInv`: what has not been sent has no trace on link,
  controller or disk), `RecordedIsReal` (`SuccessInv`: a SUCCESS is real from the
  moment its result is sent, on every way to the row), `VersionCounts`
  (`VersionInv`: a call has an open row between its two transactions, so no row is
  recorded twice).
- Stated by theorems and not by the run: a settled row is never rewritten, so a
  result that comes after the TIMEOUT changes nothing (`SettledRowsStay`, from
  `VersionInv`); and a call raises only when another recorded change took its
  version (`RaisedCallsLostTheirVersion`; `RaceInv`: no command expects a version
  the sandbox has not reached). The second is what holds beside the violated
  `ExecutedIsAudited`: a call that raises leaves its row PENDING only in this race.
- `OnlyScannedBytesArePlaced`, `DeploymentsOverlapBounded`. The scanner's lock
  keeps a scan and the approval apart; a report on changed bytes means the file
  has them for good; a call past its checks may still add one deployment.

`OutboxRelayProofs`
- `MarkedRowsAreStored`, `RelaysPartitionRows`, `ResendsAreNotStored`. What a
  batch counts as done is on the stream, batches are disjoint, unmarked and due,
  and a stored event is remembered until an expiry.
- `RelayImplementsOutbox`: the refinement of `OutboxLog` from these three. A
  publish is a Store or, when the stream knows the id, a stutter; a commit is a
  Mark of the whole batch; everything else a relay does is a stutter.
- `MessageDeliveredOnce`, `OneDisplayAfterDisable`. The row lock ties the worker's
  phase to the row; a display that no rollback accounts for belongs to a delivery
  under way or to a row past delivery; a worker that has displayed since the
  switch reads the switches before it can display again.
- `StaleChecksStayBounded`. What was spent and what the calls under way can still
  spend stays within the bound together: each admitted call brings its attempts
  (`Remaining`) into a sum over the callers.

`DetectionIntakeProofs`
- `EffectIsOnce`, `OneCaseForAKey`, `AcknowledgedIsHandled`. A worker's phase says
  which of its findings stay true: rows are only added, so a processed event and
  an existing case stay, their absence does not.
- `IntakeImplementsCorrelation`: the refinement of `CorrelationLog`. The commit is
  the Correlate step whatever the worker had read before it: a case it found is
  still there, and one it did not find is absent or the unique index refuses.
- `AnswersAreRecent`: what a request resolved was true when it asked, what the
  cache holds was true at most the delay before its date.
- `CallbacksOwnTheirEvidence` and `OrphansAreTracesOfFaults`. A call that was
  handed a row has found its own bytes in it. The second counts: under the source's
  lock the number a call has checked is still free when it inserts, so an object
  loses its call only to a fault.
- `StrategyMovesOnce`, `CommittedDamageBlocksExport`: what was read under a row
  lock is still so at the commit; a damage verdict is true of the object for good.

`CaseLifecycleProofs`
- `HistoryStaysLinear`, `EngagedCasesWereGated`, `BlocksAreRecorded`. The invariant
  gives every transition row by its position in the order of states, ties the lock
  to the caller's phase, and counts passed evaluations through the state and the
  uncommitted `gate`.
- `CaseImplementsGatedCase`: the refinement of `GatedCase`. The verdicts of the
  abstract case are those of the committed evaluations, so the passed one appears
  in the step that moves the case, and the one of a block in a step of its own.
- `SnapshotIsTrimmedLeast`, `LoopRunsOut`. The invariant says that the snapshot is
  the source with the first so many items of the order gone (`Gone`), and that it
  did not fit with any fewer gone. A round takes the head of the order whichever
  list it is in, and the size of the lists together is the size of the order and
  of the active directives. Sizes, selections and reversals are recursive
  functions over a list; what they give for a concatenation, a tail and a list
  with one item removed is proved by induction over its length.

`AgentEnrollmentProofs`
- `OneEnrolmentPerToken`, `HistoryIsComplete`, `DatabaseFirst`, `NoReadmission`,
  `ReinstatementNeedsToken`. A token in an open call belongs to that call alone and
  is unused; serials in calls, rows and history are distinct and already signed;
  a certificate a revocation holds is no longer admitted once it has committed.
  The serials are what `NeverReadmitted` rests on: a row can only change to a
  serial the history has not seen.
- `TeardownKeepsEvidence`: an attempt stands behind steps that are all in the
  journal, and what a journalled step achieved still holds.
- `StepsAreResumed`: a step succeeded once more than its record was lost exactly
  when the journal has it or is about to. An operation knows the completed set it
  started with, so the proof also shows that a plan names no step twice.

`ReportPipelineProofs`
- Every safety property of `reports` (`Packages`, `Signatures`, `VerdictsFinal`),
  that a report is generated by one worker at a time (`Exclusive`), and that evidence
  and export versions are numbered without gap or repetition (`Numbering`). The invariant has three parts: the locks are
  exclusive; a worker knows of its row what its stage says (an export it holds is
  unsigned, a report it generates is GENERATING or being cancelled and its export
  is signed, a number it has read is at most one above the last, and exactly that
  under the source's lock); and every ledger row belongs to an existing report or
  export. The middle part is what makes numbers read without a lock harmless: they
  can only be too small, and are then refused.
- `RollbackUndoes`: a journalled success, and one about to be journalled, holds the
  definition that undoes the action as it ran last (`UndoInv`), and the disk is
  always tidy (an absent file has no times, a file in the decoy directory needs
  the directory), without which putting a file back would not restore what was
  there. One lemma per kind of action shows that its definition undoes it.

`CommonLemmas` holds what these share: sequences, least and greatest elements, and
induction and recursion over an interval. The library's induction theorems take
an operator as a parameter, which the provers cannot instantiate; here induction
is stated for a set of numbers and recursion for a step given as a function, and
both are proved from the well-foundedness of the naturals.

The assumptions are the ASSUMEs of the modules (finite sets, natural bounds),
which TLC evaluates on every run.

Model-checked only:
- the liveness properties `QueueDrains`, `CallsEnd`, `Delivered`,
  `EveryCallReturns`, `SettledOrUsedUp` and `ReportSettles`: they need fairness and
  ENABLED, which the prover does not handle;
- the violated properties of the four violation runs.

## Disagreements between code and documentation

Each violation run checks what a comment or document promises; "findings" quotes
the line. In short: a 409 does not resolve itself, a last delivery can be lost,
an executed action can stay unaudited, and a repeated revocation does not reach
step-ca. Met while modelling, without a run of their own:

- `docs/dashboard/read-model.md:13` clears a gap "only when the rebuilt source is
  complete"; `dashboard.py:469` clears it always. Line 11 names the state
  `INCOMPLETE`, the code `GAP_DETECTED`. A hole in the numbers of one source can be
  hidden by the numbers of another, since one offset row serves all.
- `docs/runbooks/teardown.md:18` requires a reason, missing items, actor and an
  ALLOW decision for an override; `teardown.py:287` asks only that there is one.
- `server_installer.py:112`, the health check of a rolled-back release, is skipped
  when an earlier health check is in the journal; for the same reason an install
  after an uninstall reports success with nothing deployed.
- The docstring of the controller's FULL_REBUILD also clears the journal; the code
  does not.

## What is not modelled

Rendering (reports, dashboard front end), pure scoring and policy functions, token
verification, generated contracts, metrics and test harnesses have no protocol
state. Time is abstracted to "due or not" and "expired or not". Cryptography and
schema validation appear as the verdict they give. PostgreSQL, JetStream and the
WebSocket are modelled from how the code uses them: row locks, unique
constraints and atomic commits; a duplicate window and delivery counts; an
ordered link that can drop. Left out for other reasons, named above and under
"components": the enrolment of the controller, `revoke_artifact`, the in-process
rate limiter of messages, the building and signing of releases, verification and
download of finished reports.
