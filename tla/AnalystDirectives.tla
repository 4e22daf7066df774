------------------------- MODULE AnalystDirectives -------------------------
(***************************************************************************)
(* Analyst directives: submitted through the API under an idempotency key, *)
(* acknowledged by a worker, applied to the strategy of the case or linked *)
(* to another result, cancelled by the analyst, expired when the list is   *)
(* read.  A directive stands for its (case_id, idempotency_key).           *)
(*                                                                         *)
(* The worker functions leave the commit to their caller, so between the   *)
(* locked read of apply_directive_strategy and its commit other            *)
(* transactions run.  Nothing in the sources writes the status QUEUED.     *)
(***************************************************************************)
EXTENDS Naturals, FiniteSets

CONSTANTS
    Directives,     \* (case_id, idempotency_key)
    StrategyWorkers \* transactions that apply a directive

ASSUME DirectivesAssumption == IsFiniteSet(Directives) /\ IsFiniteSet(StrategyWorkers)

VARIABLES
    directive_status,  \* analyst_directives.status, "NONE" before the row exists
    submitting,        \* submissions that found no row for their key
    overdue,           \* directives whose expires_at has passed
    applying,          \* directive each worker read and has not committed
    phase_changes,     \* strategy_phase_history rows that name each directive
    withdrawn          \* directives whose cancellation or expiry was committed

directiveVars ==
    <<directive_status, submitting, overdue, applying, phase_changes, withdrawn>>

OpenDirective == {"SUBMITTED", "ACKNOWLEDGED", "QUEUED"}
DirectiveStatuses == OpenDirective \cup {"NONE", "APPLIED", "REJECTED", "CANCELLED", "EXPIRED"}

\* Mutant: apply_directive_strategy reads the row without FOR UPDATE.
directive_unlocked_always(d) == TRUE

directive_unlocked(d) == \A w \in StrategyWorkers : d \notin applying[w]

\* The look for an existing row; a known key only answers with it.
submit_looks(d) ==
    /\ directive_status[d] = "NONE" /\ submitting[d] < 2
    /\ submitting' = [submitting EXCEPT ![d] = @ + 1]
    /\ UNCHANGED <<directive_status, overdue, applying, phase_changes, withdrawn>>

\* Row, audit and event in one commit; the unique key makes a second insert
\* raise.
submit_inserts(d) ==
    /\ submitting[d] > 0
    /\ submitting' = [submitting EXCEPT ![d] = @ - 1]
    /\ directive_status' = [directive_status EXCEPT ![d] = IF @ = "NONE" THEN "SUBMITTED" ELSE @]
    /\ UNCHANGED <<overdue, applying, phase_changes, withdrawn>>

expires_at_passes(d) ==
    /\ d \notin overdue /\ directive_status[d] # "NONE"
    /\ overdue' = overdue \cup {d}
    /\ UNCHANGED <<directive_status, submitting, applying, phase_changes, withdrawn>>

\* The except branch marks an overdue directive EXPIRED and then raises: the
\* mark stays only if the caller commits it.
acknowledge_directive(d) ==
    /\ directive_unlocked(d)
    /\ \/ /\ directive_status[d] = "SUBMITTED" /\ d \notin overdue
          /\ directive_status' = [directive_status EXCEPT ![d] = "ACKNOWLEDGED"]
          /\ UNCHANGED withdrawn
       \/ /\ directive_status[d] \in OpenDirective /\ d \in overdue
          /\ directive_status' = [directive_status EXCEPT ![d] = "EXPIRED"]
          /\ withdrawn' = withdrawn \cup {d}
    /\ UNCHANGED <<submitting, overdue, applying, phase_changes>>

\* One UPDATE for the case, so it waits for every locked row it matches.
list_directives ==
    LET late == {d \in overdue : directive_status[d] \in OpenDirective}
    IN  /\ late # {} /\ \A d \in late : directive_unlocked(d)
        /\ directive_status' = [d \in Directives |->
                                  IF d \in late THEN "EXPIRED" ELSE directive_status[d]]
        /\ withdrawn' = withdrawn \cup late
        /\ UNCHANGED <<submitting, overdue, applying, phase_changes>>

cancel_directive(d) ==
    /\ directive_status[d] \in OpenDirective /\ directive_unlocked(d)
    /\ directive_status' = [directive_status EXCEPT ![d] = "CANCELLED"]
    /\ withdrawn' = withdrawn \cup {d}
    /\ UNCHANGED <<submitting, overdue, applying, phase_changes>>

\* The transition requested is one step of the phase table, or it raises.
\* expires_at is not looked at.
apply_reads(w, d) ==
    /\ applying[w] = {} /\ directive_unlocked(d)
    /\ directive_status[d] \in {"ACKNOWLEDGED", "QUEUED"}
    /\ applying' = [applying EXCEPT ![w] = {d}]
    /\ UNCHANGED <<directive_status, submitting, overdue, phase_changes, withdrawn>>

\* The phase row and link_directive_result(applied), committed by the caller.
apply_commits(w, d) ==
    /\ d \in applying[w]
    /\ phase_changes' = [phase_changes EXCEPT ![d] = @ + 1]
    /\ directive_status' = [directive_status EXCEPT ![d] = "APPLIED"]
    /\ applying' = [applying EXCEPT ![w] = {}]
    /\ UNCHANGED <<submitting, overdue, withdrawn>>

apply_rolls_back(w) ==
    /\ applying[w] # {}
    /\ applying' = [applying EXCEPT ![w] = {}]
    /\ UNCHANGED <<directive_status, submitting, overdue, phase_changes, withdrawn>>

\* Unconditional: a directive cancelled in the meantime is overwritten too.
link_directive_result(d, status) ==
    /\ directive_status[d] # "NONE" /\ directive_unlocked(d)
    /\ directive_status' = [directive_status EXCEPT ![d] = status]
    /\ UNCHANGED <<submitting, overdue, applying, phase_changes, withdrawn>>

DirectivesInit ==
    /\ directive_status = [d \in Directives |-> "NONE"]
    /\ submitting = [d \in Directives |-> 0]
    /\ overdue = {}
    /\ applying = [w \in StrategyWorkers |-> {}]
    /\ phase_changes = [d \in Directives |-> 0]
    /\ withdrawn = {}

DirectivesNext ==
    \/ list_directives
    \/ \E w \in StrategyWorkers :
         \/ apply_rolls_back(w)
         \/ \E d \in Directives : apply_reads(w, d) \/ apply_commits(w, d)
    \/ \E d \in Directives :
         \/ submit_looks(d) \/ submit_inserts(d) \/ expires_at_passes(d)
         \/ acknowledge_directive(d) \/ cancel_directive(d)
         \/ \E status \in {"APPLIED", "REJECTED"} : link_directive_result(d, status)

DirectivesSpec == DirectivesInit /\ [][DirectivesNext]_directiveVars

----------------------------------------------------------------------------

\* The rows and the transactions that work on them.
DirectivesTypeOK ==
    /\ directive_status \in [Directives -> DirectiveStatuses]
    /\ submitting \in [Directives -> 0..2]
    /\ overdue \in SUBSET Directives /\ withdrawn \in SUBSET Directives
    /\ applying \in [StrategyWorkers -> SUBSET Directives]
    /\ phase_changes \in [Directives -> Nat]

\* A directive moves the strategy of its case at most once, and never after
\* its cancellation or expiry was committed, although link_directive_result
\* overwrites any status (apply_directive_strategy's lock and status test).
StrategyOncePerDirective ==
    [][\A d \in Directives :
          phase_changes'[d] # phase_changes[d] =>
              phase_changes[d] = 0 /\ d \notin withdrawn]_directiveVars

=============================================================================
