--------------------------- MODULE ReportPipeline ---------------------------
(***************************************************************************)
(* Case reports and the evidence exports they wait for: the report worker  *)
(* (services/mirage-report-worker) in any number of processes, and the API *)
(* handlers that request, cancel and re-verify (mirage_api prompt2.py,     *)
(* prompt3.py), on one case in PostgreSQL.                                 *)
(*                                                                         *)
(* A worker's step is what it does between two points at which it holds    *)
(* different locks or has committed.  Rows are kept in the order of their  *)
(* commits, which stands for created_at.  Uncommitted writes are in `job`. *)
(***************************************************************************)
EXTENDS Naturals, Sequences, FiniteSets, FiniteSetsExt

CONSTANTS Workers,      \* processes of mirage-report-worker
          MaxReports,   \* reports requested
          MaxEvents     \* exceptions, ineligible exports, crashes of a worker and
                        \* calls of the export API, together

ASSUME PipelineAssumption == MaxReports \in Nat /\ MaxEvents \in Nat

VARIABLES case_reports,      \* in order of creation
          evidence_exports,  \* in order of creation
          ledger,            \* evidence_objects of source mirage-report-worker
          job,               \* where each worker is, and its local variables
          events             \* how many of MaxEvents have happened

vars == <<case_reports, evidence_exports, ledger, job, events>>

Verdicts == {"COMPLETED", "FAILED", "CANCELLED"}
Selectable == {"QUEUED", "WAITING_FOR_EXPORT", "CANCEL_REQUESTED"}
Report == [status : Selectable \cup Verdicts \cup {"GENERATING"}, export_id : Nat]
Export == [status : {"PENDING", "VERIFIED", "FAILED"}, signed : BOOLEAN, version : Nat]
Parts == {"MANIFEST", "SIGNATURE", "VERIFICATION_REPORT", "EXPORT"}
Evidence == [part : Parts \cup {"REPORT"}, of : Nat, source_sequence : Nat]

\* The stages in which a worker's transaction holds the row of its export or
\* of its report, and the advisory lock of its evidence source.
HoldsExport == {"EXPORTING", "EXPORT_STORING"}
HoldsReport == {"REPORT", "NUMBERING", "STORING", "STORED"}
HoldsSource == {"EXPORT_STORING", "STORED"}
\* From the commit of GENERATING to the worker's last word on the report.
Generating == {"GENERATING", "STORING", "STORED", "FAILING"}
Stages == {"IDLE", "REPORTS", "EXPORT_FAILING"} \cup HoldsExport \cup HoldsReport \cup Generating
Job == [stage : Stages, id : Nat, n : Nat]

export_locked(e) == \E w \in Workers : job[w].stage \in HoldsExport /\ job[w].id = e
report_locked(r) == \E w \in Workers : job[w].stage \in HoldsReport /\ job[w].id = r
source_locked == \E w \in Workers : job[w].stage \in HoldsSource

\* COALESCE(max(...), 0)
last_sequence == Max({0} \cup {ledger[i].source_sequence : i \in DOMAIN ledger})
last_version == Max({0} \cup {evidence_exports[e].version : e \in DOMAIN evidence_exports})

at(w, stage) == job[w].stage = stage
goes(w, stage, id, n) == job' = [job EXCEPT ![w] = [stage |-> stage, id |-> id, n |-> n]]
rests(w) == goes(w, "IDLE", 0, 0)
set_report(r, status) == case_reports' = [case_reports EXCEPT ![r].status = status]
set_export(e, status) == evidence_exports' = [evidence_exports EXCEPT ![e].status = status]
happens == events < MaxEvents /\ events' = events + 1

----------------------------------------------------------------------------
(* run and generate_export *)

\* Mutant: a signed export is taken again when it is PENDING.
free_exports_signed ==
    {e \in DOMAIN evidence_exports :
        evidence_exports[e].status = "PENDING" /\ ~export_locked(e)}
\* Exports not yet signed, without those of other workers.
free_exports ==
    {e \in DOMAIN evidence_exports :
        /\ evidence_exports[e].status = "PENDING" /\ ~evidence_exports[e].signed
        /\ ~export_locked(e)}

oldest(i, rows) == i \in rows /\ \A j \in rows : i <= j

select_export(w) ==
    /\ at(w, "IDLE")
    /\ \/ free_exports = {} /\ goes(w, "REPORTS", 0, 0)
       \/ \E e \in DOMAIN evidence_exports :
             oldest(e, free_exports) /\ goes(w, "EXPORTING", e, 0)
    /\ UNCHANGED <<case_reports, evidence_exports, ledger, events>>

\* Required evidence is missing or unverified.
export_not_eligible(w) ==
    /\ happens
    /\ at(w, "EXPORTING")
    /\ set_export(job[w].id, "FAILED")
    /\ rests(w)
    /\ UNCHANGED <<case_reports, ledger>>

\* Any other exception rolls back, which releases the row.
export_fails(w) ==
    /\ happens
    /\ job[w].stage \in HoldsExport
    /\ goes(w, "EXPORT_FAILING", job[w].id, 0)
    /\ UNCHANGED <<case_reports, evidence_exports, ledger>>

\* The failure is written whatever the row has become.
export_records_failure(w) ==
    /\ at(w, "EXPORT_FAILING")
    /\ ~export_locked(job[w].id)
    /\ set_export(job[w].id, "FAILED")
    /\ rests(w)
    /\ UNCHANGED <<case_reports, ledger, events>>

\* The package is built; the source's sequence is read under its lock.
export_numbers(w) ==
    /\ at(w, "EXPORTING")
    /\ ~source_locked
    /\ goes(w, "EXPORT_STORING", job[w].id, last_sequence)
    /\ UNCHANGED <<case_reports, evidence_exports, ledger, events>>

evidence(part, of, n) == [part |-> part, of |-> of, source_sequence |-> n]

export_commits(w) ==
    /\ at(w, "EXPORT_STORING")
    /\ LET e == job[w].id
           n == job[w].n
       IN /\ ledger' = ledger \o <<evidence("MANIFEST", e, n + 1), evidence("SIGNATURE", e, n + 2),
                                   evidence("VERIFICATION_REPORT", e, n + 3),
                                   evidence("EXPORT", e, n + 4)>>
          /\ evidence_exports' = [evidence_exports EXCEPT ![e] =
                                     [@ EXCEPT !.status = "VERIFIED", !.signed = TRUE]]
    /\ rests(w)
    /\ UNCHANGED <<case_reports, events>>

----------------------------------------------------------------------------
(* process_next_report *)

free_reports ==
    {r \in DOMAIN case_reports : case_reports[r].status \in Selectable /\ ~report_locked(r)}

select_report(w) ==
    /\ at(w, "REPORTS")
    /\ \/ free_reports = {} /\ rests(w)
       \/ \E r \in DOMAIN case_reports :
             oldest(r, free_reports) /\ goes(w, "REPORT", r, 0)
    /\ UNCHANGED <<case_reports, evidence_exports, ledger, events>>

\* The row is locked and its cancellation has not been asked for.
proceeds(w) ==
    /\ at(w, "REPORT")
    /\ case_reports[job[w].id].status # "CANCEL_REQUESTED"

report_cancelled(w) ==
    /\ at(w, "REPORT")
    /\ case_reports[job[w].id].status = "CANCEL_REQUESTED"
    /\ set_report(job[w].id, "CANCELLED")
    /\ rests(w)
    /\ UNCHANGED <<evidence_exports, ledger, events>>

\* Mutant: only a report that has not started to wait times out.
report_times_out_queued(w) ==
    /\ proceeds(w)
    /\ case_reports[job[w].id].status = "QUEUED"
    /\ set_report(job[w].id, "FAILED")
    /\ rests(w)
    /\ UNCHANGED <<evidence_exports, ledger, events>>
\* timeout_at may pass at any time, and is looked at only here.
report_times_out(w) ==
    /\ proceeds(w)
    /\ set_report(job[w].id, "FAILED")
    /\ rests(w)
    /\ UNCHANGED <<evidence_exports, ledger, events>>

export_version(w) ==
    /\ proceeds(w)
    /\ case_reports[job[w].id].export_id = 0
    /\ goes(w, "NUMBERING", job[w].id, last_version + 1)
    /\ UNCHANGED <<case_reports, evidence_exports, ledger, events>>

pending(version) == [status |-> "PENDING", signed |-> FALSE, version |-> version]

\* Another transaction has taken the version: the violated constraint ends
\* the worker, and nothing is queued.
queue_evidence_export(w) ==
    /\ at(w, "NUMBERING")
    /\ IF \E e \in DOMAIN evidence_exports : evidence_exports[e].version = job[w].n
       THEN UNCHANGED <<case_reports, evidence_exports>>
       ELSE /\ evidence_exports' = Append(evidence_exports, pending(job[w].n))
            /\ case_reports' = [case_reports EXCEPT ![job[w].id] =
                   [status |-> "WAITING_FOR_EXPORT", export_id |-> Len(evidence_exports) + 1]]
    /\ rests(w)
    /\ UNCHANGED <<ledger, events>>

\* A failed export fails the report; one that is not verified leaves it.
export_awaited(w) ==
    /\ proceeds(w)
    /\ LET r == job[w].id
           e == case_reports[r].export_id
       IN /\ e # 0
          /\ \/ evidence_exports[e].status = "FAILED" /\ set_report(r, "FAILED")
             \/ evidence_exports[e].status = "PENDING" /\ UNCHANGED case_reports
    /\ rests(w)
    /\ UNCHANGED <<evidence_exports, ledger, events>>

\* GENERATING is committed, which releases the row for the work to come.
report_generates(w) ==
    /\ proceeds(w)
    /\ LET e == case_reports[job[w].id].export_id
       IN e # 0 /\ evidence_exports[e].status = "VERIFIED"
    /\ set_report(job[w].id, "GENERATING")
    /\ goes(w, "GENERATING", job[w].id, 0)
    /\ UNCHANGED <<evidence_exports, ledger, events>>

\* The package is built and the row locked again: a cancellation asked for in
\* the meantime is honoured.  The sequence is read without the source's lock.
report_rechecks(w) ==
    /\ at(w, "GENERATING")
    /\ ~report_locked(job[w].id)
    /\ IF case_reports[job[w].id].status = "CANCEL_REQUESTED"
       THEN set_report(job[w].id, "CANCELLED") /\ rests(w)
       ELSE goes(w, "STORING", job[w].id, last_sequence + 1) /\ UNCHANGED case_reports
    /\ UNCHANGED <<evidence_exports, ledger, events>>

\* Mutant: the acquisition commits by itself.
acquire_commits(w) ==
    /\ at(w, "STORING")
    /\ ~source_locked
    /\ IF job[w].n > last_sequence
       THEN /\ goes(w, "STORED", job[w].id, job[w].n)
            /\ ledger' = Append(ledger, evidence("REPORT", job[w].id, job[w].n))
       ELSE goes(w, "FAILING", job[w].id, 0) /\ UNCHANGED ledger
    /\ UNCHANGED <<case_reports, evidence_exports, events>>
\* EvidenceService.acquire: a number that is not above the last is refused.
acquire(w) ==
    /\ at(w, "STORING")
    /\ ~source_locked
    /\ IF job[w].n > last_sequence THEN goes(w, "STORED", job[w].id, job[w].n)
                                   ELSE goes(w, "FAILING", job[w].id, 0)
    /\ UNCHANGED <<case_reports, evidence_exports, ledger, events>>

report_commits(w) ==
    /\ at(w, "STORED")
    /\ ledger' = Append(ledger, evidence("REPORT", job[w].id, job[w].n))
    /\ set_report(job[w].id, "COMPLETED")
    /\ rests(w)
    /\ UNCHANGED <<evidence_exports, events>>

\* Any exception of the work rolls back.
report_fails(w) ==
    /\ happens
    /\ job[w].stage \in Generating \ {"FAILING"}
    /\ goes(w, "FAILING", job[w].id, 0)
    /\ UNCHANGED <<case_reports, evidence_exports, ledger>>

set_failed(w) ==
    /\ at(w, "FAILING")
    /\ ~report_locked(job[w].id)
    /\ set_report(job[w].id, "FAILED")
    /\ rests(w)
    /\ UNCHANGED <<evidence_exports, ledger, events>>

----------------------------------------------------------------------------
(* The API, time, and crashes *)

create_case_report ==
    /\ Len(case_reports) < MaxReports
    /\ case_reports' = Append(case_reports, [status |-> "QUEUED", export_id |-> 0])
    /\ UNCHANGED <<evidence_exports, ledger, job, events>>

\* Mutant: a failed report can be cancelled.
cancel_case_report_failed(r) ==
    /\ ~report_locked(r)
    /\ case_reports[r].status \notin {"COMPLETED", "CANCELLED"}
    /\ set_report(r, IF case_reports[r].status \in {"QUEUED", "WAITING_FOR_EXPORT"}
                     THEN "CANCELLED" ELSE "CANCEL_REQUESTED")
    /\ UNCHANGED <<evidence_exports, ledger, job, events>>
cancel_case_report(r) ==
    /\ ~report_locked(r)
    /\ case_reports[r].status \notin Verdicts
    /\ set_report(r, IF case_reports[r].status \in {"QUEUED", "WAITING_FOR_EXPORT"}
                     THEN "CANCELLED" ELSE "CANCEL_REQUESTED")
    /\ UNCHANGED <<evidence_exports, ledger, job, events>>

create_export ==
    /\ happens
    /\ evidence_exports' = Append(evidence_exports, pending(last_version + 1))
    /\ UNCHANGED <<case_reports, ledger, job>>

request_export_verification(e) ==
    /\ happens
    /\ ~export_locked(e)
    /\ set_export(e, "PENDING")
    /\ UNCHANGED <<case_reports, ledger, job>>

\* The open transaction is rolled back and the process started again.
crash(w) ==
    /\ happens
    /\ job[w].stage # "IDLE"
    /\ rests(w)
    /\ UNCHANGED <<case_reports, evidence_exports, ledger>>

Init ==
    /\ case_reports = <<>> /\ evidence_exports = <<>> /\ ledger = <<>>
    /\ job = [w \in Workers |-> [stage |-> "IDLE", id |-> 0, n |-> 0]]
    /\ events = 0

exports(w) ==
    \/ select_export(w) \/ export_not_eligible(w) \/ export_fails(w)
    \/ export_records_failure(w) \/ export_numbers(w) \/ export_commits(w)

process_next_report(w) ==
    \/ select_report(w) \/ report_cancelled(w) \/ report_times_out(w) \/ export_version(w) \/ queue_evidence_export(w)
    \/ export_awaited(w) \/ report_generates(w) \/ report_rechecks(w) \/ acquire(w)
    \/ report_commits(w) \/ report_fails(w) \/ set_failed(w)

run(w) == exports(w) \/ process_next_report(w)

api ==
    \/ create_case_report
    \/ create_export
    \/ \E r \in DOMAIN case_reports : cancel_case_report(r)
    \/ \E e \in DOMAIN evidence_exports : request_export_verification(e)

Next ==
    \/ api
    \/ \E w \in Workers : run(w) \/ crash(w)

\* Workers poll for ever, and a report looked at again and again is one day
\* looked at after its timeout.
Spec ==
    /\ Init /\ [][Next]_vars
    /\ \A w \in Workers : WF_vars(run(w))
    /\ \A r \in 1..MaxReports : SF_vars(\E w \in Workers : job[w].id = r /\ report_times_out(w))

----------------------------------------------------------------------------
(* Properties *)

\* The tables and the workers are well typed.
TypeOK ==
    /\ case_reports \in Seq(Report)
    /\ evidence_exports \in Seq(Export)
    /\ ledger \in Seq(Evidence)
    /\ job \in [Workers -> Job]
    /\ events \in 0..MaxEvents

\* A report is generated by one worker at a time, although its row is not
\* locked while the package is built.
OneGenerator ==
    \A v, w \in Workers :
        /\ job[v].stage \in Generating /\ job[w].stage \in Generating
        /\ job[v].id = job[w].id
        => v = w

stored(part, of) == {i \in DOMAIN ledger : ledger[i].part = part /\ ledger[i].of = of}

\* A report has a package in the ledger exactly when it is COMPLETED, only
\* one, and then the export it was made from is signed: no failure, crash or
\* cancellation leaves a package behind or takes one away.
PackageIffCompleted ==
    \A r \in DOMAIN case_reports :
        IF case_reports[r].status = "COMPLETED"
        THEN /\ \E i \in DOMAIN ledger : stored("REPORT", r) = {i}
             /\ evidence_exports[case_reports[r].export_id].signed
        ELSE stored("REPORT", r) = {}

\* An export is signed exactly when its four parts are in the ledger, once
\* each; a failed attempt leaves none of them.
SignedInFull ==
    \A e \in DOMAIN evidence_exports, part \in Parts :
        IF evidence_exports[e].signed THEN \E i \in DOMAIN ledger : stored(part, e) = {i}
                                      ELSE stored(part, e) = {}

\* The worker's evidence is numbered 1, 2, 3, ... without gap or repetition,
\* whichever processes number it and whichever of their transactions fail; so
\* are the versions of the exports.
NumberedInOrder ==
    /\ \A i \in DOMAIN ledger : ledger[i].source_sequence = i
    /\ \A e \in DOMAIN evidence_exports : evidence_exports[e].version = e

\* COMPLETED and FAILED are final.  CANCELLED is too, unless the worker that
\* was generating the report when it was cancelled has not finished with it.
VerdictIsFinal ==
    [][\A r \in DOMAIN case_reports :
          /\ case_reports[r].status \in Verdicts
          /\ case_reports'[r].status # case_reports[r].status
          => /\ case_reports[r].status = "CANCELLED"
             /\ \E w \in Workers : job[w].stage \in Generating /\ job[w].id = r]_vars

settled(r) == r \in DOMAIN case_reports /\ case_reports[r].status \in Verdicts

abandoned(r) ==
    /\ r \in DOMAIN case_reports /\ case_reports[r].status = "GENERATING"
    /\ \A w \in Workers : ~(job[w].stage \in Generating /\ job[w].id = r)

\* Every report gets its verdict, even behind one whose export never becomes
\* VERIFIED again, unless a worker died while it was generating it; and then
\* a cancellation still ends it.
ReportSettles ==
    \A r \in 1..MaxReports : r \in DOMAIN case_reports ~> settled(r) \/ abandoned(r)
=============================================================================
