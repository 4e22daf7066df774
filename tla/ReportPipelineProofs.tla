------------------------ MODULE ReportPipelineProofs ------------------------
(***************************************************************************)
(* Proofs of the safety properties of ReportPipeline, for any number of    *)
(* workers, reports and exports, and of the rollback of ControllerActions, *)
(* for any number of actions, frames and deaths.                           *)
(***************************************************************************)
EXTENDS ReportPipeline, ControllerActions, TLAPS

\* Most steps are first-order; those with arithmetic cite SMT.
USE Zenon

tables == <<case_reports, evidence_exports, ledger>>

InExport(w) == job[w].stage \in HoldsExport
InReport(w) == job[w].stage \in HoldsReport
InSource(w) == job[w].stage \in HoldsSource
Generates(w) == job[w].stage \in Generating

\* No two workers hold the same row, or the evidence source.
LockInv ==
    \A v, w \in Workers :
        /\ InExport(v) /\ InExport(w) /\ job[v].id = job[w].id => v = w
        /\ InReport(v) /\ InReport(w) /\ job[v].id = job[w].id => v = w
        /\ InSource(v) /\ InSource(w) => v = w

Signed(e) == e \in DOMAIN evidence_exports /\ evidence_exports[e].signed
IsReport(r, statuses) == r \in DOMAIN case_reports /\ case_reports[r].status \in statuses

\* What a worker knows of the tables while it holds a lock or generates.
JobOK(w) ==
    /\ InExport(w) => job[w].id \in DOMAIN evidence_exports /\ ~Signed(job[w].id)
    /\ job[w].stage = "EXPORT_FAILING" => job[w].id \in DOMAIN evidence_exports
    /\ job[w].stage = "REPORT" => IsReport(job[w].id, Selectable)
    /\ job[w].stage = "NUMBERING" => /\ IsReport(job[w].id, {"QUEUED", "WAITING_FOR_EXPORT"})
                                     /\ job[w].n \in 1..(Len(evidence_exports) + 1)
    /\ Generates(w) => /\ IsReport(job[w].id, {"GENERATING", "CANCEL_REQUESTED", "CANCELLED"})
                       /\ Signed(case_reports[job[w].id].export_id)
    /\ job[w].stage = "EXPORT_STORING" => job[w].n = Len(ledger)
    /\ job[w].stage = "STORING" => job[w].n \in 1..(Len(ledger) + 1)
    /\ job[w].stage = "STORED" => job[w].n = Len(ledger) + 1

\* What the rows know of one another.
RowInv ==
    /\ \A r \in DOMAIN case_reports :
          /\ case_reports[r].export_id \in 0..Len(evidence_exports)
          /\ case_reports[r].status = "COMPLETED" => Signed(case_reports[r].export_id)
    /\ \A e \in DOMAIN evidence_exports : evidence_exports[e].status = "VERIFIED" => Signed(e)
    /\ \A i \in DOMAIN ledger :
          IF ledger[i].part = "REPORT" THEN ledger[i].of \in DOMAIN case_reports
                                       ELSE ledger[i].of \in DOMAIN evidence_exports

TableInv == RowInv /\ PackageIffCompleted /\ SignedInFull /\ NumberedInOrder
Locks == LockInv /\ OneGenerator
Inv == TypeOK /\ Locks /\ (\A w \in Workers : JobOK(w)) /\ TableInv

\* What the locks ask of a worker w that is about to be in the state j.
Admits(w, j) ==
    \A v \in Workers \ {w} :
        /\ j.stage \in HoldsExport => ~(InExport(v) /\ job[v].id = j.id)
        /\ j.stage \in HoldsReport => ~(InReport(v) /\ job[v].id = j.id)
        /\ j.stage \in HoldsSource => ~InSource(v)
        /\ j.stage \in Generating => ~(Generates(v) /\ job[v].id = j.id)

Moves(w, j) == j \in Job /\ job' = [job EXCEPT ![w] = j] /\ Admits(w, j)

Idle == [stage |-> "IDLE", id |-> 0, n |-> 0]

\* A worker that moves to a state the others admit leaves the locks exclusive
\* and the other workers where they are.
LEMMA LocksMove ==
    ASSUME TypeOK, Locks, NEW w \in Workers, NEW j, Moves(w, j)
    PROVE  /\ job' \in [Workers -> Job]
           /\ Locks'
           /\ job'[w] = j
           /\ \A v \in Workers \ {w} : job'[v] = job[v]
<1>1. job \in [Workers -> Job] /\ j \in Job /\ job' = [job EXCEPT ![w] = j] /\ Admits(w, j)
  BY DEF TypeOK, Moves
<1>2. job' \in [Workers -> Job] /\ job'[w] = j /\ \A v \in Workers \ {w} : job'[v] = job[v]
  BY <1>1
<1>3. LockInv'
  BY <1>1, <1>2 DEF Locks, LockInv, Admits, InExport, InReport, InSource
<1>4. OneGenerator'
  BY <1>1, <1>2, SMT DEF Locks, OneGenerator, Admits, Generates
<1>5. QED
  BY <1>2, <1>3, <1>4 DEF Locks

\* The stages are told apart.
LEMMA IdleIsFree ==
    ASSUME NEW w \in Workers
    PROVE  Idle \in Job /\ Admits(w, Idle)
  BY DEF Idle, Job, Stages, Admits, HoldsExport, HoldsReport, HoldsSource, Generating

\* A resting worker moves to Idle.
LEMMA Resting ==
    ASSUME NEW w \in Workers, rests(w)
    PROVE  Moves(w, Idle)
  BY IdleIsFree DEF rests, goes, Moves, Idle

\* An idle worker knows nothing.
LEMMA IdleKnowsNothing ==
    ASSUME NEW w \in Workers, job'[w] = Idle
    PROVE  JobOK(w)'
<1>1. (job')[w].stage = "IDLE"
  BY SMT DEF Idle
<1>2. QED
  BY <1>1 DEF JobOK, InExport, Generates, HoldsExport, Generating

\* Under NumberedInOrder the last number is the number of rows.
LEMMA LastNumbers ==
    ASSUME TypeOK, NumberedInOrder
    PROVE  last_sequence = Len(ledger) /\ last_version = Len(evidence_exports)
<1>1. last_sequence = Len(ledger)
  <2> DEFINE S == {0} \cup {ledger[i].source_sequence : i \in DOMAIN ledger}
  <2>1. Len(ledger) \in Nat /\ DOMAIN ledger = 1..Len(ledger)
    BY SMT DEF TypeOK
  <2>2. Len(ledger) \in S
    BY <2>1, SMT DEF NumberedInOrder
  <2>3. \A y \in S : y \in Nat /\ Len(ledger) >= y
    BY <2>1, SMT DEF NumberedInOrder
  <2> HIDE DEF S
  <2>4. Max(S) = Len(ledger)
    BY <2>1, <2>2, <2>3, SMT DEF Max
  <2>5. QED
    BY <2>4 DEF last_sequence, S
<1>2. last_version = Len(evidence_exports)
  <2> DEFINE S == {0} \cup {evidence_exports[e].version : e \in DOMAIN evidence_exports}
  <2>1. Len(evidence_exports) \in Nat /\ DOMAIN evidence_exports = 1..Len(evidence_exports)
    BY SMT DEF TypeOK
  <2>2. Len(evidence_exports) \in S
    BY <2>1, SMT DEF NumberedInOrder
  <2>3. \A y \in S : y \in Nat /\ Len(evidence_exports) >= y
    BY <2>1, SMT DEF NumberedInOrder
  <2> HIDE DEF S
  <2>4. Max(S) = Len(evidence_exports)
    BY <2>1, <2>2, <2>3, SMT DEF Max
  <2>5. QED
    BY <2>4 DEF last_version, S
<1>3. QED
  BY <1>1, <1>2

----------------------------------------------------------------------------
(* Steps that only move a worker *)

\* The invariant of the tables depends on nothing else.
LEMMA SameTables ==
    ASSUME TableInv, UNCHANGED tables
    PROVE  TableInv'
<1>1. case_reports' = case_reports /\ evidence_exports' = evidence_exports /\ ledger' = ledger
  BY DEF tables
<1>2. RowInv'
  BY <1>1 DEF TableInv, RowInv, Signed
<1>3. \A part, of : stored(part, of)' = stored(part, of)
  BY <1>1 DEF stored
<1>4. PackageIffCompleted'
  BY <1>1, <1>3 DEF TableInv, PackageIffCompleted
<1>5. SignedInFull'
  BY <1>1, <1>3 DEF TableInv, SignedInFull
<1>6. NumberedInOrder'
  BY <1>1 DEF TableInv, NumberedInOrder
<1>7. QED
  BY <1>2, <1>4, <1>5, <1>6 DEF TableInv

\* A move that leaves the tables alone preserves the invariant, if the worker
\* knows what its new stage asks.
LEMMA JobMoves ==
    ASSUME Inv, NEW w \in Workers, NEW j, Moves(w, j), UNCHANGED tables,
           events' \in 0..MaxEvents, JobOK(w)'
    PROVE  Inv'
<1>1. /\ job' \in [Workers -> Job] /\ Locks'
      /\ \A v \in Workers \ {w} : job'[v] = job[v]
  BY LocksMove DEF Inv
<1>2. case_reports' = case_reports /\ evidence_exports' = evidence_exports /\ ledger' = ledger
  BY DEF tables
<1>3. TypeOK'
  BY <1>1, <1>2 DEF Inv, TypeOK
<1>4. TableInv'
  BY SameTables DEF Inv
<1>5. ASSUME NEW v \in Workers \ {w} PROVE JobOK(v)'
  BY <1>1, <1>2 DEF Inv, JobOK, InExport, Generates, Signed, IsReport
<1>6. QED
  BY <1>1, <1>3, <1>4, <1>5 DEF Inv

\* A worker that only rests keeps the invariant.
LEMMA RestMoves ==
    ASSUME Inv, NEW w \in Workers, rests(w), UNCHANGED tables, events' \in 0..MaxEvents
    PROVE  Inv'
<1>1. Moves(w, Idle)
  BY Resting
<1>2. job'[w] = Idle
  BY <1>1, LocksMove DEF Inv
<1>3. JobOK(w)'
  BY <1>2, IdleKnowsNothing
<1>4. QED
  BY <1>1, <1>3, JobMoves

----------------------------------------------------------------------------
(* Steps that change the status of a report *)

Status == Selectable \cup Verdicts \cup {"GENERATING"}

\* A new status other than COMPLETED, given to a report that is not COMPLETED,
\* disturbs no table, and nothing else of the reports changes.
LEMMA ReportTables ==
    ASSUME TypeOK, TableInv, NEW r, NEW s, IsReport(r, Status \ {"COMPLETED"}),
           s \in Status \ {"COMPLETED"}, set_report(r, s), UNCHANGED <<evidence_exports, ledger>>
    PROVE  /\ case_reports' \in Seq(Report)
           /\ TableInv'
           /\ DOMAIN case_reports' = DOMAIN case_reports
           /\ \A q \in DOMAIN case_reports :
                 /\ case_reports'[q].export_id = case_reports[q].export_id
                 /\ case_reports'[q].status = IF q = r THEN s ELSE case_reports[q].status
<1>1. /\ case_reports \in Seq(Report) /\ r \in DOMAIN case_reports
      /\ case_reports[r].status # "COMPLETED"
  BY DEF TypeOK, IsReport
<1>2. case_reports' = [case_reports EXCEPT ![r] = [@ EXCEPT !.status = s]]
  BY DEF set_report
<1>3. [case_reports[r] EXCEPT !.status = s] \in Report
  <2>1. case_reports[r] \in Report
    BY <1>1, SMT
  <2>2. QED
    BY <2>1 DEF Report, Status
<1>4. case_reports' \in Seq(Report)
  BY <1>1, <1>2, <1>3, SMT
<1>5. DOMAIN case_reports' = DOMAIN case_reports
  BY <1>1, <1>2
<1>6. ASSUME NEW q \in DOMAIN case_reports
      PROVE  /\ case_reports'[q].export_id = case_reports[q].export_id
             /\ case_reports'[q].status = IF q = r THEN s ELSE case_reports[q].status
  <2>1. case_reports[q] \in Report
    BY <1>1, SMT
  <2>2. QED
    BY <1>1, <1>2, <2>1 DEF Report
<1>7. RowInv'
  <2>1. (\A q \in DOMAIN case_reports :
            /\ case_reports[q].export_id \in 0..Len(evidence_exports)
            /\ case_reports[q].status = "COMPLETED" => Signed(case_reports[q].export_id))'
    BY <1>1, <1>5, <1>6 DEF TableInv, RowInv, Signed
  <2>2. QED
    BY <1>5, <2>1 DEF TableInv, RowInv, Signed
<1>8. PackageIffCompleted'
  BY <1>1, <1>5, <1>6, SMT DEF TableInv, PackageIffCompleted, stored
<1>9. SignedInFull' /\ NumberedInOrder'
  BY SMT DEF TableInv, SignedInFull, NumberedInOrder, stored
<1>10. QED
  BY <1>4, <1>5, <1>6, <1>7, <1>8, <1>9 DEF TableInv

Undecided == {"GENERATING", "CANCEL_REQUESTED", "CANCELLED"}

\* What the new status s of the report r asks of a worker v that stays.
Bears(v, r, s) ==
    job[v].id = r => /\ job[v].stage \notin {"REPORT", "NUMBERING"}
                     /\ Generates(v) => s \in Undecided

\* What a change of the status of r to s leaves as it is.
Restated(r, s) ==
    /\ DOMAIN case_reports' = DOMAIN case_reports
    /\ \A q \in DOMAIN case_reports :
          /\ case_reports'[q].export_id = case_reports[q].export_id
          /\ case_reports'[q].status = IF q = r THEN s ELSE case_reports[q].status
    /\ UNCHANGED <<evidence_exports, ledger>>

\* A worker that bears the new status knows as much as before.
LEMMA ReportStays ==
    ASSUME NEW v \in Workers, JobOK(v), job'[v] = job[v], NEW r, NEW s, Bears(v, r, s), Restated(r, s)
    PROVE  JobOK(v)'
<1> USE DEF Restated
<1>1. (InExport(v) => job[v].id \in DOMAIN evidence_exports /\ ~Signed(job[v].id))'
  BY DEF JobOK, InExport, Signed
<1>2. (job[v].stage = "REPORT" => IsReport(job[v].id, Selectable))'
  BY DEF JobOK, Bears, IsReport
<1>3. (job[v].stage = "NUMBERING" => /\ IsReport(job[v].id, {"QUEUED", "WAITING_FOR_EXPORT"})
                                     /\ job[v].n \in 1..(Len(evidence_exports) + 1))'
  BY DEF JobOK, Bears, IsReport
<1>4. (Generates(v) => /\ IsReport(job[v].id, {"GENERATING", "CANCEL_REQUESTED", "CANCELLED"})
                       /\ Signed(case_reports[job[v].id].export_id))'
  BY DEF JobOK, Bears, IsReport, Generates, Signed, Undecided
<1>5. /\ (job[v].stage = "EXPORT_FAILING" => job[v].id \in DOMAIN evidence_exports)'
      /\ (job[v].stage = "EXPORT_STORING" => job[v].n = Len(ledger))'
      /\ (job[v].stage = "STORING" => job[v].n \in 1..(Len(ledger) + 1))'
      /\ (job[v].stage = "STORED" => job[v].n = Len(ledger) + 1)'
  BY DEF JobOK
<1>6. QED
  BY <1>1, <1>2, <1>3, <1>4, <1>5 DEF JobOK

\* The status of a report changes and the worker w moves to j: the invariant
\* is kept if the other workers bear the new status.
LEMMA ReportMoves ==
    ASSUME Inv, NEW w \in Workers, NEW j, Moves(w, j),
           NEW r, NEW s, IsReport(r, Status \ {"COMPLETED"}), s \in Status \ {"COMPLETED"},
           set_report(r, s), UNCHANGED <<evidence_exports, ledger, events>>,
           \A v \in Workers \ {w} : Bears(v, r, s), JobOK(w)'
    PROVE  Inv'
<1>1. /\ job' \in [Workers -> Job] /\ Locks'
      /\ \A v \in Workers \ {w} : job'[v] = job[v]
  BY LocksMove DEF Inv
<1>2. /\ case_reports' \in Seq(Report) /\ TableInv'
      /\ DOMAIN case_reports' = DOMAIN case_reports
      /\ \A q \in DOMAIN case_reports :
            /\ case_reports'[q].export_id = case_reports[q].export_id
            /\ case_reports'[q].status = IF q = r THEN s ELSE case_reports[q].status
  BY ReportTables DEF Inv
<1>3. TypeOK'
  BY <1>1, <1>2 DEF Inv, TypeOK
<1>4. ASSUME NEW v \in Workers \ {w} PROVE JobOK(v)'
  <2>1. job'[v] = job[v] /\ JobOK(v) /\ Bears(v, r, s)
    BY <1>1 DEF Inv
  <2>2. Restated(r, s)
    BY <1>2 DEF Restated
  <2>3. QED
    BY <2>1, <2>2, ReportStays
<1>5. QED
  BY <1>1, <1>2, <1>3, <1>4 DEF Inv

\* A worker gives its last word on a report and rests.
LEMMA ReportRests ==
    ASSUME Inv, NEW w \in Workers, rests(w),
           NEW r, NEW s, IsReport(r, Status \ {"COMPLETED"}), s \in Status \ {"COMPLETED"},
           set_report(r, s), UNCHANGED <<evidence_exports, ledger, events>>,
           \A v \in Workers \ {w} : Bears(v, r, s)
    PROVE  Inv'
<1>1. Moves(w, Idle)
  BY Resting
<1>2. job'[w] = Idle
  BY <1>1, LocksMove DEF Inv
<1>3. JobOK(w)'
  BY <1>2, IdleKnowsNothing
<1>4. QED
  BY <1>1, <1>3, ReportMoves

\* While w holds the row of a report, no other worker reads it, and none
\* generates it unless it is GENERATING or its cancellation is under way.
LEMMA HeldReport ==
    ASSUME Inv, NEW w \in Workers, NEW v \in Workers \ {w}, job[v].id = job[w].id
    PROVE  /\ InReport(w) => job[v].stage \notin {"REPORT", "NUMBERING"}
           /\ ~report_locked(job[w].id) => job[v].stage \notin {"REPORT", "NUMBERING"}
           /\ Generates(w) => ~Generates(v)
           /\ Generates(v) => IsReport(job[w].id, Undecided)
<1>1. InReport(w) => ~InReport(v)
  BY DEF Inv, Locks, LockInv
<1>2. ~report_locked(job[w].id) => ~InReport(v)
  BY DEF report_locked, InReport
<1>3. job[v].stage \in {"REPORT", "NUMBERING"} => InReport(v)
  BY DEF InReport, HoldsReport
<1>4. Generates(w) => ~Generates(v)
  BY DEF Inv, Locks, OneGenerator, Generates
<1>5. Generates(v) => IsReport(job[w].id, Undecided)
  BY DEF Inv, JobOK, Undecided
<1>6. QED
  BY <1>1, <1>2, <1>3, <1>4, <1>5

----------------------------------------------------------------------------
(* Steps that change exports or the ledger *)

\* An export whose status becomes PENDING or FAILED keeps its signature.
LEMMA ExportTables ==
    ASSUME TypeOK, TableInv, NEW e \in DOMAIN evidence_exports, NEW s \in {"PENDING", "FAILED"},
           set_export(e, s), UNCHANGED <<case_reports, ledger>>
    PROVE  /\ evidence_exports' \in Seq(Export)
           /\ TableInv'
           /\ DOMAIN evidence_exports' = DOMAIN evidence_exports
           /\ Len(evidence_exports') = Len(evidence_exports)
           /\ \A f \in DOMAIN evidence_exports :
                 evidence_exports'[f].signed = evidence_exports[f].signed
<1>1. evidence_exports \in Seq(Export) /\ case_reports \in Seq(Report)
  BY DEF TypeOK
<1>2. evidence_exports' = [evidence_exports EXCEPT ![e] = [@ EXCEPT !.status = s]]
  BY DEF set_export
<1>3. [evidence_exports[e] EXCEPT !.status = s] \in Export
  <2>1. evidence_exports[e] \in Export
    BY <1>1, SMT
  <2>2. QED
    BY <2>1 DEF Export
<1>4. evidence_exports' \in Seq(Export)
  BY <1>1, <1>2, <1>3, SMT
<1>5. DOMAIN evidence_exports' = DOMAIN evidence_exports /\ Len(evidence_exports') = Len(evidence_exports)
  BY <1>1, <1>2, SMT
<1>6. ASSUME NEW f \in DOMAIN evidence_exports
      PROVE  /\ evidence_exports'[f].signed = evidence_exports[f].signed
             /\ evidence_exports'[f].version = evidence_exports[f].version
             /\ evidence_exports'[f].status = IF f = e THEN s ELSE evidence_exports[f].status
  <2>1. evidence_exports[f] \in Export
    BY <1>1, SMT
  <2>2. QED
    BY <1>1, <1>2, <2>1 DEF Export
<1>7. RowInv'
  <2>1. (\A f \in DOMAIN evidence_exports : evidence_exports[f].status = "VERIFIED" => Signed(f))'
    BY <1>5, <1>6 DEF TableInv, RowInv, Signed
  <2>2. (\A r \in DOMAIN case_reports :
            /\ case_reports[r].export_id \in 0..Len(evidence_exports)
            /\ case_reports[r].status = "COMPLETED" => Signed(case_reports[r].export_id))'
    BY <1>5, <1>6 DEF TableInv, RowInv, Signed
  <2>3. QED
    BY <1>5, <2>1, <2>2 DEF TableInv, RowInv
<1>8. PackageIffCompleted'
  BY <1>6, SMT DEF TableInv, RowInv, Signed, PackageIffCompleted, stored
<1>9. SignedInFull' /\ NumberedInOrder'
  BY <1>5, <1>6, SMT DEF TableInv, SignedInFull, NumberedInOrder, stored
<1>10. QED
  BY <1>4, <1>5, <1>6, <1>7, <1>8, <1>9 DEF TableInv

\* A step does not disturb v: signatures and rows that it relies on are still
\* there, and the ledger has not grown if it holds the source.
Undisturbed(v) ==
    /\ job'[v] = job[v]
    /\ 1..(Len(evidence_exports) + 1) \subseteq 1..(Len(evidence_exports') + 1)
    /\ DOMAIN evidence_exports \subseteq DOMAIN evidence_exports'
    /\ \A e \in DOMAIN evidence_exports :
          \/ evidence_exports'[e].signed = evidence_exports[e].signed
          \/ evidence_exports'[e].signed /\ ~(InExport(v) /\ job[v].id = e)
    /\ DOMAIN case_reports \subseteq DOMAIN case_reports'
    /\ \A q \in DOMAIN case_reports :
          case_reports'[q] = case_reports[q] \/ ~(job[v].id = q /\ (InReport(v) \/ Generates(v)))
    /\ InSource(v) => Len(ledger') = Len(ledger)
    /\ 1..(Len(ledger) + 1) \subseteq 1..(Len(ledger') + 1)

\* A worker that is not disturbed knows as much as before.
LEMMA Stays ==
    ASSUME NEW v \in Workers, JobOK(v), Undisturbed(v)
    PROVE  JobOK(v)'
<1> USE DEF Undisturbed
<1>1. (InExport(v) => job[v].id \in DOMAIN evidence_exports /\ ~Signed(job[v].id))'
  BY DEF JobOK, InExport, Signed
<1>2. (job[v].stage = "EXPORT_FAILING" => job[v].id \in DOMAIN evidence_exports)'
  BY DEF JobOK
<1>3. (job[v].stage = "REPORT" => IsReport(job[v].id, Selectable))'
  BY DEF JobOK, IsReport, InReport, HoldsReport
<1>4. (job[v].stage = "NUMBERING" => /\ IsReport(job[v].id, {"QUEUED", "WAITING_FOR_EXPORT"})
                                       /\ job[v].n \in 1..(Len(evidence_exports) + 1))'
  BY DEF JobOK, IsReport, InReport, HoldsReport
<1>5. (Generates(v) => /\ IsReport(job[v].id, {"GENERATING", "CANCEL_REQUESTED", "CANCELLED"})
                       /\ Signed(case_reports[job[v].id].export_id))'
  BY DEF JobOK, IsReport, Generates, Signed
<1>6. (job[v].stage = "EXPORT_STORING" => job[v].n = Len(ledger))'
  BY DEF JobOK, InSource, HoldsSource
<1>7. (job[v].stage = "STORED" => job[v].n = Len(ledger) + 1)'
  BY DEF JobOK, InSource, HoldsSource
<1>8. (job[v].stage = "STORING" => job[v].n \in 1..(Len(ledger) + 1))'
  BY DEF JobOK
<1>9. QED
  BY <1>1, <1>2, <1>3, <1>4, <1>5, <1>6, <1>7, <1>8 DEF JobOK

\* A worker rests, or none moves, while an export becomes PENDING or FAILED.
LEMMA ExportMoves ==
    ASSUME Inv, NEW e \in DOMAIN evidence_exports, NEW s \in {"PENDING", "FAILED"},
           set_export(e, s), UNCHANGED <<case_reports, ledger>>, events' \in 0..MaxEvents,
           (\E w \in Workers : rests(w)) \/ job' = job
    PROVE  Inv'
<1>1. /\ evidence_exports' \in Seq(Export) /\ TableInv'
      /\ DOMAIN evidence_exports' = DOMAIN evidence_exports
      /\ Len(evidence_exports') = Len(evidence_exports)
      /\ \A f \in DOMAIN evidence_exports :
            evidence_exports'[f].signed = evidence_exports[f].signed
  BY ExportTables DEF Inv
<1>2. ASSUME NEW v \in Workers, job'[v] = job[v] PROVE JobOK(v)'
  <2>1. JobOK(v)
    BY DEF Inv
  <2>2. Undisturbed(v)
    BY <1>1, <1>2 DEF Undisturbed
  <2>3. QED
    BY <2>1, <2>2, Stays
<1>3. CASE job' = job
  <2>1. Locks'
    BY <1>3 DEF Inv, Locks, LockInv, OneGenerator, InExport, InReport, InSource
  <2>2. TypeOK'
    BY <1>1, <1>3 DEF Inv, TypeOK
  <2>3. QED
    BY <1>1, <1>2, <1>3, <2>1, <2>2 DEF Inv
<1>4. ASSUME NEW w \in Workers, rests(w) PROVE Inv'
  <2>1. Moves(w, Idle)
    BY <1>4, Resting
  <2>2. /\ job' \in [Workers -> Job] /\ Locks' /\ job'[w] = Idle
        /\ \A v \in Workers \ {w} : job'[v] = job[v]
    BY <2>1, LocksMove DEF Inv
  <2>3. \A v \in Workers : JobOK(v)'
    BY <1>2, <2>2, IdleKnowsNothing
  <2>4. TypeOK'
    BY <1>1, <2>2 DEF Inv, TypeOK
  <2>5. QED
    BY <1>1, <2>2, <2>3, <2>4 DEF Inv
<1>5. QED
  BY <1>3, <1>4

\* A new report is QUEUED and has nothing in the ledger.
LEMMA CreateReport ==
    ASSUME Inv, create_case_report
    PROVE  Inv'
<1> DEFINE row == [status |-> "QUEUED", export_id |-> 0]
<1>1. /\ case_reports \in Seq(Report) /\ evidence_exports \in Seq(Export)
      /\ case_reports' = Append(case_reports, row)
      /\ UNCHANGED <<evidence_exports, ledger, job, events>>
  BY DEF Inv, TypeOK, create_case_report
<1>2. row \in Report
  BY DEF Report, Selectable
<1> HIDE DEF row
<1>3. /\ case_reports' \in Seq(Report)
      /\ DOMAIN case_reports' = DOMAIN case_reports \cup {Len(case_reports) + 1}
      /\ Len(case_reports) + 1 \notin DOMAIN case_reports
      /\ case_reports'[Len(case_reports) + 1] = row
      /\ \A q \in DOMAIN case_reports : case_reports'[q] = case_reports[q]
  BY <1>1, <1>2, SMT
<1>4. row.status = "QUEUED" /\ row.export_id = 0
  BY DEF row
<1>5. TypeOK' /\ Locks'
  BY <1>1, <1>3 DEF Inv, TypeOK, Locks, LockInv, OneGenerator, InExport, InReport, InSource
<1>6. ASSUME NEW v \in Workers PROVE JobOK(v)'
  <2>1. JobOK(v)
    BY DEF Inv
  <2>2. Undisturbed(v)
    BY <1>1, <1>3 DEF Undisturbed
  <2>3. QED
    BY <2>1, <2>2, Stays
<1>7. RowInv'
  <2>1. 0 \in 0..Len(evidence_exports)
    BY <1>1, SMT
  <2>2. (\A q \in DOMAIN case_reports :
            /\ case_reports[q].export_id \in 0..Len(evidence_exports)
            /\ case_reports[q].status = "COMPLETED" => Signed(case_reports[q].export_id))'
    BY <1>1, <1>3, <1>4, <2>1 DEF Inv, TableInv, RowInv, Signed
  <2>3. (\A i \in DOMAIN ledger :
            IF ledger[i].part = "REPORT" THEN ledger[i].of \in DOMAIN case_reports
                                         ELSE ledger[i].of \in DOMAIN evidence_exports)'
    BY <1>1, <1>3 DEF Inv, TableInv, RowInv
  <2>4. QED
    BY <1>1, <2>2, <2>3 DEF Inv, TableInv, RowInv, Signed
<1>8. PackageIffCompleted'
  <2>1. stored("REPORT", Len(case_reports) + 1) = {}
    BY <1>3 DEF Inv, TableInv, RowInv, stored
  <2>2. QED
    BY <1>1, <1>3, <1>4, <2>1, SMT DEF Inv, TableInv, PackageIffCompleted, stored
<1>9. SignedInFull' /\ NumberedInOrder'
  BY <1>1, SMT DEF Inv, TableInv, SignedInFull, NumberedInOrder, stored
<1>10. QED
  BY <1>5, <1>6, <1>7, <1>8, <1>9 DEF Inv, TableInv

\* The reports after an export was queued: one may now wait for it.
Awaits ==
    /\ DOMAIN case_reports' = DOMAIN case_reports
    /\ \A q \in DOMAIN case_reports :
          \/ case_reports'[q] = case_reports[q]
          \/ /\ case_reports[q].status # "COMPLETED"
             /\ case_reports'[q].status = "WAITING_FOR_EXPORT"
             /\ case_reports'[q].export_id = Len(evidence_exports) + 1

\* A new export is unsigned and has nothing in the ledger.
LEMMA ExportAppended ==
    ASSUME Inv, evidence_exports' = Append(evidence_exports, pending(Len(evidence_exports) + 1)),
           UNCHANGED ledger, Awaits
    PROVE  /\ evidence_exports' \in Seq(Export)
           /\ TableInv'
           /\ DOMAIN evidence_exports \subseteq DOMAIN evidence_exports'
           /\ 1..(Len(evidence_exports) + 1) \subseteq 1..(Len(evidence_exports') + 1)
           /\ \A e \in DOMAIN evidence_exports : evidence_exports'[e] = evidence_exports[e]
<1> DEFINE N == Len(evidence_exports) + 1
           row == pending(N)
<1>1. evidence_exports \in Seq(Export) /\ evidence_exports' = Append(evidence_exports, row)
  BY DEF Inv, TypeOK
<1>2. N \in Nat /\ N = Len(evidence_exports) + 1
  BY <1>1, SMT
<1> HIDE DEF N
<1>3. row \in Export /\ row.status = "PENDING" /\ ~row.signed /\ row.version = N
  BY <1>2 DEF pending, Export
<1> HIDE DEF row
<1>4. /\ evidence_exports' \in Seq(Export)
      /\ Len(evidence_exports') = N
      /\ DOMAIN evidence_exports' = DOMAIN evidence_exports \cup {N}
      /\ N \notin DOMAIN evidence_exports
      /\ evidence_exports'[N] = row
      /\ \A e \in DOMAIN evidence_exports : evidence_exports'[e] = evidence_exports[e]
  BY <1>1, <1>2, <1>3, SMT
<1>5. \A e \in DOMAIN evidence_exports : Signed(e) => Signed(e)'
  BY <1>4 DEF Signed
<1>6. RowInv'
  <2>1. ASSUME NEW q \in DOMAIN case_reports
        PROVE  /\ case_reports'[q].export_id \in 0..N
               /\ case_reports'[q].status = "COMPLETED" => Signed(case_reports[q].export_id)'
    <3>1. case_reports[q].export_id \in 0..Len(evidence_exports)
      BY DEF Inv, TableInv, RowInv
    <3>2. case_reports[q].status = "COMPLETED" => Signed(case_reports[q].export_id)
      BY DEF Inv, TableInv, RowInv
    <3>3. CASE case_reports'[q] = case_reports[q]
      <4>1. case_reports'[q].export_id \in 0..N
        BY <1>1, <1>2, <3>1, <3>3, SMT
      <4>2. case_reports'[q].status = "COMPLETED" => Signed(case_reports[q].export_id)'
        BY <1>4, <3>2, <3>3 DEF Signed
      <4>3. QED
        BY <4>1, <4>2
    <3>4. CASE /\ case_reports'[q].status = "WAITING_FOR_EXPORT"
               /\ case_reports'[q].export_id = N
      BY <1>2, <3>4, SMT
    <3>5. QED
      BY <1>2, <3>3, <3>4 DEF Awaits
  <2>2. (\A e \in DOMAIN evidence_exports : evidence_exports[e].status = "VERIFIED" => Signed(e))'
    BY <1>3, <1>4 DEF Inv, TableInv, RowInv, Signed
  <2>3. (\A i \in DOMAIN ledger :
            IF ledger[i].part = "REPORT" THEN ledger[i].of \in DOMAIN case_reports
                                         ELSE ledger[i].of \in DOMAIN evidence_exports)'
    BY <1>4 DEF Inv, TableInv, RowInv, Awaits
  <2>4. QED
    BY <1>4, <2>1, <2>2, <2>3 DEF RowInv, Awaits
<1>7. PackageIffCompleted'
  <2>1. ASSUME NEW q \in DOMAIN case_reports, case_reports'[q] = case_reports[q],
               case_reports[q].status = "COMPLETED"
        PROVE  evidence_exports'[case_reports[q].export_id].signed
    BY <1>4, <2>1 DEF Inv, TableInv, RowInv, Signed
  <2>2. \A q : stored("REPORT", q)' = stored("REPORT", q)
    BY DEF stored
  <2>3. ASSUME NEW q \in DOMAIN case_reports
        PROVE  (IF case_reports[q].status = "COMPLETED"
                THEN /\ \E i \in DOMAIN ledger : stored("REPORT", q) = {i}
                     /\ evidence_exports[case_reports[q].export_id].signed
                ELSE stored("REPORT", q) = {})'
    <3>1. CASE case_reports'[q] = case_reports[q]
      BY <2>1, <2>2, <3>1 DEF Inv, TableInv, PackageIffCompleted
    <3>2. CASE case_reports[q].status # "COMPLETED" /\ case_reports'[q].status = "WAITING_FOR_EXPORT"
      BY <2>2, <3>2 DEF Inv, TableInv, PackageIffCompleted
    <3>3. QED
      BY <3>1, <3>2 DEF Awaits
  <2>4. QED
    BY <2>3 DEF PackageIffCompleted, Awaits
<1>8. SignedInFull'
  <2>1. \A part \in Parts : stored(part, N) = {}
    BY <1>4 DEF Inv, TableInv, RowInv, stored, Parts
  <2>2. QED
    BY <1>3, <1>4, <2>1, SMT DEF Inv, TableInv, SignedInFull, stored
<1>9. NumberedInOrder'
  BY <1>3, <1>4 DEF Inv, TableInv, NumberedInOrder
<1>10. 1..(Len(evidence_exports) + 1) \subseteq 1..(Len(evidence_exports') + 1)
  BY <1>1, <1>2, <1>4, SMT
<1>11. QED
  BY <1>4, <1>6, <1>7, <1>8, <1>9, <1>10 DEF TableInv

\* The API queues an export.
LEMMA CreateExport ==
    ASSUME Inv, create_export
    PROVE  Inv'
<1>1. /\ evidence_exports' = Append(evidence_exports, pending(Len(evidence_exports) + 1))
      /\ UNCHANGED <<case_reports, ledger, job>>
  BY LastNumbers DEF Inv, TableInv, create_export
<1>2. events' \in 0..MaxEvents
  BY PipelineAssumption, SMT DEF Inv, TypeOK, create_export, happens
<1>3. Awaits
  BY <1>1 DEF Awaits
<1>4. /\ evidence_exports' \in Seq(Export) /\ TableInv'
      /\ DOMAIN evidence_exports \subseteq DOMAIN evidence_exports'
      /\ 1..(Len(evidence_exports) + 1) \subseteq 1..(Len(evidence_exports') + 1)
      /\ \A e \in DOMAIN evidence_exports : evidence_exports'[e] = evidence_exports[e]
  BY <1>1, <1>3, ExportAppended
<1>5. TypeOK' /\ Locks'
  BY <1>1, <1>2, <1>4 DEF Inv, TypeOK, Locks, LockInv, OneGenerator, InExport, InReport, InSource
<1>6. ASSUME NEW v \in Workers PROVE JobOK(v)'
  <2>1. JobOK(v)
    BY DEF Inv
  <2>2. Undisturbed(v)
    BY <1>1, <1>4 DEF Undisturbed
  <2>3. QED
    BY <2>1, <2>2, Stays
<1>7. QED
  BY <1>4, <1>5, <1>6 DEF Inv

\* A worker queues the export its report is to wait for.
LEMMA QueueExport ==
    ASSUME Inv, NEW w \in Workers, queue_evidence_export(w)
    PROVE  Inv'
<1> DEFINE r == job[w].id
           row == [status |-> "WAITING_FOR_EXPORT", export_id |-> Len(evidence_exports) + 1]
<1>1. CASE \E e \in DOMAIN evidence_exports : evidence_exports[e].version = job[w].n
  <2>1. rests(w) /\ UNCHANGED <<case_reports, evidence_exports, ledger, events>>
    BY <1>1 DEF queue_evidence_export
  <2>2. UNCHANGED tables /\ events' \in 0..MaxEvents
    BY <2>1 DEF tables, Inv, TypeOK
  <2>3. QED
    BY <2>1, <2>2, RestMoves
<1>2. CASE ~\E e \in DOMAIN evidence_exports : evidence_exports[e].version = job[w].n
  <2>1. /\ at(w, "NUMBERING") /\ rests(w) /\ UNCHANGED <<ledger, events>>
        /\ evidence_exports' = Append(evidence_exports, pending(job[w].n))
        /\ case_reports' = [case_reports EXCEPT ![r] = row]
    BY <1>2 DEF queue_evidence_export
  <2>2. IsReport(r, {"QUEUED", "WAITING_FOR_EXPORT"}) /\ job[w].n = Len(evidence_exports) + 1
    <3>1. /\ IsReport(r, {"QUEUED", "WAITING_FOR_EXPORT"})
          /\ job[w].n \in 1..(Len(evidence_exports) + 1)
      BY <2>1 DEF Inv, JobOK, at
    <3>2. DOMAIN evidence_exports = 1..Len(evidence_exports) /\ Len(evidence_exports) \in Nat
      BY SMT DEF Inv, TypeOK
    <3>3. job[w].n \notin DOMAIN evidence_exports
      BY <1>2 DEF Inv, TableInv, NumberedInOrder
    <3>4. QED
      BY <3>1, <3>2, <3>3, SMT
  <2>3. /\ case_reports \in Seq(Report) /\ row \in Report
        /\ row.status = "WAITING_FOR_EXPORT" /\ row.export_id = Len(evidence_exports) + 1
    BY SMT DEF Inv, TypeOK, Report, Selectable
  <2> HIDE DEF row
  <2>4. /\ case_reports' \in Seq(Report) /\ DOMAIN case_reports' = DOMAIN case_reports
        /\ case_reports'[r] = row
        /\ \A q \in DOMAIN case_reports \ {r} : case_reports'[q] = case_reports[q]
    BY <2>1, <2>2, <2>3, SMT DEF IsReport
  <2>5. Awaits
    BY <2>2, <2>3, <2>4 DEF Awaits, IsReport
  <2>6. /\ evidence_exports' \in Seq(Export) /\ TableInv'
        /\ DOMAIN evidence_exports \subseteq DOMAIN evidence_exports'
        /\ 1..(Len(evidence_exports) + 1) \subseteq 1..(Len(evidence_exports') + 1)
        /\ \A e \in DOMAIN evidence_exports : evidence_exports'[e] = evidence_exports[e]
    BY <2>1, <2>2, <2>5, ExportAppended
  <2>7. Moves(w, Idle)
    BY <2>1, Resting
  <2>8. /\ job' \in [Workers -> Job] /\ Locks' /\ job'[w] = Idle
        /\ \A v \in Workers \ {w} : job'[v] = job[v]
    BY <2>7, LocksMove DEF Inv
  <2>9. ASSUME NEW v \in Workers \ {w} PROVE JobOK(v)'
    <3>1. JobOK(v)
      BY DEF Inv
    <3>2. InReport(w)
      BY <2>1 DEF at, InReport, HoldsReport
    <3>3. ~(job[v].id = r /\ InReport(v))
      BY <3>2 DEF Inv, Locks, LockInv
    <3>4. ~(job[v].id = r /\ Generates(v))
      BY <2>2, <3>1 DEF JobOK, IsReport
    <3>5. Undisturbed(v)
      BY <2>1, <2>4, <2>6, <2>8, <3>3, <3>4 DEF Undisturbed
    <3>6. QED
      BY <3>1, <3>5, Stays
  <2>10. JobOK(w)'
    BY <2>8, IdleKnowsNothing
  <2>11. TypeOK'
    BY <2>1, <2>4, <2>6, <2>8 DEF Inv, TypeOK
  <2>12. QED
    BY <2>6, <2>8, <2>9, <2>10, <2>11 DEF Inv
<1>3. QED
  BY <1>1, <1>2

AppendsFour(l, m, a, b, c, d) ==
    /\ l \in Seq(Evidence) /\ m = l \o <<a, b, c, d>>
    /\ a \in Evidence /\ b \in Evidence /\ c \in Evidence /\ d \in Evidence

HasFourMore(l, m, a, b, c, d) ==
    /\ m \in Seq(Evidence) /\ Len(l) \in Nat /\ Len(m) = Len(l) + 4
    /\ DOMAIN l = 1..Len(l) /\ DOMAIN m = 1..(Len(l) + 4)
    /\ \A i \in DOMAIN l : m[i] = l[i]
    /\ m[Len(l) + 1] = a /\ m[Len(l) + 2] = b /\ m[Len(l) + 3] = c /\ m[Len(l) + 4] = d

\* The four rows of an export at the end of the ledger.
LEMMA FourRows ==
    ASSUME NEW l, NEW m, NEW a, NEW b, NEW c, NEW d, AppendsFour(l, m, a, b, c, d)
    PROVE  HasFourMore(l, m, a, b, c, d)
<1> USE DEF AppendsFour, HasFourMore
<1>1. <<a, b, c, d>> \in Seq(Evidence) /\ Len(<<a, b, c, d>>) = 4
  BY SMT
<1>2. m \in Seq(Evidence) /\ Len(m) = Len(l) + 4
  BY <1>1, SMT
<1>3. Len(l) \in Nat /\ DOMAIN l = 1..Len(l) /\ DOMAIN m = 1..(Len(l) + 4)
  BY <1>2, SMT
<1>4. \A i \in DOMAIN l : m[i] = l[i]
  BY <1>3, SMT
<1>5. m[Len(l) + 1] = a /\ m[Len(l) + 2] = b /\ m[Len(l) + 3] = c /\ m[Len(l) + 4] = d
  BY <1>1, <1>3, SMT
<1>6. QED
  BY <1>2, <1>3, <1>4, <1>5

\* The tables after an export is signed.
LEMMA SignedTables ==
    ASSUME Inv, NEW w \in Workers, export_commits(w)
    PROVE  /\ evidence_exports' \in Seq(Export) /\ ledger' \in Seq(Evidence)
           /\ 1..(Len(ledger) + 1) \subseteq 1..(Len(ledger') + 1)
           /\ TableInv'
           /\ DOMAIN evidence_exports' = DOMAIN evidence_exports
           /\ Len(evidence_exports') = Len(evidence_exports)
           /\ \A f \in DOMAIN evidence_exports :
                 evidence_exports'[f].signed = IF f = job[w].id THEN TRUE ELSE evidence_exports[f].signed
<1>a. PICK e : e = job[w].id
  OBVIOUS
<1>b. PICK L : L = Len(ledger)
  OBVIOUS
<1>c. PICK row : row = [evidence_exports[e] EXCEPT !.status = "VERIFIED", !.signed = TRUE]
  OBVIOUS
<1> DEFINE a == evidence("MANIFEST", e, L + 1)
           b == evidence("SIGNATURE", e, L + 2)
           c == evidence("VERIFICATION_REPORT", e, L + 3)
           d == evidence("EXPORT", e, L + 4)
<1>1. /\ at(w, "EXPORT_STORING") /\ UNCHANGED case_reports
      /\ evidence_exports' = [evidence_exports EXCEPT ![e] = row]
      /\ ledger' = ledger \o <<evidence("MANIFEST", e, job[w].n + 1), evidence("SIGNATURE", e, job[w].n + 2),
                               evidence("VERIFICATION_REPORT", e, job[w].n + 3),
                               evidence("EXPORT", e, job[w].n + 4)>>
  BY <1>a, <1>c DEF export_commits
<1>2. e \in DOMAIN evidence_exports /\ ~evidence_exports[e].signed /\ job[w].n = L
  <2>1. job[w].stage = "EXPORT_STORING" /\ InExport(w) /\ JobOK(w)
    BY <1>1 DEF Inv, InExport, HoldsExport, at
  <2>2. QED
    BY <2>1, <1>a, <1>b DEF JobOK, Signed
<1>3. /\ evidence_exports \in Seq(Export) /\ ledger \in Seq(Evidence) /\ case_reports \in Seq(Report)
      /\ job[w] \in Job
  BY DEF Inv, TypeOK
<1>4. e \in Nat /\ L \in Nat
  BY <1>3, <1>a, <1>b, SMT DEF Job
<1>5. /\ row \in Export /\ row.status = "VERIFIED" /\ row.signed
      /\ row.version = evidence_exports[e].version
  <2>1. evidence_exports[e] \in Export
    BY <1>2, <1>3, SMT
  <2>2. QED
    BY <2>1, <1>c DEF Export
<1>6. ledger' = ledger \o <<a, b, c, d>>
  BY <1>1, <1>2
<1>7. /\ a \in Evidence /\ a.part = "MANIFEST" /\ a.of = e /\ a.source_sequence = L + 1
      /\ b \in Evidence /\ b.part = "SIGNATURE" /\ b.of = e /\ b.source_sequence = L + 2
      /\ c \in Evidence /\ c.part = "VERIFICATION_REPORT" /\ c.of = e /\ c.source_sequence = L + 3
      /\ d \in Evidence /\ d.part = "EXPORT" /\ d.of = e /\ d.source_sequence = L + 4
  BY <1>4, SMT DEF evidence, Evidence, Parts
<1> HIDE DEF a, b, c, d
<1>8. /\ ledger' \in Seq(Evidence) /\ Len(ledger') = L + 4
      /\ DOMAIN ledger = 1..L /\ DOMAIN ledger' = 1..(L + 4)
      /\ \A i \in DOMAIN ledger : ledger'[i] = ledger[i]
      /\ ledger'[L + 1] = a /\ ledger'[L + 2] = b /\ ledger'[L + 3] = c /\ ledger'[L + 4] = d
  <2>0. AppendsFour(ledger, ledger', a, b, c, d)
    BY <1>3, <1>6, <1>7 DEF AppendsFour
  <2>1. HasFourMore(ledger, ledger', a, b, c, d)
    BY <2>0, FourRows
  <2>2. QED
    BY <2>1, <1>b DEF HasFourMore
<1>9. /\ evidence_exports' \in Seq(Export) /\ DOMAIN evidence_exports' = DOMAIN evidence_exports
      /\ Len(evidence_exports') = Len(evidence_exports)
      /\ evidence_exports'[e] = row
      /\ \A f \in DOMAIN evidence_exports \ {e} : evidence_exports'[f] = evidence_exports[f]
  BY <1>1, <1>2, <1>3, <1>5, SMT
<1>10. \A i \in DOMAIN ledger' : i \in DOMAIN ledger \/ i = L + 1 \/ i = L + 2 \/ i = L + 3 \/ i = L + 4
  BY <1>4, <1>8, SMT
<1>11. /\ \A k \in {L + 1, L + 2, L + 3, L + 4} : k \in DOMAIN ledger' /\ k \notin DOMAIN ledger
       /\ L + 1 # L + 2 /\ L + 1 # L + 3 /\ L + 1 # L + 4
       /\ L + 2 # L + 3 /\ L + 2 # L + 4 /\ L + 3 # L + 4
  BY <1>4, <1>8, SMT
<1>12. RowInv'
  <2>1. (\A r \in DOMAIN case_reports :
            /\ case_reports[r].export_id \in 0..Len(evidence_exports)
            /\ case_reports[r].status = "COMPLETED" => Signed(case_reports[r].export_id))'
    BY <1>1, <1>5, <1>9 DEF Inv, TableInv, RowInv, Signed
  <2>2. (\A f \in DOMAIN evidence_exports : evidence_exports[f].status = "VERIFIED" => Signed(f))'
    BY <1>5, <1>9 DEF Inv, TableInv, RowInv, Signed
  <2>3. ASSUME NEW i \in DOMAIN ledger'
        PROVE  (IF ledger[i].part = "REPORT" THEN ledger[i].of \in DOMAIN case_reports
                                             ELSE ledger[i].of \in DOMAIN evidence_exports)'
    <3>1. CASE i \in DOMAIN ledger
      BY <1>1, <1>8, <1>9, <3>1 DEF Inv, TableInv, RowInv
    <3>2. CASE i \in {L + 1, L + 2, L + 3, L + 4}
      <4>1. ledger'[i].part # "REPORT" /\ ledger'[i].of = e
        BY <1>7, <1>8, <3>2
      <4>2. QED
        BY <1>2, <1>9, <4>1
    <3>3. QED
      BY <1>10, <3>1, <3>2
  <2>4. QED
    BY <2>1, <2>2, <2>3 DEF RowInv
<1>13. ASSUME NEW part, NEW of, of # e \/ part \notin Parts
       PROVE  stored(part, of)' = stored(part, of)
  <2>1. \A i \in {L + 1, L + 2, L + 3, L + 4} : ~(ledger'[i].part = part /\ ledger'[i].of = of)
    BY <1>7, <1>8, <1>13, SMT DEF Parts
  <2>2. ASSUME NEW i PROVE i \in stored(part, of)' <=> i \in stored(part, of)
    <3>1. CASE i \in DOMAIN ledger
      <4>1. i \in DOMAIN ledger' /\ ledger'[i] = ledger[i]
        BY <1>4, <1>8, <3>1, SMT
      <4>2. QED
        BY <3>1, <4>1 DEF stored
    <3>2. CASE i \notin DOMAIN ledger
      BY <1>10, <2>1, <3>2 DEF stored
    <3>3. QED
      BY <3>1, <3>2
  <2>3. QED
    BY <2>2
<1>14. PackageIffCompleted'
  <2>1. \A r : stored("REPORT", r)' = stored("REPORT", r)
    BY <1>13 DEF Parts
  <2>2. DOMAIN ledger \subseteq DOMAIN ledger'
    BY <1>4, <1>8, SMT
  <2>3. ASSUME NEW r \in DOMAIN case_reports, case_reports[r].status = "COMPLETED"
        PROVE  evidence_exports'[case_reports[r].export_id].signed
    BY <1>5, <1>9, <2>3 DEF Inv, TableInv, RowInv, Signed
  <2>4. QED
    BY <1>1, <2>1, <2>2, <2>3 DEF Inv, TableInv, PackageIffCompleted
<1>15. ASSUME NEW part \in Parts
       PROVE  \E i \in DOMAIN ledger' : stored(part, e)' = {i}
  <2>1. stored(part, e) = {}
    BY <1>2 DEF Inv, TableInv, SignedInFull
  <2>2. \A i \in DOMAIN ledger : ~(ledger'[i].part = part /\ ledger'[i].of = e)
    BY <1>8, <2>1 DEF stored
  <2>3. CASE part = "MANIFEST"
    <3>1. stored(part, e)' = {L + 1}
      BY <1>7, <1>8, <1>10, <1>11, <2>2, <2>3 DEF stored
    <3>2. QED
      BY <1>11, <3>1
  <2>4. CASE part = "SIGNATURE"
    <3>1. stored(part, e)' = {L + 2}
      BY <1>7, <1>8, <1>10, <1>11, <2>2, <2>4 DEF stored
    <3>2. QED
      BY <1>11, <3>1
  <2>5. CASE part = "VERIFICATION_REPORT"
    <3>1. stored(part, e)' = {L + 3}
      BY <1>7, <1>8, <1>10, <1>11, <2>2, <2>5 DEF stored
    <3>2. QED
      BY <1>11, <3>1
  <2>6. CASE part = "EXPORT"
    <3>1. stored(part, e)' = {L + 4}
      BY <1>7, <1>8, <1>10, <1>11, <2>2, <2>6 DEF stored
    <3>2. QED
      BY <1>11, <3>1
  <2>7. QED
    BY <2>3, <2>4, <2>5, <2>6 DEF Parts
<1>16. SignedInFull'
  <2>1. ASSUME NEW f \in DOMAIN evidence_exports, NEW part \in Parts
        PROVE  (IF evidence_exports[f].signed THEN \E i \in DOMAIN ledger : stored(part, f) = {i}
                                              ELSE stored(part, f) = {})'
    <3>1. CASE f = e
      BY <1>5, <1>9, <1>15, <3>1
    <3>2. CASE f # e
      <4>1. stored(part, f)' = stored(part, f) /\ evidence_exports'[f] = evidence_exports[f]
        BY <1>9, <1>13, <3>2
      <4>2. DOMAIN ledger \subseteq DOMAIN ledger'
        BY <1>4, <1>8, SMT
      <4>3. QED
        BY <4>1, <4>2 DEF Inv, TableInv, SignedInFull
    <3>3. QED
      BY <3>1, <3>2
  <2>2. QED
    BY <1>9, <2>1 DEF SignedInFull
<1>17. NumberedInOrder'
  <2>1. \A i \in DOMAIN ledger' : ledger'[i].source_sequence = i
    BY <1>7, <1>8, <1>10 DEF Inv, TableInv, NumberedInOrder
  <2>2. \A f \in DOMAIN evidence_exports' : evidence_exports'[f].version = f
    BY <1>2, <1>5, <1>9 DEF Inv, TableInv, NumberedInOrder
  <2>3. QED
    BY <2>1, <2>2 DEF NumberedInOrder
<1>18. \A f \in DOMAIN evidence_exports :
          evidence_exports'[f].signed = IF f = e THEN TRUE ELSE evidence_exports[f].signed
  <2>1. row.signed = TRUE
    BY <1>5 DEF Export
  <2>2. QED
    BY <1>9, <2>1
<1>19. 1..(Len(ledger) + 1) \subseteq 1..(Len(ledger') + 1)
  BY <1>4, <1>8, <1>b, SMT
<1>20. QED
  BY <1>8, <1>9, <1>12, <1>14, <1>16, <1>17, <1>18, <1>19, <1>a DEF TableInv

\* Signing an export disturbs no other worker: none holds this export or the
\* source.
LEMMA CommitExport ==
    ASSUME Inv, NEW w \in Workers, export_commits(w)
    PROVE  Inv'
<1>1. at(w, "EXPORT_STORING") /\ rests(w) /\ UNCHANGED <<case_reports, events>>
  BY DEF export_commits
<1>2. /\ evidence_exports' \in Seq(Export) /\ ledger' \in Seq(Evidence)
      /\ 1..(Len(ledger) + 1) \subseteq 1..(Len(ledger') + 1)
      /\ TableInv'
      /\ DOMAIN evidence_exports' = DOMAIN evidence_exports
      /\ Len(evidence_exports') = Len(evidence_exports)
      /\ \A f \in DOMAIN evidence_exports :
            evidence_exports'[f].signed = IF f = job[w].id THEN TRUE ELSE evidence_exports[f].signed
  BY SignedTables
<1>3. Moves(w, Idle)
  BY <1>1, Resting
<1>4. /\ job' \in [Workers -> Job] /\ Locks' /\ job'[w] = Idle
      /\ \A v \in Workers \ {w} : job'[v] = job[v]
  BY <1>3, LocksMove DEF Inv
<1>5. ASSUME NEW v \in Workers \ {w} PROVE JobOK(v)'
  <2>1. JobOK(v)
    BY DEF Inv
  <2>2. InExport(w) /\ InSource(w)
    BY <1>1 DEF at, InExport, InSource, HoldsExport, HoldsSource
  <2>3. ~(InExport(v) /\ job[v].id = job[w].id) /\ ~InSource(v)
    BY <2>2 DEF Inv, Locks, LockInv
  <2>4. Undisturbed(v)
    BY <1>1, <1>2, <1>4, <2>3 DEF Undisturbed
  <2>5. QED
    BY <2>1, <2>4, Stays
<1>6. JobOK(w)'
  BY <1>4, IdleKnowsNothing
<1>7. TypeOK'
  BY <1>1, <1>2, <1>4 DEF Inv, TypeOK
<1>8. QED
  BY <1>2, <1>4, <1>5, <1>6, <1>7 DEF Inv

\* Completing a report stores its package, and disturbs no other worker: none
\* holds or generates this report or holds the source.
LEMMA CommitReport ==
    ASSUME Inv, NEW w \in Workers, report_commits(w)
    PROVE  Inv'
<1>a. PICK r : r = job[w].id
  OBVIOUS
<1>b. PICK L : L = Len(ledger)
  OBVIOUS
<1>c. PICK x : x = evidence("REPORT", r, L + 1)
  OBVIOUS
<1>d. PICK row : row = [case_reports[r] EXCEPT !.status = "COMPLETED"]
  OBVIOUS
<1>1. /\ job[w].stage = "STORED" /\ rests(w) /\ UNCHANGED <<evidence_exports, events>>
      /\ ledger' = Append(ledger, evidence("REPORT", r, job[w].n))
      /\ case_reports' = [case_reports EXCEPT ![r] = row]
  BY <1>a, <1>d DEF report_commits, at, set_report
<1>2. InReport(w) /\ InSource(w) /\ Generates(w)
  BY <1>1 DEF InReport, InSource, Generates, HoldsReport, HoldsSource, Generating
<1>3. /\ r \in DOMAIN case_reports /\ case_reports[r].status # "COMPLETED"
      /\ Signed(case_reports[r].export_id) /\ job[w].n = L + 1
  BY <1>1, <1>2, <1>a, <1>b DEF Inv, JobOK, IsReport
<1>4. /\ evidence_exports \in Seq(Export) /\ ledger \in Seq(Evidence) /\ case_reports \in Seq(Report)
      /\ job[w] \in Job
  BY DEF Inv, TypeOK
<1>5. r \in Nat /\ L \in Nat
  BY <1>4, <1>a, <1>b, SMT DEF Job
<1>6. /\ row \in Report /\ row.status = "COMPLETED" /\ row.export_id = case_reports[r].export_id
  <2>1. case_reports[r] \in Report
    BY <1>3, <1>4, SMT
  <2>2. QED
    BY <2>1, <1>d DEF Report, Verdicts
<1>7. x \in Evidence /\ x.part = "REPORT" /\ x.of = r /\ x.source_sequence = L + 1
  BY <1>5, <1>c, SMT DEF evidence, Evidence
<1>8. ledger' = Append(ledger, x)
  BY <1>1, <1>3, <1>c
<1>9. /\ ledger' \in Seq(Evidence)
      /\ DOMAIN ledger' = DOMAIN ledger \cup {L + 1} /\ L + 1 \notin DOMAIN ledger
      /\ ledger'[L + 1] = x
      /\ \A i \in DOMAIN ledger : ledger'[i] = ledger[i]
  BY <1>4, <1>7, <1>8, <1>b, SMT
<1>10. /\ case_reports' \in Seq(Report) /\ DOMAIN case_reports' = DOMAIN case_reports
       /\ case_reports'[r] = row
       /\ \A q \in DOMAIN case_reports \ {r} : case_reports'[q] = case_reports[q]
  BY <1>1, <1>3, <1>4, <1>6, SMT
<1>11. RowInv'
  <2>1. (\A q \in DOMAIN case_reports :
            /\ case_reports[q].export_id \in 0..Len(evidence_exports)
            /\ case_reports[q].status = "COMPLETED" => Signed(case_reports[q].export_id))'
    BY <1>1, <1>3, <1>6, <1>10 DEF Inv, TableInv, RowInv, Signed
  <2>2. (\A i \in DOMAIN ledger :
            IF ledger[i].part = "REPORT" THEN ledger[i].of \in DOMAIN case_reports
                                         ELSE ledger[i].of \in DOMAIN evidence_exports)'
    BY <1>1, <1>3, <1>7, <1>9, <1>10, SMT DEF Inv, TableInv, RowInv
  <2>3. (\A e \in DOMAIN evidence_exports : evidence_exports[e].status = "VERIFIED" => Signed(e))'
    BY <1>1 DEF Inv, TableInv, RowInv, Signed
  <2>4. QED
    BY <2>1, <2>2, <2>3 DEF RowInv
<1>12. ASSUME NEW part, NEW of, part # "REPORT" \/ of # r
       PROVE  stored(part, of)' = stored(part, of)
  BY <1>7, <1>9, <1>12 DEF stored
<1>13. stored("REPORT", r)' = {L + 1}
  <2>1. stored("REPORT", r) = {}
    BY <1>3 DEF Inv, TableInv, PackageIffCompleted
  <2>2. \A i \in DOMAIN ledger : ~(ledger[i].part = "REPORT" /\ ledger[i].of = r)
    BY <2>1 DEF stored
  <2>3. QED
    BY <1>7, <1>9, <2>2 DEF stored
<1>14. PackageIffCompleted'
  <2>1. ASSUME NEW q \in DOMAIN case_reports
        PROVE  (IF case_reports[q].status = "COMPLETED"
                THEN /\ \E i \in DOMAIN ledger : stored("REPORT", q) = {i}
                     /\ evidence_exports[case_reports[q].export_id].signed
                ELSE stored("REPORT", q) = {})'
    <3>1. CASE q = r
      <4>1. L + 1 \in DOMAIN ledger' /\ stored("REPORT", q)' = {L + 1}
        BY <1>9, <1>13, <3>1
      <4>2. evidence_exports'[case_reports'[q].export_id].signed
        BY <1>1, <1>3, <1>6, <1>10, <3>1 DEF Signed
      <4>3. QED
        BY <1>6, <1>10, <3>1, <4>1, <4>2
    <3>2. CASE q # r
      <4>1. stored("REPORT", q)' = stored("REPORT", q)
        BY <1>12, <3>2
      <4>2. case_reports'[q] = case_reports[q] /\ evidence_exports' = evidence_exports
        BY <1>1, <1>10, <3>2
      <4>3. DOMAIN ledger \subseteq DOMAIN ledger'
        BY <1>9
      <4>4. QED
        BY <4>1, <4>2, <4>3 DEF Inv, TableInv, PackageIffCompleted
    <3>3. QED
      BY <3>1, <3>2
  <2>2. QED
    BY <1>10, <2>1 DEF PackageIffCompleted
<1>15. SignedInFull'
  <2>1. \A part \in Parts, e \in DOMAIN evidence_exports : stored(part, e)' = stored(part, e)
    BY <1>12 DEF Parts
  <2>2. DOMAIN ledger \subseteq DOMAIN ledger' /\ evidence_exports' = evidence_exports
    BY <1>1, <1>9
  <2>3. ASSUME NEW e \in DOMAIN evidence_exports, NEW part \in Parts
        PROVE  (IF evidence_exports[e].signed THEN \E i \in DOMAIN ledger : stored(part, e) = {i}
                                              ELSE stored(part, e) = {})'
    <3>1. stored(part, e)' = stored(part, e)
      BY <2>1
    <3>2. QED
      BY <2>2, <3>1 DEF Inv, TableInv, SignedInFull
  <2>4. QED
    BY <2>2, <2>3 DEF SignedInFull
<1>16. NumberedInOrder'
  BY <1>1, <1>7, <1>9 DEF Inv, TableInv, NumberedInOrder
<1>17. Moves(w, Idle)
  BY <1>1, Resting
<1>18. /\ job' \in [Workers -> Job] /\ Locks' /\ job'[w] = Idle
       /\ \A v \in Workers \ {w} : job'[v] = job[v]
  BY <1>17, LocksMove DEF Inv
<1>19. ASSUME NEW v \in Workers \ {w} PROVE JobOK(v)'
  <2>1. JobOK(v)
    BY DEF Inv
  <2>2. ~InSource(v) /\ ~(job[v].id = r /\ InReport(v))
    BY <1>2, <1>a DEF Inv, Locks, LockInv
  <2>3. ~(job[v].id = r /\ Generates(v))
    BY <1>2, <1>a DEF Inv, Locks, OneGenerator, Generates
  <2>4. 1..(Len(ledger) + 1) \subseteq 1..(Len(ledger') + 1)
    BY <1>4, <1>7, <1>8, SMT
  <2>5. Undisturbed(v)
    BY <1>1, <1>10, <1>18, <2>2, <2>3, <2>4 DEF Undisturbed
  <2>6. QED
    BY <2>1, <2>5, Stays
<1>20. JobOK(w)'
  BY <1>18, IdleKnowsNothing
<1>21. TypeOK'
  BY <1>1, <1>9, <1>10, <1>18 DEF Inv, TypeOK
<1>22. QED
  BY <1>11, <1>14, <1>15, <1>16, <1>18, <1>19, <1>20, <1>21 DEF Inv, TableInv

----------------------------------------------------------------------------
(* One lemma per action *)

\* What the stage of j asks a worker to know of the tables.
Knows(j) ==
    /\ j.stage \in HoldsExport => j.id \in DOMAIN evidence_exports /\ ~Signed(j.id)
    /\ j.stage = "EXPORT_FAILING" => j.id \in DOMAIN evidence_exports
    /\ j.stage = "REPORT" => IsReport(j.id, Selectable)
    /\ j.stage = "NUMBERING" => /\ IsReport(j.id, {"QUEUED", "WAITING_FOR_EXPORT"})
                                /\ j.n \in 1..(Len(evidence_exports) + 1)
    /\ j.stage \in Generating => /\ IsReport(j.id, Undecided)
                                 /\ Signed(case_reports[j.id].export_id)
    /\ j.stage = "EXPORT_STORING" => j.n = Len(ledger)
    /\ j.stage = "STORING" => j.n \in 1..(Len(ledger) + 1)
    /\ j.stage = "STORED" => j.n = Len(ledger) + 1

\* One more of the counted events has happened.
LEMMA Happens == ASSUME Inv, happens PROVE events' \in 0..MaxEvents
BY PipelineAssumption, SMT DEF happens, Inv, TypeOK

\* A worker that goes to a stage the others admit, knowing what it asks,
\* whether or not that counts as an event.
LEMMA GoesCounted ==
    ASSUME Inv, NEW w \in Workers, NEW j \in Job, job' = [job EXCEPT ![w] = j],
           UNCHANGED <<case_reports, evidence_exports, ledger>>, events' \in 0..MaxEvents,
           Admits(w, j), Knows(j)
    PROVE  Inv'
<1>1. Moves(w, j)
  BY DEF Moves
<1>2. job'[w] = j
  BY DEF Inv, TypeOK
<1>3. JobOK(w)'
  BY <1>2 DEF JobOK, Knows, InExport, Generates, Signed, IsReport, Undecided
<1>4. UNCHANGED tables
  BY DEF tables
<1>5. QED
  BY <1>1, <1>3, <1>4, JobMoves

\* The same for a step that counts nothing.
LEMMA GoesTo ==
    ASSUME Inv, NEW w \in Workers, NEW j \in Job, job' = [job EXCEPT ![w] = j],
           UNCHANGED <<case_reports, evidence_exports, ledger, events>>, Admits(w, j), Knows(j)
    PROVE  Inv'
<1>1. UNCHANGED <<case_reports, evidence_exports, ledger>> /\ events' \in 0..MaxEvents
  BY DEF Inv, TypeOK
<1>2. QED
  BY <1>1, GoesCounted

\* The identifiers of workers and the lengths of the tables are numbers.
LEMMA Numbers ==
    ASSUME Inv
    PROVE  /\ \A w \in Workers : job[w].id \in Nat /\ job[w].n \in Nat
           /\ Len(ledger) \in Nat /\ Len(evidence_exports) \in Nat
           /\ DOMAIN case_reports \subseteq Nat /\ DOMAIN evidence_exports \subseteq Nat
           /\ last_sequence = Len(ledger) /\ last_version = Len(evidence_exports)
<1>1. \A w \in Workers : job[w] \in Job
  BY DEF Inv, TypeOK
<1>2. \A w \in Workers : job[w].id \in Nat /\ job[w].n \in Nat
  BY <1>1 DEF Job
<1>3. /\ Len(ledger) \in Nat /\ Len(evidence_exports) \in Nat
      /\ DOMAIN case_reports \subseteq Nat /\ DOMAIN evidence_exports \subseteq Nat
  BY SMT DEF Inv, TypeOK
<1>4. last_sequence = Len(ledger) /\ last_version = Len(evidence_exports)
  BY LastNumbers DEF Inv, TableInv
<1>5. QED
  BY <1>2, <1>3, <1>4

\* select_export takes an unsigned export that no other worker holds.
LEMMA SelectExport ==
    ASSUME Inv, NEW w \in Workers, select_export(w)
    PROVE  Inv'
<1>1. UNCHANGED <<case_reports, evidence_exports, ledger, events>>
  BY DEF select_export
<1>2. CASE goes(w, "REPORTS", 0, 0)
  <2>1. PICK j : j = [stage |-> "REPORTS", id |-> 0, n |-> 0]
    OBVIOUS
  <2>2. j \in Job /\ job' = [job EXCEPT ![w] = j] /\ j.stage = "REPORTS"
    BY <1>2, <2>1 DEF goes, Job, Stages
  <2>3. Admits(w, j) /\ Knows(j)
    BY <2>2 DEF Admits, Knows, HoldsExport, HoldsReport, HoldsSource, Generating
  <2>4. QED
    BY <1>1, <2>2, <2>3, GoesTo
<1>3. ASSUME NEW e \in DOMAIN evidence_exports, e \in free_exports, goes(w, "EXPORTING", e, 0)
      PROVE  Inv'
  <2>1. PICK j : j = [stage |-> "EXPORTING", id |-> e, n |-> 0]
    OBVIOUS
  <2>2. j \in Job /\ job' = [job EXCEPT ![w] = j] /\ j.stage = "EXPORTING" /\ j.id = e
    BY <1>3, <2>1, Numbers DEF goes, Job, Stages, HoldsExport
  <2>3. ~Signed(e) /\ ~export_locked(e)
    BY <1>3 DEF free_exports, Signed
  <2>4. Admits(w, j)
    BY <2>2, <2>3 DEF Admits, HoldsExport, HoldsReport, HoldsSource, Generating, export_locked, InExport
  <2>5. Knows(j)
    BY <2>2, <2>3 DEF Knows, HoldsExport, Generating
  <2>6. QED
    BY <1>1, <2>2, <2>4, <2>5, GoesTo
<1>4. QED
  BY <1>2, <1>3 DEF select_export, oldest

\* A rolled-back export leaves the worker with nothing but its identifier.
LEMMA ExportFails ==
    ASSUME Inv, NEW w \in Workers, export_fails(w)
    PROVE  Inv'
<1>1. PICK j : j = [stage |-> "EXPORT_FAILING", id |-> job[w].id, n |-> 0]
  OBVIOUS
<1>2. /\ j \in Job /\ job' = [job EXCEPT ![w] = j] /\ j.stage = "EXPORT_FAILING" /\ j.id = job[w].id
      /\ UNCHANGED <<case_reports, evidence_exports, ledger>> /\ events' \in 0..MaxEvents
  BY <1>1, Numbers, Happens DEF export_fails, goes, Job, Stages
<1>3. job[w].id \in DOMAIN evidence_exports
  BY DEF export_fails, Inv, JobOK, InExport
<1>4. Admits(w, j) /\ Knows(j)
  BY <1>2, <1>3 DEF Admits, Knows, HoldsExport, HoldsReport, HoldsSource, Generating
<1>5. QED
  BY <1>2, <1>4, GoesCounted

\* The sequence read under the source's lock is the length of the ledger.
LEMMA ExportNumbers ==
    ASSUME Inv, NEW w \in Workers, export_numbers(w)
    PROVE  Inv'
<1>1. PICK j : j = [stage |-> "EXPORT_STORING", id |-> job[w].id, n |-> Len(ledger)]
  OBVIOUS
<1>2. /\ j \in Job /\ job' = [job EXCEPT ![w] = j]
      /\ j.stage = "EXPORT_STORING" /\ j.id = job[w].id /\ j.n = Len(ledger)
      /\ UNCHANGED <<case_reports, evidence_exports, ledger, events>>
  BY <1>1, Numbers DEF export_numbers, goes, Job, Stages, HoldsExport
<1>3. InExport(w) /\ ~source_locked
  BY DEF export_numbers, at, InExport, HoldsExport
<1>4. Admits(w, j)
  BY <1>2, <1>3 DEF Admits, HoldsExport, HoldsReport, HoldsSource, Generating,
                    source_locked, InSource, Inv, Locks, LockInv
<1>5. Knows(j)
  BY <1>2, <1>3 DEF Knows, HoldsExport, Generating, Inv, JobOK
<1>6. QED
  BY <1>2, <1>4, <1>5, GoesTo

\* select_report takes a report that waits for a worker and is not held.
LEMMA SelectReport ==
    ASSUME Inv, NEW w \in Workers, select_report(w)
    PROVE  Inv'
<1>1. UNCHANGED <<case_reports, evidence_exports, ledger, events>>
  BY DEF select_report
<1>2. CASE rests(w)
  <2>1. UNCHANGED tables /\ events' \in 0..MaxEvents
    BY <1>1 DEF tables, Inv, TypeOK
  <2>2. QED
    BY <1>2, <2>1, RestMoves
<1>3. ASSUME NEW r \in DOMAIN case_reports, r \in free_reports, goes(w, "REPORT", r, 0)
      PROVE  Inv'
  <2>1. PICK j : j = [stage |-> "REPORT", id |-> r, n |-> 0]
    OBVIOUS
  <2>2. j \in Job /\ job' = [job EXCEPT ![w] = j] /\ j.stage = "REPORT" /\ j.id = r
    BY <1>3, <2>1, Numbers DEF goes, Job, Stages, HoldsReport
  <2>3. IsReport(r, Selectable) /\ ~report_locked(r)
    BY <1>3 DEF free_reports, IsReport
  <2>4. Admits(w, j)
    BY <2>2, <2>3 DEF Admits, HoldsExport, HoldsReport, HoldsSource, Generating, report_locked, InReport
  <2>5. Knows(j)
    BY <2>2, <2>3 DEF Knows, HoldsExport, Generating
  <2>6. QED
    BY <1>1, <2>2, <2>4, <2>5, GoesTo
<1>4. QED
  BY <1>2, <1>3 DEF select_report, oldest

\* A worker that proceeds holds a report nobody has asked to cancel.
LEMMA Proceeding ==
    ASSUME Inv, NEW w \in Workers, proceeds(w)
    PROVE  InReport(w) /\ IsReport(job[w].id, {"QUEUED", "WAITING_FOR_EXPORT"})
<1>1. job[w].stage = "REPORT" /\ case_reports[job[w].id].status # "CANCEL_REQUESTED"
  BY DEF proceeds, at
<1>2. IsReport(job[w].id, Selectable)
  BY <1>1 DEF Inv, JobOK
<1>3. QED
  BY <1>1, <1>2 DEF InReport, HoldsReport, IsReport, Selectable

\* The version is read without a lock; it is at most one above the last.
LEMMA ExportVersion ==
    ASSUME Inv, NEW w \in Workers, export_version(w)
    PROVE  Inv'
<1>1. PICK j : j = [stage |-> "NUMBERING", id |-> job[w].id, n |-> Len(evidence_exports) + 1]
  OBVIOUS
<1>2. /\ j \in Job /\ job' = [job EXCEPT ![w] = j]
      /\ j.stage = "NUMBERING" /\ j.id = job[w].id /\ j.n = Len(evidence_exports) + 1
      /\ UNCHANGED <<case_reports, evidence_exports, ledger, events>>
  <2>1. /\ Len(evidence_exports) + 1 \in Nat /\ job[w].id \in Nat
        /\ last_version = Len(evidence_exports)
    BY Numbers, SMT
  <2>2. "NUMBERING" \in Stages
    BY DEF Stages, HoldsReport
  <2>3. QED
    BY <1>1, <2>1, <2>2 DEF export_version, goes, Job
<1>3. InReport(w) /\ IsReport(job[w].id, {"QUEUED", "WAITING_FOR_EXPORT"})
  BY Proceeding DEF export_version
<1>4. Admits(w, j)
  BY <1>2, <1>3 DEF Admits, HoldsExport, HoldsReport, HoldsSource, Generating, Inv, Locks, LockInv
<1>5. j.n \in 1..(Len(evidence_exports) + 1)
  BY <1>2, Numbers, SMT
<1>6. Knows(j)
  BY <1>2, <1>3, <1>5 DEF Knows, HoldsExport, Generating
<1>7. QED
  BY <1>2, <1>4, <1>6, GoesTo

\* A report that a worker holds before it generates gets its verdict, or
\* GENERATING: no other worker has anything to do with it.
LEMMA HeldBears ==
    ASSUME Inv, NEW w \in Workers, InReport(w), NEW s,
           IsReport(job[w].id, {"QUEUED", "WAITING_FOR_EXPORT"}) \/ s \in Undecided
    PROVE  \A v \in Workers \ {w} : Bears(v, job[w].id, s)
<1> SUFFICES ASSUME NEW v \in Workers \ {w}, job[v].id = job[w].id
             PROVE  /\ job[v].stage \notin {"REPORT", "NUMBERING"}
                    /\ Generates(v) => s \in Undecided
  BY DEF Bears
<1>1. /\ InReport(w) => job[v].stage \notin {"REPORT", "NUMBERING"}
      /\ Generates(v) => IsReport(job[w].id, Undecided)
  BY HeldReport
<1>2. QED
  BY <1>1 DEF IsReport, Undecided

\* _set_cancelled before the report is generated.
LEMMA ReportCancelled ==
    ASSUME Inv, NEW w \in Workers, report_cancelled(w)
    PROVE  Inv'
<1>1. /\ job[w].stage = "REPORT" /\ set_report(job[w].id, "CANCELLED") /\ rests(w)
      /\ UNCHANGED <<evidence_exports, ledger, events>>
  BY DEF report_cancelled, at
<1>2. InReport(w) /\ IsReport(job[w].id, Selectable)
  BY <1>1 DEF InReport, HoldsReport, Inv, JobOK
<1>3. IsReport(job[w].id, Status \ {"COMPLETED"}) /\ "CANCELLED" \in Status \ {"COMPLETED"}
  BY <1>2 DEF IsReport, Status, Selectable, Verdicts
<1>4. "CANCELLED" \in Undecided
  BY DEF Undecided
<1>5. \A v \in Workers \ {w} : Bears(v, job[w].id, "CANCELLED")
  BY <1>2, <1>4, HeldBears
<1>6. QED
  BY <1>1, <1>3, <1>5, ReportRests

\* A held report fails before it is generated: by its timeout or its export.
LEMMA HeldFails ==
    ASSUME Inv, NEW w \in Workers, proceeds(w), set_report(job[w].id, "FAILED"), rests(w),
           UNCHANGED <<evidence_exports, ledger, events>>
    PROVE  Inv'
<1>1. InReport(w) /\ IsReport(job[w].id, {"QUEUED", "WAITING_FOR_EXPORT"})
  BY Proceeding
<1>2. IsReport(job[w].id, Status \ {"COMPLETED"}) /\ "FAILED" \in Status \ {"COMPLETED"}
  BY <1>1 DEF IsReport, Status, Selectable, Verdicts
<1>3. \A v \in Workers \ {w} : Bears(v, job[w].id, "FAILED")
  BY <1>1, HeldBears
<1>4. QED
  BY <1>2, <1>3, ReportRests

\* A report whose export is PENDING is left for the next round.
LEMMA ExportAwaited ==
    ASSUME Inv, NEW w \in Workers, export_awaited(w)
    PROVE  Inv'
<1>1. proceeds(w) /\ rests(w) /\ UNCHANGED <<evidence_exports, ledger, events>>
  BY DEF export_awaited
<1>2. CASE set_report(job[w].id, "FAILED")
  BY <1>1, <1>2, HeldFails
<1>3. CASE UNCHANGED case_reports
  <2>1. UNCHANGED tables /\ events' \in 0..MaxEvents
    BY <1>1, <1>3 DEF tables, Inv, TypeOK
  <2>2. QED
    BY <1>1, <2>1, RestMoves
<1>4. QED
  BY <1>2, <1>3 DEF export_awaited

\* GENERATING is given to a held report whose export is signed, and which no
\* other worker generates.
LEMMA ReportGenerates ==
    ASSUME Inv, NEW w \in Workers, report_generates(w)
    PROVE  Inv'
<1>1. PICK j : j = [stage |-> "GENERATING", id |-> job[w].id, n |-> 0]
  OBVIOUS
<1>2. /\ proceeds(w) /\ set_report(job[w].id, "GENERATING") /\ job' = [job EXCEPT ![w] = j]
      /\ UNCHANGED <<evidence_exports, ledger, events>>
      /\ case_reports[job[w].id].export_id # 0
      /\ evidence_exports[case_reports[job[w].id].export_id].status = "VERIFIED"
  BY <1>1 DEF report_generates, goes
<1>3. j \in Job /\ j.stage = "GENERATING" /\ j.id = job[w].id
  BY <1>1, Numbers DEF Job, Stages, Generating
<1>4. InReport(w) /\ IsReport(job[w].id, {"QUEUED", "WAITING_FOR_EXPORT"})
  BY <1>2, Proceeding
<1>5. Signed(case_reports[job[w].id].export_id)
  <2>1. case_reports[job[w].id].export_id \in 0..Len(evidence_exports)
    BY <1>4 DEF IsReport, Inv, TableInv, RowInv
  <2>2. DOMAIN evidence_exports = 1..Len(evidence_exports) /\ Len(evidence_exports) \in Nat
    BY SMT DEF Inv, TypeOK
  <2>3. case_reports[job[w].id].export_id \in DOMAIN evidence_exports
    BY <1>2, <2>1, <2>2, SMT
  <2>4. QED
    BY <1>2, <2>3 DEF Inv, TableInv, RowInv
<1>6. ASSUME NEW v \in Workers \ {w} PROVE ~(Generates(v) /\ job[v].id = job[w].id)
  <2>1. Generates(v) /\ job[v].id = job[w].id => IsReport(job[w].id, Undecided)
    BY HeldReport
  <2>2. QED
    BY <1>4, <2>1 DEF IsReport, Undecided
<1>7. Admits(w, j)
  BY <1>3, <1>6 DEF Admits, HoldsExport, HoldsReport, HoldsSource
<1>8. Moves(w, j)
  BY <1>2, <1>3, <1>7 DEF Moves
<1>9. IsReport(job[w].id, Status \ {"COMPLETED"}) /\ "GENERATING" \in Status \ {"COMPLETED"}
  BY <1>4 DEF IsReport, Status, Selectable, Verdicts
<1>10. \A v \in Workers \ {w} : Bears(v, job[w].id, "GENERATING")
  BY <1>4, HeldBears
<1>11. JobOK(w)'
  <2>1. job'[w] = j
    BY <1>8, LocksMove DEF Inv
  <2>2. /\ DOMAIN case_reports' = DOMAIN case_reports
        /\ \A q \in DOMAIN case_reports :
              /\ case_reports'[q].export_id = case_reports[q].export_id
              /\ case_reports'[q].status = IF q = job[w].id THEN "GENERATING" ELSE case_reports[q].status
    BY <1>2, <1>9, ReportTables DEF Inv
  <2>3. (/\ IsReport(job[w].id, {"GENERATING", "CANCEL_REQUESTED", "CANCELLED"})
         /\ Signed(case_reports[job[w].id].export_id))'
    <3>1. job'[w].id = job[w].id /\ job[w].id \in DOMAIN case_reports
      BY <1>3, <1>4, <2>1 DEF IsReport
    <3>2. /\ case_reports'[job[w].id].status = "GENERATING"
          /\ case_reports'[job[w].id].export_id = case_reports[job[w].id].export_id
      BY <2>2, <3>1
    <3>3. Signed(case_reports[job[w].id].export_id)'
      BY <1>2, <1>5, <3>1, <3>2 DEF Signed
    <3>4. QED
      BY <2>2, <3>1, <3>2, <3>3 DEF IsReport
  <2>4. (job'[w]).stage = "GENERATING"
    BY <1>3, <2>1
  <2>5. QED
    BY <2>3, <2>4 DEF JobOK, InExport, HoldsExport
<1>12. QED
  BY <1>2, <1>8, <1>9, <1>10, <1>11, ReportMoves

\* A generating worker's last word is CANCELLED or FAILED, on a row nobody
\* else holds: the other workers do not generate this report.
LEMMA GeneratorRests ==
    ASSUME Inv, NEW w \in Workers, Generates(w), ~report_locked(job[w].id),
           NEW s \in {"CANCELLED", "FAILED"}, set_report(job[w].id, s), rests(w),
           UNCHANGED <<evidence_exports, ledger, events>>
    PROVE  Inv'
<1>1. IsReport(job[w].id, Status \ {"COMPLETED"}) /\ s \in Status \ {"COMPLETED"}
  BY DEF Inv, JobOK, IsReport, Status, Selectable, Verdicts
<1>2. ASSUME NEW v \in Workers \ {w} PROVE Bears(v, job[w].id, s)
  <2> SUFFICES ASSUME job[v].id = job[w].id
               PROVE  job[v].stage \notin {"REPORT", "NUMBERING"} /\ ~Generates(v)
    BY DEF Bears
  <2>1. QED
    BY HeldReport
<1>3. QED
  BY <1>1, <1>2, ReportRests

\* The recheck cancels, or takes the row and the next number.
LEMMA ReportRechecks ==
    ASSUME Inv, NEW w \in Workers, report_rechecks(w)
    PROVE  Inv'
<1>1. /\ job[w].stage = "GENERATING" /\ ~report_locked(job[w].id)
      /\ UNCHANGED <<evidence_exports, ledger, events>>
  BY DEF report_rechecks, at
<1>2. Generates(w)
  BY <1>1 DEF Generates, Generating
<1>3. CASE set_report(job[w].id, "CANCELLED") /\ rests(w)
  BY <1>1, <1>2, <1>3, GeneratorRests
<1>4. CASE goes(w, "STORING", job[w].id, last_sequence + 1) /\ UNCHANGED case_reports
  <2>1. PICK j : j = [stage |-> "STORING", id |-> job[w].id, n |-> Len(ledger) + 1]
    OBVIOUS
  <2>2. /\ Len(ledger) + 1 \in Nat /\ job[w].id \in Nat /\ last_sequence = Len(ledger)
        /\ Len(ledger) + 1 \in 1..(Len(ledger) + 1)
    BY Numbers, SMT
  <2>3. "STORING" \in Stages
    BY DEF Stages, HoldsReport
  <2>4. /\ j \in Job /\ job' = [job EXCEPT ![w] = j]
        /\ j.stage = "STORING" /\ j.id = job[w].id /\ j.n = Len(ledger) + 1
    BY <1>4, <2>1, <2>2, <2>3 DEF goes, Job
  <2>5. Admits(w, j)
    BY <1>1, <1>2, <2>4 DEF Admits, HoldsExport, HoldsReport, HoldsSource, report_locked,
                            InReport, Generates, Inv, Locks, OneGenerator
  <2>6. Knows(j)
    BY <1>2, <2>2, <2>4 DEF Knows, HoldsExport, Generating, Inv, JobOK, Undecided
  <2>7. QED
    BY <1>1, <1>4, <2>4, <2>5, <2>6, GoesTo
<1>5. QED
  BY <1>3, <1>4 DEF report_rechecks

\* A rolled-back generation leaves the worker its identifier.
LEMMA GoesFailing ==
    ASSUME Inv, NEW w \in Workers, Generates(w), goes(w, "FAILING", job[w].id, 0),
           UNCHANGED <<case_reports, evidence_exports, ledger>>, events' \in 0..MaxEvents
    PROVE  Inv'
<1>1. PICK j : j = [stage |-> "FAILING", id |-> job[w].id, n |-> 0]
  OBVIOUS
<1>2. j \in Job /\ job' = [job EXCEPT ![w] = j] /\ j.stage = "FAILING" /\ j.id = job[w].id
  BY <1>1, Numbers DEF goes, Job, Stages, Generating
<1>3. Admits(w, j)
  BY <1>2 DEF Admits, HoldsExport, HoldsReport, HoldsSource, Generates, Inv, Locks, OneGenerator
<1>4. Knows(j)
  BY <1>2 DEF Knows, HoldsExport, Generating, Inv, JobOK, Undecided
<1>5. QED
  BY <1>2, <1>3, <1>4, GoesCounted

\* acquire accepts a number above the last one, which is then the next one.
LEMMA Acquire ==
    ASSUME Inv, NEW w \in Workers, acquire(w)
    PROVE  Inv'
<1>1. /\ job[w].stage = "STORING" /\ ~source_locked
      /\ UNCHANGED <<case_reports, evidence_exports, ledger, events>>
  BY DEF acquire, at
<1>2. Generates(w) /\ InReport(w)
  BY <1>1 DEF Generates, Generating, InReport, HoldsReport
<1>3. CASE goes(w, "FAILING", job[w].id, 0)
  <2>1. events' \in 0..MaxEvents
    BY <1>1 DEF Inv, TypeOK
  <2>2. QED
    BY <1>1, <1>2, <1>3, <2>1, GoesFailing
<1>4. CASE job[w].n > last_sequence /\ goes(w, "STORED", job[w].id, job[w].n)
  <2>1. PICK j : j = [stage |-> "STORED", id |-> job[w].id, n |-> job[w].n]
    OBVIOUS
  <2>2. j \in Job /\ job' = [job EXCEPT ![w] = j] /\ j.stage = "STORED" /\ j.id = job[w].id /\ j.n = job[w].n
    BY <1>4, <2>1, Numbers DEF goes, Job, Stages, HoldsReport
  <2>3. job[w].n = Len(ledger) + 1
    <3>1. job[w].n \in 1..(Len(ledger) + 1)
      BY <1>1 DEF Inv, JobOK
    <3>2. QED
      BY <1>4, <3>1, Numbers, SMT
  <2>4. Admits(w, j)
    BY <1>1, <1>2, <2>2 DEF Admits, HoldsExport, source_locked, InSource, InReport,
                            Generates, Inv, Locks, LockInv, OneGenerator
  <2>5. Knows(j)
    BY <1>2, <2>2, <2>3 DEF Knows, HoldsExport, Generating, Inv, JobOK, Undecided
  <2>6. QED
    BY <1>1, <2>2, <2>4, <2>5, GoesTo
<1>5. QED
  BY <1>3, <1>4 DEF acquire

\* A cancellation reaches a row that is not held: whoever generates the
\* report finds CANCEL_REQUESTED.
LEMMA CancelReport ==
    ASSUME Inv, NEW r \in DOMAIN case_reports, cancel_case_report(r)
    PROVE  Inv'
<1>1. PICK s : s = IF case_reports[r].status \in {"QUEUED", "WAITING_FOR_EXPORT"}
                   THEN "CANCELLED" ELSE "CANCEL_REQUESTED"
  OBVIOUS
<1>2. /\ ~report_locked(r) /\ case_reports[r].status \notin Verdicts /\ set_report(r, s)
      /\ UNCHANGED <<evidence_exports, ledger, job, events>>
  BY <1>1 DEF cancel_case_report
<1>3. s \in Undecided
  BY <1>1 DEF Undecided
<1>4. IsReport(r, Status \ {"COMPLETED"}) /\ s \in Status \ {"COMPLETED"}
  <2>1. case_reports[r] \in Report
    BY SMT DEF Inv, TypeOK
  <2>2. case_reports[r].status \in Status
    BY <2>1 DEF Report, Status
  <2>3. QED
    BY <1>2, <1>3, <2>2 DEF IsReport, Verdicts, Undecided, Status, Selectable
<1>5. /\ case_reports' \in Seq(Report) /\ TableInv'
      /\ DOMAIN case_reports' = DOMAIN case_reports
      /\ \A q \in DOMAIN case_reports :
            /\ case_reports'[q].export_id = case_reports[q].export_id
            /\ case_reports'[q].status = IF q = r THEN s ELSE case_reports[q].status
  BY <1>2, <1>4, ReportTables DEF Inv
<1>6. Restated(r, s)
  BY <1>2, <1>5 DEF Restated
<1>7. ASSUME NEW v \in Workers PROVE JobOK(v)'
  <2>1. JobOK(v) /\ job'[v] = job[v]
    BY <1>2 DEF Inv
  <2>2. Bears(v, r, s)
    BY <1>2, <1>3 DEF Bears, report_locked, HoldsReport
  <2>3. QED
    BY <1>6, <2>1, <2>2, ReportStays
<1>8. TypeOK' /\ Locks'
  BY <1>2, <1>5 DEF Inv, TypeOK, Locks, LockInv, OneGenerator, InExport, InReport, InSource
<1>9. QED
  BY <1>5, <1>7, <1>8 DEF Inv

----------------------------------------------------------------------------
(* The invariant *)

\* The empty tables and idle workers satisfy the invariant.
LEMMA InitInv == Init => Inv
<1> SUFFICES ASSUME Init PROVE Inv
  OBVIOUS
<1>1. /\ case_reports = <<>> /\ evidence_exports = <<>> /\ ledger = <<>> /\ events = 0
      /\ job = [w \in Workers |-> Idle]
  BY DEF Init, Idle
<1>2. Idle \in Job /\ Idle.stage = "IDLE"
  BY DEF Idle, Job, Stages
<1>3. TypeOK
  BY <1>1, <1>2, PipelineAssumption, SMT DEF TypeOK
<1>4. \A w \in Workers : job[w].stage = "IDLE"
  BY <1>1, <1>2
<1>5. Locks
  BY <1>4 DEF Locks, LockInv, OneGenerator, InExport, InReport, InSource,
              HoldsExport, HoldsReport, HoldsSource, Generating
<1>6. \A w \in Workers : JobOK(w)
  BY <1>4 DEF JobOK, InExport, Generates, HoldsExport, Generating
<1>7. TableInv
  BY <1>1, SMT DEF TableInv, RowInv, PackageIffCompleted, SignedInFull, NumberedInOrder
<1>8. QED
  BY <1>3, <1>5, <1>6, <1>7 DEF Inv

\* Every step of a worker that exports preserves the invariant.
LEMMA ExportsInv ==
    ASSUME Inv, NEW w \in Workers, exports(w)
    PROVE  Inv'
<1>1. CASE select_export(w)
  BY <1>1, SelectExport
<1>2. CASE export_not_eligible(w)
  <2>1. /\ set_export(job[w].id, "FAILED") /\ rests(w)
        /\ UNCHANGED <<case_reports, ledger>> /\ InExport(w)
    BY <1>2 DEF export_not_eligible, at, InExport, HoldsExport
  <2>2. job[w].id \in DOMAIN evidence_exports
    BY <2>1 DEF Inv, JobOK
  <2>3. events' \in 0..MaxEvents
    BY <1>2, Happens DEF export_not_eligible
  <2>4. QED
    BY <2>1, <2>2, <2>3, ExportMoves
<1>3. CASE export_fails(w)
  BY <1>3, ExportFails
<1>4. CASE export_records_failure(w)
  <2>1. /\ set_export(job[w].id, "FAILED") /\ rests(w)
        /\ UNCHANGED <<case_reports, ledger, events>> /\ job[w].stage = "EXPORT_FAILING"
    BY <1>4 DEF export_records_failure, at
  <2>2. job[w].id \in DOMAIN evidence_exports
    BY <2>1 DEF Inv, JobOK
  <2>3. events' \in 0..MaxEvents
    BY <2>1 DEF Inv, TypeOK
  <2>4. QED
    BY <2>1, <2>2, <2>3, ExportMoves
<1>5. CASE export_numbers(w)
  BY <1>5, ExportNumbers
<1>6. CASE export_commits(w)
  BY <1>6, CommitExport
<1>7. QED
  BY <1>1, <1>2, <1>3, <1>4, <1>5, <1>6 DEF exports

\* Every step of a worker on a report preserves the invariant.
LEMMA ReportsInv ==
    ASSUME Inv, NEW w \in Workers, process_next_report(w)
    PROVE  Inv'
<1>1. CASE select_report(w)
  BY <1>1, SelectReport
<1>2. CASE report_cancelled(w)
  BY <1>2, ReportCancelled
<1>3. CASE report_times_out(w)
  BY <1>3, HeldFails DEF report_times_out
<1>4. CASE export_version(w)
  BY <1>4, ExportVersion
<1>5. CASE queue_evidence_export(w)
  BY <1>5, QueueExport
<1>6. CASE export_awaited(w)
  BY <1>6, ExportAwaited
<1>7. CASE report_generates(w)
  BY <1>7, ReportGenerates
<1>8. CASE report_rechecks(w)
  BY <1>8, ReportRechecks
<1>9. CASE acquire(w)
  BY <1>9, Acquire
<1>10. CASE report_commits(w)
  BY <1>10, CommitReport
<1>11. CASE report_fails(w)
  BY <1>11, GoesFailing, Happens DEF report_fails, Generates
<1>12. CASE set_failed(w)
  <2>1. Generates(w)
    BY <1>12 DEF set_failed, at, Generates, Generating
  <2>2. QED
    BY <1>12, <2>1, GeneratorRests DEF set_failed
<1>13. QED
  BY <1>1, <1>2, <1>3, <1>4, <1>5, <1>6, <1>7, <1>8, <1>9, <1>10, <1>11, <1>12
     DEF process_next_report

\* Every step of the system preserves the invariant.
LEMMA NextInv == Inv /\ [Next]_vars => Inv'
<1> SUFFICES ASSUME Inv, [Next]_vars PROVE Inv'
  OBVIOUS
<1>1. CASE create_case_report
  BY <1>1, CreateReport
<1>2. CASE create_export
  BY <1>2, CreateExport
<1>3. ASSUME NEW r \in DOMAIN case_reports, cancel_case_report(r) PROVE Inv'
  BY <1>3, CancelReport
<1>4. ASSUME NEW e \in DOMAIN evidence_exports, request_export_verification(e) PROVE Inv'
  <2>1. set_export(e, "PENDING") /\ UNCHANGED <<case_reports, ledger, job>>
    BY <1>4 DEF request_export_verification
  <2>2. events' \in 0..MaxEvents
    BY <1>4, Happens DEF request_export_verification
  <2>3. QED
    BY <2>1, <2>2, ExportMoves
<1>5. ASSUME NEW w \in Workers, run(w) PROVE Inv'
  BY <1>5, ExportsInv, ReportsInv DEF run
<1>6. ASSUME NEW w \in Workers, crash(w) PROVE Inv'
  <2>1. rests(w) /\ UNCHANGED tables
    BY <1>6 DEF crash, tables
  <2>2. events' \in 0..MaxEvents
    BY <1>6, Happens DEF crash
  <2>3. QED
    BY <2>1, <2>2, RestMoves
<1>7. CASE UNCHANGED vars
  <2>1. /\ case_reports' = case_reports /\ evidence_exports' = evidence_exports /\ ledger' = ledger
        /\ job' = job /\ events' = events
    BY <1>7 DEF vars
  <2>2. TypeOK' /\ Locks'
    BY <2>1 DEF Inv, TypeOK, Locks, LockInv, OneGenerator, InExport, InReport, InSource
  <2>3. ASSUME NEW w \in Workers PROVE JobOK(w)'
    BY <2>1 DEF Inv, JobOK, InExport, Generates, Signed, IsReport
  <2>4. TableInv'
    BY <2>1, SameTables DEF Inv, tables
  <2>5. QED
    BY <2>2, <2>3, <2>4 DEF Inv
<1>8. QED
  BY <1>1, <1>2, <1>3, <1>4, <1>5, <1>6, <1>7 DEF Next, api

\* The invariant holds in every reachable state.
THEOREM Invariance == Spec => []Inv
  BY InitInv, NextInv, PTL DEF Spec

\* The tables stay well typed.
THEOREM TypeCorrect == Spec => []TypeOK
<1>1. Inv => TypeOK
  BY DEF Inv
<1>2. QED
  BY <1>1, Invariance, PTL

\* At most one worker generates a report at any time.
THEOREM Exclusive == Spec => []OneGenerator
<1>1. Inv => OneGenerator
  BY DEF Inv, Locks
<1>2. QED
  BY <1>1, Invariance, PTL

\* A report has exactly one package if it is COMPLETED, and else none.
THEOREM Packages == Spec => []PackageIffCompleted
<1>1. Inv => PackageIffCompleted
  BY DEF Inv, TableInv
<1>2. QED
  BY <1>1, Invariance, PTL

\* An export is signed exactly when its four parts are stored, once each.
THEOREM Signatures == Spec => []SignedInFull
<1>1. Inv => SignedInFull
  BY DEF Inv, TableInv
<1>2. QED
  BY <1>1, Invariance, PTL

\* Evidence and export versions are numbered without gaps or repetitions.
THEOREM Numbering == Spec => []NumberedInOrder
<1>1. Inv => NumberedInOrder
  BY DEF Inv, TableInv
<1>2. QED
  BY <1>1, Invariance, PTL

----------------------------------------------------------------------------
(* Verdicts *)

Final ==
    \A r \in DOMAIN case_reports :
        /\ case_reports[r].status \in Verdicts
        /\ case_reports'[r].status # case_reports[r].status
        => /\ case_reports[r].status = "CANCELLED"
           /\ \E w \in Workers : job[w].stage \in Generating /\ job[w].id = r

\* A change of one report's row is no change of a verdict if the row had
\* none, or if a worker that still generates the report makes it.
LEMMA OneRow ==
    ASSUME Inv, NEW r, \A q \in DOMAIN case_reports \ {r} : case_reports'[q] = case_reports[q],
           \/ IsReport(r, Selectable)
           \/ \E w \in Workers : Generates(w) /\ job[w].id = r
    PROVE  Final
<1>1. \A w \in Workers : Generates(w) => IsReport(job[w].id, Undecided)
  BY DEF Inv, JobOK, Undecided
<1>2. ASSUME NEW q \in DOMAIN case_reports, case_reports[q].status \in Verdicts,
             case_reports'[q].status # case_reports[q].status
      PROVE  /\ case_reports[q].status = "CANCELLED"
             /\ \E w \in Workers : job[w].stage \in Generating /\ job[w].id = q
  <2>1. q = r
    BY <1>2
  <2>2. ~IsReport(r, Selectable)
    BY <1>2, <2>1 DEF IsReport, Selectable, Verdicts
  <2>3. PICK w \in Workers : Generates(w) /\ job[w].id = r
    BY <2>2
  <2>4. IsReport(r, Undecided)
    BY <1>1, <2>3
  <2>5. QED
    BY <1>2, <2>1, <2>3, <2>4 DEF IsReport, Undecided, Verdicts, Generates
<1>3. QED
  BY <1>2 DEF Final

\* set_report writes one row.
LEMMA SetsOneRow ==
    ASSUME Inv, NEW r, NEW s, set_report(r, s)
    PROVE  \A q \in DOMAIN case_reports \ {r} : case_reports'[q] = case_reports[q]
  BY DEF set_report, Inv, TypeOK

\* No step of a worker on a report changes a verdict it may not change.
LEMMA ReportsFinal ==
    ASSUME Inv, NEW w \in Workers, process_next_report(w)
    PROVE  Final
<1>1. CASE UNCHANGED case_reports
  BY <1>1 DEF Final
<1>2. ASSUME NEW s, set_report(job[w].id, s), job[w].stage = "REPORT" \/ Generates(w) PROVE Final
  <2>1. IsReport(job[w].id, Selectable) \/ Generates(w)
    BY <1>2 DEF Inv, JobOK
  <2>2. \A q \in DOMAIN case_reports \ {job[w].id} : case_reports'[q] = case_reports[q]
    BY <1>2, SetsOneRow
  <2>3. QED
    BY <2>1, <2>2, OneRow
<1>3. CASE select_report(w) \/ export_version(w) \/ acquire(w) \/ report_fails(w)
  BY <1>1, <1>3 DEF select_report, export_version, acquire, report_fails
<1>4. CASE report_cancelled(w)
  BY <1>2, <1>4 DEF report_cancelled, at
<1>5. CASE report_times_out(w)
  BY <1>2, <1>5 DEF report_times_out, proceeds, at
<1>6. CASE queue_evidence_export(w)
  <2>1. IsReport(job[w].id, Selectable)
    BY <1>6 DEF queue_evidence_export, at, Inv, JobOK, IsReport, Selectable
  <2>2. \A q \in DOMAIN case_reports \ {job[w].id} : case_reports'[q] = case_reports[q]
    BY <1>6 DEF queue_evidence_export, Inv, TypeOK
  <2>3. QED
    BY <2>1, <2>2, OneRow
<1>7. CASE export_awaited(w)
  BY <1>1, <1>2, <1>7 DEF export_awaited, proceeds, at
<1>8. CASE report_generates(w)
  BY <1>2, <1>8 DEF report_generates, proceeds, at
<1>9. CASE report_rechecks(w)
  BY <1>1, <1>2, <1>9 DEF report_rechecks, at, Generates, Generating
<1>10. CASE report_commits(w)
  BY <1>2, <1>10 DEF report_commits, at, Generates, Generating
<1>11. CASE set_failed(w)
  BY <1>2, <1>11 DEF set_failed, at, Generates, Generating
<1>12. QED
  BY <1>3, <1>4, <1>5, <1>6, <1>7, <1>8, <1>9, <1>10, <1>11 DEF process_next_report

\* A verdict is final, but for CANCELLED while a worker still generates.
THEOREM VerdictsFinal == Spec => VerdictIsFinal
<1>1. Inv /\ [Next]_vars => [Final]_vars
  <2> SUFFICES ASSUME Inv, Next PROVE Final
    BY DEF vars
  <2>1. CASE create_case_report
    BY <2>1, SMT DEF create_case_report, Final, Inv, TypeOK
  <2>2. CASE UNCHANGED case_reports
    BY <2>2 DEF Final
  <2>3. ASSUME NEW r \in DOMAIN case_reports, cancel_case_report(r) PROVE Final
    <3>1. case_reports[r].status \notin Verdicts
      BY <2>3 DEF cancel_case_report
    <3>2. \A q \in DOMAIN case_reports \ {r} : case_reports'[q] = case_reports[q]
      BY <2>3, SetsOneRow DEF cancel_case_report
    <3>3. QED
      BY <3>1, <3>2 DEF Final
  <2>4. ASSUME NEW w \in Workers, exports(w) PROVE UNCHANGED case_reports
    BY <2>4 DEF exports, select_export, export_not_eligible, export_fails,
                export_records_failure, export_numbers, export_commits
  <2>5. ASSUME NEW w \in Workers, process_next_report(w) PROVE Final
    BY <2>5, ReportsFinal
  <2>6. QED
    BY <2>1, <2>2, <2>3, <2>4, <2>5
       DEF Next, api, run, create_export, request_export_verification, crash
<1>2. VerdictIsFinal <=> [][Final]_vars
  BY DEF VerdictIsFinal, Final
<1>3. QED
  BY <1>1, <1>2, Invariance, PTL DEF Spec

----------------------------------------------------------------------------
(* The environment controller's rollback *)

\* The disk as the controller finds it: an absent file has no time, and a file
\* in the decoy directory needs the directory.
ServiceStates == {"OFF", "PROFILE", "WRAPPED"}
MarkerNames == {"snapshot", "session_concluded", "shutdown_requested"}

DiskState ==
    [file : [Paths -> Nat], time : [Paths -> Nat], dir : BOOLEAN,
     service : ServiceStates, programdata : SUBSET MarkerNames]

Tidy(d) ==
    /\ d \in DiskState
    /\ \A p \in Paths : d.file[p] = 0 => d.time[p] = 0
    /\ d.file["d/f"] # 0 => d.dir

\* The types that reversible speaks of.
UndoTypes == {"PLACE_ARTIFACT", "MOVE_ARTIFACT", "CREATE_DECOY_DIRECTORY",
              "CHANGE_VISIBLE_METADATA", "ENABLE_DECOY_SERVICE"}

\* d is the disk with these five parts.
IsDisk(d, f, t, x, s, m) ==
    /\ d \in DiskState
    /\ d.file = f /\ d.time = t /\ d.dir = x /\ d.service = s /\ d.programdata = m

LEMMA DiskParts ==
    ASSUME NEW d \in DiskState
    PROVE  /\ IsDisk(d, d.file, d.time, d.dir, d.service, d.programdata)
           /\ d.file \in [Paths -> Nat] /\ d.time \in [Paths -> Nat] /\ d.dir \in BOOLEAN
           /\ d.service \in ServiceStates /\ d.programdata \in SUBSET MarkerNames
BY DEF DiskState, IsDisk

LEMMA SameParts ==
    ASSUME NEW f, NEW t, NEW x, NEW s, NEW m, NEW d, NEW e,
           IsDisk(d, f, t, x, s, m), IsDisk(e, f, t, x, s, m)
    PROVE  d = e
BY SMT DEF DiskState, IsDisk

LEMMA WithFile ==
    ASSUME NEW f, NEW t, NEW x, NEW s, NEW m, NEW d, IsDisk(d, f, t, x, s, m),
           NEW p \in Paths, NEW n \in Nat, NEW u \in Nat
    PROVE  IsDisk(with_file(d, p, n, u), [f EXCEPT ![p] = n], [t EXCEPT ![p] = u],
                  x \/ p = "d/f", s, m)
BY DEF with_file, DiskState, IsDisk

LEMMA WithoutFile ==
    ASSUME NEW f, NEW t, NEW x, NEW s, NEW m, NEW d, IsDisk(d, f, t, x, s, m), NEW p \in Paths
    PROVE  IsDisk(without_file(d, p), [f EXCEPT ![p] = 0], [t EXCEPT ![p] = 0], x, s, m)
BY DEF without_file, DiskState, IsDisk

LEMMA SetPart ==
    ASSUME NEW f, NEW t, NEW x, NEW s, NEW m, NEW d, IsDisk(d, f, t, x, s, m)
    PROVE  /\ \A y \in BOOLEAN : IsDisk([d EXCEPT !.dir = y], f, t, y, s, m)
           /\ \A y \in [Paths -> Nat] : IsDisk([d EXCEPT !.time = y], f, y, x, s, m)
           /\ \A y \in ServiceStates :
                 IsDisk([d EXCEPT !.service = y], f, t, x, y, m)
           /\ \A y \in SUBSET MarkerNames : IsDisk([d EXCEPT !.programdata = y], f, t, x, s, y)
BY DEF DiskState, IsDisk

\* A value overwritten and put back, and two values moved and moved back.
LEMMA PutBack ==
    ASSUME NEW S, NEW T, NEW f \in [S -> T], NEW p \in S, NEW x
    PROVE  [[f EXCEPT ![p] = x] EXCEPT ![p] = f[p]] = f
OBVIOUS

LEMMA Overwritten ==
    ASSUME NEW S, NEW T, NEW f \in [S -> T], NEW p \in S
    PROVE  [f EXCEPT ![p] = f[p]] = f
OBVIOUS

LEMMA MovedBack ==
    ASSUME NEW S, NEW T, NEW f \in [S -> T], NEW p \in S, NEW q \in S, p # q
    PROVE  /\ [[f EXCEPT ![p] = f[q]] EXCEPT ![q] = f[p]][q] = f[p]
           /\ [[[[f EXCEPT ![p] = f[q]] EXCEPT ![q] = f[p]] EXCEPT ![q] = f[q]] EXCEPT ![p] = f[p]]
                 = f
OBVIOUS

\* The five actions, each undone by its own definition.
LEMMA UndoPlace ==
    ASSUME NEW b, Tidy(b), NEW p \in Paths, b.file[p] = 0, p = "d/f" => b.dir
    PROVE  without_file(with_file(b, p, 1, 0), p) = b
<1> DEFINE f == b.file
           t == b.time
           x == b.dir
           a == with_file(b, p, 1, 0)
           e == without_file(a, p)
<1>1. /\ IsDisk(b, f, t, x, b.service, b.programdata)
      /\ f \in [Paths -> Nat] /\ t \in [Paths -> Nat] /\ x \in BOOLEAN /\ f[p] = 0 /\ t[p] = 0
      /\ p = "d/f" => x
  BY DiskParts DEF Tidy
<1> HIDE DEF f, t, x
<1>2. IsDisk(a, [f EXCEPT ![p] = 1], [t EXCEPT ![p] = 0], x \/ p = "d/f", b.service, b.programdata)
  <2>1. 0 \in Nat /\ 1 \in Nat
    BY SMT
  <2> QED
    BY <1>1, <2>1, WithFile
<1> HIDE DEF a
<1>3. IsDisk(e, [[f EXCEPT ![p] = 1] EXCEPT ![p] = 0], [[t EXCEPT ![p] = 0] EXCEPT ![p] = 0],
             x \/ p = "d/f", b.service, b.programdata)
  BY <1>2, WithoutFile
<1> HIDE DEF e
<1>4. [[f EXCEPT ![p] = 1] EXCEPT ![p] = f[p]] = f /\ [[t EXCEPT ![p] = 0] EXCEPT ![p] = t[p]] = t
  BY <1>1, PutBack
<1>5. (x \/ p = "d/f") = x
  BY <1>1
<1>6. IsDisk(e, f, t, x, b.service, b.programdata)
  BY <1>1, <1>3, <1>4, <1>5
<1>7. e = b
  BY <1>1, <1>6, SameParts
<1> QED
  BY <1>7 DEF a, e

LEMMA UndoMove ==
    ASSUME NEW b, Tidy(b), NEW p \in Paths, NEW q \in Paths, p # q,
           b.file[p] # 0, b.file[q] = 0, q = "d/f" => b.dir
    PROVE  /\ moved(b, p, q).file[q] # 0
           /\ moved(moved(b, p, q), q, p) = b
<1> DEFINE f == b.file
           t == b.time
           x == b.dir
           w == without_file(b, p)
           a == with_file(w, q, f[p], t[p])
           v == without_file(a, q)
           e == with_file(v, p, a.file[q], a.time[q])
<1>1. /\ IsDisk(b, f, t, x, b.service, b.programdata)
      /\ f \in [Paths -> Nat] /\ t \in [Paths -> Nat] /\ x \in BOOLEAN
      /\ f[p] # 0 /\ f[q] = 0 /\ t[q] = 0 /\ (q = "d/f" => x) /\ (p = "d/f" => x)
  BY DiskParts DEF Tidy
<1>2. moved(b, p, q) = a /\ moved(a, q, p) = e
  BY DEF moved
<1> HIDE DEF f, t, x
<1>3. f[p] \in Nat /\ t[p] \in Nat
  BY <1>1
<1>4. IsDisk(w, [f EXCEPT ![p] = f[q]], [t EXCEPT ![p] = t[q]], x, b.service, b.programdata)
  <2>1. IsDisk(w, [f EXCEPT ![p] = 0], [t EXCEPT ![p] = 0], x, b.service, b.programdata)
    BY <1>1, WithoutFile
  <2> QED
    BY <1>1, <2>1
<1> HIDE DEF w
<1> DEFINE fa == [[f EXCEPT ![p] = f[q]] EXCEPT ![q] = f[p]]
           ta == [[t EXCEPT ![p] = t[q]] EXCEPT ![q] = t[p]]
<1>5. IsDisk(a, fa, ta, x \/ q = "d/f", b.service, b.programdata)
  BY <1>3, <1>4, WithFile
<1> HIDE DEF a
<1>6. a.file[q] = f[p] /\ a.time[q] = t[p]
  <2>1. a.file = fa /\ a.time = ta
    BY <1>5 DEF IsDisk
  <2>2. fa[q] = f[p] /\ ta[q] = t[p]
    BY <1>1, MovedBack
  <2> QED
    BY <2>1, <2>2
<1>7. IsDisk(v, [fa EXCEPT ![q] = f[q]], [ta EXCEPT ![q] = t[q]], x \/ q = "d/f",
             b.service, b.programdata)
  <2> HIDE DEF fa, ta
  <2>1. IsDisk(v, [fa EXCEPT ![q] = 0], [ta EXCEPT ![q] = 0], x \/ q = "d/f",
               b.service, b.programdata)
    BY <1>5, WithoutFile
  <2> QED
    BY <1>1, <2>1
<1> HIDE DEF v
<1>8. IsDisk(e, [[fa EXCEPT ![q] = f[q]] EXCEPT ![p] = f[p]],
             [[ta EXCEPT ![q] = t[q]] EXCEPT ![p] = t[p]],
             (x \/ q = "d/f") \/ p = "d/f", b.service, b.programdata)
  <2> HIDE DEF fa, ta
  <2>1. e = with_file(v, p, f[p], t[p])
    BY <1>6
  <2> HIDE DEF e
  <2>2. IsDisk(with_file(v, p, f[p], t[p]), [[fa EXCEPT ![q] = f[q]] EXCEPT ![p] = f[p]],
               [[ta EXCEPT ![q] = t[q]] EXCEPT ![p] = t[p]],
               (x \/ q = "d/f") \/ p = "d/f", b.service, b.programdata)
    BY <1>3, <1>7, WithFile
  <2> QED
    BY <2>1, <2>2
<1> HIDE DEF e
<1>9. /\ [[fa EXCEPT ![q] = f[q]] EXCEPT ![p] = f[p]] = f
      /\ [[ta EXCEPT ![q] = t[q]] EXCEPT ![p] = t[p]] = t
  BY <1>1, MovedBack
<1> HIDE DEF fa, ta
<1>10. ((x \/ q = "d/f") \/ p = "d/f") = x
  BY <1>1
<1>11. IsDisk(e, f, t, x, b.service, b.programdata)
  BY <1>8, <1>9, <1>10
<1>12. e = b
  BY <1>1, <1>11, SameParts
<1> QED
  BY <1>1, <1>2, <1>6, <1>12

LEMMA UndoDirectory ==
    ASSUME NEW b, Tidy(b), ~b.dir
    PROVE  [without_file([b EXCEPT !.dir = TRUE], "d/f") EXCEPT !.dir = FALSE] = b
<1> DEFINE f == b.file
           t == b.time
           a == [b EXCEPT !.dir = TRUE]
           v == without_file(a, "d/f")
           e == [v EXCEPT !.dir = FALSE]
<1>1. /\ IsDisk(b, f, t, b.dir, b.service, b.programdata) /\ b.dir \in BOOLEAN
      /\ f \in [Paths -> Nat] /\ t \in [Paths -> Nat] /\ "d/f" \in Paths
      /\ f["d/f"] = 0 /\ t["d/f"] = 0
  BY DiskParts DEF Tidy, Paths
<1>2. IsDisk(b, f, t, FALSE, b.service, b.programdata)
  <2>1. b.dir = FALSE
    BY <1>1
  <2> QED
    BY <1>1, <2>1
<1> HIDE DEF f, t
<1>3. IsDisk(a, f, t, TRUE, b.service, b.programdata)
  BY <1>2, SetPart
<1> HIDE DEF a
<1>4. IsDisk(v, [f EXCEPT !["d/f"] = 0], [t EXCEPT !["d/f"] = 0], TRUE, b.service, b.programdata)
  BY <1>1, <1>3, WithoutFile
<1> HIDE DEF v
<1>5. [f EXCEPT !["d/f"] = f["d/f"]] = f /\ [t EXCEPT !["d/f"] = t["d/f"]] = t
  BY <1>1, Overwritten
<1>6. IsDisk(v, f, t, TRUE, b.service, b.programdata)
  BY <1>1, <1>4, <1>5
<1>7. IsDisk(e, f, t, FALSE, b.service, b.programdata)
  BY <1>6, SetPart
<1> HIDE DEF e
<1>8. e = b
  BY <1>2, <1>7, SameParts
<1> QED
  BY <1>8 DEF a, v, e

LEMMA UndoMetadata ==
    ASSUME NEW b, Tidy(b), NEW p \in Paths
    PROVE  LET a == [b EXCEPT !.time = [@ EXCEPT ![p] = 1]]
           IN  /\ a.file = b.file
               /\ [a EXCEPT !.time = [@ EXCEPT ![p] = b.time[p]]] = b
<1> DEFINE t == b.time
           a == [b EXCEPT !.time = [@ EXCEPT ![p] = 1]]
           e == [a EXCEPT !.time = [@ EXCEPT ![p] = b.time[p]]]
<1>1. /\ IsDisk(b, b.file, t, b.dir, b.service, b.programdata)
      /\ t \in [Paths -> Nat]
  BY DiskParts DEF Tidy
<1>2. a = [b EXCEPT !.time = [t EXCEPT ![p] = 1]]
  OBVIOUS
<1>3. e = [a EXCEPT !.time = [a.time EXCEPT ![p] = t[p]]]
  OBVIOUS
<1> HIDE DEF t, a
<1>4. [t EXCEPT ![p] = 1] \in [Paths -> Nat]
  <2>1. 1 \in Nat
    BY SMT
  <2> QED
    BY <1>1, <2>1
<1>5. IsDisk(a, b.file, [t EXCEPT ![p] = 1], b.dir, b.service, b.programdata)
  BY <1>1, <1>2, <1>4, SetPart
<1>6. a.time = [t EXCEPT ![p] = 1] /\ a.file = b.file
  BY <1>5 DEF IsDisk
<1>7. [a.time EXCEPT ![p] = t[p]] = t
  BY <1>1, <1>6, PutBack
<1> HIDE DEF e
<1>8. IsDisk(e, b.file, t, b.dir, b.service, b.programdata)
  <2>1. IsDisk([a EXCEPT !.time = t], b.file, t, b.dir, b.service, b.programdata)
    BY <1>1, <1>5, SetPart
  <2> QED
    BY <1>3, <1>7, <2>1
<1>9. e = b
  BY <1>1, <1>8, SameParts
<1> QED
  BY <1>6, <1>9 DEF a, e, t

LEMMA UndoService ==
    ASSUME NEW b, Tidy(b), b.service = "OFF"
    PROVE  [[b EXCEPT !.service = "PROFILE"] EXCEPT !.service = "OFF"] = b
<1> DEFINE a == [b EXCEPT !.service = "PROFILE"]
           e == [a EXCEPT !.service = "OFF"]
<1>1. IsDisk(b, b.file, b.time, b.dir, "OFF", b.programdata)
  BY DiskParts DEF Tidy
<1>5. "OFF" \in ServiceStates /\ "PROFILE" \in ServiceStates
  BY DEF ServiceStates
<1>2. IsDisk(a, b.file, b.time, b.dir, "PROFILE", b.programdata)
  BY <1>1, <1>5, SetPart
<1> HIDE DEF a
<1>3. IsDisk(e, b.file, b.time, b.dir, "OFF", b.programdata)
  BY <1>2, <1>5, SetPart
<1> HIDE DEF e
<1>4. e = b
  BY <1>1, <1>3, SameParts
<1> QED
  BY <1>4 DEF a, e

\* What a handler may return for a rollback.
Rollbacks ==
    [kind : {"delete_file"}, path : Paths \cup {Outside}]
        \cup [kind : {"move_file"}, path : Paths, destination : Paths]
        \cup [kind : {"restore_metadata"}, path : Paths, prior_state : {0, 1}]
        \cup [kind : {"enable_decoy_service"}, prior_state : ServiceStates]
        \cup [kind : {"delete_directory", "disable_decoy_service", "noop"}]

LEMMA CommandFields ==
    ASSUME NEW c \in Commands
    PROVE  /\ c.type = "PLACE_ARTIFACT" => c.path \in Paths \cup {Outside}
           /\ c.type = "MOVE_ARTIFACT" => c.path \in Paths /\ c.destination \in Paths
           /\ c.type = "CHANGE_VISIBLE_METADATA" => c.path \in Paths /\ c.prior_state \in {0, 1}
           /\ c.type \in UndoTypes \cup Markers \cup
                 {"DISPLAY_MESSAGE", "DISABLE_DECOY_SERVICE", "SOFT_RESET", "FULL_REBUILD"}
BY SMT DEF Commands, UndoTypes, Markers

LEMMA RollbackFields ==
    ASSUME NEW r \in Rollbacks
    PROVE  /\ r.kind = "delete_file" => r.path \in Paths \cup {Outside}
           /\ r.kind = "move_file" => r.path \in Paths /\ r.destination \in Paths
           /\ r.kind = "restore_metadata" => r.path \in Paths /\ r.prior_state \in {0, 1}
           /\ r.kind \in {"delete_file", "move_file", "restore_metadata", "enable_decoy_service",
                          "delete_directory", "disable_decoy_service", "noop"}
BY SMT DEF Rollbacks

LEMMA RollbackType ==
    ASSUME NEW d \in DiskState, NEW c \in Commands
    PROVE  rollback_definition(d, c) \in Rollbacks
<1>1. d.service \in ServiceStates
  BY DEF DiskState
<1>2. CASE c.type = "PLACE_ARTIFACT"
  BY <1>2, CommandFields DEF rollback_definition, Rollbacks
<1>3. CASE c.type = "MOVE_ARTIFACT"
  BY <1>3, CommandFields DEF rollback_definition, Rollbacks, Markers, move_back
<1>4. CASE c.type = "CHANGE_VISIBLE_METADATA"
  BY <1>4, CommandFields DEF rollback_definition, Rollbacks, Markers
<1>5. CASE c.type = "CREATE_DECOY_DIRECTORY"
  BY <1>5 DEF rollback_definition, Rollbacks, Markers
<1>6. CASE c.type = "ENABLE_DECOY_SERVICE"
  BY <1>6 DEF rollback_definition, Rollbacks, Markers
<1>7. CASE c.type = "DISABLE_DECOY_SERVICE"
  BY <1>1, <1>7 DEF rollback_definition, Rollbacks, Markers
<1>8. CASE c.type \in Markers
  BY <1>8 DEF rollback_definition, Rollbacks, Markers
<1>9. CASE c.type \in {"DISPLAY_MESSAGE", "SOFT_RESET", "FULL_REBUILD"}
  BY <1>9 DEF rollback_definition, Rollbacks, Markers
<1> QED
  BY <1>2, <1>3, <1>4, <1>5, <1>6, <1>7, <1>8, <1>9, CommandFields DEF UndoTypes

\* The definition of an action that reversible speaks of does not depend on the disk.
RB(c) == rollback_definition(EmptyDisk, c)

LEMMA DefinitionIsFixed ==
    ASSUME NEW d, NEW c, c.type \in UndoTypes
    PROVE  rollback_definition(d, c) = RB(c)
BY DEF RB, rollback_definition, UndoTypes, Markers

\* Every handler and every rollback leaves the disk tidy.
TidyFiles(f, t, x) ==
    /\ \A p \in Paths : f[p] = 0 => t[p] = 0
    /\ f["d/f"] # 0 => x

LEMMA TidyParts ==
    ASSUME NEW f, NEW t, NEW x, NEW s, NEW m, NEW d, IsDisk(d, f, t, x, s, m), TidyFiles(f, t, x)
    PROVE  Tidy(d)
BY DEF Tidy, IsDisk, TidyFiles

LEMMA WriteIsTidy ==
    ASSUME NEW d, Tidy(d), NEW p \in Paths, NEW n \in Nat, n # 0, NEW u \in Nat
    PROVE  Tidy(with_file(d, p, n, u))
<1> DEFINE f == d.file
           t == d.time
           e == with_file(d, p, n, u)
<1>1. /\ IsDisk(d, f, t, d.dir, d.service, d.programdata)
      /\ f \in [Paths -> Nat] /\ t \in [Paths -> Nat] /\ d.dir \in BOOLEAN
      /\ \A q \in Paths : f[q] = 0 => t[q] = 0
      /\ f["d/f"] # 0 => d.dir
  BY DiskParts DEF Tidy
<1> HIDE DEF f, t
<1>2. IsDisk(e, [f EXCEPT ![p] = n], [t EXCEPT ![p] = u], d.dir \/ p = "d/f",
             d.service, d.programdata)
  BY <1>1, WithFile
<1> HIDE DEF e
<1>3. \A q \in Paths : [f EXCEPT ![p] = n][q] = 0 => [t EXCEPT ![p] = u][q] = 0
  BY <1>1
<1>4. [f EXCEPT ![p] = n]["d/f"] # 0 => (d.dir \/ p = "d/f")
  BY <1>1 DEF Paths
<1>5. TidyFiles([f EXCEPT ![p] = n], [t EXCEPT ![p] = u], d.dir \/ p = "d/f")
  BY <1>3, <1>4 DEF TidyFiles
<1>6. Tidy(e)
  BY <1>2, <1>5, TidyParts
<1> QED
  BY <1>6 DEF e

LEMMA RemovalIsTidy ==
    ASSUME NEW d, Tidy(d), NEW p \in Paths
    PROVE  Tidy(without_file(d, p))
<1> DEFINE f == d.file
           t == d.time
           e == without_file(d, p)
<1>1. /\ IsDisk(d, f, t, d.dir, d.service, d.programdata)
      /\ f \in [Paths -> Nat] /\ t \in [Paths -> Nat] /\ d.dir \in BOOLEAN
      /\ \A q \in Paths : f[q] = 0 => t[q] = 0
      /\ f["d/f"] # 0 => d.dir
  BY DiskParts DEF Tidy
<1> HIDE DEF f, t
<1>2. IsDisk(e, [f EXCEPT ![p] = 0], [t EXCEPT ![p] = 0], d.dir, d.service, d.programdata)
  BY <1>1, WithoutFile
<1> HIDE DEF e
<1>3. \A q \in Paths : [f EXCEPT ![p] = 0][q] = 0 => [t EXCEPT ![p] = 0][q] = 0
  BY <1>1
<1>4. [f EXCEPT ![p] = 0]["d/f"] # 0 => d.dir
  BY <1>1 DEF Paths
<1>5. TidyFiles([f EXCEPT ![p] = 0], [t EXCEPT ![p] = 0], d.dir)
  BY <1>3, <1>4 DEF TidyFiles
<1>6. Tidy(e)
  BY <1>2, <1>5, TidyParts
<1> QED
  BY <1>6 DEF e

LEMMA MoveIsTidy ==
    ASSUME NEW d, Tidy(d), NEW p \in Paths, NEW q \in Paths, d.file[p] # 0
    PROVE  Tidy(moved(d, p, q))
<1>1. Tidy(without_file(d, p))
  BY RemovalIsTidy
<1>2. d.file[p] \in Nat /\ d.time[p] \in Nat
  BY DiskParts DEF Tidy
<1>3. Tidy(with_file(without_file(d, p), q, d.file[p], d.time[p]))
  BY <1>1, <1>2, WriteIsTidy
<1> QED
  BY <1>3 DEF moved

LEMMA TimeIsTidy ==
    ASSUME NEW d, Tidy(d), NEW p \in Paths, d.file[p] # 0, NEW u \in Nat
    PROVE  Tidy([d EXCEPT !.time = [@ EXCEPT ![p] = u]])
<1> DEFINE f == d.file
           t == d.time
           y == [t EXCEPT ![p] = u]
           e == [d EXCEPT !.time = [@ EXCEPT ![p] = u]]
<1>1. /\ IsDisk(d, f, t, d.dir, d.service, d.programdata)
      /\ f \in [Paths -> Nat] /\ t \in [Paths -> Nat]
      /\ \A q \in Paths : f[q] = 0 => t[q] = 0
      /\ (f["d/f"] # 0 => d.dir) /\ f[p] # 0
  BY DiskParts DEF Tidy
<1>2. e = [d EXCEPT !.time = y]
  OBVIOUS
<1> HIDE DEF f, t, e
<1>3. y \in [Paths -> Nat] /\ \A q \in Paths : f[q] = 0 => y[q] = 0
  BY <1>1
<1> HIDE DEF y
<1>4. IsDisk([d EXCEPT !.time = y], f, y, d.dir, d.service, d.programdata)
  BY <1>1, <1>3, SetPart
<1>5. TidyFiles(f, y, d.dir)
  BY <1>1, <1>3 DEF TidyFiles
<1>6. Tidy([d EXCEPT !.time = y])
  BY <1>4, <1>5, TidyParts
<1> QED
  BY <1>2, <1>6 DEF e

LEMMA DirectoryIsTidy ==
    ASSUME NEW d, Tidy(d)
    PROVE  /\ Tidy([d EXCEPT !.dir = TRUE])
           /\ Tidy([without_file(d, "d/f") EXCEPT !.dir = FALSE])
<1> DEFINE v == without_file(d, "d/f")
<1>1. Tidy(v) /\ v.file["d/f"] = 0
  <2>1. "d/f" \in Paths
    BY DEF Paths
  <2>2. Tidy(v)
    BY <2>1, RemovalIsTidy
  <2> QED
    BY <2>1, <2>2, DiskParts DEF without_file, Tidy
<1> HIDE DEF v
<1>2. \A e : Tidy(e) => /\ IsDisk(e, e.file, e.time, e.dir, e.service, e.programdata)
                        /\ \A p \in Paths : e.file[p] = 0 => e.time[p] = 0
  BY DiskParts DEF Tidy
<1>3. /\ IsDisk([d EXCEPT !.dir = TRUE], d.file, d.time, TRUE, d.service, d.programdata)
      /\ IsDisk([v EXCEPT !.dir = FALSE], v.file, v.time, FALSE, v.service, v.programdata)
  BY <1>1, <1>2, SetPart
<1>4. TidyFiles(d.file, d.time, TRUE) /\ TidyFiles(v.file, v.time, FALSE)
  BY <1>1, <1>2 DEF TidyFiles
<1>5. Tidy([d EXCEPT !.dir = TRUE]) /\ Tidy([v EXCEPT !.dir = FALSE])
  BY <1>3, <1>4, TidyParts
<1> QED
  BY <1>5 DEF v

LEMMA OtherPartsAreTidy ==
    ASSUME NEW d, Tidy(d)
    PROVE  /\ \A y \in ServiceStates : Tidy([d EXCEPT !.service = y])
           /\ \A y \in SUBSET MarkerNames : Tidy([d EXCEPT !.programdata = y])
<1>1. /\ IsDisk(d, d.file, d.time, d.dir, d.service, d.programdata)
      /\ TidyFiles(d.file, d.time, d.dir)
  BY DiskParts DEF Tidy, TidyFiles
<1>2. ASSUME NEW y \in ServiceStates PROVE Tidy([d EXCEPT !.service = y])
  <2>1. IsDisk([d EXCEPT !.service = y], d.file, d.time, d.dir, y, d.programdata)
    BY <1>1, SetPart
  <2> QED
    BY <1>1, <2>1, TidyParts
<1>3. ASSUME NEW y \in SUBSET MarkerNames PROVE Tidy([d EXCEPT !.programdata = y])
  <2>1. IsDisk([d EXCEPT !.programdata = y], d.file, d.time, d.dir, d.service, y)
    BY <1>1, SetPart
  <2> QED
    BY <1>1, <2>1, TidyParts
<1> QED
  BY <1>2, <1>3

LEMMA EmptyIsTidy == Tidy(EmptyDisk)
<1>1. 0 \in Nat /\ {} \in SUBSET MarkerNames
  BY SMT
<1> QED
  BY <1>1 DEF Tidy, DiskState, EmptyDisk, Paths, ServiceStates

LEMMA Effects ==
    ASSUME NEW d, NEW c
    PROVE  /\ c.type = "PLACE_ARTIFACT" => effect(d, c) = with_file(d, c.path, 1, 0)
           /\ c.type = "MOVE_ARTIFACT" => effect(d, c) = moved(d, c.path, c.destination)
           /\ c.type = "CHANGE_VISIBLE_METADATA" =>
                 effect(d, c) = [d EXCEPT !.time = [@ EXCEPT ![c.path] = 1]]
           /\ c.type = "CREATE_DECOY_DIRECTORY" => effect(d, c) = [d EXCEPT !.dir = TRUE]
           /\ c.type = "ENABLE_DECOY_SERVICE" => effect(d, c) = [d EXCEPT !.service = "PROFILE"]
           /\ c.type = "DISABLE_DECOY_SERVICE" => effect(d, c) = [d EXCEPT !.service = "OFF"]
           /\ c.type \in Markers =>
                 effect(d, c) = [d EXCEPT !.programdata = d.programdata \cup {Marker(c.type)}]
           /\ c.type = "SOFT_RESET" =>
                 effect(d, c) = [EmptyDisk EXCEPT !.programdata = d.programdata]
           /\ c.type = "FULL_REBUILD" =>
                 effect(d, c) = [EmptyDisk EXCEPT !.programdata =
                                   d.programdata \ {"session_concluded"}]
           /\ c.type = "DISPLAY_MESSAGE" => effect(d, c) = d
<1>1. ASSUME c.type = "PLACE_ARTIFACT"
      PROVE  effect(d, c) = with_file(d, c.path, 1, 0)
  BY <1>1 DEF effect, Markers
<1>2. ASSUME c.type = "MOVE_ARTIFACT"
      PROVE  effect(d, c) = moved(d, c.path, c.destination)
  BY <1>2 DEF effect, Markers
<1>3. ASSUME c.type = "CHANGE_VISIBLE_METADATA"
      PROVE  effect(d, c) = [d EXCEPT !.time = [@ EXCEPT ![c.path] = 1]]
  BY <1>3 DEF effect, Markers
<1>4. ASSUME c.type = "CREATE_DECOY_DIRECTORY"
      PROVE  effect(d, c) = [d EXCEPT !.dir = TRUE]
  BY <1>4 DEF effect, Markers
<1>5. ASSUME c.type = "ENABLE_DECOY_SERVICE"
      PROVE  effect(d, c) = [d EXCEPT !.service = "PROFILE"]
  BY <1>5 DEF effect, Markers
<1>6. ASSUME c.type = "DISABLE_DECOY_SERVICE"
      PROVE  effect(d, c) = [d EXCEPT !.service = "OFF"]
  BY <1>6 DEF effect, Markers
<1>7. ASSUME c.type \in Markers
      PROVE  effect(d, c) = [d EXCEPT !.programdata = d.programdata \cup {Marker(c.type)}]
  BY <1>7 DEF effect, Markers
<1>8. ASSUME c.type = "SOFT_RESET"
      PROVE  effect(d, c) = [EmptyDisk EXCEPT !.programdata = d.programdata]
  BY <1>8 DEF effect, Markers
<1>9. ASSUME c.type = "FULL_REBUILD"
      PROVE  effect(d, c) = [EmptyDisk EXCEPT !.programdata = d.programdata \ {"session_concluded"}]
  BY <1>9 DEF effect, Markers
<1>10. ASSUME c.type = "DISPLAY_MESSAGE"
      PROVE  effect(d, c) = d
  BY <1>10 DEF effect, Markers
<1> QED
  BY <1>1, <1>2, <1>3, <1>4, <1>5, <1>6, <1>7, <1>8, <1>9, <1>10

LEMMA EffectIsTidy ==
    ASSUME NEW d, Tidy(d), NEW c \in Commands, handler_status(d, c) = "SUCCESS"
    PROVE  Tidy(effect(d, c))
<1>1. d.programdata \in SUBSET MarkerNames
  BY DEF Tidy, DiskState
<1>2. CASE c.type = "PLACE_ARTIFACT"
  <2>1. c.path \in Paths
    BY <1>2, CommandFields DEF handler_status
  <2>2. 1 \in Nat /\ 0 \in Nat /\ 1 # 0
    BY SMT
  <2>3. Tidy(with_file(d, c.path, 1, 0))
    BY <2>1, <2>2, WriteIsTidy
  <2> QED
    BY <1>2, <2>3, Effects
<1>3. CASE c.type = "MOVE_ARTIFACT"
  <2>1. c.path \in Paths /\ c.destination \in Paths /\ d.file[c.path] # 0
    BY <1>3, CommandFields DEF handler_status
  <2>2. Tidy(moved(d, c.path, c.destination))
    BY <2>1, MoveIsTidy
  <2> QED
    BY <1>3, <2>2, Effects
<1>4. CASE c.type = "CHANGE_VISIBLE_METADATA"
  <2>1. c.path \in Paths /\ d.file[c.path] # 0
    BY <1>4, CommandFields DEF handler_status
  <2>2. 1 \in Nat
    BY SMT
  <2>3. Tidy([d EXCEPT !.time = [@ EXCEPT ![c.path] = 1]])
    BY <2>1, <2>2, TimeIsTidy
  <2> QED
    BY <1>4, <2>3, Effects
<1>5. CASE c.type = "CREATE_DECOY_DIRECTORY"
  <2>1. effect(d, c) = [d EXCEPT !.dir = TRUE]
    BY <1>5, Effects
  <2> QED
    BY <2>1, DirectoryIsTidy
<1>6. CASE c.type \in {"ENABLE_DECOY_SERVICE", "DISABLE_DECOY_SERVICE"}
  <2>1. effect(d, c) = [d EXCEPT !.service = "PROFILE"] \/ effect(d, c) = [d EXCEPT !.service = "OFF"]
    BY <1>6, Effects
  <2>2. "PROFILE" \in ServiceStates /\ "OFF" \in ServiceStates
    BY DEF ServiceStates
  <2>3. Tidy([d EXCEPT !.service = "PROFILE"]) /\ Tidy([d EXCEPT !.service = "OFF"])
    BY <2>2, OtherPartsAreTidy
  <2> QED
    BY <2>1, <2>3
<1>7. CASE c.type \in Markers
  <2>1. Marker(c.type) \in MarkerNames
    <3>1. /\ Marker("REQUEST_SNAPSHOT") = "snapshot"
          /\ Marker("CONCLUDE_SESSION") = "session_concluded"
          /\ Marker("CLEAN_SHUTDOWN") = "shutdown_requested"
      BY DEF Marker
    <3> QED
      BY <1>7, <3>1 DEF Markers, MarkerNames
  <2>2. d.programdata \cup {Marker(c.type)} \in SUBSET MarkerNames
    BY <1>1, <2>1
  <2>3. Tidy([d EXCEPT !.programdata = d.programdata \cup {Marker(c.type)}])
    BY <2>2, OtherPartsAreTidy
  <2>4. effect(d, c) = [d EXCEPT !.programdata = d.programdata \cup {Marker(c.type)}]
    BY <1>7, Effects
  <2> QED
    BY <2>3, <2>4
<1>8. CASE c.type \in {"SOFT_RESET", "FULL_REBUILD"}
  <2>1. d.programdata \ {"session_concluded"} \in SUBSET MarkerNames
    BY <1>1
  <2>2. /\ Tidy([EmptyDisk EXCEPT !.programdata = d.programdata])
        /\ Tidy([EmptyDisk EXCEPT !.programdata = d.programdata \ {"session_concluded"}])
    BY <1>1, <2>1, EmptyIsTidy, OtherPartsAreTidy
  <2> QED
    BY <1>8, <2>2, Effects
<1>9. CASE c.type = "DISPLAY_MESSAGE"
  BY <1>9, Effects
<1> QED
  BY <1>2, <1>3, <1>4, <1>5, <1>6, <1>7, <1>8, <1>9, CommandFields DEF UndoTypes

LEMMA RollbackIsTidy ==
    ASSUME NEW d, Tidy(d), NEW r \in Rollbacks, ~(r.kind = "delete_file" /\ r.path = Outside)
    PROVE  Tidy(apply_rollback_definition(d, r))
<1>1. CASE r.kind = "delete_file"
  <2>1. r.path \in Paths
    BY <1>1, RollbackFields
  <2>2. Tidy(without_file(d, r.path))
    BY <2>1, RemovalIsTidy
  <2> QED
    BY <1>1, <2>2 DEF apply_rollback_definition
<1>2. CASE r.kind = "delete_directory"
  BY <1>2, DirectoryIsTidy DEF apply_rollback_definition
<1>3. CASE r.kind = "move_file"
  <2>1. r.path \in Paths /\ r.destination \in Paths
    BY <1>3, RollbackFields
  <2>2. d.file[r.path] # 0 => Tidy(moved(d, r.path, r.destination))
    BY <2>1, MoveIsTidy
  <2> QED
    BY <1>3, <2>2 DEF apply_rollback_definition
<1>4. CASE r.kind = "restore_metadata"
  <2>1. r.path \in Paths /\ r.prior_state \in Nat
    BY <1>4, RollbackFields, SMT
  <2>2. d.file[r.path] # 0 => Tidy([d EXCEPT !.time = [@ EXCEPT ![r.path] = r.prior_state]])
    BY <2>1, TimeIsTidy
  <2> QED
    BY <1>4, <2>2 DEF apply_rollback_definition
<1>5. CASE r.kind \in {"enable_decoy_service", "disable_decoy_service"}
  <2>1. /\ Tidy([d EXCEPT !.service = "OFF"]) /\ Tidy([d EXCEPT !.service = "PROFILE"])
        /\ Tidy([d EXCEPT !.service = "WRAPPED"])
    BY OtherPartsAreTidy DEF ServiceStates
  <2> QED
    BY <1>5, <2>1 DEF apply_rollback_definition
<1>6. CASE r.kind = "noop"
  BY <1>6 DEF apply_rollback_definition
<1> QED
  BY <1>1, <1>2, <1>3, <1>4, <1>5, <1>6, RollbackFields

LEMMA Rolled ==
    ASSUME NEW d, NEW r
    PROVE  /\ r.kind = "delete_file" => apply_rollback_definition(d, r) = without_file(d, r.path)
           /\ r.kind = "delete_directory" =>
                 apply_rollback_definition(d, r) = [without_file(d, "d/f") EXCEPT !.dir = FALSE]
           /\ r.kind = "move_file" =>
                 apply_rollback_definition(d, r) =
                    IF d.file[r.path] = 0 THEN d ELSE moved(d, r.path, r.destination)
           /\ r.kind = "restore_metadata" =>
                 apply_rollback_definition(d, r) =
                    IF d.file[r.path] = 0 THEN d
                    ELSE [d EXCEPT !.time = [@ EXCEPT ![r.path] = r.prior_state]]
           /\ r.kind = "disable_decoy_service" =>
                 apply_rollback_definition(d, r) = [d EXCEPT !.service = "OFF"]
<1>1. ASSUME r.kind = "delete_file"
      PROVE  apply_rollback_definition(d, r) = without_file(d, r.path)
  BY <1>1 DEF apply_rollback_definition
<1>2. ASSUME r.kind = "delete_directory"
      PROVE  apply_rollback_definition(d, r) = [without_file(d, "d/f") EXCEPT !.dir = FALSE]
  BY <1>2 DEF apply_rollback_definition
<1>3. ASSUME r.kind = "move_file"
      PROVE  apply_rollback_definition(d, r) =
                IF d.file[r.path] = 0 THEN d ELSE moved(d, r.path, r.destination)
  BY <1>3 DEF apply_rollback_definition
<1>4. ASSUME r.kind = "restore_metadata"
      PROVE  apply_rollback_definition(d, r) =
                IF d.file[r.path] = 0 THEN d
                ELSE [d EXCEPT !.time = [@ EXCEPT ![r.path] = r.prior_state]]
  BY <1>4 DEF apply_rollback_definition
<1>5. ASSUME r.kind = "disable_decoy_service"
      PROVE  apply_rollback_definition(d, r) = [d EXCEPT !.service = "OFF"]
  BY <1>5 DEF apply_rollback_definition
<1> QED
  BY <1>1, <1>2, <1>3, <1>4, <1>5

\* An action is undone by its definition.
LEMMA Undone ==
    ASSUME NEW b, Tidy(b), NEW c \in Commands, handler_status(b, c) = "SUCCESS", reversible(c, b)
    PROVE  /\ c.type \in UndoTypes
           /\ ~(RB(c).kind = "delete_file" /\ RB(c).path = Outside)
           /\ apply_rollback_definition(effect(b, c), RB(c)) = b
<1>1. CASE c.type = "PLACE_ARTIFACT"
  <2>1. c.path \in Paths /\ c.path # Outside /\ b.file[c.path] = 0 /\ (c.path = "d/f" => b.dir)
    BY <1>1, CommandFields DEF handler_status, reversible
  <2>2. RB(c) = [kind |-> "delete_file", path |-> c.path]
    BY <1>1 DEF RB, rollback_definition, Markers
  <2>6. RB(c).kind = "delete_file" /\ RB(c).path = c.path
    BY <2>2, SMT
  <2>3. apply_rollback_definition(effect(b, c), RB(c)) = without_file(effect(b, c), c.path)
    <3>1. apply_rollback_definition(effect(b, c), RB(c)) = without_file(effect(b, c), RB(c).path)
      BY <2>6, Rolled
    <3> QED
      BY <2>6, <3>1
  <2>4. effect(b, c) = with_file(b, c.path, 1, 0)
    BY <1>1, Effects
  <2>5. without_file(with_file(b, c.path, 1, 0), c.path) = b
    BY <2>1, UndoPlace
  <2> QED
    BY <1>1, <2>1, <2>3, <2>4, <2>5, <2>6 DEF UndoTypes
<1>2. CASE c.type = "MOVE_ARTIFACT"
  <2> DEFINE p == c.path
             q == c.destination
             a == moved(b, p, q)
  <2>1. /\ p \in Paths /\ q \in Paths /\ b.file[p] # 0
        /\ q = p \/ (b.file[q] = 0 /\ (q = "d/f" => b.dir))
    BY <1>2, CommandFields DEF handler_status, reversible
  <2>2. RB(c) = [kind |-> "move_file", path |-> q, destination |-> p]
    BY <1>2 DEF RB, rollback_definition, Markers, move_back
  <2>3. effect(b, c) = a
    BY <1>2, Effects
  <2> HIDE DEF p, q, a
  <2>7. RB(c).kind = "move_file" /\ RB(c).path = q /\ RB(c).destination = p
    BY <2>2, SMT
  <2>4. apply_rollback_definition(a, RB(c)) = IF a.file[q] = 0 THEN a ELSE moved(a, q, p)
    BY <2>7, Rolled
  <2>5. ASSUME q = p PROVE apply_rollback_definition(a, RB(c)) = b
    <3>1. a = b
      BY <2>5 DEF a, moved
    <3>2. moved(a, q, p) = a
      BY <2>5 DEF moved
    <3> QED
      BY <2>4, <3>1, <3>2
  <2>6. ASSUME q # p PROVE apply_rollback_definition(a, RB(c)) = b
    <3>1. a.file[q] # 0 /\ moved(a, q, p) = b
      BY <2>1, <2>6, UndoMove DEF a
    <3> QED
      BY <2>4, <3>1
  <2> QED
    BY <1>2, <2>3, <2>5, <2>6, <2>7 DEF UndoTypes
<1>3. CASE c.type = "CREATE_DECOY_DIRECTORY"
  <2>1. ~b.dir
    BY <1>3 DEF reversible
  <2>2. RB(c) = [kind |-> "delete_directory"]
    BY <1>3 DEF RB, rollback_definition, Markers
  <2>3. effect(b, c) = [b EXCEPT !.dir = TRUE]
    BY <1>3, Effects
  <2>6. RB(c).kind = "delete_directory"
    BY <2>2, SMT
  <2>4. apply_rollback_definition(effect(b, c), RB(c))
          = [without_file(effect(b, c), "d/f") EXCEPT !.dir = FALSE]
    BY <2>6, Rolled
  <2>5. [without_file([b EXCEPT !.dir = TRUE], "d/f") EXCEPT !.dir = FALSE] = b
    BY <2>1, UndoDirectory
  <2> QED
    BY <1>3, <2>3, <2>4, <2>5, <2>6 DEF UndoTypes
<1>4. CASE c.type = "CHANGE_VISIBLE_METADATA"
  <2> DEFINE p == c.path
             a == [b EXCEPT !.time = [@ EXCEPT ![p] = 1]]
  <2>1. p \in Paths /\ b.file[p] # 0 /\ c.prior_state = b.time[p]
    BY <1>4, CommandFields DEF handler_status, reversible
  <2>2. RB(c) = [kind |-> "restore_metadata", path |-> p, prior_state |-> c.prior_state]
    BY <1>4 DEF RB, rollback_definition, Markers
  <2>3. effect(b, c) = a
    BY <1>4, Effects
  <2>4. a.file = b.file /\ [a EXCEPT !.time = [@ EXCEPT ![p] = b.time[p]]] = b
    BY <2>1, UndoMetadata
  <2> HIDE DEF p, a
  <2>7. RB(c).kind = "restore_metadata" /\ RB(c).path = p /\ RB(c).prior_state = c.prior_state
    BY <2>2, SMT
  <2>5. apply_rollback_definition(a, RB(c))
          = IF a.file[p] = 0 THEN a ELSE [a EXCEPT !.time = [@ EXCEPT ![p] = c.prior_state]]
    <3>1. apply_rollback_definition(a, RB(c))
            = IF a.file[RB(c).path] = 0 THEN a
              ELSE [a EXCEPT !.time = [@ EXCEPT ![RB(c).path] = RB(c).prior_state]]
      BY <2>7, Rolled
    <3> QED
      BY <2>7, <3>1
  <2>6. apply_rollback_definition(a, RB(c)) = b
    BY <2>1, <2>4, <2>5
  <2> QED
    BY <1>4, <2>3, <2>6, <2>7 DEF UndoTypes
<1>5. CASE c.type = "ENABLE_DECOY_SERVICE"
  <2>1. b.service = "OFF"
    BY <1>5 DEF reversible
  <2>2. RB(c) = [kind |-> "disable_decoy_service"]
    BY <1>5 DEF RB, rollback_definition, Markers
  <2>3. effect(b, c) = [b EXCEPT !.service = "PROFILE"]
    BY <1>5, Effects
  <2>6. RB(c).kind = "disable_decoy_service"
    BY <2>2, SMT
  <2>4. apply_rollback_definition(effect(b, c), RB(c)) = [effect(b, c) EXCEPT !.service = "OFF"]
    BY <2>6, Rolled
  <2>5. [[b EXCEPT !.service = "PROFILE"] EXCEPT !.service = "OFF"] = b
    BY <2>1, UndoService
  <2> QED
    BY <1>5, <2>3, <2>4, <2>5, <2>6 DEF UndoTypes
<1>6. c.type \in UndoTypes
  BY DEF reversible, UndoTypes
<1> QED
  BY <1>1, <1>2, <1>3, <1>4, <1>5, <1>6 DEF UndoTypes

\* The action id ran as command[id], and its last success is the one saved.
Ran(id) ==
    /\ Tidy(saved[id].before)
    /\ handler_status(saved[id].before, command[id]) = "SUCCESS"
    /\ saved[id].after = effect(saved[id].before, command[id])

\* r undoes the last success of id.
Undoes(id, r) ==
    /\ r \in Rollbacks
    /\ command[id] # Unsent
    /\ command[id].type \in UndoTypes =>
          command[id] \in Commands /\ r = RB(command[id]) /\ Ran(id)

NoRollback == [kind |-> "NONE"]
RollbackCommands == [type : {"ROLLBACK_ACTION"}, target : ActionIds]
ActionStatus == {"SUCCESS", "FAILED", "REJECTED", "ROLLED_BACK"}
JournalEntries ==
    [status : {"NONE", "ROLLED_BACK"}]
        \cup [status : ActionStatus, rollback : Rollbacks \cup {NoRollback}]
Frames ==
    [id : ActionIds, status : ActionStatus, mark : {0} \cup ActionIds,
     rollback : Rollbacks \cup {NoRollback}]

ControllerTypeOK ==
    /\ Tidy(disk)
    /\ action_journal \in [ActionIds -> JournalEntries]
    /\ command \in [ActionIds -> {Unsent} \cup Commands \cup RollbackCommands]
    /\ frame \in {NoFrame} \cup Frames
    /\ saved \in [ActionIds -> [before : DiskState, after : DiskState]]

\* A journalled success, and one about to be journalled, holds what undoes the
\* action as it ran last.
UndoInv ==
    /\ ControllerTypeOK
    /\ \A id \in ActionIds :
          action_journal[id].status = "SUCCESS" => Undoes(id, action_journal[id].rollback)
    /\ (frame # NoFrame /\ frame.status = "SUCCESS") => Undoes(frame.id, frame.rollback)

LEMMA UndoStart == ControllerInit => UndoInv
<1> SUFFICES ASSUME ControllerInit PROVE UndoInv
  OBVIOUS
<1>1. Tidy(disk)
  BY EmptyIsTidy DEF ControllerInit
<1>2. action_journal \in [ActionIds -> JournalEntries]
  BY DEF ControllerInit, JournalEntries, NoAction
<1>3. command \in [ActionIds -> {Unsent} \cup Commands \cup RollbackCommands]
  BY DEF ControllerInit
<1>4. frame = NoFrame
  BY DEF ControllerInit
<1>5. saved \in [ActionIds -> [before : DiskState, after : DiskState]]
  BY EmptyIsTidy DEF ControllerInit, Tidy
<1>6. \A id \in ActionIds : action_journal[id].status # "SUCCESS"
  BY DEF ControllerInit, NoAction
<1> QED
  BY <1>1, <1>2, <1>3, <1>4, <1>5, <1>6 DEF UndoInv, ControllerTypeOK

LEMMA Distinct ==
    ASSUME NEW c \in Commands
    PROVE  c # Unsent /\ c.type # "ROLLBACK_ACTION"
<1>1. c.type # "NONE" /\ c.type # "ROLLBACK_ACTION"
  BY CommandFields DEF UndoTypes, Markers
<1> QED
  BY <1>1, SMT DEF Unsent

LEMMA StatusType ==
    ASSUME NEW d, NEW c
    PROVE  handler_status(d, c) \in ActionStatus
BY DEF handler_status, ActionStatus

LEMMA ExecuteKeeps ==
    ASSUME UndoInv, NEW id \in ActionIds, NEW c \in Commands, execute_action(id, c)
    PROVE  UndoInv'
<1> DEFINE s == handler_status(disk, c)
           after == IF s = "SUCCESS" THEN effect(disk, c) ELSE disk
           r == IF s = "SUCCESS" THEN rollback_definition(disk, c) ELSE NoRollback
           row == [before |-> disk, after |-> after]
<1>1. /\ disk' = after
      /\ saved' = IF s = "SUCCESS" THEN [saved EXCEPT ![id] = row] ELSE saved
      /\ frame' = [id |-> id, status |-> s, mark |-> 0, rollback |-> r]
      /\ action_journal' = action_journal
  BY DEF execute_action, NoRollback
<1>2. command[id] \in {Unsent, c} /\ command' = [command EXCEPT ![id] = c]
  BY DEF execute_action, sends
<1>3. /\ Tidy(disk) /\ disk \in DiskState
      /\ command \in [ActionIds -> {Unsent} \cup Commands \cup RollbackCommands]
      /\ saved \in [ActionIds -> [before : DiskState, after : DiskState]]
      /\ action_journal \in [ActionIds -> JournalEntries]
  BY DEF UndoInv, ControllerTypeOK, Tidy
<1>4. s \in ActionStatus /\ r \in Rollbacks \cup {NoRollback} /\ (s = "SUCCESS" => r \in Rollbacks)
  BY <1>3, StatusType, RollbackType
<1>5. Tidy(after) /\ after \in DiskState
  <2>1. Tidy(after)
    BY <1>3, EffectIsTidy
  <2> QED
    BY <2>1 DEF Tidy
<1>6. r = rollback_definition(disk, c) \/ s # "SUCCESS"
  OBVIOUS
<1>7. s = "SUCCESS" => after = effect(disk, c)
  OBVIOUS
<1>8. s = handler_status(disk, c)
  OBVIOUS
<1>9. row \in [before : DiskState, after : DiskState] /\ row.before = disk /\ row.after = after
  BY <1>3, <1>5
<1> HIDE DEF s, after, r, row
<1>10. c # Unsent /\ command'[id] = c /\ \A i \in ActionIds \ {id} : command'[i] = command[i]
  BY <1>2, <1>3, Distinct
<1>11. command' \in [ActionIds -> {Unsent} \cup Commands \cup RollbackCommands]
  BY <1>2, <1>3
<1>12. saved' \in [ActionIds -> [before : DiskState, after : DiskState]]
  BY <1>1, <1>3, <1>9
<1>13. frame' \in Frames
  BY <1>1, <1>4 DEF Frames
<1>14. ControllerTypeOK'
  BY <1>1, <1>3, <1>5, <1>11, <1>12, <1>13 DEF ControllerTypeOK
<1>15. /\ s # "SUCCESS" => saved' = saved
       /\ \A i \in ActionIds \ {id} : saved'[i] = saved[i]
       /\ s = "SUCCESS" => saved'[id] = row
  BY <1>1, <1>3
<1>16. s = "SUCCESS" => Ran(id)'
  <2> SUFFICES ASSUME s = "SUCCESS" PROVE Ran(id)'
    OBVIOUS
  <2>1. saved'[id].before = disk /\ saved'[id].after = effect(disk, c)
    BY <1>7, <1>9, <1>15
  <2> QED
    BY <1>3, <1>8, <1>10, <2>1 DEF Ran
<1>17. ASSUME NEW i \in ActionIds, action_journal'[i].status = "SUCCESS"
       PROVE  Undoes(i, action_journal[i].rollback)'
  <2>1. Undoes(i, action_journal[i].rollback)
    BY <1>1, <1>17 DEF UndoInv
  <2> DEFINE q == action_journal[i].rollback
  <2>2. action_journal'[i].rollback = q
    BY <1>1
  <2> HIDE DEF q
  <2>3. Undoes(i, q)
    BY <2>1 DEF q
  <2>4. CASE i # id
    <3>1. command'[i] = command[i] /\ saved'[i] = saved[i]
      BY <1>10, <1>15, <2>4
    <3>2. /\ q \in Rollbacks /\ command'[i] # Unsent
          /\ command'[i].type \in UndoTypes =>
                command'[i] \in Commands /\ q = RB(command'[i]) /\ Ran(i)'
      BY <2>3, <3>1 DEF Undoes, Ran
    <3> QED
      BY <2>2, <3>2 DEF Undoes
  <2>5. CASE i = id
    <3>1. command[i] = c /\ command'[i] = c
      BY <1>2, <1>10, <2>3, <2>5 DEF Undoes
    <3>2. CASE s = "SUCCESS"
      BY <1>10, <1>16, <2>2, <2>3, <2>5, <3>1, <3>2 DEF Undoes
    <3>3. CASE s # "SUCCESS"
      <4>1. Ran(i) => Ran(i)'
        BY <1>15, <3>1, <3>3 DEF Ran
      <4> QED
        BY <1>10, <2>2, <2>3, <3>1, <4>1 DEF Undoes
    <3> QED
      BY <3>2, <3>3
  <2> QED
    BY <2>4, <2>5
<1>18. ASSUME frame'.status = "SUCCESS"
       PROVE  Undoes(frame.id, frame.rollback)'
  <2>1. frame'.id = id /\ frame'.status = s /\ frame'.rollback = r
    BY <1>1
  <2>2. c.type \in UndoTypes => r = RB(c)
    BY <1>6, <1>18, <2>1, DefinitionIsFixed
  <2> QED
    BY <1>4, <1>10, <1>16, <1>18, <2>1, <2>2 DEF Undoes
<1> QED
  BY <1>14, <1>17, <1>18 DEF UndoInv

LEMMA RollbackKeeps ==
    ASSUME UndoInv, NEW id \in ActionIds, NEW target \in ActionIds,
           execute_rollback_action(id, target)
    PROVE  UndoInv'
<1> DEFINE r == action_journal[target].rollback
           c == [type |-> "ROLLBACK_ACTION", target |-> target]
           fails == r.kind = "delete_file" /\ r.path = Outside
           noop == [kind |-> "noop"]
<1>1. /\ action_journal[target].status = "SUCCESS"
      /\ action_journal' = action_journal /\ saved' = saved
      /\ disk' = IF fails THEN disk ELSE apply_rollback_definition(disk, r)
      /\ \/ frame' = [id |-> id, status |-> "FAILED", mark |-> 0, rollback |-> NoRollback]
         \/ frame' = [id |-> id, status |-> "SUCCESS", mark |-> target, rollback |-> noop]
  BY DEF execute_rollback_action, NoRollback
<1>2. command[id] \in {Unsent, c} /\ command' = [command EXCEPT ![id] = c]
  BY DEF execute_rollback_action, sends
<1>3. c \in RollbackCommands /\ c # Unsent /\ c.type \notin UndoTypes
  BY DEF RollbackCommands, Unsent, UndoTypes
<1>4. /\ Tidy(disk)
      /\ command \in [ActionIds -> {Unsent} \cup Commands \cup RollbackCommands]
      /\ saved \in [ActionIds -> [before : DiskState, after : DiskState]]
      /\ action_journal \in [ActionIds -> JournalEntries]
  BY DEF UndoInv, ControllerTypeOK
<1> HIDE DEF c
<1>5. Tidy(disk')
  <2>1. r \in Rollbacks
    BY <1>1 DEF UndoInv, Undoes
  <2> HIDE DEF r
  <2>2. ~fails => Tidy(apply_rollback_definition(disk, r))
    BY <1>4, <2>1, RollbackIsTidy
  <2> QED
    BY <1>1, <1>4, <2>2
<1>6. noop \in Rollbacks
  BY DEF Rollbacks
<1> HIDE DEF noop
<1>7. frame' \in Frames
  <2>1. CASE frame' = [id |-> id, status |-> "FAILED", mark |-> 0, rollback |-> NoRollback]
    BY <2>1 DEF Frames, ActionStatus
  <2>2. CASE frame' = [id |-> id, status |-> "SUCCESS", mark |-> target, rollback |-> noop]
    BY <1>6, <2>2 DEF Frames, ActionStatus
  <2> QED
    BY <1>1, <2>1, <2>2
<1>8. command'[id] = c /\ \A i \in ActionIds \ {id} : command'[i] = command[i]
  BY <1>2, <1>4
<1>9. command' \in [ActionIds -> {Unsent} \cup Commands \cup RollbackCommands]
  BY <1>2, <1>3, <1>4
<1>10. ControllerTypeOK'
  BY <1>1, <1>4, <1>5, <1>7, <1>9 DEF ControllerTypeOK
<1>11. ASSUME NEW i \in ActionIds, action_journal'[i].status = "SUCCESS"
       PROVE  Undoes(i, action_journal[i].rollback)'
  <2>1. Undoes(i, action_journal[i].rollback)
    BY <1>1, <1>11 DEF UndoInv
  <2>2. command'[i] = command[i]
    BY <1>2, <1>8, <2>1 DEF Undoes
  <2> QED
    BY <1>1, <2>1, <2>2 DEF Undoes, Ran
<1>12. ASSUME frame'.status = "SUCCESS"
       PROVE  Undoes(frame.id, frame.rollback)'
  <2>1. frame'.id = id /\ frame'.rollback = noop
    <3>1. frame' # [id |-> id, status |-> "FAILED", mark |-> 0, rollback |-> NoRollback]
      BY <1>12, SMT
    <3>2. frame' = [id |-> id, status |-> "SUCCESS", mark |-> target, rollback |-> noop]
      BY <1>1, <3>1
    <3> QED
      BY <3>2
  <2> QED
    BY <1>3, <1>6, <1>8, <2>1 DEF Undoes
<1> QED
  BY <1>10, <1>11, <1>12 DEF UndoInv

LEMMA MarksKeeps == UndoInv /\ marks => UndoInv'
<1> SUFFICES ASSUME UndoInv, marks PROVE UndoInv'
  OBVIOUS
<1>1. /\ frame \in Frames /\ frame.mark \in ActionIds
      /\ action_journal' = [action_journal EXCEPT ![frame.mark] = mark_status(frame.mark)]
      /\ frame' = [frame EXCEPT !.mark = 0]
      /\ UNCHANGED <<disk, command, saved>>
      /\ action_journal \in [ActionIds -> JournalEntries]
  BY DEF UndoInv, ControllerTypeOK, marks, Frames
<1>2. /\ frame' \in Frames /\ frame'.id = frame.id /\ frame'.status = frame.status
      /\ frame'.rollback = frame.rollback
  BY <1>1 DEF Frames
<1> DEFINE e == mark_status(frame.mark)
<1>3. e \in JournalEntries /\ e.status = "ROLLED_BACK"
  <2>1. action_journal[frame.mark] \in JournalEntries
    BY <1>1
  <2> DEFINE old == action_journal[frame.mark]
  <2>2. e = [old EXCEPT !.status = "ROLLED_BACK"]
    BY DEF mark_status
  <2> HIDE DEF e, old
  <2>3. old \in [status : {"NONE", "ROLLED_BACK"}]
          \/ old \in [status : ActionStatus, rollback : Rollbacks \cup {NoRollback}]
    BY <2>1 DEF JournalEntries, old
  <2>4. CASE old \in [status : {"NONE", "ROLLED_BACK"}]
    BY <2>2, <2>4 DEF JournalEntries
  <2>5. CASE old \in [status : ActionStatus, rollback : Rollbacks \cup {NoRollback}]
    BY <2>2, <2>5 DEF JournalEntries, ActionStatus
  <2> QED
    BY <2>3, <2>4, <2>5
<1> HIDE DEF e
<1>4. /\ action_journal' \in [ActionIds -> JournalEntries]
      /\ \A i \in ActionIds : action_journal'[i] = action_journal[i]
                                \/ action_journal'[i].status = "ROLLED_BACK"
  BY <1>1, <1>3 DEF e
<1>5. ControllerTypeOK'
  BY <1>1, <1>2, <1>4 DEF UndoInv, ControllerTypeOK
<1>6. ASSUME NEW i \in ActionIds, action_journal'[i].status = "SUCCESS"
      PROVE  Undoes(i, action_journal[i].rollback)'
  <2>1. action_journal'[i] = action_journal[i]
    BY <1>4, <1>6
  <2>2. Undoes(i, action_journal[i].rollback)
    BY <1>6, <2>1 DEF UndoInv
  <2> QED
    BY <1>1, <2>1, <2>2 DEF Undoes, Ran
<1>7. ASSUME frame'.status = "SUCCESS"
      PROVE  Undoes(frame.id, frame.rollback)'
  <2>1. Undoes(frame.id, frame.rollback)
    BY <1>2, <1>7 DEF UndoInv, marks
  <2> QED
    BY <1>1, <1>2, <2>1 DEF Undoes, Ran
<1> QED
  BY <1>5, <1>6, <1>7 DEF UndoInv

LEMMA RecordKeeps == UndoInv /\ record => UndoInv'
<1> SUFFICES ASSUME UndoInv, record PROVE UndoInv'
  OBVIOUS
<1> DEFINE e == [status |-> frame.status, rollback |-> frame.rollback]
<1>1. /\ frame \in Frames /\ frame # NoFrame
      /\ action_journal' = [action_journal EXCEPT ![frame.id] = e]
      /\ frame' = NoFrame
      /\ UNCHANGED <<disk, command, saved>>
      /\ action_journal \in [ActionIds -> JournalEntries]
  BY DEF UndoInv, ControllerTypeOK, record
<1>2. e \in JournalEntries /\ e.status = frame.status /\ e.rollback = frame.rollback
      /\ frame.id \in ActionIds
  BY <1>1 DEF Frames, JournalEntries
<1> HIDE DEF e
<1>3. /\ action_journal' \in [ActionIds -> JournalEntries]
      /\ \A i \in ActionIds : action_journal'[i] = action_journal[i]
                                \/ (i = frame.id /\ action_journal'[i] = e)
  BY <1>1, <1>2
<1>4. ControllerTypeOK'
  BY <1>1, <1>3 DEF UndoInv, ControllerTypeOK
<1>5. ASSUME NEW i \in ActionIds, action_journal'[i].status = "SUCCESS"
      PROVE  Undoes(i, action_journal[i].rollback)'
  <2>1. Undoes(i, action_journal'[i].rollback)
    <3>1. CASE action_journal'[i] = action_journal[i]
      BY <1>5, <3>1 DEF UndoInv
    <3>2. CASE i = frame.id /\ action_journal'[i] = e
      BY <1>1, <1>2, <1>5, <3>2 DEF UndoInv
    <3> QED
      BY <1>3, <3>1, <3>2
  <2> QED
    BY <1>1, <2>1 DEF Undoes, Ran
<1> QED
  BY <1>1, <1>4, <1>5 DEF UndoInv

LEMMA UndoStep == UndoInv /\ [ControllerNext]_controllerVars => UndoInv'
<1> SUFFICES ASSUME UndoInv, [ControllerNext]_controllerVars PROVE UndoInv'
  OBVIOUS
<1>1. CASE UNCHANGED <<disk, action_journal, command, saved>> /\ frame' \in {frame, NoFrame}
  BY <1>1 DEF UndoInv, ControllerTypeOK, Undoes, Ran
<1>2. controller_dies \/ UNCHANGED controllerVars =>
         UNCHANGED <<disk, action_journal, command, saved>> /\ frame' \in {frame, NoFrame}
  BY DEF controller_dies, controllerVars
<1> QED
  BY <1>1, <1>2, ExecuteKeeps, RollbackKeeps, MarksKeeps, RecordKeeps DEF ControllerNext

LEMMA RollbackRestores ==
    ASSUME UndoInv, NEW id \in ActionIds, NEW target \in ActionIds,
           execute_rollback_action(id, target), disk = saved[target].after,
           reversible(command[target], saved[target].before)
    PROVE  disk' = saved[target].before
<1> DEFINE r == action_journal[target].rollback
           b == saved[target].before
           c == command[target]
<1>1. Undoes(target, r)
  BY DEF UndoInv, execute_rollback_action
<1>2. disk' = IF r.kind = "delete_file" /\ r.path = Outside THEN disk
              ELSE apply_rollback_definition(disk, r)
  BY DEF execute_rollback_action
<1>3. c.type \in UndoTypes
  BY DEF reversible, UndoTypes
<1>4. c \in Commands /\ r = RB(c) /\ Tidy(b) /\ handler_status(b, c) = "SUCCESS"
      /\ disk = effect(b, c)
  BY <1>1, <1>3 DEF Undoes, Ran
<1>5. reversible(c, b)
  OBVIOUS
<1> HIDE DEF r, b, c
<1>6. /\ ~(RB(c).kind = "delete_file" /\ RB(c).path = Outside)
      /\ apply_rollback_definition(effect(b, c), RB(c)) = b
  BY <1>4, <1>5, Undone
<1>7. disk' = b
  BY <1>2, <1>4, <1>6
<1> QED
  BY <1>7 DEF b

\* For any number of action ids and frames: rolling back an action that found
\* nothing in its place restores the disk to what it was before the action
\* (_execute_rollback_action and the handlers' rollback definitions).
THEOREM RollbackUndoes == ControllerSpec => UndoRestores
<1>1. ASSUME UndoInv, [ControllerNext]_controllerVars
      PROVE  [\A id, target \in ActionIds :
                (/\ frame # frame' /\ execute_rollback_action(id, target)
                 /\ command[target].type # "ROLLBACK_ACTION"
                 /\ disk = saved[target].after
                 /\ reversible(command[target], saved[target].before))
                   => disk' = saved[target].before]_controllerVars
  BY <1>1, RollbackRestores
<1> QED
  BY <1>1, UndoStart, UndoStep, PTL DEF ControllerSpec, UndoRestores

=============================================================================
