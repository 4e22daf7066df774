-------------------------- MODULE ServerInstaller --------------------------
(***************************************************************************)
(* The server installer: an operation is a plan of steps, each executed    *)
(* and then recorded in a journal that the next operation starts from.     *)
(* The process may die between the two.                                    *)
(***************************************************************************)
EXTENDS Naturals, Sequences

CONSTANTS
    MaxOperations,  \* bound: operations started
    MaxInstallFaults \* bound: failed steps and deaths of the process

common_steps ==
    <<"preflight", "capacity", "clock", "dns", "ports", "docker", "compose", "firewall",
      "directories", "configuration", "secret-references", "tls", "images", "sbom">>

install_only_steps ==
    <<"python-package", "deploy", "migrations", "nats", "elastic", "keycloak", "step-ca",
      "administrator", "enrolment", "health", "synthetic", "report">>

Operations == {"validate", "status", "install", "repair", "upgrade", "rollback", "uninstall"}

server_plan(op) ==
    common_steps \o
        CASE op = "validate" -> <<>>
          [] op = "status" -> <<"health">>
          [] op = "install" -> install_only_steps
          [] op = "repair" -> SubSeq(install_only_steps, 7, Len(install_only_steps))
          [] op = "upgrade" -> <<"release-verify">> \o install_only_steps
          [] op = "rollback" -> <<"rollback", "health">>
          [] op = "uninstall" -> <<"uninstall", "inventory">>

InstallSteps ==
    {common_steps[i] : i \in DOMAIN common_steps}
        \cup {install_only_steps[i] : i \in DOMAIN install_only_steps}
        \cup {"release-verify", "rollback", "uninstall", "inventory"}

VARIABLES
    journal,     \* results of the journal file: [step, status]
    operation,   \* the operation that runs: [name, at, done, outcome], or idle
    ran, lost_records, \* successful executions of each step, and those no journal has
    operations, install_faults

installerVars == <<journal, operation, ran, lost_records, operations, install_faults>>

NoOperation == [name |-> "NONE"]

passed_steps(results) == {r.step : r \in {x \in results : x.status = "PASS"}}

\* Mutant: an operation starts from a journal of its own.
steps_completed_none == {}

\* Steps with a PASS in the journal.
steps_completed == passed_steps(journal)

\* The first step from the k-th on that is not completed, if there is one.
pending(p, done, k) ==
    CHOOSE i \in k..(Len(p) + 1) :
        /\ i <= Len(p) => p[i] \notin done
        /\ \A j \in k..(i - 1) : p[j] \in done

\* run: confirmation and preflight come before the journal is read, and an
\* operation they refuse changes nothing.
run_operation(op) ==
    /\ operation = NoOperation /\ operations < MaxOperations
    /\ operations' = operations + 1
    /\ operation' = [name |-> op, at |-> pending(server_plan(op), steps_completed, 1),
                     done |-> steps_completed, outcome |-> "NONE"]
    /\ UNCHANGED <<journal, ran, lost_records, install_faults>>

current_plan == server_plan(operation.name)
operating == operation # NoOperation
current_step == current_plan[operation.at]

executable == operating /\ operation.at <= Len(current_plan) /\ operation.outcome = "NONE"

\* A command, recipe, check or report: what the step does has been done.
step_executes ==
    /\ executable
    /\ operation' = [operation EXCEPT !.outcome = "PASS"]
    /\ ran' = [ran EXCEPT ![current_step] = @ + 1]
    /\ UNCHANGED <<journal, lost_records, operations, install_faults>>

install_fault == install_faults < MaxInstallFaults /\ install_faults' = install_faults + 1

\* A return code, a missing recipe, a busy port or a release that does not
\* verify.
step_raises_error ==
    /\ executable /\ install_fault
    /\ operation' = [operation EXCEPT !.outcome = "FAIL"]
    /\ UNCHANGED <<journal, ran, lost_records, operations>>

\* The journal is replaced as a whole; a failed step ends the operation.
write_installer_journal ==
    /\ operating /\ operation.outcome # "NONE"
    /\ journal' = journal \cup {[step |-> current_step, status |-> operation.outcome]}
    /\ operation' =
          IF operation.outcome = "FAIL" THEN NoOperation
          ELSE [operation EXCEPT !.at = pending(current_plan, operation.done, @ + 1),
                                 !.outcome = "NONE"]
    /\ UNCHANGED <<ran, lost_records, operations, install_faults>>

operation_returns ==
    /\ operating /\ operation.at > Len(current_plan)
    /\ operation' = NoOperation
    /\ UNCHANGED <<journal, ran, lost_records, operations, install_faults>>

installer_dies ==
    /\ operating /\ install_fault
    /\ lost_records' = IF operation.outcome = "PASS"
                       THEN [lost_records EXCEPT ![current_step] = @ + 1] ELSE lost_records
    /\ operation' = NoOperation
    /\ UNCHANGED <<journal, ran, operations>>

InstallerInit ==
    /\ journal = {} /\ operation = NoOperation
    /\ ran = [s \in InstallSteps |-> 0] /\ lost_records = [s \in InstallSteps |-> 0]
    /\ operations = 0 /\ install_faults = 0

InstallerNext ==
    \/ \E op \in Operations : run_operation(op)
    \/ step_executes \/ step_raises_error \/ write_installer_journal \/ operation_returns
    \/ installer_dies

InstallerSpec == InstallerInit /\ [][InstallerNext]_installerVars

----------------------------------------------------------------------------

\* Whatever operations follow each other and wherever the installer fails or
\* dies, a step succeeds again only when the record of its success was lost,
\* and the journal claims no success that did not happen (run's completed set
\* and _write_journal).
StepsResume ==
    \A s \in InstallSteps :
        /\ ran[s] <= 1 + lost_records[s]
        /\ s \in passed_steps(journal) => ran[s] > lost_records[s]

=============================================================================
