------------------------- MODULE ArtifactDeployment -------------------------
(***************************************************************************)
(* The life of one uploaded artifact: staged and hashed into the           *)
(* quarantine, scanned inline or by the scanner workers, approved by an    *)
(* analyst, deployed to the sandbox of a case by API calls that may        *)
(* overlap, fetched once by MirageEnvironmentController with the download  *)
(* token, and placed on the sandbox's disk.                                *)
(*                                                                         *)
(* The bytes of the quarantine file are ORIGINAL (those hashed at upload)  *)
(* or CHANGED.  A deployment stands for its (case_id, idempotency_key).    *)
(* deploy_artifact publishes a sandbox.command; what carries it to the     *)
(* controller and hands the outcome to record_action_result is not in      *)
(* this repository, so dispatch_place_artifact and time_out are external.  *)
(* revoke_artifact is left out: its first query names case_id and status   *)
(* without a table, both of which several of the joined tables have, so    *)
(* it raises before it changes anything.                                   *)
(***************************************************************************)
EXTENDS Naturals, FiniteSets

CONSTANTS
    Keys,           \* idempotency keys of deploy_artifact
    DeployCallers,  \* concurrent calls of deploy_artifact
    Scanners,       \* processes of mirage-artifact-scanner
    MaxDeployFaults  \* bound: changed file, crashes of a scanner or the controller

ASSUME DeploymentAssumption ==
    /\ IsFiniteSet(Keys) /\ IsFiniteSet(DeployCallers) /\ IsFiniteSet(Scanners)
    /\ MaxDeployFaults \in Nat

VARIABLES
    scan_status,  \* artifacts.scan_status, "NONE" before the row exists
    approved,     \* artifacts.approved_for_deployment
    file,         \* bytes at quarantine_location
    report,       \* what the last committed scan saw
    scanning,     \* scanners inside scan_artifact_record
    checked,      \* the key a deploy call has passed its checks for
    deployment,   \* artifact_deployments rows
    sandbox_version,  \* sandbox_instances.state_version
    deploy_command, \* where the PLACE_ARTIFACT of a deployment is
    sandbox_disk,   \* bytes at the destination of each deployment
    deploy_faults

artifactVars == <<scan_status, approved, file, report, scanning>>
deploymentVars == <<artifactVars, checked, deployment, sandbox_version, deploy_command,
                    sandbox_disk, deploy_faults>>

----------------------------------------------------------------------------
(* ArtifactScanner.scan: what the tools may say, and the verdict. *)

ArtifactBytes == {"ORIGINAL", "CHANGED"}
Verdicts == {"CLEAN", "SUSPICIOUS", "MALICIOUS", "FAILED"}

\* inspect_archive returns or raises; a file that is no archive is accepted.
ArchiveResults == {"ACCEPTED", "REJECTED"}

\* yara: "NONE" is _yara returning None; deadline: the total scan time is up
\* before one of the tools starts.
Tools == [archive : ArchiveResults, deadline : BOOLEAN,
          clamav : {"CLEAN", "MALICIOUS", "FAILED"},
          yara : {"MATCHES", "NO_MATCH", "NONE"},
          ole : {"NOT_APPLICABLE", "COMPLETE", "FAILED"}]

verdict(t) ==
    IF t.archive = "REJECTED" THEN "MALICIOUS"
    ELSE IF t.deadline THEN "FAILED"
    ELSE IF t.clamav = "MALICIOUS" THEN "MALICIOUS"
    ELSE IF t.clamav = "FAILED" \/ t.yara = "NONE" \/ t.ole = "FAILED" THEN "FAILED"
    ELSE IF t.yara = "MATCHES" THEN "SUSPICIOUS"
    ELSE "CLEAN"

\* Every tool finished and none of them calls the file malicious.
harmless(t) ==
    /\ t.archive = "ACCEPTED" /\ ~t.deadline
    /\ t.clamav = "CLEAN" /\ t.yara # "NONE" /\ t.ole # "FAILED"

Reports == [bytes : ArtifactBytes, harmless : BOOLEAN]
NoReport == [bytes |-> "ORIGINAL", harmless |-> FALSE]
scanned_as(t) == [bytes |-> file, harmless |-> harmless(t)]

----------------------------------------------------------------------------
(* upload_artifact, run_worker and scan_artifact_record, approve_artifact *)

\* A file over the size limit is removed again and leaves no row.
upload_artifact ==
    /\ scan_status = "NONE"
    /\ \/ scan_status' = "UPLOADED" /\ UNCHANGED report
       \/ \E t \in Tools : scan_status' = verdict(t) /\ report' = scanned_as(t)
    /\ UNCHANGED <<approved, file, scanning, checked, deployment, sandbox_version,
                   deploy_command, sandbox_disk, deploy_faults>>

\* The scanner's transaction holds the row lock from its claim to its commit.
row_free == scanning = {}

\* SKIP LOCKED reads the row again after a concurrent commit.  SCANNING is
\* written and overwritten inside the transaction, so nobody else reads it.
claim(w) ==
    /\ w \notin scanning
    /\ scan_status = "UPLOADED" /\ row_free
    /\ scanning' = scanning \cup {w}
    /\ UNCHANGED <<scan_status, approved, file, report, checked, deployment,
                   sandbox_version, deploy_command, sandbox_disk, deploy_faults>>

scan_artifact_record(w) ==
    /\ w \in scanning
    /\ \E t \in Tools : scan_status' = verdict(t) /\ report' = scanned_as(t)
    /\ scanning' = scanning \ {w}
    /\ UNCHANGED <<approved, file, checked, deployment, sandbox_version, deploy_command,
                   sandbox_disk, deploy_faults>>

scanner_crashes(w) ==
    /\ w \in scanning /\ deploy_faults < MaxDeployFaults
    /\ scanning' = scanning \ {w}
    /\ deploy_faults' = deploy_faults + 1
    /\ UNCHANGED <<scan_status, approved, file, report, checked, deployment,
                   sandbox_version, deploy_command, sandbox_disk>>

\* The UPDATE waits for the scanner's lock and then tests the new status.
approve_artifact ==
    /\ scan_status \in {"CLEAN", "SUSPICIOUS"} /\ row_free
    /\ scan_status' = "APPROVED"
    /\ approved' = TRUE
    /\ UNCHANGED <<file, report, scanning, checked, deployment, sandbox_version,
                   deploy_command, sandbox_disk, deploy_faults>>

\* Somebody or something alters the quarantine directory.
file_changes ==
    /\ scan_status # "NONE" /\ file = "ORIGINAL" /\ deploy_faults < MaxDeployFaults
    /\ file' = "CHANGED"
    /\ deploy_faults' = deploy_faults + 1
    /\ UNCHANGED <<scan_status, approved, report, scanning, checked,
                   deployment, sandbox_version, deploy_command, sandbox_disk>>

----------------------------------------------------------------------------
(* deploy_artifact *)

DeploymentStatuses == {"NONE", "PENDING", "DEPLOYED", "FAILED"}
TokenStates == {"FRESH", "CONSUMED", "EXPIRED"}
NoDeployment == [status |-> "NONE", token |-> "FRESH", expected |-> 0]

deployment_active == {k \in Keys : deployment[k].status \in {"PENDING", "DEPLOYED"}}

\* Mutant: no look for an active deployment of the artifact.
none_active_unchecked == TRUE

none_active == deployment_active = {}

\* A known key answers with its row, so only an unknown one is a step.
deploy_checks(c, k) ==
    /\ checked[c] = {}
    /\ deployment[k].status = "NONE"
    /\ none_active
    /\ approved /\ scan_status = "APPROVED"
    /\ checked' = [checked EXCEPT ![c] = {k}]
    /\ UNCHANGED <<artifactVars, deployment, sandbox_version, deploy_command, sandbox_disk,
                   deploy_faults>>

\* The rest of the handler: deployment row, policy decision and its event,
\* the pending action opened at the version just read, one commit.
deploy_commits(c, k) ==
    /\ k \in checked[c]
    /\ deployment[k].status = "NONE"
    /\ deployment' = [deployment EXCEPT ![k] =
                        [status |-> "PENDING", token |-> "FRESH", expected |-> sandbox_version]]
    /\ checked' = [checked EXCEPT ![c] = {}]
    /\ UNCHANGED <<artifactVars, sandbox_version, deploy_command, sandbox_disk, deploy_faults>>

\* Another call used the key first, no active sandbox session, or the version
\* moved between the two reads of it: the transaction rolls back.
deploy_raises(c) ==
    /\ checked[c] # {}
    /\ checked' = [checked EXCEPT ![c] = {}]
    /\ UNCHANGED <<artifactVars, deployment, sandbox_version, deploy_command, sandbox_disk,
                   deploy_faults>>

----------------------------------------------------------------------------
(* The controller: _place_artifact under execute_action, and the download *)

DeployCommands == {"NONE", "SENT", "STREAMING", "SUCCESS", "FAILED", "LOST", "RECORDED"}

dispatch_place_artifact(k) ==
    /\ deploy_command[k] = "NONE" /\ deployment[k].status = "PENDING"
    /\ deploy_command' = [deploy_command EXCEPT ![k] = "SENT"]
    /\ UNCHANGED <<artifactVars, checked, deployment, sandbox_version, sandbox_disk, deploy_faults>>

\* Five minutes pass.
download_token_expires(k) ==
    /\ deployment[k].status = "PENDING" /\ deployment[k].token = "FRESH"
    /\ deployment' = [deployment EXCEPT ![k].token = "EXPIRED"]
    /\ UNCHANGED <<artifactVars, checked, sandbox_version, deploy_command, sandbox_disk,
                   deploy_faults>>

\* The row lock makes test and consumption one step; the bytes are sent after
\* the commit.
download_artifact(k) ==
    /\ deploy_command[k] = "SENT"
    /\ \/ /\ deployment[k].status = "PENDING" /\ deployment[k].token = "FRESH"
          /\ file = "ORIGINAL"
          /\ deployment' = [deployment EXCEPT ![k].token = "CONSUMED"]
          /\ deploy_command' = [deploy_command EXCEPT ![k] = "STREAMING"]
       \/ /\ \/ deployment[k].status # "PENDING" \/ deployment[k].token # "FRESH"
             \/ file # "ORIGINAL"
          /\ deploy_command' = [deploy_command EXCEPT ![k] = "FAILED"]
          /\ UNCHANGED deployment
    /\ UNCHANGED <<artifactVars, checked, sandbox_version, sandbox_disk, deploy_faults>>

\* Mutant: the digest of the received bytes is not compared.
hash_matches_unchecked == TRUE

\* expected_sha256 is the hash taken at upload.
hash_matches == file = "ORIGINAL"

\* Written to a temporary file, compared, renamed; the journal entry follows.
place_artifact(k) ==
    /\ deploy_command[k] = "STREAMING"
    /\ \/ /\ hash_matches
          /\ sandbox_disk' = [sandbox_disk EXCEPT ![k] = {file}]
          /\ deploy_command' = [deploy_command EXCEPT ![k] = "SUCCESS"]
       \/ /\ deploy_command' = [deploy_command EXCEPT ![k] = "FAILED"]
          /\ UNCHANGED sandbox_disk
    /\ UNCHANGED <<artifactVars, checked, deployment, sandbox_version, deploy_faults>>

\* The controller dies with the command in hand; the file may be in place.
controller_crashes(k) ==
    /\ deploy_command[k] \in {"STREAMING", "SUCCESS", "FAILED"}
    /\ deploy_faults < MaxDeployFaults
    /\ deploy_command' = [deploy_command EXCEPT ![k] = "LOST"]
    /\ deploy_faults' = deploy_faults + 1
    /\ UNCHANGED <<artifactVars, checked, deployment, sandbox_version, sandbox_disk>>

----------------------------------------------------------------------------
(* record_action_result of a PLACE_ARTIFACT *)

version_current(k) == sandbox_version = deployment[k].expected

\* A version that has moved raises: the deployment stays PENDING.
record_success(k) ==
    /\ deploy_command[k] = "SUCCESS" /\ deployment[k].status = "PENDING"
    /\ deploy_command' = [deploy_command EXCEPT ![k] = "RECORDED"]
    /\ \/ /\ version_current(k)
          /\ sandbox_version' = deployment[k].expected + 1
          /\ deployment' = [deployment EXCEPT ![k].status = "DEPLOYED"]
       \/ /\ ~version_current(k)
          /\ UNCHANGED <<sandbox_version, deployment>>
    /\ UNCHANGED <<artifactVars, checked, sandbox_disk, deploy_faults>>

record_failure(k) ==
    /\ deploy_command[k] = "FAILED" /\ deployment[k].status = "PENDING"
    /\ deploy_command' = [deploy_command EXCEPT ![k] = "RECORDED"]
    /\ deployment' = [deployment EXCEPT ![k].status = "FAILED"]
    /\ UNCHANGED <<artifactVars, checked, sandbox_version, sandbox_disk, deploy_faults>>

\* No answer in time: TIMEOUT is recorded while the controller may still be at
\* work on the command; an answer that comes later is not recorded.
time_out(k) ==
    /\ deploy_command[k] \in {"SENT", "STREAMING", "LOST"}
    /\ deployment[k].status = "PENDING"
    /\ deployment' = [deployment EXCEPT ![k].status = "FAILED"]
    /\ UNCHANGED <<artifactVars, checked, sandbox_version, deploy_command, sandbox_disk,
                   deploy_faults>>

----------------------------------------------------------------------------

DeploymentInit ==
    /\ scan_status = "NONE" /\ approved = FALSE
    /\ file = "ORIGINAL" /\ report = NoReport
    /\ scanning = {}
    /\ checked = [c \in DeployCallers |-> {}]
    /\ deployment = [k \in Keys |-> NoDeployment]
    /\ sandbox_version = 0
    /\ deploy_command = [k \in Keys |-> "NONE"]
    /\ sandbox_disk = [k \in Keys |-> {}]
    /\ deploy_faults = 0

DeploymentNext ==
    \/ upload_artifact \/ approve_artifact \/ file_changes
    \/ \E w \in Scanners : claim(w) \/ scan_artifact_record(w) \/ scanner_crashes(w)
    \/ \E c \in DeployCallers :
         deploy_raises(c) \/ \E k \in Keys : deploy_checks(c, k) \/ deploy_commits(c, k)
    \/ \E k \in Keys :
         \/ dispatch_place_artifact(k) \/ download_token_expires(k) \/ download_artifact(k)
         \/ place_artifact(k) \/ controller_crashes(k)
         \/ record_success(k) \/ record_failure(k) \/ time_out(k)

DeploymentSpec == DeploymentInit /\ [][DeploymentNext]_deploymentVars

----------------------------------------------------------------------------

\* What the artifact tables, the quarantine file and the sandbox may hold.
DeploymentTypeOK ==
    /\ scan_status \in {"NONE", "UPLOADED", "APPROVED"} \cup Verdicts
    /\ approved \in BOOLEAN /\ file \in ArtifactBytes /\ report \in Reports
    /\ scanning \in SUBSET Scanners
    /\ checked \in [DeployCallers -> SUBSET Keys]
    /\ deployment \in [Keys -> [status : DeploymentStatuses, token : TokenStates, expected : Nat]]
    /\ sandbox_version \in Nat
    /\ deploy_command \in [Keys -> DeployCommands]
    /\ sandbox_disk \in [Keys -> SUBSET ArtifactBytes]
    /\ deploy_faults \in 0..MaxDeployFaults

\* Whatever lies on the sandbox's disk has exactly the bytes the scan was
\* about, every tool of that scan finished without calling them malicious,
\* and an analyst approved them, even when the quarantine file changes before
\* the scan, before the download or between the download's own hash check and
\* the bytes it sends (_place_artifact, download_artifact, scan).
PlacedWasScanned ==
    \A k \in Keys : \A b \in sandbox_disk[k] :
        b = report.bytes /\ report.harmless /\ approved

\* The look for an active deployment takes no lock, so overlapping calls can
\* all pass it, but never more than there are calls at once, and of the
\* deployments opened at one state_version at most one is ever DEPLOYED,
\* however their results arrive (deploy_artifact, record_action_result).
OverlapIsContained ==
    /\ Cardinality(deployment_active) <= Cardinality(DeployCallers)
    /\ \A j, k \in Keys :
        /\ deployment[j].status = "DEPLOYED" /\ deployment[k].status = "DEPLOYED"
        /\ deployment[j].expected = deployment[k].expected
        => j = k

=============================================================================
