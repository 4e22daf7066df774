---------------------------- MODULE MCLifecycle ----------------------------
(***************************************************************************)
(* The life of a case, for TLC: its states, the directives that steer it,  *)
(* the artifacts deployed to its sandbox and the verification of its       *)
(* evidence.  These parts share no state, so a behaviour is one of one     *)
(* part; part says which, and the variables of the other parts keep their  *)
(* initial values.                                                         *)
(***************************************************************************)
EXTENDS CaseLifecycle, AnalystDirectives, ArtifactDeployment, EvidenceVerification, TLC

VARIABLE part

lifecycleVars == <<part, vars, directiveVars, deploymentVars, verificationVars>>

LifecycleInit ==
    /\ part \in {"case", "directives", "artifacts", "evidence"}
    /\ Init /\ DirectivesInit /\ DeploymentInit /\ VerificationInit

LifecycleNext ==
    /\ UNCHANGED part
    /\ \/ /\ part = "case" /\ Next
          /\ UNCHANGED <<directiveVars, deploymentVars, verificationVars>>
       \/ /\ part = "directives" /\ DirectivesNext
          /\ UNCHANGED <<vars, deploymentVars, verificationVars>>
       \/ /\ part = "artifacts" /\ DeploymentNext
          /\ UNCHANGED <<vars, directiveVars, verificationVars>>
       \/ /\ part = "evidence" /\ VerificationNext
          /\ UNCHANGED <<vars, directiveVars, deploymentVars>>

LifecycleSpec == LifecycleInit /\ [][LifecycleNext]_lifecycleVars

\* The processes of a part are interchangeable, and so are the SHOULD checks
\* and the keys of deployments; the parts use the same model values.
Symmetry == Permutations(Callers) \cup Permutations(Should)

============================================================================
