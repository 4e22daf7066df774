---------------------------- MODULE MCEnrolment ----------------------------
(***************************************************************************)
(* Calls on the platform's own records, for TLC: enrolment of agents, the  *)
(* evidence ledger with the callbacks of canary tokens, the route cache,   *)
(* the read model of the dashboard, and the two journalled procedures,     *)
(* teardown and installation.  These parts share no state, so a behaviour  *)
(* is one of one part; part says which, and the variables of the other     *)
(* parts keep their initial values.                                        *)
(***************************************************************************)
EXTENDS AgentEnrollment, EvidenceLedger, RouteCache, DashboardProjection,
        CaseTeardown, ServerInstaller, TLC

CONSTANTS SomeCallers, OtherCallers  \* calls of the enrolment part

VARIABLE part

tableVars == <<ledgerVars, routeVars, projectionVars>>
journalVars == <<teardownVars, installerVars>>
enrolmentVars == <<part, vars, tableVars, journalVars>>

EnrolmentInit ==
    /\ part \in {"enrolment", "ledger", "routes", "dashboard", "teardown", "installer"}
    /\ Init /\ LedgerInit /\ RouteInit /\ ProjectionInit /\ TeardownInit /\ InstallerInit

EnrolmentNext ==
    /\ UNCHANGED part
    /\ \/ part = "enrolment" /\ Next /\ UNCHANGED <<tableVars, journalVars>>
       \/ /\ part = "ledger" /\ LedgerNext
          /\ UNCHANGED <<vars, routeVars, projectionVars, journalVars>>
       \/ /\ part = "routes" /\ RouteNext
          /\ UNCHANGED <<vars, ledgerVars, projectionVars, journalVars>>
       \/ /\ part = "dashboard" /\ ProjectionNext
          /\ UNCHANGED <<vars, ledgerVars, routeVars, journalVars>>
       \/ part = "teardown" /\ TeardownNext /\ UNCHANGED <<vars, tableVars, installerVars>>
       \/ part = "installer" /\ InstallerNext /\ UNCHANGED <<vars, tableVars, teardownVars>>

EnrolmentSpec == EnrolmentInit /\ [][EnrolmentNext]_enrolmentVars

\* The calls of the enrolment part are interchangeable; the permutations
\* within two halves of them are enough.
CallerSymmetry == Permutations(SomeCallers) \cup Permutations(OtherCallers)

----------------------------------------------------------------------------
\* Values of constants that a configuration file cannot write.

MCCallers == SomeCallers \cup OtherCallers

MCCaseEvents == {[event_id |-> "a", sequence |-> 1], [event_id |-> "b", sequence |-> 2],
                 [event_id |-> "c", sequence |-> 3]}

\* One resource of each kind of step, and a protected volume.
MCCloudResources ==
    {[resource_type |-> t, temporary |-> TRUE, protected_evidence |-> FALSE] :
        t \in {"sandbox", "compute", "volume", "token"}}
    \cup {[resource_type |-> "volume", temporary |-> TRUE, protected_evidence |-> TRUE]}

============================================================================
