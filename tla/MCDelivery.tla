----------------------------- MODULE MCDelivery -----------------------------
(***************************************************************************)
(* What goes to and from the machines of a case, for TLC: the telemetry of *)
(* an agent, the analyst's messages and the commands of the environment    *)
(* controller.  These parts share no state, so a behaviour is one of one   *)
(* part; part says which, and the variables of the other parts keep their  *)
(* initial values.                                                         *)
(***************************************************************************)
EXTENDS AgentDelivery, AnalystMessages, ControllerActions, TLC

VARIABLE part

deliveryVars == <<part, vars, messageVars, controllerVars>>

DeliveryInit ==
    /\ part \in {"telemetry", "messages", "controller"}
    /\ Init /\ MessagesInit /\ ControllerInit

DeliveryNext ==
    /\ UNCHANGED part
    /\ \/ part = "telemetry" /\ Next /\ UNCHANGED <<messageVars, controllerVars>>
       \/ part = "messages" /\ MessagesNext /\ UNCHANGED <<vars, controllerVars>>
       \/ part = "controller" /\ ControllerNext /\ UNCHANGED <<vars, messageVars>>

DeliverySpec == DeliveryInit /\ [][DeliveryNext]_deliveryVars

\* The workers that deliver messages are interchangeable.
WorkerSymmetry == Permutations(Workers)

=============================================================================
