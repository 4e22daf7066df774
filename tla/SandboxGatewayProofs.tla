------------------------ MODULE SandboxGatewayProofs ------------------------
(***************************************************************************)
(* Proofs about SandboxGateway for any number of actions, connections and  *)
(* faults.  That an action runs once depends on everything between the     *)
(* gateway's two transactions: ExecutionInv says that what is not sent yet *)
(* has no trace anywhere, and SuccessInv follows a SUCCESS from the        *)
(* journal over the reply and the future to the row.  VersionInv counts    *)
(* the recorded changes through the row lock.                              *)
(*                                                                         *)
(* Then about ArtifactDeployment, for any number of callers and keys.      *)
(***************************************************************************)
EXTENDS SandboxGateway, ArtifactDeployment, CommonLemmas, TLAPS

\* Most steps are first-order; those with arithmetic cite SMT.
USE Zenon

----------------------------------------------------------------------------
(* Execution *)

\* Connections are numbered as they are opened.
Numbering ==
    /\ link \in 0..MaxConnections /\ connections \in 0..MaxConnections
    /\ handlers \subseteq Connections

Reply == [action : Actions, outcome : Outcomes]

sent(a) == \E i \in 1..Len(frames) : frames[i] = a

\* The controller has done nothing for the action.
Unstarted(a) == journal[a] = "NONE" /\ a \notin disk /\ \A d \in doing : d.action # a

\* Strengthens ExecutedOnce: what has not been sent is unstarted too; a
\* successful rollback that is not journalled yet has a target that is.
ExecutionInv ==
    /\ TypeOK /\ Numbering
    /\ \A a \in Actions : \A s, t \in command[a].target : s = t
    /\ \A a \in Actions : command[a].type # "ROLLBACK" => command[a].target = {}
    /\ \A a \in Actions : sent(a) => status[a] # "NONE" /\ command[a].type # "NONE"
    /\ \A a \in Actions : call[a] = "OPENED" => status[a] # "NONE" /\ command[a].type # "NONE"
    /\ \A a \in Actions : call[a] \in {"IDLE", "OPENED"} => ~sent(a) /\ Unstarted(a)
    /\ \A a \in Actions : call[a] = "ANSWERED" => result[a] # "NONE"
    /\ \A d \in doing : d.outcome = "SUCCESS" =>
          \A t \in command[d.action].target : journal[t] # "NONE"
    /\ ExecutedOnce

\* The controller answers with an outcome, and only its own action can appear
\* on disk.
LEMMA OutcomesAndEffects ==
    ASSUME TypeOK, NEW a \in Actions, command[a].type # "NONE", NEW o \in outcomes(a)
    PROVE  o \in Outcomes /\ \A x \in effects(a, o) : x \subseteq disk \cup {a}
<1>1. o \in Outcomes
  BY DEF TypeOK, outcomes, Outcomes, Command, Types
<1> QED
  BY <1>1 DEF TypeOK, effects, Outcomes, Command, Types

\* What a broken connection leaves is a prefix.
LEMMA Received ==
    ASSUME NEW S, NEW q \in Seq(S), NEW s \in received(q)
    PROVE  s \in Seq(S) /\ Len(s) <= Len(q) /\ \A i \in 1..Len(s) : s[i] = q[i]
<1>1. PICK n \in 0..Len(q) : s = SubSeq(q, 1, n)
  BY DEF received
<1>2. Len(q) \in Nat /\ \A i \in 1..n : q[i] \in S
  BY LenProperties, SMT
<1> QED
  BY <1>1, <1>2, PrefixProperties, SMT

\* The journal of an action changes when it is the one the controller did or
\* the target of a successful rollback.
LEMMA Journalled ==
    ASSUME ExecutionInv, NEW d \in doing
    PROVE  /\ journalled(d) \in [Actions -> {"NONE", "ROLLED_BACK"} \cup Outcomes]
           /\ \A a \in Actions : journalled(d)[a] # journal[a] =>
                 a = d.action \/ journal[a] # "NONE"
<1>1. d.action \in Actions /\ d.outcome \in Outcomes
  BY DEF ExecutionInv, TypeOK
<1>2. d.outcome = "SUCCESS" => \A t \in command[d.action].target : journal[t] # "NONE"
  BY DEF ExecutionInv
<1>3. journal \in [Actions -> {"NONE", "ROLLED_BACK"} \cup Outcomes]
  BY DEF ExecutionInv, TypeOK
<1> QED
  BY <1>1, <1>2, <1>3 DEF journalled, Outcomes

\* Every step keeps the types.
LEMMA ExecutionTypes ==
    ExecutionInv /\ [Next]_vars => TypeOK' /\ Numbering'
<1> SUFFICES ASSUME ExecutionInv, [Next]_vars PROVE TypeOK' /\ Numbering'
  OBVIOUS
<1>0. TypeOK /\ Numbering /\ MaxConnections \in Nat
  BY SandboxAssumption DEF ExecutionInv
<1> USE DEF Numbering, Connections
<1>1. ASSUME NEW a \in Actions, NEW type \in Types,
             NEW target \in {{}} \cup {{t} : t \in known}, open_pending_action(a, type, target)
      PROVE  TypeOK' /\ Numbering'
  <2>1. [type |-> type, target |-> target, expected |-> state_version] \in Command
    BY <1>0, SMT DEF TypeOK, Command, known
  <2>2. command' \in [Actions -> Command]
    BY <1>0, <1>1, <2>1 DEF TypeOK, open_pending_action
  <2> QED
    BY <1>0, <1>1, <2>2 DEF TypeOK, open_pending_action, linkVars, controllerVars
<1>2. ASSUME NEW a \in Actions, dispatch(a) PROVE TypeOK' /\ Numbering'
  <2>1. frames' \in Seq(Actions)
    <3>1. frames \in Seq(Actions) /\ Append(frames, a) \in Seq(Actions)
      BY <1>0, AppendProperties DEF TypeOK
    <3> QED
      BY <1>2, <3>1 DEF dispatch
  <2>2. result' \in [Actions -> {"NONE", "TIMEOUT"} \cup Outcomes]
    BY <1>0, <1>2 DEF TypeOK, dispatch, Outcomes
  <2>3. /\ call' \in [Actions -> {"IDLE", "OPENED", "WAITING", "ANSWERED",
                                  "RETURNED", "RAISED", "LOST"}]
        /\ pending_by_sandbox' \subseteq Actions
    BY <1>0, <1>2 DEF TypeOK, dispatch
  <2> QED
    BY <1>0, <1>2, <2>1, <2>2, <2>3 DEF TypeOK, dispatch, dbVars, controllerVars
<1>3. ASSUME NEW a \in Actions, timeout(a) PROVE TypeOK' /\ Numbering'
  BY <1>0, <1>3 DEF TypeOK, timeout, dbVars, linkVars, controllerVars
<1>4. ASSUME NEW a \in Actions, record_action_result(a)
      PROVE  TypeOK' /\ Numbering'
  <2>0. state_version' \in Nat
    <3>1. state_version \in Nat /\ state_version' \in {state_version, state_version + 1}
      BY <1>0, <1>4 DEF TypeOK, record_action_result
    <3> QED
      BY <3>1, SMT
  <2>1. call' \in [Actions -> {"IDLE", "OPENED", "WAITING", "ANSWERED",
                               "RETURNED", "RAISED", "LOST"}]
    BY <1>0, <1>4 DEF TypeOK, record_action_result
  <2>2. status' \in [Actions -> {"NONE", "PENDING", "TIMEOUT"} \cup Outcomes]
    BY <1>0, <1>4 DEF TypeOK, record_action_result, Outcomes
  <2> QED
    BY <1>0, <1>4, <2>0, <2>1, <2>2 DEF TypeOK, record_action_result, linkVars, controllerVars
<1>5. CASE sandbox_connect
  <2>1. connections + 1 \in 1..MaxConnections
    BY <1>0, <1>5, SMT DEF sandbox_connect
  <2>2. /\ connections' \in Nat /\ serving' \in Nat /\ link' \in Nat /\ live_connection' \in Nat
        /\ handlers' \subseteq Nat /\ Numbering'
    BY <1>0, <1>5, <2>1, SMT DEF TypeOK, sandbox_connect
  <2> QED
    BY <1>0, <1>5, <2>2 DEF TypeOK, sandbox_connect, dbVars
<1>6. ASSUME NEW actions \in SUBSET Actions, NEW outcome \in Outcomes,
             resolve(actions, outcome)
      PROVE  /\ call' \in [Actions -> {"IDLE", "OPENED", "WAITING", "ANSWERED",
                                       "RETURNED", "RAISED", "LOST"}]
             /\ result' \in [Actions -> {"NONE", "TIMEOUT"} \cup Outcomes]
             /\ pending_by_sandbox' \subseteq Actions
  BY <1>0, <1>6 DEF TypeOK, resolve
<1>7. ASSUME NEW c \in handlers, receive_text(c) PROVE TypeOK' /\ Numbering'
  <2>1. replies \in [Connections -> Seq(Reply)] /\ DOMAIN replies' = Connections
    BY <1>0, <1>7 DEF TypeOK, receive_text, Reply
  <2>2. Head(replies[c]) \in Reply /\ Tail(replies[c]) \in Seq(Reply)
    <3>1. replies[c] \in Seq(Reply) /\ replies[c] # <<>>
      BY <1>0, <1>7, <2>1 DEF receive_text
    <3> QED
      BY <3>1, HeadTailProperties
  <2>3. replies' \in [Connections -> Seq(Reply)]
    BY <1>7, <2>1, <2>2 DEF receive_text
  <2>4. /\ {Head(replies[c]).action} \cap pending_by_sandbox \in SUBSET Actions
        /\ Head(replies[c]).outcome \in Outcomes
    BY <1>0, <2>2 DEF Reply, TypeOK
  <2>5. /\ call' \in [Actions -> {"IDLE", "OPENED", "WAITING", "ANSWERED",
                                  "RETURNED", "RAISED", "LOST"}]
        /\ result' \in [Actions -> {"NONE", "TIMEOUT"} \cup Outcomes]
        /\ pending_by_sandbox' \subseteq Actions
    BY <1>6, <1>7, <2>4 DEF receive_text
  <2> QED
    BY <1>0, <1>7, <2>3, <2>5 DEF TypeOK, receive_text, dbVars, controllerVars, Reply
<1>8. ASSUME NEW c \in handlers, handler_ends(c) PROVE TypeOK' /\ Numbering'
  <2>1. /\ call' \in [Actions -> {"IDLE", "OPENED", "WAITING", "ANSWERED",
                                  "RETURNED", "RAISED", "LOST"}]
        /\ result' \in [Actions -> {"NONE", "TIMEOUT"} \cup Outcomes]
        /\ pending_by_sandbox' \subseteq Actions
    <3>1. pending_by_sandbox \in SUBSET Actions /\ "FAILED" \in Outcomes
      BY <1>0 DEF TypeOK, Outcomes
    <3> QED
      BY <1>6, <1>8, <3>1 DEF handler_ends
  <2> QED
    BY <1>0, <1>8, <2>1 DEF TypeOK, handler_ends, dbVars, linkVars, controllerVars
<1>9. CASE execute_action
  <2>1. Head(frames) \in Actions /\ Tail(frames) \in Seq(Actions)
    BY <1>0, <1>9, HeadTailProperties DEF TypeOK, execute_action
  <2>2. command[Head(frames)].type # "NONE"
    BY <1>9, <1>0, EmptySeq, SMT DEF ExecutionInv, sent, TypeOK, execute_action
  <2>3. doing' \subseteq Reply /\ disk' \subseteq Actions
    <3>1. PICK o \in outcomes(Head(frames)) :
             /\ doing' = {[action |-> Head(frames), outcome |-> o]}
             /\ disk' \in effects(Head(frames), o)
      BY <1>9 DEF execute_action
    <3>2. o \in Outcomes /\ disk' \subseteq disk \cup {Head(frames)}
      BY <1>0, <2>1, <2>2, <3>1, OutcomesAndEffects
    <3>3. disk \subseteq Actions
      BY <1>0 DEF TypeOK
    <3> QED
      BY <2>1, <3>1, <3>2, <3>3, SMT DEF Reply
  <2> QED
    BY <1>0, <1>9, <2>1, <2>3 DEF TypeOK, execute_action, dbVars, gatewayVars, Reply
<1>10. CASE execute_raises
  <2>1. frames' \in Seq(Actions) /\ serving' \in Nat /\ link' \in Nat /\ Numbering'
    BY <1>0, <1>10, EmptySeq, SMT DEF execute_raises, gatewayVars
  <2> QED
    BY <1>0, <1>10, <2>1 DEF TypeOK, execute_raises, dbVars, gatewayVars
<1>11. CASE send_result
  <2>1. PICK d \in doing : journal' = journalled(d) /\ send(d)
    BY <1>11 DEF send_result
  <2>2. journal' \in [Actions -> {"NONE", "ROLLED_BACK"} \cup Outcomes]
    BY <2>1, Journalled
  <2>3. replies' \in [Connections -> Seq(Reply)]
    <3>1. d \in Reply /\ replies \in [Connections -> Seq(Reply)]
      BY <1>0 DEF TypeOK, Reply
    <3>2. \A c \in Connections : Append(replies[c], d) \in Seq(Reply)
      BY <3>1, AppendProperties
    <3> QED
      BY <2>1, <3>1, <3>2 DEF send
  <2>4. frames' \in Seq(Actions) /\ serving' \in Nat
    <3>1. frames \in Seq(Actions) /\ <<>> \in Seq(Actions) /\ serving \in Nat
      BY <1>0, EmptySeq DEF TypeOK
    <3>2. UNCHANGED <<frames, serving>> \/ (frames' = <<>> /\ serving' = 0)
      BY <2>1 DEF send
    <3>3. CASE UNCHANGED <<frames, serving>>
      BY <3>1, <3>3
    <3>4. CASE frames' = <<>> /\ serving' = 0
      BY <3>1, <3>4
    <3> QED
      BY <3>2, <3>3, <3>4
  <2> QED
    BY <1>0, <1>11, <2>2, <2>3, <2>4 DEF TypeOK, send_result, dbVars, gatewayVars, Reply
<1>12. CASE leave
  BY <1>0, <1>12 DEF TypeOK, leave, dbVars, gatewayVars, linkVars
<1>13. CASE link_drops
  <2>1. frames' \in Seq(Actions)
    BY <1>0, <1>13, Received DEF TypeOK, link_drops
  <2>2. replies' \in [Connections -> Seq(Reply)]
    <3>0. replies \in [Connections -> Seq(Reply)]
      BY <1>0 DEF TypeOK, Reply
    <3>1. link \in Connections
      BY <1>0, <1>13, SMT DEF link_drops
    <3>2. \A s \in received(replies[link]) : s \in Seq(Reply)
      BY <3>0, <3>1, Received
    <3> QED
      BY <1>13, <3>0, <3>1, <3>2 DEF link_drops
  <2> QED
    <3>1. link' \in Nat /\ faults' \in Nat /\ Numbering'
      BY <1>0, <1>13, SMT DEF TypeOK, link_drops, gatewayVars
    <3> QED
      BY <1>0, <1>13, <2>1, <2>2, <3>1
         DEF TypeOK, link_drops, dbVars, gatewayVars, controllerVars, Reply
<1>14. CASE controller_crash
  <2>1. journal' \in [Actions -> {"NONE", "ROLLED_BACK"} \cup Outcomes]
    BY <1>0, <1>14 DEF TypeOK, controller_crash, half_journalled
  <2> QED
    <3>1. /\ frames' \in Seq(Actions) /\ serving' \in Nat /\ link' \in Nat /\ faults' \in Nat
          /\ Numbering'
      BY <1>0, <1>14, EmptySeq, SMT DEF TypeOK, controller_crash, gatewayVars
    <3> QED
      BY <1>0, <1>14, <2>1, <3>1 DEF TypeOK, controller_crash, dbVars, gatewayVars
<1>15. CASE gateway_crash
  <2>1. frames' \in Seq(Actions)
    BY <1>0, <1>15, Received DEF TypeOK, gateway_crash
  <2>2. replies' \in [Connections -> Seq(Reply)]
    BY <1>15, SMT DEF gateway_crash
  <2> QED
    <3>1. link' \in Nat /\ live_connection' \in Nat /\ faults' \in Nat /\ Numbering'
      BY <1>0, <1>15, SMT DEF TypeOK, gateway_crash
    <3> QED
      BY <1>0, <1>15, <2>1, <2>2, <3>1 DEF TypeOK, gateway_crash, dbVars, controllerVars, Reply
<1>16. CASE UNCHANGED vars
  BY <1>0, <1>16 DEF TypeOK, vars, dbVars, gatewayVars, linkVars, controllerVars
<1> QED
  BY <1>1, <1>2, <1>3, <1>4, <1>5, <1>7, <1>8, <1>9, <1>10, <1>11, <1>12, <1>13, <1>14, <1>15,
     <1>16 DEF Next, Gateway, Controller, Fault


\* A step that sends nothing, executes nothing and journals nothing.
LEMMA QuietStep ==
    ASSUME ExecutionInv, TypeOK', Numbering',
           UNCHANGED <<command, journal, disk>>, doing' \subseteq doing,
           \A a \in Actions : status'[a] = "NONE" => status[a] = "NONE",
           Len(frames') <= Len(frames) /\ \A i \in 1..Len(frames') : frames'[i] = frames[i],
           \A a \in Actions : call'[a] \in {"IDLE", "OPENED"} => call'[a] = call[a],
           \A a \in Actions : call'[a] = "ANSWERED" => result'[a] # "NONE"
    PROVE  ExecutionInv'
<1>1. Len(frames) \in Nat /\ Len(frames') \in Nat
  BY LenProperties DEF ExecutionInv, TypeOK
<1>2. \A i \in 1..Len(frames') : i \in 1..Len(frames) /\ frames'[i] = frames[i]
  BY <1>1, SMT
<1>3. \A a \in Actions : sent(a)' => sent(a)
  BY <1>2 DEF sent
<1>4. \A a \in Actions : Unstarted(a) => Unstarted(a)'
  BY DEF Unstarted
<1>5. ExecutedOnce'
  <2> SUFFICES ASSUME NEW a \in Actions, sent(a)'
               PROVE  /\ status'[a] # "NONE" /\ journal'[a] = "NONE" /\ a \notin disk'
                      /\ \A d \in doing' : d.action # a
                      /\ \A i, j \in 1..Len(frames') : frames'[i] = a /\ frames'[j] = a => i = j
    BY DEF ExecutedOnce, sent
  <2>1. /\ status[a] # "NONE" /\ journal[a] = "NONE" /\ a \notin disk
        /\ \A d \in doing : d.action # a
        /\ \A i, j \in 1..Len(frames) : frames[i] = a /\ frames[j] = a => i = j
    BY <1>3 DEF ExecutionInv, ExecutedOnce, sent
  <2> QED
    BY <1>2, <2>1
<1> QED
  BY <1>3, <1>4, <1>5, SMT DEF ExecutionInv

\* Nothing has been sent at first.
LEMMA ExecutionStart == Init => ExecutionInv
<1> SUFFICES ASSUME Init PROVE ExecutionInv
  OBVIOUS
<1>1. <<>> \in Seq(Actions) /\ <<>> \in Seq([action : Actions, outcome : Outcomes])
      /\ Len(frames) = 0
  BY EmptySeq DEF Init
<1>2. NoCommand \in Command
  BY DEF NoCommand, Command
<1>3. TypeOK
  BY <1>1, <1>2 DEF Init, TypeOK
<1>4. Numbering
  BY SandboxAssumption, SMT DEF Init, Numbering
<1>5. \A a \in Actions : ~sent(a) /\ Unstarted(a)
  BY <1>1, SMT DEF Init, sent, Unstarted
<1>6. ExecutedOnce
  BY <1>5 DEF ExecutedOnce, sent
<1> QED
  BY <1>3, <1>4, <1>5, <1>6 DEF Init, ExecutionInv, NoCommand

\* An action is opened.
LEMMA OpenKeeps ==
    ASSUME ExecutionInv, TypeOK', Numbering', NEW a \in Actions, NEW type \in Types,
           NEW target \in {{}} \cup {{t} : t \in known}, open_pending_action(a, type, target)
    PROVE  ExecutionInv'
<1>1. /\ call[a] = "IDLE" /\ UNCHANGED <<result, frames, doing, disk, journal>>
      /\ type # "ROLLBACK" => target = {}
      /\ status' = [status EXCEPT ![a] = "PENDING"]
      /\ command' = [command EXCEPT ![a] =
                        [type |-> type, target |-> target, expected |-> state_version]]
      /\ call' = [call EXCEPT ![a] = "OPENED"]
  BY DEF open_pending_action, linkVars, controllerVars
<1>2. /\ status'[a] = "PENDING" /\ call'[a] = "OPENED"
      /\ command'[a] = [type |-> type, target |-> target, expected |-> state_version]
      /\ \A b \in Actions : b # a =>
            status'[b] = status[b] /\ call'[b] = call[b] /\ command'[b] = command[b]
  BY <1>1, SMT DEF ExecutionInv, TypeOK
<1>3. /\ command'[a].target = target /\ command'[a].type = type
      /\ type # "NONE" /\ \A s, t \in target : s = t
  BY <1>2, SMT DEF Types
<1>4. \A b \in Actions : sent(b)' = sent(b) /\ Unstarted(b)' = Unstarted(b)
  BY <1>1 DEF sent, Unstarted
<1>5. ~sent(a) /\ Unstarted(a)
  BY <1>1 DEF ExecutionInv
<1>6. ExecutedOnce'
  BY <1>1, <1>2, SMT DEF ExecutionInv, ExecutedOnce
<1>7. \A d \in doing' : d.outcome = "SUCCESS" =>
          \A t \in command'[d.action].target : journal'[t] # "NONE"
  <2>1. \A d \in doing : d.action \in Actions /\ d.action # a
    BY <1>5 DEF Unstarted, ExecutionInv, TypeOK
  <2>2. \A d \in doing : d.outcome = "SUCCESS" =>
           \A t \in command[d.action].target : journal[t] # "NONE"
    BY DEF ExecutionInv
  <2>3. \A d \in doing : command'[d.action] = command[d.action]
    BY <1>2, <2>1
  <2> QED
    BY <1>1, <2>2, <2>3
<1>8. /\ \A b \in Actions : \A s, t \in command'[b].target : s = t
      /\ \A b \in Actions : command'[b].type # "ROLLBACK" => command'[b].target = {}
  BY <1>1, <1>2, <1>3, SMT DEF ExecutionInv
<1>9. \A b \in Actions :
         /\ sent(b)' => status'[b] # "NONE" /\ command'[b].type # "NONE"
         /\ call'[b] = "OPENED" => status'[b] # "NONE" /\ command'[b].type # "NONE"
         /\ call'[b] \in {"IDLE", "OPENED"} => ~sent(b)' /\ Unstarted(b)'
         /\ call'[b] = "ANSWERED" => result'[b] # "NONE"
  <2> TAKE b \in Actions
  <2>1. CASE b = a
    BY <1>2, <1>3, <1>4, <1>5, <2>1
  <2>2. CASE b # a
    BY <1>1, <1>2, <1>4, <2>2, SMT DEF ExecutionInv
  <2> QED
    BY <2>1, <2>2
<1> QED
  BY <1>6, <1>7, <1>8, <1>9 DEF ExecutionInv

\* A command is sent, once.
LEMMA DispatchKeeps ==
    ASSUME ExecutionInv, TypeOK', Numbering', NEW a \in Actions, dispatch(a)
    PROVE  ExecutionInv'
<1>1. /\ call[a] = "OPENED" /\ UNCHANGED <<status, command, doing, disk, journal>>
      /\ call'[a] \in {"WAITING", "ANSWERED"} /\ (call'[a] = "ANSWERED" => result'[a] = "FAILED")
      /\ \A b \in Actions : b # a => call'[b] = call[b] /\ result'[b] = result[b]
  BY SMT DEF dispatch, dbVars, controllerVars, ExecutionInv, TypeOK
<1>2. frames' = frames \/ frames' = Append(frames, a)
  BY DEF dispatch
<1>3. CASE frames' = frames
  <2>1. Len(frames) \in Nat
    BY LenProperties DEF ExecutionInv, TypeOK
  <2>2. \A b \in Actions : call'[b] = "ANSWERED" => result'[b] # "NONE"
    BY <1>1 DEF ExecutionInv
  <2> QED
    BY <1>1, <1>3, <2>1, <2>2, QuietStep, SMT
<1>4. CASE frames' = Append(frames, a)
  <2>1. /\ Len(frames) \in Nat /\ Len(frames') = Len(frames) + 1
        /\ \A i \in 1..Len(frames) : frames'[i] = frames[i]
        /\ frames'[Len(frames) + 1] = a
    BY <1>4, AppendProperties, LenProperties, SMT DEF ExecutionInv, TypeOK
  <2>2. \A i \in 1..Len(frames') : i \in 1..Len(frames) \/ i = Len(frames) + 1
    BY <2>1, SMT
  <2>3. \A b \in Actions : b # a => (sent(b)' <=> sent(b))
    BY <2>1, <2>2, SMT DEF sent
  <2>4. ~sent(a) /\ Unstarted(a) /\ status[a] # "NONE" /\ command[a].type # "NONE"
    BY <1>1 DEF ExecutionInv
  <2>5. \A b \in Actions : Unstarted(b)' = Unstarted(b)
    BY <1>1 DEF Unstarted
  <2>6. ExecutedOnce'
    <3> SUFFICES ASSUME NEW b \in Actions, sent(b)'
                 PROVE  /\ status'[b] # "NONE" /\ journal'[b] = "NONE" /\ b \notin disk'
                        /\ \A d \in doing' : d.action # b
                        /\ \A i, j \in 1..Len(frames') :
                              frames'[i] = b /\ frames'[j] = b => i = j
      BY DEF ExecutedOnce, sent
    <3>1. CASE b = a
      BY <1>1, <2>1, <2>2, <2>4, <3>1, SMT DEF sent, Unstarted
    <3>2. CASE b # a
      <4>1. sent(b)
        BY <2>3, <3>2
      <4>2. /\ status[b] # "NONE" /\ journal[b] = "NONE" /\ b \notin disk
            /\ \A d \in doing : d.action # b
            /\ \A i, j \in 1..Len(frames) : frames[i] = b /\ frames[j] = b => i = j
        BY <4>1 DEF ExecutionInv, ExecutedOnce, sent
      <4> QED
        BY <1>1, <2>1, <2>2, <3>2, <4>2, SMT
    <3> QED
      BY <3>1, <3>2
  <2>7. \A b \in Actions :
         /\ sent(b)' => status'[b] # "NONE" /\ command'[b].type # "NONE"
         /\ call'[b] = "OPENED" => status'[b] # "NONE" /\ command'[b].type # "NONE"
         /\ call'[b] \in {"IDLE", "OPENED"} => ~sent(b)' /\ Unstarted(b)'
         /\ call'[b] = "ANSWERED" => result'[b] # "NONE"
    <3> TAKE b \in Actions
    <3>1. CASE b = a
      BY <1>1, <2>4, <3>1
    <3>2. CASE b # a
      BY <1>1, <2>3, <2>5, <3>2 DEF ExecutionInv
    <3> QED
      BY <3>1, <3>2
  <2> QED
    BY <1>1, <2>6, <2>7, SMT DEF ExecutionInv
<1> QED
  BY <1>2, <1>3, <1>4

\* The controller takes the next command.
LEMMA ExecuteKeeps ==
    ASSUME ExecutionInv, TypeOK', Numbering', execute_action
    PROVE  ExecutionInv'
<1> DEFINE a == Head(frames)
<1>1. PICK o \in outcomes(a) :
         doing' = {[action |-> a, outcome |-> o]} /\ disk' \in effects(a, o)
  BY DEF execute_action
<1>2. /\ frames' = Tail(frames) /\ doing = {}
      /\ UNCHANGED <<status, command, call, result, journal>>
  BY DEF execute_action, dbVars, gatewayVars
<1>3. /\ frames \in Seq(Actions) /\ frames # <<>> /\ Len(frames) \in Nat \ {0}
      /\ a \in Actions /\ frames[1] = a
  <2>1. frames \in Seq(Actions) /\ frames # <<>>
    BY DEF ExecutionInv, TypeOK, execute_action
  <2> QED
    BY <2>1, EmptySeq, HeadTailProperties
<1>4. /\ Len(frames') = Len(frames) - 1
      /\ \A i \in 1..Len(frames') : frames'[i] = frames[i + 1]
  BY <1>2, <1>3, HeadTailProperties
<1>5. \A i \in 1..Len(frames') : i + 1 \in 1..Len(frames) /\ i + 1 # 1
  BY <1>3, <1>4, SMT
<1>6. sent(a) /\ command[a].type # "NONE"
  BY <1>3, SMT DEF sent, ExecutionInv
<1> HIDE DEF a
<1>7. \A b \in Actions : sent(b)' => sent(b) /\ b # a
  <2> SUFFICES ASSUME NEW b \in Actions, NEW i \in 1..Len(frames'), frames'[i] = b
               PROVE  sent(b) /\ b # a
    BY DEF sent
  <2>1. i + 1 \in 1..Len(frames) /\ 1 \in 1..Len(frames) /\ i + 1 # 1 /\ frames[i + 1] = b
    BY <1>3, <1>4, <1>5, SMT
  <2>2. sent(b)
    BY <2>1 DEF sent
  <2>3. \A j, k \in 1..Len(frames) : frames[j] = b /\ frames[k] = b => j = k
    BY <2>2 DEF ExecutionInv, ExecutedOnce, sent
  <2> QED
    BY <1>3, <2>1, <2>2, <2>3
<1>8. o \in Outcomes /\ disk' \subseteq disk \cup {a}
  BY <1>1, <1>3, <1>6, OutcomesAndEffects DEF ExecutionInv
<1>9. \A b \in Actions : b # a /\ Unstarted(b) => Unstarted(b)'
  BY <1>1, <1>2, <1>8, SMT DEF Unstarted
<1>10. ExecutedOnce'
  <2> SUFFICES ASSUME NEW b \in Actions, sent(b)'
               PROVE  /\ status'[b] # "NONE" /\ Unstarted(b)'
                      /\ \A i, j \in 1..Len(frames') : frames'[i] = b /\ frames'[j] = b => i = j
    BY DEF ExecutedOnce, sent, Unstarted
  <2>1. /\ status[b] # "NONE" /\ Unstarted(b)
        /\ \A i, j \in 1..Len(frames) : frames[i] = b /\ frames[j] = b => i = j
    BY <1>7 DEF ExecutionInv, ExecutedOnce, sent, Unstarted
  <2>2. \A i, j \in 1..Len(frames') : frames'[i] = b /\ frames'[j] = b => i + 1 = j + 1
    BY <1>4, <1>5, <2>1, ZenonT(30)
  <2>3. \A i, j \in 1..Len(frames') : i + 1 = j + 1 => i = j
    BY <1>3, <1>4, SMT
  <2> QED
    BY <1>2, <1>7, <1>9, <2>1, <2>2, <2>3, SMT
<1>11. \A d \in doing' : d.outcome = "SUCCESS" =>
          \A t \in command'[d.action].target : journal'[t] # "NONE"
  <2>1. o = "SUCCESS" => \A t \in command[a].target : journal[t] # "NONE"
    <3> SUFFICES ASSUME o = "SUCCESS", NEW t \in command[a].target PROVE journal[t] # "NONE"
      OBVIOUS
    <3>1. command[a].type = "ROLLBACK"
      BY <1>3 DEF ExecutionInv
    <3>2. \E u \in command[a].target : journal[u] = "SUCCESS"
      BY <1>1, <3>1 DEF outcomes
    <3> QED
      BY <1>3, <3>2, SMT DEF ExecutionInv
  <2> QED
    BY <1>1, <1>2, <2>1, SMT
<1>12. \A b \in Actions : call[b] \in {"IDLE", "OPENED"} => ~sent(b)' /\ Unstarted(b)'
  BY <1>6, <1>7, <1>9 DEF ExecutionInv
<1> QED
  BY <1>2, <1>7, <1>10, <1>11, <1>12 DEF ExecutionInv

\* The controller journals what it did, in full or up to a crash.
LEMMA JournalKeeps ==
    ASSUME ExecutionInv, TypeOK', Numbering',
           UNCHANGED <<status, command, call, result, disk>>, doing' = {},
           frames' = frames \/ frames' = <<>>,
           \A a \in Actions : journal'[a] # journal[a] =>
              journal[a] # "NONE" \/ \E d \in doing : a = d.action
    PROVE  ExecutionInv'
<1>1. \A a \in Actions : sent(a)' => sent(a)
  BY EmptySeq, SMT DEF sent
<1>2. \A a \in Actions : Unstarted(a) => Unstarted(a)'
  BY DEF Unstarted
<1>3. ExecutedOnce'
  <2> SUFFICES ASSUME NEW a \in Actions, sent(a)'
               PROVE  /\ status'[a] # "NONE" /\ Unstarted(a)'
                      /\ \A i, j \in 1..Len(frames') : frames'[i] = a /\ frames'[j] = a => i = j
    BY DEF ExecutedOnce, sent, Unstarted
  <2>1. /\ status[a] # "NONE" /\ Unstarted(a)
        /\ \A i, j \in 1..Len(frames) : frames[i] = a /\ frames[j] = a => i = j
    BY <1>1 DEF ExecutionInv, ExecutedOnce, sent, Unstarted
  <2>2. frames' = frames
    BY EmptySeq, SMT DEF sent
  <2> QED
    BY <1>2, <2>1, <2>2
<1> QED
  BY <1>1, <1>2, <1>3 DEF ExecutionInv

\* Every step of the gateway, the controller and the faults keeps it.
LEMMA ExecutionStep == ExecutionInv /\ [Next]_vars => ExecutionInv'
<1> SUFFICES ASSUME ExecutionInv, [Next]_vars PROVE ExecutionInv'
  OBVIOUS
<1>0. TypeOK /\ TypeOK' /\ Numbering' /\ Len(frames) \in Nat
  BY ExecutionTypes, LenProperties DEF ExecutionInv, TypeOK
<1>1. ASSUME NEW a \in Actions, NEW type \in Types,
             NEW target \in {{}} \cup {{t} : t \in known}, open_pending_action(a, type, target)
      PROVE  ExecutionInv'
  BY <1>0, <1>1, OpenKeeps
<1>2. ASSUME NEW a \in Actions, dispatch(a) PROVE ExecutionInv'
  BY <1>0, <1>2, DispatchKeeps
<1>3. ASSUME NEW a \in Actions, timeout(a) PROVE ExecutionInv'
  <2>1. /\ UNCHANGED <<status, command, journal, disk, doing, frames>>
        /\ \A b \in Actions : \/ call'[b] = call[b] /\ result'[b] = result[b]
                              \/ call'[b] = "ANSWERED" /\ result'[b] = "TIMEOUT"
    BY <1>0, <1>3 DEF timeout, dbVars, linkVars, controllerVars, TypeOK
  <2>2. \A b \in Actions : call'[b] = "ANSWERED" => result'[b] # "NONE"
    BY <2>1 DEF ExecutionInv
  <2> QED
    BY <1>0, <2>1, <2>2, QuietStep, SMT
<1>4. ASSUME NEW a \in Actions, record_action_result(a) PROVE ExecutionInv'
  <2>1. /\ UNCHANGED <<command, journal, disk, doing, frames, result>>
        /\ call[a] = "ANSWERED" /\ (status'[a] = status[a] \/ status'[a] # "NONE")
        /\ \A b \in Actions : b # a => call'[b] = call[b] /\ status'[b] = status[b]
        /\ call'[a] \in {"RETURNED", "RAISED"}
    <3>1. call[a] = "ANSWERED" /\ result[a] # "NONE"
      BY <1>0, <1>4 DEF record_action_result, ExecutionInv
    <3>2. /\ call' \in {[call EXCEPT ![a] = "RETURNED"], [call EXCEPT ![a] = "RAISED"]}
          /\ status' \in {status, [status EXCEPT ![a] = "SUCCESS"],
                          [status EXCEPT ![a] = result[a]]}
          /\ UNCHANGED <<command, journal, disk, doing, frames, result>>
      BY <1>4 DEF record_action_result, linkVars, controllerVars
    <3> QED
      BY <1>0, <3>1, <3>2, SMT DEF TypeOK
  <2>2. \A b \in Actions : call'[b] = "ANSWERED" => result'[b] # "NONE"
    BY <2>1 DEF ExecutionInv
  <2> QED
    BY <1>0, <2>1, <2>2, QuietStep, SMT
<1>5. ASSUME NEW actions, NEW outcome \in Outcomes, resolve(actions, outcome),
             UNCHANGED <<status, command, journal, disk, doing, frames>>
      PROVE  ExecutionInv'
  <2>1. \A b \in Actions : \/ call'[b] = call[b] /\ result'[b] = result[b]
                           \/ call'[b] = "ANSWERED" /\ result'[b] = outcome
    BY <1>5 DEF resolve
  <2>2. \A b \in Actions : call'[b] = "ANSWERED" => result'[b] # "NONE"
    BY <2>1 DEF ExecutionInv, Outcomes
  <2> QED
    BY <1>0, <1>5, <2>1, <2>2, QuietStep, SMT
<1>6. ASSUME NEW c \in handlers, receive_text(c) PROVE ExecutionInv'
  <2>1. replies[c] \in Seq(Reply) /\ replies[c] # <<>>
    BY <1>6 DEF ExecutionInv, TypeOK, Numbering, receive_text, Reply
  <2>2. Head(replies[c]).outcome \in Outcomes
    <3>1. Head(replies[c]) \in Reply
      BY <2>1, HeadTailProperties
    <3> QED
      BY <3>1 DEF Reply
  <2> QED
    BY <1>5, <1>6, <2>2 DEF receive_text, dbVars, controllerVars
<1>7. ASSUME NEW c \in handlers, handler_ends(c) PROVE ExecutionInv'
  BY <1>5, <1>7 DEF handler_ends, dbVars, linkVars, controllerVars, Outcomes
<1>8. CASE execute_action
  BY <1>0, <1>8, ExecuteKeeps
<1>9. CASE execute_raises \/ leave \/ sandbox_connect \/ link_drops \/ UNCHANGED vars
  <2>1. UNCHANGED <<status, command, journal, disk, doing, call, result>>
    BY <1>9 DEF execute_raises, leave, sandbox_connect, link_drops, vars, dbVars, gatewayVars,
                controllerVars
  <2>2. frames' = frames \/ frames' = <<>> \/ frames' \in received(frames)
    BY <1>9 DEF execute_raises, leave, sandbox_connect, link_drops, vars, linkVars
  <2>3. Len(frames') <= Len(frames) /\ \A i \in 1..Len(frames') : frames'[i] = frames[i]
    BY <1>0, <2>2, EmptySeq, Received, SMT DEF TypeOK
  <2>4. \A b \in Actions : call'[b] = "ANSWERED" => result'[b] # "NONE"
    BY <2>1 DEF ExecutionInv
  <2> QED
    BY <1>0, <2>1, <2>3, <2>4, QuietStep
<1>10. CASE send_result
  <2>1. PICK d \in doing : journal' = journalled(d) /\ send(d)
    BY <1>10 DEF send_result
  <2>2. /\ UNCHANGED <<status, command, call, result, disk>> /\ doing' = {}
    BY <1>10 DEF send_result, dbVars, gatewayVars
  <2>3. frames' = frames \/ frames' = <<>>
    BY <2>1 DEF send
  <2>4. \A a \in Actions : journal'[a] # journal[a] =>
           journal[a] # "NONE" \/ \E e \in doing : a = e.action
    BY <2>1, Journalled
  <2> QED
    BY <1>0, <2>2, <2>3, <2>4, JournalKeeps
<1>11. CASE controller_crash
  <2>1. /\ UNCHANGED <<status, command, call, result, disk>> /\ doing' = {} /\ frames' = <<>>
    BY <1>11 DEF controller_crash, dbVars, gatewayVars
  <2>2. \A a \in Actions : journal'[a] # journal[a] => journal[a] # "NONE"
    <3>1. CASE journal' = journal
      BY <3>1
    <3>2. CASE journal' \in half_journalled
      <4>1. PICK t \in Actions : /\ \E d \in doing : /\ d.outcome = "SUCCESS"
                                                     /\ t \in command[d.action].target
                                 /\ journal' = [journal EXCEPT ![t] = "ROLLED_BACK"]
        BY <3>2 DEF half_journalled
      <4>2. journal[t] # "NONE"
        BY <4>1 DEF ExecutionInv
      <4> QED
        BY <1>0, <4>1, <4>2 DEF TypeOK
    <3> QED
      BY <1>11, <3>1, <3>2 DEF controller_crash
  <2> QED
    BY <1>0, <2>1, <2>2, JournalKeeps
<1>12. CASE gateway_crash
  <2>1. /\ UNCHANGED <<status, command, journal, disk, doing, result>>
        /\ frames' \in received(frames)
        /\ \A b \in Actions : call'[b] = call[b] \/ call'[b] = "LOST"
    BY <1>12 DEF gateway_crash, dbVars, controllerVars
  <2>2. Len(frames') <= Len(frames) /\ \A i \in 1..Len(frames') : frames'[i] = frames[i]
    BY <1>0, <2>1, Received, SMT DEF TypeOK
  <2>3. \A b \in Actions : call'[b] = "ANSWERED" => result'[b] # "NONE"
    BY <2>1 DEF ExecutionInv
  <2> QED
    BY <1>0, <2>1, <2>2, <2>3, QuietStep
<1> QED
  BY <1>1, <1>2, <1>3, <1>4, <1>6, <1>7, <1>8, <1>9, <1>10, <1>11, <1>12
     DEF Next, Gateway, Controller, Fault

\* For any number of actions, connections and faults, no action runs twice or
\* before its row is committed: a timeout gives up without a second send, and
\* dispatch only follows the first transaction (issue_sandbox_action).
THEOREM ActionsRunOnce == Spec => []ExecutedOnce
<1>1. ExecutionInv => ExecutedOnce
  BY DEF ExecutionInv
<1> QED
  BY <1>1, ExecutionStart, ExecutionStep, PTL DEF Spec

----------------------------------------------------------------------------
(* What a SUCCESS stands for *)

\* What a recorded SUCCESS stands for.
Real(a) ==
    /\ journal[a] \in {"SUCCESS", "ROLLED_BACK"}
    /\ command[a].type = "ROLLBACK" =>
          \A t \in command[a].target : t \notin disk /\ journal[t] = "ROLLED_BACK"

\* Strengthens SuccessIsReal: a SUCCESS is real from the moment its result is
\* sent, on every way to the row.
SuccessInv ==
    /\ \A d \in doing :
          /\ journal[d.action] = "NONE"
          /\ d.outcome = "SUCCESS" => \A t \in command[d.action].target : t \notin disk
    /\ \A c \in Connections : \A i \in 1..Len(replies[c]) :
          replies[c][i].outcome = "SUCCESS" => Real(replies[c][i].action)
    /\ \A a \in Actions : result[a] = "SUCCESS" \/ status[a] = "SUCCESS" => Real(a)

\* What is real stays so while journal entries are only added or rolled back
\* and nothing journalled comes to the disk.
LEMMA RealStays ==
    ASSUME ExecutionInv, NEW a \in Actions, Real(a),
           \A b \in Actions : journal[b] # "NONE" => command'[b] = command[b],
           \A b \in Actions :
              /\ journal[b] = "SUCCESS" => journal'[b] \in {"SUCCESS", "ROLLED_BACK"}
              /\ journal[b] = "ROLLED_BACK" => journal'[b] = "ROLLED_BACK",
           \A b \in disk' : b \in disk \/ journal[b] = "NONE"
    PROVE  Real(a)'
<1>1. command'[a] = command[a] /\ command[a].target \subseteq Actions
  BY DEF Real, ExecutionInv, TypeOK, Command
<1> QED
  BY <1>1 DEF Real

\* What is in a response stream is a reply.
LEMMA ReplyType ==
    ASSUME ExecutionInv, NEW c \in Connections
    PROVE  \A i \in 1..Len(replies[c]) : replies[c][i] \in Reply
<1>1. replies[c] \in Seq(Reply)
  BY DEF ExecutionInv, TypeOK, Reply
<1> QED
  BY <1>1, LenProperties

\* A step that leaves controller and journal alone.
LEMMA SuccessQuiet ==
    ASSUME ExecutionInv, SuccessInv, TypeOK', UNCHANGED <<journal, disk, doing>>,
           \A b \in Actions : ~Unstarted(b) => command'[b] = command[b],
           \A c \in Connections : \A i \in 1..Len(replies'[c]) :
              \E j \in 1..Len(replies[c]) : replies'[c][i] = replies[c][j],
           \A a \in Actions : result'[a] = "SUCCESS" \/ status'[a] = "SUCCESS" => Real(a)
    PROVE  SuccessInv'
<1>1. \A b \in Actions : journal[b] # "NONE" => command'[b] = command[b]
  BY DEF Unstarted
<1>2. \A a \in Actions : Real(a) => Real(a)'
  BY <1>1, RealStays
<1>3. \A d \in doing : d.action \in Actions /\ command'[d.action] = command[d.action]
  BY DEF Unstarted, ExecutionInv, TypeOK
<1>4. \A c \in Connections : \A i \in 1..Len(replies'[c]) :
          replies'[c][i].outcome = "SUCCESS" => Real(replies[c][i].action)'
  <2> SUFFICES ASSUME NEW c \in Connections, NEW i \in 1..Len(replies'[c]),
                      replies'[c][i].outcome = "SUCCESS"
               PROVE  Real(replies[c][i].action)'
    OBVIOUS
  <2>1. PICK j \in 1..Len(replies[c]) : replies'[c][i] = replies[c][j]
    OBVIOUS
  <2>2. replies[c][j] \in Reply
    BY ReplyType
  <2>3. PICK a \in Actions : a = replies[c][j].action
    BY <2>2 DEF Reply
  <2>4. Real(a)
    BY <2>1, <2>3 DEF SuccessInv
  <2>5. Real(a)'
    BY <1>2, <2>4
  <2> QED
    BY <2>1, <2>3, <2>5 DEF Real
<1>5. \A a \in Actions : result'[a] = "SUCCESS" \/ status'[a] = "SUCCESS" => Real(a)'
  BY <1>2
<1>6. \A d \in doing' :
          /\ journal'[d.action] = "NONE"
          /\ d.outcome = "SUCCESS" => \A t \in command'[d.action].target : t \notin disk'
  BY <1>3 DEF SuccessInv
<1> QED
  BY <1>4, <1>5, <1>6 DEF SuccessInv

\* Nothing has succeeded at first.
LEMMA SuccessStart == Init => SuccessInv
BY EmptySeq, SMT DEF Init, SuccessInv

\* The controller takes a command: only that command's effect can come to the
\* disk, and a rollback takes its target away.
LEMMA SuccessExecutes ==
    ASSUME ExecutionInv, SuccessInv, TypeOK', execute_action
    PROVE  SuccessInv'
<1> DEFINE a == Head(frames)
<1>1. PICK o \in outcomes(a) :
         doing' = {[action |-> a, outcome |-> o]} /\ disk' \in effects(a, o)
  BY DEF execute_action
<1>2. UNCHANGED <<status, command, result, journal, replies>>
  BY DEF execute_action, dbVars, gatewayVars
<1>3. a \in Actions /\ sent(a)
  <2>1. frames \in Seq(Actions) /\ frames # <<>>
    BY DEF ExecutionInv, TypeOK, execute_action
  <2>2. Len(frames) \in Nat \ {0} /\ frames[1] = a /\ a \in Actions
    BY <2>1, EmptySeq, HeadTailProperties
  <2> QED
    BY <2>2, SMT DEF sent
<1> HIDE DEF a
<1>4. journal[a] = "NONE" /\ command[a].type # "NONE"
  BY <1>3 DEF ExecutionInv, ExecutedOnce, sent
<1>5. o \in Outcomes /\ disk' \subseteq disk \cup {a}
  BY <1>1, <1>3, <1>4, OutcomesAndEffects DEF ExecutionInv
<1>6. \A b \in Actions : Real(b) => Real(b)'
  BY <1>2, <1>4, <1>5, RealStays
<1>7. o = "SUCCESS" => \A t \in command[a].target : t \notin disk'
  <2> SUFFICES ASSUME o = "SUCCESS", NEW t \in command[a].target PROVE t \notin disk'
    OBVIOUS
  <2>1. command[a].type = "ROLLBACK"
    BY <1>3 DEF ExecutionInv
  <2>2. disk' = disk \ command[a].target
    BY <1>1, <2>1 DEF effects
  <2> QED
    BY <2>2
<1>8. \A c \in Connections : \A i \in 1..Len(replies[c]) :
         replies[c][i].outcome = "SUCCESS" => Real(replies[c][i].action)'
  <2> TAKE c \in Connections
  <2> TAKE i \in 1..Len(replies[c])
  <2>1. replies[c][i] \in Reply
    BY ReplyType
  <2>2. PICK b \in Actions : b = replies[c][i].action
    BY <2>1 DEF Reply
  <2> QED
    BY <1>2, <1>6, <2>2, ZenonT(30) DEF SuccessInv, Real
<1> QED
  BY <1>1, <1>2, <1>4, <1>6, <1>7, <1>8, SMT DEF SuccessInv

\* What a journal entry and a reply say of the action is real.
LEMMA SuccessIsSent ==
    ASSUME ExecutionInv, SuccessInv, TypeOK', send_result
    PROVE  SuccessInv'
<1>1. PICK d \in doing : journal' = journalled(d) /\ send(d)
  BY DEF send_result
<1>2. UNCHANGED <<status, command, result, disk>> /\ doing' = {}
  BY DEF send_result, dbVars, gatewayVars
<1>3. /\ d \in Reply /\ d.action \in Actions /\ d.outcome \in Outcomes
      /\ journal[d.action] = "NONE"
      /\ d.outcome = "SUCCESS" => \A t \in command[d.action].target : t \notin disk
      /\ command[d.action].target \subseteq Actions
      /\ journal \in [Actions -> {"NONE", "ROLLED_BACK"} \cup Outcomes]
  BY DEF ExecutionInv, TypeOK, SuccessInv, Reply, Command
<1>4. \A b \in Actions :
         /\ journal[b] = "SUCCESS" => journal'[b] \in {"SUCCESS", "ROLLED_BACK"}
         /\ journal[b] = "ROLLED_BACK" => journal'[b] = "ROLLED_BACK"
  BY <1>1, <1>3 DEF journalled
<1>5. \A b \in Actions : Real(b) => Real(b)'
  BY <1>2, <1>4, RealStays
<1>6. d.outcome = "SUCCESS" => Real(d.action)'
  BY <1>1, <1>2, <1>3 DEF journalled, Real
<1>7. \A c \in Connections : \A i \in 1..Len(replies'[c]) :
         \/ replies'[c][i] = d
         \/ i \in 1..Len(replies[c]) /\ replies'[c][i] = replies[c][i]
  <2> TAKE c \in Connections
  <2>1. replies[c] \in Seq(Reply) /\ replies \in [Connections -> Seq(Reply)]
    BY DEF ExecutionInv, TypeOK, Reply
  <2>2. replies'[c] = replies[c] \/ replies'[c] = Append(replies[c], d)
    BY <1>1, <2>1 DEF send
  <2>3. CASE replies'[c] = replies[c]
    BY <2>3
  <2>4. CASE replies'[c] = Append(replies[c], d)
    <3>1. d \in Reply /\ replies[c] \in Seq(Reply)
      BY <1>3, <2>1
    <3>2. \A i \in 1..Len(Append(replies[c], d)) :
             \/ Append(replies[c], d)[i] = d
             \/ i \in 1..Len(replies[c]) /\ Append(replies[c], d)[i] = replies[c][i]
      BY <3>1, AppendedElements, SMT
    <3> QED
      BY <2>4, <3>2
  <2> QED
    BY <2>2, <2>3, <2>4
<1>8. \A c \in Connections : \A i \in 1..Len(replies'[c]) :
         replies'[c][i].outcome = "SUCCESS" => Real(replies[c][i].action)'
  <2> TAKE c \in Connections
  <2> TAKE i \in 1..Len(replies'[c])
  <2> HAVE replies'[c][i].outcome = "SUCCESS"
  <2>1. CASE replies'[c][i] = d
    BY <1>6, <2>1 DEF Real
  <2>2. CASE i \in 1..Len(replies[c]) /\ replies'[c][i] = replies[c][i]
    <3>1. replies[c][i] \in Reply
      BY <2>2, ReplyType
    <3>2. PICK b \in Actions : b = replies[c][i].action
      BY <3>1 DEF Reply
    <3>3. Real(b)'
      BY <1>5, <2>2, <3>2 DEF SuccessInv
    <3> QED
      BY <2>2, <3>2, <3>3 DEF Real
  <2> QED
    BY <1>7, <2>1, <2>2
<1> QED
  BY <1>2, <1>5, <1>8 DEF SuccessInv

\* A crash of the controller journals at most a rollback of the target.
LEMMA SuccessSurvives ==
    ASSUME ExecutionInv, SuccessInv, TypeOK', controller_crash
    PROVE  SuccessInv'
<1>1. UNCHANGED <<status, command, result, disk, replies>> /\ doing' = {}
  BY DEF controller_crash, dbVars, gatewayVars
<1>2. \A b \in Actions : journal'[b] = journal[b] \/ journal'[b] = "ROLLED_BACK"
  <2>1. journal \in [Actions -> {"NONE", "ROLLED_BACK"} \cup Outcomes]
    BY DEF ExecutionInv, TypeOK
  <2>2. journal' = journal \/ \E t \in Actions : journal' = [journal EXCEPT ![t] = "ROLLED_BACK"]
    BY DEF controller_crash, half_journalled
  <2> QED
    BY <2>1, <2>2
<1>3. \A b \in Actions : Real(b) => Real(b)'
  BY <1>1, <1>2, RealStays
<1>4. \A c \in Connections : \A i \in 1..Len(replies[c]) :
         replies[c][i].outcome = "SUCCESS" => Real(replies[c][i].action)'
  <2> TAKE c \in Connections
  <2> TAKE i \in 1..Len(replies[c])
  <2>1. replies[c][i] \in Reply
    BY ReplyType
  <2>2. PICK b \in Actions : b = replies[c][i].action
    BY <2>1 DEF Reply
  <2> QED
    BY <1>1, <1>3, <2>2 DEF SuccessInv, Real
<1> QED
  BY <1>1, <1>3, <1>4 DEF SuccessInv

\* Every step of the gateway, the controller and the faults keeps it.
LEMMA SuccessStep == ExecutionInv /\ SuccessInv /\ [Next]_vars => SuccessInv'
<1> SUFFICES ASSUME ExecutionInv, SuccessInv, [Next]_vars PROVE SuccessInv'
  OBVIOUS
<1>0. TypeOK /\ TypeOK'
  BY ExecutionTypes DEF ExecutionInv
<1>1. ASSUME NEW a \in Actions, NEW type \in Types,
             NEW target \in {{}} \cup {{t} : t \in known}, open_pending_action(a, type, target)
      PROVE  SuccessInv'
  <2>1. /\ UNCHANGED <<journal, disk, doing, replies, result>> /\ Unstarted(a)
        /\ status'[a] = "PENDING"
        /\ \A b \in Actions : b # a => status'[b] = status[b] /\ command'[b] = command[b]
    BY <1>0, <1>1, ZenonT(30) DEF open_pending_action, ExecutionInv, TypeOK, linkVars, controllerVars
  <2>2. \A b \in Actions : result'[b] = "SUCCESS" \/ status'[b] = "SUCCESS" => Real(b)
    BY <2>1 DEF SuccessInv
  <2> QED
    BY <1>0, <2>1, <2>2, SuccessQuiet
<1>2. ASSUME NEW a \in Actions, dispatch(a) \/ timeout(a) PROVE SuccessInv'
  <2>1. /\ UNCHANGED <<journal, disk, doing, replies, status, command>>
        /\ \A b \in Actions : result'[b] = "SUCCESS" => result[b] = "SUCCESS"
    BY <1>0, <1>2 DEF dispatch, timeout, TypeOK, dbVars, linkVars, controllerVars
  <2>2. \A b \in Actions : result'[b] = "SUCCESS" \/ status'[b] = "SUCCESS" => Real(b)
    BY <2>1 DEF SuccessInv
  <2> QED
    BY <1>0, <2>1, <2>2, SuccessQuiet
<1>3. ASSUME NEW a \in Actions, record_action_result(a) PROVE SuccessInv'
  <2>1. /\ UNCHANGED <<journal, disk, doing, replies, command, result>>
        /\ \A b \in Actions :
              status'[b] = "SUCCESS" => status[b] = "SUCCESS" \/ result[b] = "SUCCESS"
    BY <1>0, <1>3, SMT DEF record_action_result, TypeOK, linkVars, controllerVars
  <2>2. \A b \in Actions : result'[b] = "SUCCESS" \/ status'[b] = "SUCCESS" => Real(b)
    BY <2>1 DEF SuccessInv
  <2> QED
    BY <1>0, <2>1, <2>2, SuccessQuiet
<1>4. ASSUME NEW c \in handlers, receive_text(c) PROVE SuccessInv'
  <2>0. c \in Connections /\ replies \in [Connections -> Seq(Reply)]
    BY DEF ExecutionInv, Numbering, TypeOK, Reply
  <2>1. /\ UNCHANGED <<journal, disk, doing, status, command>>
        /\ replies[c] # <<>> /\ replies' = [replies EXCEPT ![c] = Tail(@)]
        /\ \A b \in Actions :
              \/ result'[b] = result[b]
              \/ b = Head(replies[c]).action /\ result'[b] = Head(replies[c]).outcome
    BY <1>4 DEF receive_text, resolve, dbVars, controllerVars
  <2>2. /\ Len(replies[c]) \in Nat \ {0} /\ Head(replies[c]) = replies[c][1]
        /\ Len(Tail(replies[c])) = Len(replies[c]) - 1
        /\ \A i \in 1..Len(Tail(replies[c])) : Tail(replies[c])[i] = replies[c][i + 1]
    BY <2>0, <2>1, EmptySeq, HeadTailProperties, SMT
  <2>3. \A e \in Connections : \A i \in 1..Len(replies'[e]) :
           \E j \in 1..Len(replies[e]) : replies'[e][i] = replies[e][j]
    <3> TAKE e \in Connections
    <3>1. CASE e = c
      <4>1. replies'[e] = Tail(replies[c])
        BY <2>0, <2>1, <3>1
      <4>2. \A i \in 1..Len(Tail(replies[c])) : i + 1 \in 1..Len(replies[c])
        BY <2>2, SMT
      <4> QED
        BY <2>2, <3>1, <4>1, <4>2
    <3>2. CASE e # c
      BY <2>0, <2>1, <3>2
    <3> QED
      BY <3>1, <3>2
  <2>4. \A b \in Actions : result'[b] = "SUCCESS" \/ status'[b] = "SUCCESS" => Real(b)
    <3>1. 1 \in 1..Len(replies[c])
      BY <2>2, SMT
    <3> QED
      BY <2>0, <2>1, <2>2, <3>1, SMT DEF SuccessInv
  <2> QED
    BY <1>0, <2>1, <2>3, <2>4, SuccessQuiet
<1>5. ASSUME NEW c \in handlers, handler_ends(c) PROVE SuccessInv'
  <2>1. /\ UNCHANGED <<journal, disk, doing, replies, status, command>>
        /\ \A b \in Actions : result'[b] = "SUCCESS" => result[b] = "SUCCESS"
    BY <1>5 DEF handler_ends, resolve, dbVars, linkVars, controllerVars
  <2>2. \A b \in Actions : result'[b] = "SUCCESS" \/ status'[b] = "SUCCESS" => Real(b)
    BY <2>1 DEF SuccessInv
  <2> QED
    BY <1>0, <2>1, <2>2, SuccessQuiet
<1>6. CASE link_drops \/ gateway_crash
  <2>0. /\ UNCHANGED <<journal, disk, doing, status, command, result>>
    BY <1>6 DEF link_drops, gateway_crash, dbVars, gatewayVars, controllerVars
  <2>1. replies \in [Connections -> Seq(Reply)]
    BY <1>0 DEF TypeOK, Reply
  <2>2. \A e \in Connections : replies'[e] = replies[e] \/ replies'[e] = <<>>
                                  \/ replies'[e] \in received(replies[e])
    BY <1>6, <2>1 DEF link_drops, gateway_crash
  <2>3. \A e \in Connections : \A i \in 1..Len(replies'[e]) :
           \E j \in 1..Len(replies[e]) : replies'[e][i] = replies[e][j]
    <3> TAKE e \in Connections
    <3>1. CASE replies'[e] = replies[e] \/ replies'[e] = <<>>
      BY <3>1, EmptySeq, SMT
    <3>2. CASE replies'[e] \in received(replies[e])
      <4>1. /\ Len(replies'[e]) <= Len(replies[e])
            /\ Len(replies'[e]) \in Nat /\ Len(replies[e]) \in Nat
            /\ \A i \in 1..Len(replies'[e]) : replies'[e][i] = replies[e][i]
        BY <2>1, <3>2, Received, LenProperties, SMT
      <4>2. \A i \in 1..Len(replies'[e]) : i \in 1..Len(replies[e])
        BY <4>1, SMT
      <4> QED
        BY <4>1, <4>2
    <3> QED
      BY <2>2, <3>1, <3>2
  <2>4. \A b \in Actions : result'[b] = "SUCCESS" \/ status'[b] = "SUCCESS" => Real(b)
    BY <2>0 DEF SuccessInv
  <2> QED
    BY <1>0, <2>0, <2>3, <2>4, SuccessQuiet
<1>7. CASE sandbox_connect \/ execute_raises \/ leave \/ UNCHANGED vars
  <2>1. UNCHANGED <<journal, disk, doing, replies, status, command, result>>
    BY <1>7 DEF sandbox_connect, execute_raises, leave, vars, dbVars, gatewayVars, linkVars,
                controllerVars
  <2>2. \A b \in Actions : result'[b] = "SUCCESS" \/ status'[b] = "SUCCESS" => Real(b)
    BY <2>1 DEF SuccessInv
  <2> QED
    BY <1>0, <2>1, <2>2, SuccessQuiet
<1> QED
  BY <1>0, <1>1, <1>2, <1>3, <1>4, <1>5, <1>6, <1>7, SuccessExecutes, SuccessIsSent,
     SuccessSurvives DEF Next, Gateway, Controller, Fault

\* For any number of actions, connections and faults, a recorded SUCCESS is
\* what the controller journalled for that very action, and the target of a
\* recorded rollback is gone for good (record_action_result, receive_text,
\* ActionJournal).
THEOREM RecordedIsReal == Spec => []SuccessIsReal
<1>1. SuccessInv => SuccessIsReal
  BY DEF SuccessInv, SuccessIsReal, Real
<1> QED
  BY <1>1, ExecutionStart, ExecutionStep, SuccessStart, SuccessStep, PTL DEF Spec

----------------------------------------------------------------------------
(* The version of the sandbox *)

\* Strengthens VersionCountsChanges: a call has an open row from the first
\* transaction until the second one, so no row is recorded twice.
VersionInv ==
    /\ state_version \in Nat
    /\ status = [a \in Actions |-> status[a]]
    /\ command = [a \in Actions |-> command[a]]
    /\ call = [a \in Actions |-> call[a]]
    /\ \A a \in Actions : call[a] = "IDLE" => status[a] = "NONE"
    /\ \A a \in Actions : call[a] \in {"OPENED", "WAITING", "ANSWERED"} => status[a] = "PENDING"
    /\ \A a \in pending_by_sandbox : a \in Actions /\ call[a] = "WAITING"
    /\ VersionCountsChanges

\* No action exists at first.
LEMMA VersionStart == Init => VersionInv
<1> SUFFICES ASSUME Init PROVE VersionInv
  OBVIOUS
<1>1. recorded = {}
  BY DEF Init, recorded
<1>2. VersionCountsChanges
  BY <1>1, FS_EmptySet DEF Init, VersionCountsChanges
<1> QED
  BY <1>2 DEF Init, VersionInv

\* What touches neither rows nor version and moves calls only forward.
LEMMA CallsMove ==
    ASSUME VersionInv, UNCHANGED dbVars,
           call' = [a \in Actions |-> call'[a]],
           \A a \in Actions :
              \/ call'[a] = call[a]
              \/ call[a] = "OPENED" /\ call'[a] \in {"WAITING", "ANSWERED"}
              \/ call[a] = "WAITING" /\ call'[a] = "ANSWERED"
              \/ call'[a] = "LOST",
           \A a \in pending_by_sandbox' : a \in Actions /\ call'[a] = "WAITING"
    PROVE  VersionInv'
<1>1. UNCHANGED <<state_version, status, command>>
  BY DEF dbVars
<1>2. VersionCountsChanges'
  BY <1>1 DEF VersionInv, VersionCountsChanges, recorded, mutating
<1> QED
  BY <1>1, <1>2 DEF VersionInv

\* A future that is resolved belongs to a waiting call.
LEMMA ResolveMoves ==
    ASSUME VersionInv, NEW actions \in SUBSET pending_by_sandbox, NEW outcome,
           resolve(actions, outcome), UNCHANGED dbVars
    PROVE  VersionInv'
<1>1. /\ call' = [a \in Actions |-> IF a \in actions THEN "ANSWERED" ELSE call[a]]
      /\ pending_by_sandbox' = pending_by_sandbox \ actions
  BY DEF resolve
<1>2. \A a \in Actions : call'[a] = IF a \in actions THEN "ANSWERED" ELSE call[a]
  BY <1>1
<1>3. \A a \in actions : call[a] = "WAITING"
  BY DEF VersionInv
<1>4. \A a \in pending_by_sandbox' : a \in Actions /\ call'[a] = "WAITING"
  BY <1>1, <1>2 DEF VersionInv
<1>5. call' = [a \in Actions |-> call'[a]]
  BY <1>1
<1> QED
  BY <1>2, <1>3, <1>4, <1>5, CallsMove

\* The second transaction counts the change it records.
LEMMA RecordCounts ==
    ASSUME VersionInv, NEW a \in Actions, record_action_result(a)
    PROVE  VersionInv'
<1>1. /\ call[a] = "ANSWERED" /\ status[a] = "PENDING"
      /\ UNCHANGED <<command, pending_by_sandbox>>
  BY DEF record_action_result, VersionInv
<1>2. \A b \in Actions : mutating(b)' = mutating(b)
  BY <1>1 DEF mutating
<1>3. /\ call' = [b \in Actions |-> call'[b]]
      /\ call'[a] \in {"RETURNED", "RAISED"}
      /\ \A b \in Actions : b # a => call'[b] = call[b]
  BY DEF record_action_result, VersionInv
<1>4. /\ status' = [b \in Actions |-> status'[b]]
      /\ \A b \in Actions : b # a => status'[b] = status[b]
  BY DEF record_action_result, VersionInv
<1>5. IsFiniteSet(recorded) /\ a \notin recorded
  BY <1>1, SandboxAssumption, FS_Subset DEF recorded
<1>6. state_version' \in Nat /\ VersionCountsChanges'
  <2>1. CASE result[a] = "SUCCESS" /\ mutating(a) /\ state_version = command[a].expected
    <3>1. state_version' = state_version + 1 /\ status'[a] = "SUCCESS"
      BY <2>1 DEF record_action_result, VersionInv
    <3>2. recorded' = recorded \cup {a}
      BY <1>2, <1>4, <2>1, <3>1 DEF recorded
    <3>3. Cardinality(recorded') = Cardinality(recorded) + 1
      BY <1>5, <3>2, FS_AddElement
    <3> QED
      BY <3>1, <3>3, SMT DEF VersionInv, VersionCountsChanges
  <2>2. CASE result[a] = "SUCCESS" /\ mutating(a) /\ state_version # command[a].expected
    <3>1. UNCHANGED <<state_version, status>>
      BY <2>2 DEF record_action_result
    <3>2. recorded' = recorded
      BY <1>2, <3>1 DEF recorded
    <3> QED
      BY <3>1, <3>2 DEF VersionInv, VersionCountsChanges
  <2>3. CASE ~(result[a] = "SUCCESS" /\ mutating(a))
    <3>1. state_version' = state_version /\ status'[a] = result[a]
      BY <2>3 DEF record_action_result, VersionInv
    <3>2. recorded' = recorded
      BY <1>1, <1>2, <1>4, <2>3, <3>1 DEF recorded
    <3> QED
      BY <3>1, <3>2 DEF VersionInv, VersionCountsChanges
  <2> QED
    BY <2>1, <2>2, <2>3
<1>7. \A b \in pending_by_sandbox' : b \in Actions /\ call'[b] = "WAITING"
  BY <1>1, <1>3 DEF VersionInv
<1> QED
  BY <1>1, <1>3, <1>4, <1>6, <1>7 DEF VersionInv

\* Every step of the gateway, the controller and the faults keeps it.
LEMMA VersionStep == VersionInv /\ [Next]_vars => VersionInv'
<1> SUFFICES ASSUME VersionInv, [Next]_vars PROVE VersionInv'
  OBVIOUS
<1>1. ASSUME NEW a \in Actions, NEW type, NEW target, open_pending_action(a, type, target)
      PROVE  VersionInv'
  <2>1. /\ call[a] = "IDLE" /\ status[a] = "NONE"
        /\ UNCHANGED <<state_version, pending_by_sandbox>>
    BY <1>1 DEF open_pending_action, VersionInv
  <2>2. /\ status' = [b \in Actions |-> status'[b]]
        /\ command' = [b \in Actions |-> command'[b]]
        /\ call' = [b \in Actions |-> call'[b]]
        /\ status'[a] = "PENDING" /\ call'[a] = "OPENED"
        /\ \A b \in Actions : b # a =>
              status'[b] = status[b] /\ command'[b] = command[b] /\ call'[b] = call[b]
    BY <1>1 DEF open_pending_action, VersionInv
  <2>3. recorded' = recorded
    BY <2>1, <2>2 DEF recorded, mutating
  <2> QED
    BY <2>1, <2>2, <2>3 DEF VersionInv, VersionCountsChanges
<1>2. ASSUME NEW a \in Actions, dispatch(a) PROVE VersionInv'
  <2>1. /\ call[a] = "OPENED" /\ UNCHANGED dbVars
        /\ call' = [b \in Actions |-> call'[b]]
        /\ \A b \in Actions : b # a => call'[b] = call[b]
        /\ \/ call'[a] = "WAITING" /\ pending_by_sandbox' = pending_by_sandbox \cup {a}
           \/ call'[a] = "ANSWERED" /\ pending_by_sandbox' = pending_by_sandbox
    BY <1>2 DEF dispatch, VersionInv
  <2>2. \A b \in pending_by_sandbox' : b \in Actions /\ call'[b] = "WAITING"
    BY <2>1, SMT DEF VersionInv
  <2> QED
    BY <2>1, <2>2, CallsMove
<1>3. ASSUME NEW a \in Actions, timeout(a) PROVE VersionInv'
  <2>1. /\ call[a] = "WAITING" /\ UNCHANGED dbVars
        /\ call' = [b \in Actions |-> call'[b]]
        /\ \A b \in Actions : b # a => call'[b] = call[b]
        /\ call'[a] = "ANSWERED" /\ pending_by_sandbox' = pending_by_sandbox \ {a}
    BY <1>3 DEF timeout, VersionInv
  <2>2. \A b \in pending_by_sandbox' : b \in Actions /\ call'[b] = "WAITING"
    BY <2>1 DEF VersionInv
  <2> QED
    BY <2>1, <2>2, CallsMove
<1>4. ASSUME NEW a \in Actions, record_action_result(a) PROVE VersionInv'
  BY <1>4, RecordCounts
<1>5. ASSUME NEW c \in handlers, receive_text(c) \/ handler_ends(c) PROVE VersionInv'
  <2>1. CASE receive_text(c)
    BY <2>1, ResolveMoves DEF receive_text
  <2>2. CASE handler_ends(c)
    BY <2>2, ResolveMoves DEF handler_ends
  <2> QED
    BY <1>5, <2>1, <2>2
<1>6. CASE gateway_crash
  <2>1. /\ call' = [a \in Actions |->
                   IF call[a] \in {"OPENED", "WAITING", "ANSWERED"} THEN "LOST" ELSE call[a]]
        /\ pending_by_sandbox' = {} /\ UNCHANGED dbVars
    BY <1>6 DEF gateway_crash
  <2> QED
    BY <2>1, CallsMove
<1>7. CASE sandbox_connect \/ Controller \/ link_drops \/ controller_crash \/ UNCHANGED vars
  <2>1. UNCHANGED <<dbVars, call, pending_by_sandbox>>
    BY <1>7 DEF sandbox_connect, Controller, execute_action, execute_raises, send_result,
                leave, link_drops, controller_crash, vars, gatewayVars
  <2> QED
    BY <2>1, CallsMove DEF VersionInv
<1> QED
  BY <1>1, <1>2, <1>3, <1>4, <1>5, <1>6, <1>7 DEF Next, Gateway, Fault

\* For any number of actions, connections and faults, the version counts the
\* recorded changes: record_action_result compares and sets it in the
\* transaction that settles the row, and each row is settled once.
THEOREM VersionCounts == Spec => []VersionCountsChanges
<1>1. VersionInv => VersionCountsChanges
  BY DEF VersionInv
<1> QED
  BY <1>1, VersionStart, VersionStep, PTL DEF Spec

\* Strengthens RaisedLostItsVersion: no command expects a version the sandbox
\* has not reached, so one that is not the current version is an earlier one.
RaceInv ==
    /\ \A a \in Actions : command[a].expected \in Nat /\ command[a].expected <= state_version
    /\ RaisedLostItsVersion

\* No other step than the two transactions touches a row or raises.
RowsKept == UNCHANGED dbVars /\ \A a \in Actions : call'[a] = call[a] \/ call'[a] # "RAISED"

LEMMA OtherSteps ==
    ASSUME VersionInv, [Next]_vars
    PROVE  \/ \E a \in Actions : record_action_result(a)
           \/ \E a \in Actions : \E type, target : open_pending_action(a, type, target)
           \/ RowsKept
<1>1. ASSUME NEW a \in Actions, dispatch(a) PROVE RowsKept
  BY <1>1 DEF dispatch, VersionInv, RowsKept
<1>2. ASSUME NEW a \in Actions, timeout(a) PROVE RowsKept
  BY <1>2 DEF timeout, VersionInv, RowsKept
<1>3. ASSUME NEW c \in handlers, receive_text(c) \/ handler_ends(c) PROVE RowsKept
  BY <1>3 DEF receive_text, handler_ends, resolve, RowsKept
<1>4. CASE gateway_crash
  BY <1>4 DEF gateway_crash, RowsKept
<1>5. CASE sandbox_connect \/ Controller \/ link_drops \/ controller_crash \/ UNCHANGED vars
  BY <1>5 DEF sandbox_connect, Controller, execute_action, execute_raises, send_result,
              leave, link_drops, controller_crash, vars, gatewayVars, RowsKept
<1> QED
  BY <1>1, <1>2, <1>3, <1>4, <1>5 DEF Next, Gateway, Fault

\* What leaves the rows alone and makes no call raise.
LEMMA NobodyRaises ==
    ASSUME RaceInv, RowsKept
    PROVE  RaceInv'
BY DEF RaceInv, RaisedLostItsVersion, RowsKept, dbVars

\* The second transaction either moves the version past every command, or
\* raises because it is past this one already.
LEMMA RecordRaces ==
    ASSUME VersionInv, RaceInv, NEW a \in Actions, record_action_result(a)
    PROVE  RaceInv'
<1>1. /\ call[a] = "ANSWERED" /\ status[a] = "PENDING" /\ command' = command
      /\ \A b \in Actions : b # a => call'[b] = call[b] /\ status'[b] = status[b]
  BY DEF record_action_result, VersionInv
<1>2. /\ state_version \in Nat
      /\ state_version' = state_version \/ state_version' = state_version + 1
  BY DEF record_action_result, VersionInv
<1>3. call'[a] = "RAISED" =>
          status'[a] = status[a] /\ state_version' = state_version
          /\ state_version # command[a].expected
  BY DEF record_action_result, VersionInv
<1>4. \A b \in Actions : command[b].expected \in Nat /\ command[b].expected <= state_version
  BY DEF RaceInv
<1>5. \A b \in Actions : command'[b].expected \in Nat /\ command'[b].expected <= state_version'
  BY <1>1, <1>2, <1>4, SMT
<1>6. ASSUME NEW b \in Actions, call'[b] = "RAISED"
      PROVE  status'[b] = "PENDING" /\ command'[b].expected < state_version'
  <2>1. CASE b = a
    BY <1>1, <1>2, <1>3, <1>4, <1>6, <2>1, SMT
  <2>2. CASE b # a
    <3>1. status[b] = "PENDING" /\ command[b].expected < state_version
      BY <1>1, <1>6, <2>2 DEF RaceInv, RaisedLostItsVersion
    <3> QED
      BY <1>1, <1>2, <1>4, <2>2, <3>1, SMT
  <2> QED
    BY <2>1, <2>2
<1> QED
  BY <1>5, <1>6 DEF RaceInv, RaisedLostItsVersion

\* The first transaction expects the current version.
LEMMA OpenRaces ==
    ASSUME VersionInv, RaceInv, NEW a \in Actions, NEW type, NEW target,
           open_pending_action(a, type, target)
    PROVE  RaceInv'
<1>1. /\ call[a] = "IDLE" /\ call'[a] = "OPENED" /\ state_version' = state_version
      /\ command'[a] = [type |-> type, target |-> target, expected |-> state_version]
      /\ \A b \in Actions : b # a =>
            call'[b] = call[b] /\ status'[b] = status[b] /\ command'[b] = command[b]
  BY DEF open_pending_action, VersionInv
<1>2. command'[a].expected = state_version
  BY <1>1, SMT
<1>3. state_version \in Nat /\ state_version <= state_version
  <2>1. state_version \in Nat
    BY DEF VersionInv
  <2> QED
    BY <2>1, SMT
<1>4. \A b \in Actions :
          command'[b].expected \in Nat /\ command'[b].expected <= state_version'
  BY <1>1, <1>2, <1>3 DEF RaceInv
<1>5. RaisedLostItsVersion'
  BY <1>1 DEF RaceInv, RaisedLostItsVersion
<1> QED
  BY <1>4, <1>5 DEF RaceInv

\* With any number of concurrent commands, the one that raises has lost to a
\* recorded change: neither a timeout, a crash nor a failed command makes
\* record_action_result raise.
THEOREM RaisedCallsLostTheirVersion == Spec => []RaisedLostItsVersion
<1>1. Init => RaceInv
  <2> SUFFICES ASSUME Init PROVE RaceInv
    OBVIOUS
  <2>1. state_version = 0 /\ \A a \in Actions : command[a].expected = 0 /\ call[a] = "IDLE"
    BY DEF Init, RaceInv, NoCommand
  <2> QED
    BY <2>1, SMT DEF RaceInv, RaisedLostItsVersion
<1>2. VersionInv /\ RaceInv /\ [Next]_vars => RaceInv'
  BY OtherSteps, NobodyRaises, RecordRaces, OpenRaces
<1>3. RaceInv => RaisedLostItsVersion
  BY DEF RaceInv
<1> QED
  BY <1>1, <1>2, <1>3, VersionStart, VersionStep, PTL DEF Spec

\* For any schedule, a settled row is never rewritten: only an open call
\* records, and its row is PENDING until then (record_action_result).
THEOREM SettledRowsStay == Spec => RecordsAreFinal
<1> DEFINE Final == \A a \in Actions :
                       status[a] \notin {"NONE", "PENDING"} =>
                           status'[a] = status[a] /\ command'[a] = command[a]
<1>1. VersionInv /\ [Next]_vars => [Final]_vars
  <2> SUFFICES ASSUME VersionInv, [Next]_vars PROVE Final
    OBVIOUS
  <2>1. ASSUME NEW a \in Actions, record_action_result(a) PROVE Final
    BY <2>1 DEF record_action_result, VersionInv
  <2>2. ASSUME NEW a \in Actions, NEW type, NEW target, open_pending_action(a, type, target)
        PROVE  Final
    BY <2>2 DEF open_pending_action, VersionInv
  <2>3. CASE RowsKept
    BY <2>3 DEF RowsKept, dbVars
  <2> QED
    BY <2>1, <2>2, <2>3, OtherSteps
<1> QED
  BY <1>1, VersionStart, VersionStep, PTL DEF Spec, RecordsAreFinal

----------------------------------------------------------------------------
(* Scans and deployments *)

\* Strengthens PlacedWasScanned.  The scanner's lock keeps a scan and the
\* approval apart, so an approved row keeps the report it was approved on; a
\* report on changed bytes means that the file has them for good.
ScanInv ==
    /\ report.bytes = "CHANGED" => file = "CHANGED"
    /\ scan_status \in {"CLEAN", "SUSPICIOUS", "APPROVED"} => report.harmless
    /\ scan_status # "UPLOADED" => scanning = {}
    /\ \A v, w \in scanning : v = w
    /\ approved <=> scan_status = "APPROVED"
    /\ \A c \in DeployCallers : checked[c] # {} => approved
    /\ \A k \in Keys : deployment[k].status # "NONE" => approved
    /\ \A k \in Keys : deploy_command[k] # "NONE" => approved
    /\ \A k \in Keys : \A b \in sandbox_disk[k] :
          b = "ORIGINAL" /\ report.bytes = "ORIGINAL" /\ approved

\* Calls of deploy_artifact that are past their checks.
Deploying == {c \in DeployCallers : checked[c] # {}}

\* Strengthens OverlapIsContained: a call past its checks may still add a
\* deployment, and a deployment was opened at no later version than now.
OverlapInv ==
    /\ Cardinality(deployment_active) + Cardinality(Deploying) <= Cardinality(DeployCallers)
    /\ \A k \in Keys : deployment[k].expected <= sandbox_version
    /\ \A k \in Keys : deployment[k].status = "DEPLOYED" => deployment[k].expected < sandbox_version
    /\ \A j, k \in Keys :
          /\ deployment[j].status = "DEPLOYED" /\ deployment[k].status = "DEPLOYED"
          /\ deployment[j].expected = deployment[k].expected
          => j = k

\* A verdict that can be approved is one of a scan whose tools all finished
\* and found nothing malicious (scan).
LEMMA VerdictMeans ==
    \A t \in Tools : /\ verdict(t) \in Verdicts
                     /\ verdict(t) \in {"CLEAN", "SUSPICIOUS"} => harmless(t) = TRUE
                     /\ harmless(t) \in BOOLEAN
<1> SUFFICES ASSUME NEW t \in Tools
             PROVE  /\ verdict(t) \in Verdicts
                    /\ verdict(t) \in {"CLEAN", "SUSPICIOUS"} => harmless(t) = TRUE
                    /\ harmless(t) \in BOOLEAN
  OBVIOUS
<1>1. /\ t.archive \in {"ACCEPTED", "REJECTED"}
      /\ t.clamav \in {"CLEAN", "MALICIOUS", "FAILED"}
  BY DEF Tools, ArchiveResults
<1>2. harmless(t) \in BOOLEAN
  BY DEF harmless
<1>3. verdict(t) \in {"CLEAN", "SUSPICIOUS"} => harmless(t)
  BY <1>1 DEF verdict, harmless
<1>4. verdict(t) \in Verdicts
  BY <1>1 DEF verdict, Verdicts
<1> QED
  BY <1>2, <1>3, <1>4

\* A scan leaves a report on the bytes it saw, and an approvable verdict only
\* on harmless ones.
LEMMA ScanWrites ==
    ASSUME DeploymentTypeOK, NEW t \in Tools,
           scan_status' = verdict(t), report' = scanned_as(t)
    PROVE  /\ scan_status' \in Verdicts
           /\ report' \in Reports /\ report'.bytes = file
           /\ scan_status' \in {"CLEAN", "SUSPICIOUS"} => report'.harmless
<1>1. harmless(t) \in BOOLEAN /\ verdict(t) \in Verdicts
  BY VerdictMeans
<1>2. report' \in Reports /\ report'.bytes = file /\ report'.harmless = harmless(t)
  BY <1>1 DEF scanned_as, Reports, DeploymentTypeOK
<1> QED
  BY <1>1, <1>2, VerdictMeans

\* Every step keeps the types.
LEMMA DeploymentTypes ==
    DeploymentTypeOK /\ [DeploymentNext]_deploymentVars => DeploymentTypeOK'
<1> SUFFICES ASSUME DeploymentTypeOK, [DeploymentNext]_deploymentVars PROVE DeploymentTypeOK'
  OBVIOUS
<1>1. CASE upload_artifact
  <2>1. scan_status' \in {"NONE", "UPLOADED", "APPROVED"} \cup Verdicts /\ report' \in Reports
    BY <1>1, ScanWrites DEF upload_artifact, DeploymentTypeOK
  <2> QED
    BY <1>1, <2>1 DEF upload_artifact, DeploymentTypeOK
<1>2. CASE approve_artifact
  BY <1>2 DEF approve_artifact, DeploymentTypeOK
<1>3. CASE file_changes
  BY <1>3, DeploymentAssumption, SMT DEF file_changes, DeploymentTypeOK, ArtifactBytes
<1>4. ASSUME NEW w \in Scanners, claim(w) \/ scanner_crashes(w) PROVE DeploymentTypeOK'
  BY <1>4, DeploymentAssumption, SMT DEF claim, scanner_crashes, DeploymentTypeOK
<1>5. ASSUME NEW w \in Scanners, scan_artifact_record(w) PROVE DeploymentTypeOK'
  <2>1. scan_status' \in Verdicts /\ report' \in Reports
    BY <1>5, ScanWrites DEF scan_artifact_record
  <2> QED
    BY <1>5, <2>1 DEF scan_artifact_record, DeploymentTypeOK
<1>6. ASSUME NEW c \in DeployCallers, NEW k \in Keys, deploy_checks(c, k)
      PROVE  DeploymentTypeOK'
  BY <1>6 DEF deploy_checks, DeploymentTypeOK, artifactVars
<1>7. ASSUME NEW c \in DeployCallers, NEW k \in Keys, deploy_commits(c, k)
      PROVE  DeploymentTypeOK'
  <2>1. [status |-> "PENDING", token |-> "FRESH", expected |-> sandbox_version]
           \in [status : DeploymentStatuses, token : TokenStates, expected : Nat]
    BY DEF DeploymentTypeOK, DeploymentStatuses, TokenStates
  <2> QED
    BY <1>7, <2>1 DEF deploy_commits, DeploymentTypeOK, artifactVars
<1>8. ASSUME NEW k \in Keys,
             dispatch_place_artifact(k) \/ place_artifact(k) \/ controller_crashes(k)
      PROVE  DeploymentTypeOK'
  <2> USE DeploymentAssumption DEF DeploymentTypeOK, artifactVars, DeployCommands, ArtifactBytes
  <2>1. CASE dispatch_place_artifact(k)
    BY <2>1 DEF dispatch_place_artifact
  <2>2. CASE place_artifact(k)
    <3>1. sandbox_disk' \in [Keys -> SUBSET ArtifactBytes]
      BY <2>2, SMT DEF place_artifact
    <3>2. deploy_command' \in [Keys -> DeployCommands]
      BY <2>2 DEF place_artifact
    <3>3. UNCHANGED <<artifactVars, checked, deployment, sandbox_version, deploy_faults>>
      BY <2>2 DEF place_artifact
    <3> QED
      BY <3>1, <3>2, <3>3
  <2>3. CASE controller_crashes(k)
    BY <2>3, SMT DEF controller_crashes
  <2> QED
    BY <1>8, <2>1, <2>2, <2>3
<1>9. ASSUME NEW k \in Keys,
             download_token_expires(k) \/ download_artifact(k)
                \/ record_success(k) \/ record_failure(k) \/ time_out(k)
      PROVE  DeploymentTypeOK'
  <2> USE DEF DeploymentTypeOK, artifactVars, DeployCommands, DeploymentStatuses, TokenStates
  <2>0. CASE download_token_expires(k)
    BY <2>0, SMT DEF download_token_expires
  <2>1. CASE download_artifact(k)
    <3>1. deploy_command' \in [Keys -> DeployCommands]
      BY <2>1 DEF download_artifact
    <3>2. deployment' \in [Keys -> [status : DeploymentStatuses, token : TokenStates,
                                    expected : Nat]]
      BY <2>1, SMT DEF download_artifact
    <3>3. UNCHANGED <<artifactVars, checked, sandbox_version, sandbox_disk, deploy_faults>>
      BY <2>1 DEF download_artifact
    <3> QED
      BY <3>1, <3>2, <3>3
  <2>2. CASE record_success(k)
    <3>1. deploy_command' \in [Keys -> DeployCommands]
      BY <2>2 DEF record_success
    <3>2. deployment' \in [Keys -> [status : DeploymentStatuses, token : TokenStates,
                                    expected : Nat]]
      <4>1. deployment' \in {deployment, [deployment EXCEPT ![k].status = "DEPLOYED"]}
        BY <2>2 DEF record_success
      <4>2. [deployment EXCEPT ![k].status = "DEPLOYED"]
               \in [Keys -> [status : DeploymentStatuses, token : TokenStates, expected : Nat]]
        BY SMT
      <4> QED
        BY <4>1, <4>2
    <3>3. sandbox_version' \in Nat
      <4>1. sandbox_version' \in {sandbox_version, deployment[k].expected + 1}
        BY <2>2 DEF record_success
      <4>2. sandbox_version \in Nat /\ deployment[k].expected \in Nat
        BY SMT
      <4> QED
        BY <4>1, <4>2, SMT
    <3>4. UNCHANGED <<artifactVars, checked, sandbox_disk, deploy_faults>>
      BY <2>2 DEF record_success
    <3> QED
      BY <3>1, <3>2, <3>3, <3>4
  <2>3. CASE record_failure(k)
    BY <2>3, SMT DEF record_failure
  <2>4. CASE time_out(k)
    BY <2>4, SMT DEF time_out
  <2> QED
    BY <1>9, <2>0, <2>1, <2>2, <2>3, <2>4
<1>10. CASE UNCHANGED deploymentVars
  BY <1>10 DEF deploymentVars, artifactVars, DeploymentTypeOK
<1>11. ASSUME NEW c \in DeployCallers, deploy_raises(c) PROVE DeploymentTypeOK'
  BY <1>11 DEF deploy_raises, DeploymentTypeOK, artifactVars
<1> QED
  BY <1>1, <1>2, <1>3, <1>4, <1>5, <1>6, <1>7, <1>8, <1>9, <1>10, <1>11, SMT DEF DeploymentNext

\* Every step keeps what the row and the disk say about the scan.
LEMMA ScanStep ==
    DeploymentTypeOK /\ ScanInv /\ [DeploymentNext]_deploymentVars => ScanInv'
<1> SUFFICES ASSUME DeploymentTypeOK, ScanInv, [DeploymentNext]_deploymentVars PROVE ScanInv'
  OBVIOUS
<1>1. CASE upload_artifact
  <2>1. /\ ~approved
        /\ scan_status' \notin {"NONE", "APPROVED"}
        /\ report'.bytes = "CHANGED" => file = "CHANGED"
        /\ scan_status' \in {"CLEAN", "SUSPICIOUS"} => report'.harmless
    BY <1>1, ScanWrites DEF upload_artifact, ScanInv, Verdicts
  <2> QED
    BY <1>1, <2>1 DEF upload_artifact, ScanInv
<1>2. CASE approve_artifact
  BY <1>2 DEF approve_artifact, ScanInv, row_free
<1>3. CASE file_changes
  BY <1>3 DEF file_changes, ScanInv
<1>4. ASSUME NEW w \in Scanners, claim(w) \/ scanner_crashes(w) PROVE ScanInv'
  BY <1>4, SMT DEF claim, scanner_crashes, row_free, ScanInv
<1>5. ASSUME NEW w \in Scanners, scan_artifact_record(w) PROVE ScanInv'
  <2>1. scan_status = "UPLOADED" /\ ~approved
    BY <1>5 DEF scan_artifact_record, ScanInv
  <2>2. /\ scan_status' \notin {"NONE", "APPROVED", "UPLOADED"}
        /\ report'.bytes = "CHANGED" => file = "CHANGED"
        /\ scan_status' \in {"CLEAN", "SUSPICIOUS"} => report'.harmless
    BY <1>5, ScanWrites DEF scan_artifact_record, Verdicts
  <2> QED
    BY <1>5, <2>1, <2>2 DEF scan_artifact_record, ScanInv
<1>6. ASSUME NEW c \in DeployCallers, NEW k \in Keys, deploy_checks(c, k) PROVE ScanInv'
  BY <1>6 DEF deploy_checks, ScanInv, DeploymentTypeOK, artifactVars
<1>7. ASSUME NEW c \in DeployCallers, NEW k \in Keys, deploy_commits(c, k) PROVE ScanInv'
  BY <1>7 DEF deploy_commits, ScanInv, DeploymentTypeOK, artifactVars
<1>8. ASSUME NEW c \in DeployCallers, deploy_raises(c) PROVE ScanInv'
  BY <1>8 DEF deploy_raises, ScanInv, DeploymentTypeOK, artifactVars
<1>9. ASSUME NEW k \in Keys, dispatch_place_artifact(k) \/ controller_crashes(k) PROVE ScanInv'
  BY <1>9 DEF dispatch_place_artifact, controller_crashes, ScanInv, DeploymentTypeOK, artifactVars
<1>10. ASSUME NEW k \in Keys, place_artifact(k) PROVE ScanInv'
  <2>1. approved
    BY <1>10 DEF place_artifact, ScanInv
  <2>2. file = "ORIGINAL" => report.bytes = "ORIGINAL"
    BY DEF ScanInv, DeploymentTypeOK, Reports, ArtifactBytes
  <2> QED
    BY <1>10, <2>1, <2>2, SMT DEF place_artifact, hash_matches, ScanInv, DeploymentTypeOK, artifactVars
<1>11. ASSUME NEW k \in Keys,
              download_token_expires(k) \/ download_artifact(k)
                 \/ record_success(k) \/ record_failure(k) \/ time_out(k)
       PROVE  ScanInv'
  BY <1>11 DEF download_token_expires, download_artifact, record_success, record_failure,
               time_out, ScanInv, DeploymentTypeOK, artifactVars
<1>12. CASE UNCHANGED deploymentVars
  BY <1>12 DEF deploymentVars, artifactVars, ScanInv
<1> QED
  BY <1>1, <1>2, <1>3, <1>4, <1>5, <1>6, <1>7, <1>8, <1>9, <1>10, <1>11, <1>12, SMT
     DEF DeploymentNext

\* Nothing is uploaded at first.
LEMMA DeploymentStart == DeploymentInit => DeploymentTypeOK /\ ScanInv /\ OverlapInv
<1> SUFFICES ASSUME DeploymentInit PROVE DeploymentTypeOK /\ ScanInv /\ OverlapInv
  OBVIOUS
<1>1. DeploymentTypeOK
  <2>1. report \in Reports
    BY DEF DeploymentInit, NoReport, Reports, ArtifactBytes
  <2>2. deployment \in [Keys -> [status : DeploymentStatuses, token : TokenStates, expected : Nat]]
    BY DEF DeploymentInit, NoDeployment, DeploymentStatuses, TokenStates
  <2>3. deploy_command \in [Keys -> DeployCommands] /\ deploy_faults \in 0..MaxDeployFaults
    BY DeploymentAssumption, SMT DEF DeploymentInit, DeployCommands
  <2> QED
    BY <2>1, <2>2, <2>3 DEF DeploymentInit, DeploymentTypeOK, ArtifactBytes
<1>2. ScanInv
  BY DEF DeploymentInit, ScanInv, NoReport, NoDeployment
<1>3. deployment_active = {} /\ Deploying = {}
  BY DEF DeploymentInit, deployment_active, Deploying, NoDeployment
<1>4. Cardinality(DeployCallers) \in Nat
  BY DeploymentAssumption, FS_CardinalityType
<1>5. \A k \in Keys : deployment[k].expected = 0 /\ deployment[k].status = "NONE"
  BY DEF DeploymentInit, NoDeployment
<1>6. sandbox_version = 0
  BY DEF DeploymentInit
<1> QED
  BY <1>1, <1>2, <1>3, <1>4, <1>5, <1>6, FS_EmptySet, SMT DEF OverlapInv

\* What a step that opens no deployment leaves of the two numbers.
LEMMA OverlapShrinks ==
    ASSUME OverlapInv,
           deployment_active' \subseteq deployment_active, Deploying' \subseteq Deploying
    PROVE  Cardinality(deployment_active') + Cardinality(Deploying') <= Cardinality(DeployCallers)
<1>1. IsFiniteSet(deployment_active) /\ IsFiniteSet(Deploying) /\ IsFiniteSet(DeployCallers)
  BY DeploymentAssumption, FS_Subset DEF deployment_active, Deploying
<1>2. /\ Cardinality(deployment_active') <= Cardinality(deployment_active)
      /\ Cardinality(Deploying') <= Cardinality(Deploying)
      /\ IsFiniteSet(deployment_active') /\ IsFiniteSet(Deploying')
  BY <1>1, FS_Subset
<1>3. /\ Cardinality(deployment_active) \in Nat /\ Cardinality(Deploying) \in Nat
      /\ Cardinality(deployment_active') \in Nat /\ Cardinality(Deploying') \in Nat
      /\ Cardinality(DeployCallers) \in Nat
  BY <1>1, <1>2, FS_CardinalityType
<1> QED
  BY <1>2, <1>3, SMT DEF OverlapInv

\* The row a deployment starts with.
PendingRow(v) == [status |-> "PENDING", token |-> "FRESH", expected |-> v]

LEMMA PendingRowFields ==
    ASSUME NEW v
    PROVE  PendingRow(v).status = "PENDING" /\ PendingRow(v).expected = v
BY SMT DEF PendingRow

\* A call of deploy_artifact that passes its checks, or that adds its row,
\* keeps the two numbers together within the number of calls.
LEMMA OverlapGrows ==
    ASSUME DeploymentTypeOK, OverlapInv, NEW c \in DeployCallers, NEW k \in Keys
    PROVE  deploy_checks(c, k) \/ deploy_commits(c, k)
           => Cardinality(deployment_active') + Cardinality(Deploying')
                 <= Cardinality(DeployCallers)
<1>1. /\ IsFiniteSet(deployment_active) /\ Cardinality(deployment_active) \in Nat
      /\ IsFiniteSet(Deploying) /\ Cardinality(Deploying) \in Nat
      /\ Cardinality(DeployCallers) \in Nat
  BY DeploymentAssumption, FS_Subset, FS_CardinalityType DEF deployment_active, Deploying
<1>2. ASSUME deploy_checks(c, k)
      PROVE  Cardinality(deployment_active') + Cardinality(Deploying')
                <= Cardinality(DeployCallers)
  <2>1. deployment_active' = {}
    BY <1>2 DEF deploy_checks, none_active, deployment_active
  <2>2. Cardinality(Deploying') <= Cardinality(DeployCallers) /\ Cardinality(Deploying') \in Nat
    <3>1. Deploying' \in SUBSET DeployCallers
      BY DEF Deploying
    <3> QED
      BY <3>1, DeploymentAssumption, FS_Subset, FS_CardinalityType
  <2> QED
    BY <1>1, <2>1, <2>2, FS_EmptySet, SMT
<1>3. ASSUME deploy_commits(c, k)
      PROVE  Cardinality(deployment_active') + Cardinality(Deploying')
                <= Cardinality(DeployCallers)
  <2>1. deployment_active' = deployment_active \cup {k} /\ k \notin deployment_active
    <3>1. /\ deployment[k].status = "NONE" /\ deployment'[k] = PendingRow(sandbox_version)
          /\ \A j \in Keys : j # k => deployment'[j] = deployment[j]
      BY <1>3 DEF deploy_commits, DeploymentTypeOK, PendingRow
    <3>2. deployment'[k].status = "PENDING"
      BY <3>1, PendingRowFields
    <3>3. \A j \in Keys : j \in deployment_active' <=> j \in deployment_active \/ j = k
      BY <3>1, <3>2 DEF deployment_active
    <3>4. deployment_active' \subseteq Keys /\ deployment_active \subseteq Keys
      BY DEF deployment_active
    <3> QED
      BY <3>1, <3>3, <3>4 DEF deployment_active
  <2>2. Deploying' = Deploying \ {c} /\ c \in Deploying
    BY <1>3 DEF deploy_commits, Deploying, DeploymentTypeOK
  <2>3. Cardinality(deployment_active') = Cardinality(deployment_active) + 1
    BY <1>1, <2>1, FS_AddElement
  <2>4. Cardinality(Deploying') = Cardinality(Deploying) - 1
    BY <1>1, <2>2, FS_RemoveElement
  <2>5. Cardinality(deployment_active') \in Nat
    BY <1>1, <2>1, FS_AddElement, FS_CardinalityType
  <2> QED
    BY <1>1, <2>3, <2>4, <2>5, SMT DEF OverlapInv
<1> QED
  BY <1>2, <1>3

\* Every step keeps the bound on active deployments and the versions.
LEMMA OverlapStep ==
    DeploymentTypeOK /\ OverlapInv /\ [DeploymentNext]_deploymentVars => OverlapInv'
<1> SUFFICES ASSUME DeploymentTypeOK, OverlapInv, [DeploymentNext]_deploymentVars
             PROVE  OverlapInv'
  OBVIOUS
<1>1. ASSUME UNCHANGED <<deployment, checked, sandbox_version>> PROVE OverlapInv'
  BY <1>1 DEF OverlapInv, deployment_active, Deploying
<1>2. ASSUME NEW c \in DeployCallers, NEW k \in Keys, deploy_checks(c, k) PROVE OverlapInv'
  BY <1>2, OverlapGrows DEF deploy_checks, OverlapInv
<1>3. ASSUME NEW c \in DeployCallers, NEW k \in Keys, deploy_commits(c, k) PROVE OverlapInv'
  <2>1. \A j \in Keys : deployment'[j] = IF j = k
           THEN [status |-> "PENDING", token |-> "FRESH", expected |-> sandbox_version]
           ELSE deployment[j]
    BY <1>3 DEF deploy_commits, DeploymentTypeOK
  <2>2. UNCHANGED sandbox_version /\ sandbox_version \in Nat
    BY <1>3 DEF deploy_commits, DeploymentTypeOK
  <2>3. Cardinality(deployment_active') + Cardinality(Deploying') <= Cardinality(DeployCallers)
    BY <1>3, OverlapGrows
  <2>4. \A j \in Keys : /\ j # k => deployment'[j] = deployment[j]
                        /\ j = k => deployment'[j].expected = sandbox_version'
                                    /\ deployment'[j].status = "PENDING"
    <3>1. deployment'[k] = PendingRow(sandbox_version)
      BY <2>1 DEF PendingRow
    <3>2. deployment'[k].expected = sandbox_version' /\ deployment'[k].status = "PENDING"
      BY <2>2, <3>1, PendingRowFields
    <3>3. \A j \in Keys : j # k => deployment'[j] = deployment[j]
      BY <2>1
    <3> QED
      BY <3>2, <3>3
  <2>5. \A j \in Keys : deployment'[j].expected <= sandbox_version'
    <3>1. sandbox_version' <= sandbox_version'
      BY <2>2, SMT
    <3> QED
      BY <2>2, <2>4, <3>1 DEF OverlapInv
  <2> QED
    BY <2>2, <2>3, <2>4, <2>5, ZenonT(30) DEF OverlapInv
<1>4. ASSUME NEW c \in DeployCallers, deploy_raises(c) PROVE OverlapInv'
  <2>1. deployment_active' = deployment_active /\ Deploying' \subseteq Deploying
    BY <1>4 DEF deploy_raises, deployment_active, Deploying, DeploymentTypeOK
  <2> QED
    BY <1>4, <2>1, OverlapShrinks DEF deploy_raises, OverlapInv
<1>5. ASSUME NEW k \in Keys, UNCHANGED <<checked, sandbox_version>>,
             \A j \in Keys : /\ deployment'[j].expected = deployment[j].expected
                             /\ \/ deployment'[j].status = deployment[j].status
                                \/ deployment'[j].status = "FAILED"
      PROVE  OverlapInv'
  <2>1. deployment_active' \subseteq deployment_active /\ Deploying' = Deploying
    BY <1>5 DEF deployment_active, Deploying
  <2>2. Cardinality(deployment_active') + Cardinality(Deploying') <= Cardinality(DeployCallers)
    BY <2>1, OverlapShrinks
  <2>3. \A j \in Keys : deployment'[j].status = "DEPLOYED" => deployment[j].status = "DEPLOYED"
    BY <1>5
  <2> QED
    BY <1>5, <2>2, <2>3, SMTT(60) DEF OverlapInv
<1>6. ASSUME NEW k \in Keys,
             download_token_expires(k) \/ download_artifact(k)
                \/ record_failure(k) \/ time_out(k)
      PROVE  OverlapInv'
  BY <1>5, <1>6, SMTT(30) DEF download_token_expires, download_artifact, record_failure, time_out,
                    DeploymentTypeOK
<1>7. ASSUME NEW k \in Keys, record_success(k) PROVE OverlapInv'
  <2>1. CASE UNCHANGED <<sandbox_version, deployment>>
    BY <1>1, <1>7, <2>1 DEF record_success
  <2>2. CASE /\ version_current(k) /\ sandbox_version' = deployment[k].expected + 1
             /\ deployment' = [deployment EXCEPT ![k].status = "DEPLOYED"]
    <3>1. \A j \in Keys : /\ deployment'[j].expected = deployment[j].expected
                          /\ j # k => deployment'[j].status = deployment[j].status
      BY <2>2 DEF DeploymentTypeOK
    <3>2. sandbox_version' = sandbox_version + 1 /\ deployment[k].expected = sandbox_version
      BY <2>2 DEF version_current
    <3>3. deployment_active' \subseteq deployment_active /\ Deploying' = Deploying
      BY <1>7, <3>1 DEF record_success, deployment_active, Deploying
    <3>4. \A j \in Keys : deployment[j].expected \in Nat /\ sandbox_version \in Nat
      BY DEF DeploymentTypeOK
    <3>5. Cardinality(deployment_active') + Cardinality(Deploying') <= Cardinality(DeployCallers)
      BY <3>3, OverlapShrinks
    <3>6. \A j \in Keys : deployment[j].expected <= sandbox_version
      BY DEF OverlapInv
    <3>7. \A j \in Keys : /\ deployment'[j].expected <= sandbox_version'
                          /\ deployment'[j].expected < sandbox_version'
      BY <3>1, <3>2, <3>4, <3>6, SMT
    <3>8. \A j \in Keys : deployment[j].status = "DEPLOYED"
                          => deployment[j].expected # deployment[k].expected
      <4>1. \A j \in Keys : deployment[j].status = "DEPLOYED"
                            => deployment[j].expected < sandbox_version
        BY DEF OverlapInv
      <4> QED
        BY <3>2, <3>4, <4>1, SMT
    <3>9. \A i, j \in Keys :
             /\ deployment'[i].status = "DEPLOYED" /\ deployment'[j].status = "DEPLOYED"
             /\ deployment'[i].expected = deployment'[j].expected
             => i = j
      BY <3>1, <3>8, SMTT(30) DEF OverlapInv
    <3> QED
      BY <3>5, <3>7, <3>9 DEF OverlapInv
  <2> QED
    BY <1>7, <2>1, <2>2 DEF record_success
<1>8. ASSUME NEW k \in Keys,
             dispatch_place_artifact(k) \/ place_artifact(k) \/ controller_crashes(k)
      PROVE  OverlapInv'
  BY <1>1, <1>8 DEF dispatch_place_artifact, place_artifact, controller_crashes
<1>9. ASSUME NEW w \in Scanners, claim(w) \/ scan_artifact_record(w) \/ scanner_crashes(w)
      PROVE  OverlapInv'
  BY <1>1, <1>9 DEF claim, scan_artifact_record, scanner_crashes
<1>10. CASE upload_artifact \/ approve_artifact \/ file_changes
  BY <1>1, <1>10 DEF upload_artifact, approve_artifact, file_changes
<1>11. CASE UNCHANGED deploymentVars
  BY <1>1, <1>11 DEF deploymentVars
<1> QED
  BY <1>2, <1>3, <1>4, <1>6, <1>7, <1>8, <1>9, <1>10, <1>11, ZenonT(30) DEF DeploymentNext

\* Only bytes that were scanned as they are, found harmless and approved
\* reach the disk of a sandbox, for any number of scanners, calls and
\* deployments (scan, approve_artifact, download_artifact, _place_artifact).
THEOREM OnlyScannedBytesArePlaced == DeploymentSpec => []PlacedWasScanned
<1>1. DeploymentTypeOK /\ ScanInv => PlacedWasScanned
  BY DEF ScanInv, PlacedWasScanned
<1> QED
  BY <1>1, DeploymentStart, DeploymentTypes, ScanStep, PTL DEF DeploymentSpec

\* Calls of deploy_artifact that overlap leave no more active deployments
\* than there are calls, and one DEPLOYED per sandbox_version
\* (deploy_artifact, record_action_result).
THEOREM DeploymentsOverlapBounded == DeploymentSpec => []OverlapIsContained
<1>1. DeploymentTypeOK /\ OverlapInv => OverlapIsContained
  <2>1. /\ Cardinality(deployment_active) \in Nat /\ Cardinality(Deploying) \in Nat
        /\ Cardinality(DeployCallers) \in Nat
    BY DeploymentAssumption, FS_Subset, FS_CardinalityType DEF deployment_active, Deploying
  <2> QED
    BY <2>1, SMT DEF OverlapInv, OverlapIsContained
<1> QED
  BY <1>1, DeploymentStart, DeploymentTypes, OverlapStep, PTL DEF DeploymentSpec

=============================================================================
