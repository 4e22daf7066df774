------------------------ MODULE AgentEnrollmentProofs ------------------------
(***************************************************************************)
(* Proofs about AgentEnrollment, for any number of agents, calls and       *)
(* tokens.                                                                 *)
(*                                                                         *)
(* Then about CaseTeardown, whose attempts resume behind the last finished *)
(* step, and about ServerInstaller, whose runs skip what the journal has,  *)
(* for any number of attempts, operations and faults.                      *)
(***************************************************************************)
EXTENDS AgentEnrollment, CaseTeardown, ServerInstaller, CommonLemmas, TLAPS

\* Most steps are first-order; those with arithmetic cite SMT.
USE Zenon

Consuming(c) == call[c].stage \in {"TOKEN", "ENROLLING"}
Signed(c) == call[c].stage \in {"ENROLLING", "RENEWING"}
Revoking(c) == call[c].stage \in {"REVOCATION", "REVOKED"}

\* A call that is consuming a token is the only one, and the token is unused.
TokenInv ==
    /\ \A c \in Callers : Consuming(c) =>
          \E t \in Token : call[c].token = {t} /\ t.subject = call[c].agent /\ t \notin used
    /\ \A c, d \in Callers :
          Consuming(c) /\ Consuming(d) /\ call[c].token = call[d].token => c = d
    /\ \A c \in Callers :
          call[c].stage \in {"NEW", "RENEWAL", "RENEWING", "REVOCATION", "REVOKED"}
             => call[c].token = {}
    /\ \A i \in DOMAIN history : history[i].via \subseteq used

\* The certificate s was issued to a or renewed for it.
Certified(s, a) == \E i \in DOMAIN history : certifies(i, a) /\ history[i].serial = s

\* A certificate a call still holds to itself is in no table; one in the
\* history was certified once.
SerialInv ==
    /\ \A c \in Callers : Signed(c) => call[c].serial \in 1..signed
    /\ \A c \in Callers, i \in DOMAIN history :
          Signed(c) => history[i].serial # call[c].serial
    /\ \A c, d \in Callers :
          Signed(c) /\ Signed(d) /\ call[c].serial = call[d].serial => c = d
    /\ \A i \in DOMAIN history : history[i].serial \in 1..signed
    /\ \A i, j \in DOMAIN history :
          /\ history[i].action # "REVOKED" /\ history[j].action # "REVOKED"
          /\ history[i].serial = history[j].serial
          => i = j

\* What a revocation under way, and step-ca, know of a certificate.
RevocationInv ==
    /\ \A c \in Callers : Revoking(c) =>
          agents[call[c].agent].status # "NONE" /\ Certified(call[c].serial, call[c].agent)
    /\ \A c \in Callers : call[c].stage = "REVOKED" => ~is_agent_active(call[c].serial)
    /\ \A s \in ca_revoked : \E a \in Agents : Certified(s, a)

Inv ==
    /\ TypeOK /\ TokenInv /\ SerialInv /\ RevocationInv
    /\ TokenEnrolsOnce /\ AnsweredIsUsed /\ HistoryExplainsRow /\ RevokedAtCaIsNotAdmitted

----------------------------------------------------------------------------
(* Types *)

\* A commit keeps the tables well typed.
LEMMA CommitType ==
    ASSUME TypeOK, NEW c \in Callers,
           enroll_commits(c) \/ renew_commits(c) \/ revoke_commits(c)
    PROVE  TypeOK'
<1>1. call[c] \in Call
  BY DEF TypeOK
<1>2. call[c].agent \in Agents /\ call[c].serial \in Nat /\ call[c].token \subseteq Token
  BY <1>1 DEF Call
<1>3. agents[call[c].agent] \in AgentRow
  BY <1>2 DEF TypeOK
<1>4. ASSUME NEW out \in {"OK", "REVOKED"}, end(c, out) PROVE call' \in [Callers -> Call]
  BY <1>1, <1>4 DEF end, TypeOK, Call, Open, Ended
<1>5. ASSUME NEW act \in {"ISSUED", "RENEWED", "REVOKED"}, NEW via \in SUBSET Token,
             history' = Append(history, [agent |-> call[c].agent, serial |-> call[c].serial,
                                         action |-> act, via |-> via])
      PROVE  history' \in Seq(HistoryRow)
  <2>1. [agent |-> call[c].agent, serial |-> call[c].serial, action |-> act, via |-> via]
           \in HistoryRow
    BY <1>2 DEF HistoryRow
  <2> QED
    BY <1>5, <2>1, SMT DEF TypeOK
<1>6. CASE enroll_commits(c)
  <2>1. call' \in [Callers -> Call]
    BY <1>4, <1>6 DEF enroll_commits
  <2>2. history' \in Seq(HistoryRow)
    BY <1>2, <1>5, <1>6 DEF enroll_commits
  <2>3. [status |-> "ACTIVE", serial |-> call[c].serial] \in AgentRow
    BY <1>2 DEF AgentRow, Status
  <2>4. agents' \in [Agents -> AgentRow]
    BY <1>6, <2>3 DEF enroll_commits, TypeOK
  <2> QED
    BY <1>2, <1>6, <2>1, <2>2, <2>4 DEF enroll_commits, TypeOK, caVars
<1>7. CASE renew_commits(c)
  <2>1. call' \in [Callers -> Call]
    BY <1>4, <1>7 DEF renew_commits
  <2>2. history' \in Seq(HistoryRow)
    <3>1. history' = Append(history, [agent |-> call[c].agent, serial |-> call[c].serial,
                                      action |-> "RENEWED", via |-> {}])
      BY <1>7 DEF renew_commits
    <3>2. {} \in SUBSET Token
      OBVIOUS
    <3> QED
      BY <1>5, <3>1, <3>2
  <2>3. agents' \in [Agents -> AgentRow]
    <3> DEFINE row == [agents[call[c].agent] EXCEPT !.serial = call[c].serial]
    <3>1. row \in AgentRow
      BY <1>2, <1>3 DEF AgentRow
    <3>2. agents' = [agents EXCEPT ![call[c].agent] = row]
      BY <1>7 DEF renew_commits
    <3> HIDE DEF row
    <3> QED
      BY <3>1, <3>2 DEF TypeOK
  <2> QED
    BY <1>7, <2>1, <2>2, <2>3 DEF renew_commits, TypeOK, caVars, tokenVars
<1>8. CASE revoke_commits(c)
  <2>1. call' \in [Callers -> Call]
    BY <1>4, <1>8 DEF revoke_commits
  <2>2. history' \in Seq(HistoryRow)
    <3>1. history' = Append(history, [agent |-> call[c].agent, serial |-> call[c].serial,
                                      action |-> "REVOKED", via |-> {}])
      BY <1>8 DEF revoke_commits
    <3>2. {} \in SUBSET Token
      OBVIOUS
    <3> QED
      BY <1>5, <3>1, <3>2
  <2>3. agents' \in [Agents -> AgentRow]
    <3> DEFINE row == [agents[call[c].agent] EXCEPT !.status = "REVOKED"]
    <3>1. row \in AgentRow
      BY <1>2, <1>3 DEF AgentRow, Status
    <3>2. agents' = [agents EXCEPT ![call[c].agent] = row]
      BY <1>8 DEF revoke_commits
    <3> HIDE DEF row
    <3> QED
      BY <3>1, <3>2 DEF TypeOK
  <2> QED
    BY <1>8, <2>1, <2>2, <2>3 DEF revoke_commits, TypeOK, caVars, tokenVars
<1> QED
  BY <1>6, <1>7, <1>8

----------------------------------------------------------------------------
(* Steps that write neither agents nor certificate_history *)

\* One call moves on.  The record it moves to satisfies the invariant by
\* itself: an exclusive unused token, a new certificate, a certificate read
\* from the agent's row.
Moves(c, r) ==
    /\ call' = [call EXCEPT ![c] = r]
    /\ UNCHANGED <<agents, history>>
    /\ signed' \in {signed, signed + 1}
    /\ used \subseteq used'
    /\ \A d \in Callers \ {c} : Consuming(d) => call[d].token \cap used' = {}
    /\ r.stage \in {"TOKEN", "ENROLLING"} =>
          /\ \E t \in Token : r.token = {t} /\ t.subject = r.agent /\ t \notin used'
          /\ \A d \in Callers \ {c} : Consuming(d) => call[d].token # r.token
    /\ r.stage \in {"NEW", "RENEWAL", "RENEWING", "REVOCATION", "REVOKED"} => r.token = {}
    /\ r.stage \in {"OK", "REFUSED"} => r.token \subseteq used'
    /\ r.stage \in {"ENROLLING", "RENEWING"} => signed' = signed + 1 /\ r.serial = signed + 1
    /\ r.stage = "REVOCATION" =>
          agents[r.agent].status # "NONE" /\ Certified(r.serial, r.agent)
    /\ r.stage # "REVOKED"
    /\ \/ ca_revoked' = ca_revoked
       \/ call[c].stage = "REVOKED" /\ ca_revoked' = ca_revoked \cup {call[c].serial}

\* Such a step keeps the invariant.
LEMMA CallStep ==
    ASSUME Inv, TypeOK', NEW c \in Callers, NEW r \in Call, Moves(c, r)
    PROVE  Inv'
<1> USE DEF Inv, Moves
<1>1. /\ call'[c] = r
      /\ \A d \in Callers \ {c} : call'[d] = call[d]
  BY DEF TypeOK
<1>2. signed \in Nat /\ signed' \in Nat
  BY DEF TypeOK
<1>3. TokenInv'
  <2>1. ASSUME NEW d \in Callers, Consuming(d)'
        PROVE  \E t \in Token : call'[d].token = {t} /\ t.subject = call'[d].agent /\ t \notin used'
    <3>1. CASE d = c
      BY <1>1, <2>1, <3>1, SMT DEF Consuming
    <3>2. CASE d # c
      <4>1. call'[d] = call[d] /\ Consuming(d)
        BY <1>1, <2>1, <3>2 DEF Consuming
      <4>2. PICK t \in Token : call[d].token = {t} /\ t.subject = call[d].agent
        BY <4>1 DEF TokenInv
      <4>3. t \notin used'
        BY <3>2, <4>1, <4>2
      <4> QED
        BY <4>1, <4>2, <4>3
    <3> QED
      BY <3>1, <3>2
  <2>2. ASSUME NEW d \in Callers, NEW e \in Callers, Consuming(d)', Consuming(e)',
               call'[d].token = call'[e].token
        PROVE  d = e
    <3>1. CASE d # c /\ e # c
      BY <1>1, <2>2, <3>1, SMT DEF Consuming, TokenInv
    <3>2. CASE d = c /\ e # c
      BY <1>1, <2>2, <3>2, SMT DEF Consuming
    <3>3. CASE d # c /\ e = c
      BY <1>1, <2>2, <3>3, SMT DEF Consuming
    <3> QED
      BY <3>1, <3>2, <3>3
  <2>3. \A d \in Callers :
           call'[d].stage \in {"NEW", "RENEWAL", "RENEWING", "REVOCATION", "REVOKED"}
              => call'[d].token = {}
    BY <1>1, SMT DEF TokenInv
  <2>4. \A i \in DOMAIN history' : history'[i].via \subseteq used'
    BY DEF TokenInv
  <2> QED
    BY <2>1, <2>2, <2>3, <2>4 DEF TokenInv
<1>4. SerialInv'
  <2>1. \A d \in Callers : Signed(d)' => call'[d].serial \in 1..signed'
    BY <1>1, <1>2, SMT DEF Signed, SerialInv
  <2>2. \A i \in DOMAIN history : history[i].serial \in 1..signed
    BY DEF SerialInv
  <2>3. \A d \in Callers, i \in DOMAIN history :
           Signed(d)' => history[i].serial # call'[d].serial
    BY <1>1, <1>2, <2>2, SMT DEF Signed, SerialInv
  <2>4. ASSUME NEW d \in Callers, NEW e \in Callers, Signed(d)', Signed(e)',
               call'[d].serial = call'[e].serial
        PROVE  d = e
    <3>1. CASE d # c /\ e # c
      BY <1>1, <2>4, <3>1, SMT DEF Signed, SerialInv
    <3>2. CASE d = c /\ e # c
      BY <1>1, <1>2, <2>4, <3>2, SMT DEF Signed, SerialInv
    <3>3. CASE d # c /\ e = c
      BY <1>1, <1>2, <2>4, <3>3, SMT DEF Signed, SerialInv
    <3> QED
      BY <3>1, <3>2, <3>3
  <2>5. \A i \in DOMAIN history : history[i].serial \in 1..signed'
    BY <1>2, <2>2, SMT
  <2> QED
    BY <2>1, <2>3, <2>4, <2>5 DEF SerialInv
<1>5. /\ \A s : is_agent_active(s)' <=> is_agent_active(s)
      /\ \A s, a : Certified(s, a)' <=> Certified(s, a)
  BY DEF is_agent_active, Certified, certifies
<1>6. RevocationInv'
  <2>1. ASSUME NEW d \in Callers, Revoking(d)'
        PROVE  agents[call'[d].agent].status # "NONE" /\ Certified(call'[d].serial, call'[d].agent)
    BY <1>1, <2>1 DEF Revoking, RevocationInv
  <2>2. ASSUME NEW d \in Callers, call'[d].stage = "REVOKED"
        PROVE  ~is_agent_active(call'[d].serial)
    BY <1>1, <2>2 DEF RevocationInv
  <2>3. ASSUME NEW s \in ca_revoked' PROVE \E a \in Agents : Certified(s, a)
    <3>1. CASE s \in ca_revoked
      BY <3>1 DEF RevocationInv
    <3>2. CASE s = call[c].serial /\ call[c].stage = "REVOKED"
      BY <3>2 DEF RevocationInv, Revoking, TypeOK, Call
    <3> QED
      BY <3>1, <3>2
  <2> QED
    BY <1>5, <2>1, <2>2, <2>3 DEF RevocationInv
<1>7. RevokedAtCaIsNotAdmitted'
  BY <1>5 DEF RevokedAtCaIsNotAdmitted, RevocationInv
<1>8. AnsweredIsUsed'
  BY <1>1 DEF AnsweredIsUsed
<1>9. TokenEnrolsOnce' /\ HistoryExplainsRow'
  BY SMT DEF TokenEnrolsOnce, HistoryExplainsRow, certifies
<1> QED
  BY <1>3, <1>4, <1>6, <1>7, <1>8, <1>9

\* A call ends, at most with its token used up or its certificate revoked at
\* step-ca.
Ends(c, outcome) ==
    /\ outcome \in Ended
    /\ end(c, outcome)
    /\ UNCHANGED <<minted, expired, agents, history, signed>>
    /\ used' = used \/ (call[c].stage = "TOKEN" /\ used' = used \cup call[c].token)
    /\ outcome \in {"OK", "REFUSED"} => call[c].token \subseteq used'
    /\ \/ ca_revoked' = ca_revoked
       \/ call[c].stage = "REVOKED" /\ ca_revoked' = ca_revoked \cup {call[c].serial}

\* Such a step keeps the invariant.
LEMMA EndStep ==
    ASSUME Inv, NEW c \in Callers, NEW outcome, Ends(c, outcome)
    PROVE  Inv'
<1> USE DEF Ends
<1> DEFINE r == [call[c] EXCEPT !.stage = outcome]
<1>1. call[c] \in Call /\ call[c].serial \in Nat /\ call[c].token \subseteq Token
  BY DEF Inv, TypeOK, Call
<1>2. r \in Call /\ r.stage = outcome /\ r.token = call[c].token
  BY <1>1 DEF Call
<1>3. call' = [call EXCEPT ![c] = r]
  BY DEF end
<1> HIDE DEF r
<1>4. TypeOK'
  BY <1>1, <1>2, <1>3 DEF Inv, TypeOK
<1>5. \A d \in Callers \ {c} : Consuming(d) => call[d].token \cap used' = {}
  <2> SUFFICES ASSUME NEW d \in Callers \ {c}, Consuming(d)
               PROVE  call[d].token \cap used' = {}
    OBVIOUS
  <2>1. PICK t \in Token : call[d].token = {t} /\ t \notin used
    BY DEF Inv, TokenInv
  <2>2. CASE used' = used
    BY <2>1, <2>2
  <2>3. CASE call[c].stage = "TOKEN" /\ used' = used \cup call[c].token
    <3>1. Consuming(c)
      BY <2>3 DEF Consuming
    <3>2. PICK u \in Token : call[c].token = {u}
      BY <3>1 DEF Inv, TokenInv
    <3>3. u # t
      BY <2>1, <3>1, <3>2 DEF Inv, TokenInv
    <3> QED
      BY <2>1, <2>3, <3>2, <3>3
  <2> QED
    BY <2>2, <2>3
<1>6. r.stage \notin {"TOKEN", "ENROLLING", "NEW", "RENEWAL", "RENEWING", "REVOCATION", "REVOKED"}
  BY <1>2 DEF Ended
<1>7. used \subseteq used' /\ signed' = signed
  OBVIOUS
<1>8. Moves(c, r)
  BY <1>2, <1>3, <1>4, <1>5, <1>6, <1>7 DEF Moves
<1> QED
  BY <1>2, <1>3, <1>4, <1>5, <1>6, <1>7, <1>8, CallStep

\* The steps of a call that only read, sign, or end.
LEMMA QuietStep ==
    ASSUME Inv, NEW c \in Callers,
           \/ \E t \in Token : enroll_rejected(c, t)
           \/ \E t \in Token, allowed \in BOOLEAN : enroll_consumes(c, t, allowed)
           \/ enroll_signs(c) \/ enroll_refused(c)
           \/ \E a \in Agents : renew_reads(c, a) \/ revoke_reads(c, a)
           \/ renew_signs(c) \/ revoke_at_ca(c) \/ fails(c)
    PROVE  Inv'
<1>1. call[c] \in Call /\ call[c].serial \in Nat /\ call[c].token \subseteq Token
      /\ call[c].agent \in Agents /\ signed \in Nat /\ used \subseteq Token
  BY DEF Inv, TypeOK, Call
<1>2. \A d \in Callers : Consuming(d) => call[d].token \cap used = {}
  BY DEF Inv, TokenInv
<1>3. ASSUME NEW t \in Token, enroll_rejected(c, t) PROVE Inv'
  <2> DEFINE r == [stage |-> "REJECTED", agent |-> t.subject, token |-> {t}, serial |-> 0]
  <2>1. r \in Call /\ r.stage = "REJECTED"
    BY DEF Call, Ended, Token
  <2>2. call' = [call EXCEPT ![c] = r]
    BY <1>3 DEF enroll_rejected
  <2>3. UNCHANGED <<minted, used, expired, agents, history, signed, ca_revoked>>
    BY <1>3 DEF enroll_rejected, tokenVars, caVars
  <2> HIDE DEF r
  <2>4. TypeOK'
    BY <2>1, <2>2, <2>3 DEF Inv, TypeOK
  <2>5. Moves(c, r)
    BY <1>2, <2>1, <2>2, <2>3, <2>4 DEF Moves
  <2> QED
    BY <2>1, <2>2, <2>3, <2>4, <2>5, CallStep
<1>4. ASSUME NEW t \in Token, NEW allowed \in BOOLEAN, enroll_consumes(c, t, allowed)
      PROVE  Inv'
  <2>1. \A d \in Callers : Consuming(d) => call[d].token # {t}
    BY <1>4 DEF enroll_consumes, locked, Consuming
  <2>2. t \notin used
    BY <1>4 DEF enroll_consumes, usable
  <2>3. UNCHANGED <<minted, expired, agents, history, signed, ca_revoked>>
    BY <1>4 DEF enroll_consumes, caVars
  <2>4. CASE allowed
    <3> DEFINE r == [stage |-> "TOKEN", agent |-> t.subject, token |-> {t}, serial |-> 0]
    <3>1. r \in Call /\ r.stage = "TOKEN" /\ r.token = {t} /\ r.agent = t.subject
      BY DEF Call, Open, Token
    <3>2. call' = [call EXCEPT ![c] = r] /\ used' = used
      BY <1>4, <2>4 DEF enroll_consumes
    <3> HIDE DEF r
    <3>3. TypeOK'
      BY <2>3, <3>1, <3>2 DEF Inv, TypeOK
    <3>4. /\ \E u \in Token : r.token = {u} /\ u.subject = r.agent /\ u \notin used'
          /\ \A d \in Callers \ {c} : Consuming(d) => call[d].token # r.token
      BY <2>1, <2>2, <3>1, <3>2
    <3>5. Moves(c, r)
      BY <1>2, <2>3, <3>1, <3>2, <3>3, <3>4 DEF Moves
    <3> QED
      BY <3>1, <3>2, <3>3, <3>4, <3>5, CallStep
  <2>5. CASE ~allowed
    <3> DEFINE r == [stage |-> "REFUSED", agent |-> t.subject, token |-> {t}, serial |-> 0]
    <3>1. r \in Call /\ r.stage = "REFUSED" /\ r.token = {t}
      BY DEF Call, Ended, Token
    <3>2. call' = [call EXCEPT ![c] = r] /\ used' = used \cup {t}
      BY <1>4, <2>5 DEF enroll_consumes
    <3> HIDE DEF r
    <3>3. TypeOK'
      BY <2>3, <3>1, <3>2 DEF Inv, TypeOK
    <3>4. \A d \in Callers : Consuming(d) => call[d].token \cap used' = {}
      <4> SUFFICES ASSUME NEW d \in Callers, Consuming(d) PROVE call[d].token \cap used' = {}
        OBVIOUS
      <4>1. PICK u \in Token : call[d].token = {u} /\ u \notin used
        BY DEF Inv, TokenInv
      <4> QED
        BY <2>1, <3>2, <4>1
    <3>5. r.token \subseteq used'
      BY <3>1, <3>2
    <3>6. Moves(c, r)
      BY <2>3, <3>1, <3>2, <3>3, <3>4, <3>5 DEF Moves
    <3> QED
      BY <3>1, <3>2, <3>3, <3>4, <3>5, <3>6, CallStep
  <2> QED
    BY <2>4, <2>5
<1>5. CASE enroll_signs(c)
  <2> DEFINE r == [call[c] EXCEPT !.stage = "ENROLLING", !.serial = signed + 1]
  <2>1. /\ r \in Call /\ r.stage = "ENROLLING" /\ r.token = call[c].token
        /\ r.agent = call[c].agent /\ r.serial = signed + 1
    <3>1. "ENROLLING" \in Open \cup Ended \cup {"NEW"} /\ signed + 1 \in Nat
      BY <1>1, SMT DEF Open
    <3> QED
      BY <1>1, <3>1 DEF Call
  <2>2. call' = [call EXCEPT ![c] = r] /\ signed' = signed + 1
    BY <1>5 DEF enroll_signs
  <2>3. UNCHANGED <<minted, used, expired, agents, history, ca_revoked>>
    BY <1>5 DEF enroll_signs, tokenVars
  <2>4. Consuming(c)
    BY <1>5 DEF enroll_signs, Consuming
  <2> HIDE DEF r
  <2>5. TypeOK'
    BY <1>1, <2>1, <2>2, <2>3, SMT DEF Inv, TypeOK
  <2>6. /\ \E u \in Token : r.token = {u} /\ u.subject = r.agent /\ u \notin used'
        /\ \A d \in Callers \ {c} : Consuming(d) => call[d].token # r.token
    BY <2>1, <2>3, <2>4 DEF Inv, TokenInv
  <2>7. Moves(c, r)
    BY <1>2, <2>1, <2>2, <2>3, <2>5, <2>6 DEF Moves
  <2> QED
    BY <2>1, <2>2, <2>3, <2>5, <2>6, <2>7, CallStep
<1>6. CASE enroll_refused(c)
  <2>1. Ends(c, "REFUSED")
    BY <1>6 DEF enroll_refused, Ended, Ends, caVars
  <2> QED
    BY <2>1, EndStep
<1>7. ASSUME NEW a \in Agents, renew_reads(c, a) PROVE Inv'
  <2> DEFINE r == [stage |-> IF agents[a].status = "ACTIVE" THEN "RENEWAL" ELSE "REJECTED",
                   agent |-> a, token |-> {}, serial |-> 0]
  <2>1. r \in Call /\ r.stage \in {"RENEWAL", "REJECTED"} /\ r.token = {}
    BY DEF Call, Open, Ended
  <2>2. call' = [call EXCEPT ![c] = r]
    BY <1>7 DEF renew_reads
  <2>3. UNCHANGED <<minted, used, expired, agents, history, signed, ca_revoked>>
    BY <1>7 DEF renew_reads, tokenVars, caVars
  <2> HIDE DEF r
  <2>4. TypeOK'
    BY <2>1, <2>2, <2>3 DEF Inv, TypeOK
  <2>5. Moves(c, r)
    BY <1>2, <2>1, <2>2, <2>3, <2>4 DEF Moves
  <2> QED
    BY <2>1, <2>2, <2>3, <2>4, <2>5, CallStep
<1>8. ASSUME NEW a \in Agents, revoke_reads(c, a) PROVE Inv'
  <2> DEFINE stage == CASE agents[a].status = "NONE" -> "REJECTED"
                        [] agents[a].status = "REVOKED" -> "OK"
                        [] OTHER -> "REVOCATION"
             r == [stage |-> stage, agent |-> a, token |-> {}, serial |-> agents[a].serial]
  <2>1. agents[a].status \in Status /\ agents[a].serial \in Nat
    BY DEF Inv, TypeOK, AgentRow
  <2>2. /\ stage \in {"REJECTED", "OK", "REVOCATION"}
        /\ stage = "REVOCATION" => agents[a].status # "NONE"
    BY <2>1 DEF Status
  <2>3. call' = [call EXCEPT ![c] = r]
    BY <1>8 DEF revoke_reads
  <2> HIDE DEF stage
  <2>4. /\ r \in Call /\ r.stage = stage /\ r.token = {} /\ r.agent = a
        /\ r.serial = agents[a].serial
    BY <2>1, <2>2 DEF Call, Open, Ended
  <2>5. UNCHANGED <<minted, used, expired, agents, history, signed, ca_revoked>>
    BY <1>8 DEF revoke_reads, tokenVars, caVars
  <2> HIDE DEF r
  <2>6. TypeOK'
    BY <2>3, <2>4, <2>5 DEF Inv, TypeOK
  <2>7. r.stage = "REVOCATION" => agents[r.agent].status # "NONE" /\ Certified(r.serial, r.agent)
    <3>1. agents[a].status # "NONE" => Certified(agents[a].serial, a)
      BY DEF Inv, HistoryExplainsRow, Certified
    <3> QED
      BY <2>2, <2>4, <3>1
  <2>8. Moves(c, r)
    BY <1>2, <2>2, <2>3, <2>4, <2>5, <2>6, <2>7 DEF Moves
  <2> QED
    BY <2>2, <2>3, <2>4, <2>5, <2>6, <2>7, <2>8, CallStep
<1>9. CASE renew_signs(c)
  <2> DEFINE r == [call[c] EXCEPT !.stage = "RENEWING", !.serial = signed + 1]
  <2>1. /\ r \in Call /\ r.stage = "RENEWING" /\ r.token = call[c].token
        /\ r.serial = signed + 1
    <3>1. "RENEWING" \in Open \cup Ended \cup {"NEW"} /\ signed + 1 \in Nat
      BY <1>1, SMT DEF Open
    <3> QED
      BY <1>1, <3>1 DEF Call
  <2>2. call' = [call EXCEPT ![c] = r] /\ signed' = signed + 1
    BY <1>9 DEF renew_signs
  <2>3. UNCHANGED <<minted, used, expired, agents, history, ca_revoked>>
    BY <1>9 DEF renew_signs, tokenVars
  <2>4. call[c].token = {}
    BY <1>9 DEF renew_signs, Inv, TokenInv
  <2> HIDE DEF r
  <2>5. TypeOK'
    BY <1>1, <2>1, <2>2, <2>3, SMT DEF Inv, TypeOK
  <2>6. Moves(c, r)
    BY <1>2, <2>1, <2>2, <2>3, <2>4, <2>5 DEF Moves
  <2> QED
    BY <2>1, <2>2, <2>3, <2>4, <2>5, <2>6, CallStep
<1>10. CASE revoke_at_ca(c)
  <2>1. call[c].token = {}
    BY <1>10 DEF revoke_at_ca, Inv, TokenInv
  <2>2. Ends(c, "OK")
    BY <1>10, <2>1 DEF revoke_at_ca, Ended, Ends, tokenVars
  <2> QED
    BY <2>2, EndStep
<1>11. CASE fails(c)
  <2>1. Ends(c, "LOST")
    BY <1>11 DEF fails, Ended, Ends, tokenVars, caVars
  <2> QED
    BY <2>1, EndStep
<1> QED
  BY <1>3, <1>4, <1>5, <1>6, <1>7, <1>8, <1>9, <1>10, <1>11

----------------------------------------------------------------------------
(* The three commits *)

\* What the commits have in common: one row more, the token used, the call
\* moved on.
Written(c, act, out) ==
    /\ DOMAIN history = 1..Len(history) /\ Len(history) \in Nat
    /\ DOMAIN history' = 1..(Len(history) + 1)
    /\ \A i \in DOMAIN history : history'[i] = history[i]
    /\ history'[Len(history) + 1].agent = call[c].agent
    /\ history'[Len(history) + 1].serial = call[c].serial
    /\ history'[Len(history) + 1].action = act
    /\ history'[Len(history) + 1].via = call[c].token
    /\ used' = used \cup call[c].token
    /\ call'[c].stage = out /\ call'[c].agent = call[c].agent
    /\ call'[c].serial = call[c].serial /\ call'[c].token = call[c].token
    /\ \A d \in Callers \ {c} : call'[d] = call[d]
    /\ signed' = signed /\ ca_revoked' = ca_revoked

\* Every commit writes one row, of the kind of its call.
LEMMA CommitWrites ==
    ASSUME Inv, NEW c \in Callers
    PROVE  /\ enroll_commits(c) => call[c].stage = "ENROLLING" /\ Written(c, "ISSUED", "OK")
           /\ renew_commits(c) => call[c].stage = "RENEWING" /\ Written(c, "RENEWED", "OK")
           /\ revoke_commits(c) =>
                 call[c].stage = "REVOCATION" /\ Written(c, "REVOKED", "REVOKED")
<1>1. history \in Seq(HistoryRow) /\ call \in [Callers -> Call] /\ call[c] \in Call
  BY DEF Inv, TypeOK
<1>2. ASSUME NEW row, history' = Append(history, row)
      PROVE  /\ DOMAIN history = 1..Len(history) /\ Len(history) \in Nat
             /\ DOMAIN history' = 1..(Len(history) + 1)
             /\ \A i \in DOMAIN history : history'[i] = history[i]
             /\ history'[Len(history) + 1] = row
  BY <1>1, <1>2, SMT
<1>3. ASSUME NEW out, end(c, out)
      PROVE  /\ call'[c].stage = out /\ call'[c].agent = call[c].agent
             /\ call'[c].serial = call[c].serial /\ call'[c].token = call[c].token
             /\ \A d \in Callers \ {c} : call'[d] = call[d]
  BY <1>1, <1>3 DEF end, Call
<1>4. ASSUME NEW act, NEW out,
             history' = Append(history, [agent |-> call[c].agent, serial |-> call[c].serial,
                                         action |-> act, via |-> call[c].token]),
             used' = used \cup call[c].token, end(c, out),
             signed' = signed, ca_revoked' = ca_revoked
      PROVE  Written(c, act, out)
  <2> DEFINE row == [agent |-> call[c].agent, serial |-> call[c].serial,
                     action |-> act, via |-> call[c].token]
  <2>1. /\ DOMAIN history = 1..Len(history) /\ Len(history) \in Nat
        /\ DOMAIN history' = 1..(Len(history) + 1)
        /\ \A i \in DOMAIN history : history'[i] = history[i]
        /\ history'[Len(history) + 1] = row
    BY <1>2, <1>4
  <2>2. /\ row.agent = call[c].agent /\ row.serial = call[c].serial
        /\ row.action = act /\ row.via = call[c].token
    OBVIOUS
  <2> HIDE DEF row
  <2> QED
    BY <1>3, <1>4, <2>1, <2>2 DEF Written
<1>5. ASSUME enroll_commits(c) PROVE call[c].stage = "ENROLLING" /\ Written(c, "ISSUED", "OK")
  BY <1>4, <1>5 DEF enroll_commits, caVars
<1>6. ASSUME renew_commits(c) PROVE call[c].stage = "RENEWING" /\ Written(c, "RENEWED", "OK")
  <2>1. call[c].stage = "RENEWING" /\ call[c].token = {}
    BY <1>6 DEF renew_commits, Inv, TokenInv
  <2>2. used' = used \cup call[c].token
    BY <1>6, <2>1 DEF renew_commits, tokenVars
  <2> QED
    BY <1>4, <1>6, <2>1, <2>2 DEF renew_commits, caVars
<1>7. ASSUME revoke_commits(c)
      PROVE  call[c].stage = "REVOCATION" /\ Written(c, "REVOKED", "REVOKED")
  <2>1. call[c].stage = "REVOCATION" /\ call[c].token = {}
    BY <1>7 DEF revoke_commits, Inv, TokenInv
  <2>2. used' = used \cup call[c].token
    BY <1>7, <2>1 DEF revoke_commits, tokenVars
  <2> QED
    BY <1>4, <1>7, <2>1, <2>2 DEF revoke_commits, caVars
<1> QED
  BY <1>5, <1>6, <1>7

\* The certificate a commit writes was in no table: what it replaces stays
\* replaced, for every certificate already in the history.
LEMMA AdmissionStep ==
    ASSUME Inv, NEW c \in Callers,
           enroll_commits(c) \/ renew_commits(c) \/ revoke_commits(c),
           NEW i \in DOMAIN history, ~is_agent_active(history[i].serial)
    PROVE  ~is_agent_active(history[i].serial)'
<1> DEFINE s == history[i].serial
<1>1. call[c].agent \in Agents /\ agents \in [Agents -> AgentRow]
  BY DEF Inv, TypeOK, Call
<1>2. (history[i].serial)' = s
  BY CommitWrites DEF Written
<1>3. ASSUME NEW a \in Agents, agents'[a] = [status |-> "ACTIVE", serial |-> s]
      PROVE  FALSE
  <2>1. agents[a] # [status |-> "ACTIVE", serial |-> s]
    BY DEF is_agent_active
  <2>2. a = call[c].agent
    BY <1>1, <1>3, <2>1 DEF enroll_commits, renew_commits, revoke_commits
  <2>3. CASE enroll_commits(c)
    <3>1. agents'[a].serial = call[c].serial /\ Signed(c)
      BY <1>1, <2>2, <2>3 DEF enroll_commits, Signed
    <3>2. history[i].serial # call[c].serial
      BY <3>1 DEF Inv, SerialInv
    <3> QED
      BY <1>3, <3>1, <3>2, SMT
  <2>4. CASE renew_commits(c)
    <3>1. agents'[a].serial = call[c].serial /\ Signed(c)
      BY <1>1, <2>2, <2>4 DEF renew_commits, Signed, AgentRow
    <3>2. history[i].serial # call[c].serial
      BY <3>1 DEF Inv, SerialInv
    <3> QED
      BY <1>3, <3>1, <3>2, SMT
  <2>5. CASE revoke_commits(c)
    <3>1. agents'[a].status = "REVOKED"
      BY <1>1, <2>2, <2>5, SMT DEF revoke_commits, AgentRow
    <3> QED
      BY <1>3, <3>1, SMT
  <2> QED
    BY <2>3, <2>4, <2>5
<1> QED
  BY <1>2, <1>3 DEF is_agent_active

\* The three kinds of commit.
Kind(c, act, out) ==
    \/ call[c].stage = "ENROLLING" /\ act = "ISSUED" /\ out = "OK"
    \/ call[c].stage = "RENEWING" /\ act = "RENEWED" /\ out = "OK"
    \/ call[c].stage = "REVOCATION" /\ act = "REVOKED" /\ out = "REVOKED"

\* A commit keeps what is known of tokens: it is the only one with its token.
LEMMA CommitTokens ==
    ASSUME Inv, NEW c \in Callers, NEW act, NEW out, Written(c, act, out), Kind(c, act, out)
    PROVE  TokenInv' /\ TokenEnrolsOnce' /\ AnsweredIsUsed'
<1>1. call[c].stage = "ENROLLING" \/ call[c].token = {}
  BY DEF Inv, TokenInv, Kind
<1>2. call[c].token = {} \/ \E t \in Token : call[c].token = {t} /\ t \notin used
  BY <1>1 DEF Inv, TokenInv, Consuming
<1>3. call[c].token \cap used = {}
  BY <1>2
<1>4. \A i \in DOMAIN history : history[i].via \subseteq used
  BY DEF Inv, TokenInv
<1>5. /\ out \in {"OK", "REVOKED"} /\ (out = "REVOKED" => call[c].token = {})
      /\ call'[c].stage = out /\ call'[c].token = call[c].token
      /\ used' = used \cup call[c].token
      /\ \A d \in Callers \ {c} : call'[d] = call[d]
  BY <1>1 DEF Kind, Written
<1>6. TokenInv'
  <2>1. ASSUME NEW d \in Callers, Consuming(d)'
        PROVE  /\ d # c /\ Consuming(d) /\ call'[d] = call[d]
               /\ \E t \in Token : call[d].token = {t} /\ t.subject = call[d].agent /\ t \notin used'
    <3>1. d # c /\ Consuming(d) /\ call'[d] = call[d]
      BY <1>5, <2>1 DEF Consuming
    <3>2. PICK t \in Token : call[d].token = {t} /\ t.subject = call[d].agent /\ t \notin used
      BY <3>1 DEF Inv, TokenInv
    <3>3. t \notin call[c].token
      <4>1. CASE call[c].token = {}
        BY <4>1
      <4>2. CASE call[c].stage = "ENROLLING"
        <5>1. Consuming(c)
          BY <4>2 DEF Consuming
        <5>2. call[c].token # call[d].token
          BY <3>1, <5>1 DEF Inv, TokenInv
        <5> QED
          BY <1>2, <3>2, <5>2
      <4> QED
        BY <1>1, <4>1, <4>2
    <3> QED
      BY <1>5, <3>1, <3>2, <3>3
  <2>2. \A d, e \in Callers :
           Consuming(d)' /\ Consuming(e)' /\ call'[d].token = call'[e].token => d = e
    BY <2>1, SMT DEF Inv, TokenInv
  <2>3. \A d \in Callers :
           call'[d].stage \in {"NEW", "RENEWAL", "RENEWING", "REVOCATION", "REVOKED"}
              => call'[d].token = {}
    BY <1>5 DEF Inv, TokenInv
  <2>4. \A i \in DOMAIN history' : history'[i].via \subseteq used'
    <3>1. \A i \in DOMAIN history' : i \in DOMAIN history \/ i = Len(history) + 1
      BY SMT DEF Written
    <3> QED
      BY <1>4, <1>5, <3>1 DEF Written
  <2> QED
    BY <2>1, <2>2, <2>3, <2>4 DEF TokenInv
<1>7. TokenEnrolsOnce'
  <2>1. \A i \in DOMAIN history' : i \in DOMAIN history \/ i = Len(history) + 1
    BY SMT DEF Written
  <2>2. \A i \in DOMAIN history : history'[i] = history[i] /\ history[i].via \cap call[c].token = {}
    BY <1>3, <1>4 DEF Written
  <2>3. history'[Len(history) + 1].via = call[c].token
    BY DEF Written
  <2> QED
    BY <2>1, <2>2, <2>3, SMT DEF Inv, TokenEnrolsOnce
<1>8. AnsweredIsUsed'
  BY <1>5 DEF Inv, AnsweredIsUsed
<1> QED
  BY <1>6, <1>7, <1>8

\* A commit keeps what is known of certificates: an ENROLLING or RENEWING
\* call certifies the one it alone has.
LEMMA CommitSerials ==
    ASSUME Inv, NEW c \in Callers, NEW act, NEW out, Written(c, act, out), Kind(c, act, out)
    PROVE  SerialInv'
<1> DEFINE n == Len(history) + 1
<1>1. \A i \in DOMAIN history' : i \in DOMAIN history \/ i = n
  BY SMT DEF Written
<1>2. \A d \in Callers : Signed(d)' => d # c /\ Signed(d) /\ call'[d] = call[d]
  BY DEF Written, Kind, Signed
<1>3. /\ history'[n].serial = call[c].serial /\ history'[n].action = act
      /\ \A i \in DOMAIN history : history'[i] = history[i]
      /\ signed' = signed
  BY DEF Written
<1>4. Signed(c) \/ (act = "REVOKED" /\ Certified(call[c].serial, call[c].agent))
  BY DEF Kind, Signed, Inv, RevocationInv, Revoking
<1>5. call[c].serial \in 1..signed
  BY <1>4 DEF Inv, SerialInv, Certified
<1>6. ASSUME NEW d \in Callers, d # c, Signed(d) PROVE call[d].serial # call[c].serial
  BY <1>4, <1>6 DEF Inv, SerialInv, Certified
<1> HIDE DEF n
<1>7. \A d \in Callers : Signed(d)' => call'[d].serial \in 1..signed'
  BY <1>2, <1>3 DEF Inv, SerialInv
<1>8. \A d \in Callers, i \in DOMAIN history' :
         Signed(d)' => history'[i].serial # call'[d].serial
  BY <1>1, <1>2, <1>3, <1>6, SMT DEF Inv, SerialInv
<1>9. \A d, e \in Callers :
         Signed(d)' /\ Signed(e)' /\ call'[d].serial = call'[e].serial => d = e
  BY <1>2 DEF Inv, SerialInv
<1>10. \A i \in DOMAIN history' : history'[i].serial \in 1..signed'
  BY <1>1, <1>3, <1>5 DEF Inv, SerialInv
<1>11. ASSUME NEW i \in DOMAIN history', NEW j \in DOMAIN history',
              history'[i].action # "REVOKED", history'[j].action # "REVOKED",
              history'[i].serial = history'[j].serial
       PROVE  i = j
  <2>1. CASE i \in DOMAIN history /\ j \in DOMAIN history
    BY <1>3, <1>11, <2>1 DEF Inv, SerialInv
  <2>2. ASSUME NEW k \in DOMAIN history, Signed(c) PROVE history[k].serial # call[c].serial
    BY <2>2 DEF Inv, SerialInv
  <2>3. CASE i = n /\ j \in DOMAIN history
    BY <1>3, <1>4, <1>11, <2>2, <2>3
  <2>4. CASE i \in DOMAIN history /\ j = n
    BY <1>3, <1>4, <1>11, <2>2, <2>4
  <2> QED
    BY <1>1, <2>1, <2>3, <2>4
<1> QED
  BY <1>7, <1>8, <1>9, <1>10, <1>11 DEF SerialInv

\* What a commit makes of the agents table.
RowWritten(c, act) ==
    /\ \A b \in Agents \ {call[c].agent} : agents'[b] = agents[b]
    /\ agents'[call[c].agent].status =
          CASE act = "ISSUED" -> "ACTIVE"
            [] act = "RENEWED" -> agents[call[c].agent].status
            [] act = "REVOKED" -> "REVOKED"
    /\ agents'[call[c].agent].serial =
          IF act = "REVOKED" THEN agents[call[c].agent].serial ELSE call[c].serial

\* A commit is one of the three kinds, in all it writes.
LEMMA CommitKinds ==
    ASSUME Inv, NEW c \in Callers,
           enroll_commits(c) \/ renew_commits(c) \/ revoke_commits(c)
    PROVE  \E act \in {"ISSUED", "RENEWED", "REVOKED"}, out \in {"OK", "REVOKED"} :
              Written(c, act, out) /\ Kind(c, act, out) /\ RowWritten(c, act)
<1>1. /\ call[c].agent \in Agents /\ agents \in [Agents -> AgentRow]
      /\ agents[call[c].agent] \in AgentRow
  BY DEF Inv, TypeOK, Call
<1>2. CASE enroll_commits(c)
  <2>1. RowWritten(c, "ISSUED")
    BY <1>1, <1>2 DEF RowWritten, enroll_commits
  <2> QED
    BY <1>2, <2>1, CommitWrites DEF Kind
<1>3. CASE renew_commits(c)
  <2>1. RowWritten(c, "RENEWED")
    BY <1>1, <1>3 DEF RowWritten, renew_commits, AgentRow
  <2> QED
    BY <1>3, <2>1, CommitWrites DEF Kind
<1>4. CASE revoke_commits(c)
  <2>1. RowWritten(c, "REVOKED")
    BY <1>1, <1>4 DEF RowWritten, revoke_commits, AgentRow
  <2> QED
    BY <1>4, <2>1, CommitWrites DEF Kind
<1> QED
  BY <1>2, <1>3, <1>4

\* The row a commit appends accounts for what it writes to agents.
LEMMA CommitExplained ==
    ASSUME Inv, NEW c \in Callers, NEW act, NEW out,
           Written(c, act, out), Kind(c, act, out), RowWritten(c, act)
    PROVE  HistoryExplainsRow'
<1> DEFINE n == Len(history) + 1
<1>1. /\ \A i \in DOMAIN history' : i \in DOMAIN history \/ i = n
      /\ \A i \in DOMAIN history : i \in DOMAIN history' /\ i < n /\ history'[i] = history[i]
      /\ n \in DOMAIN history' /\ n \in Nat /\ DOMAIN history \subseteq Nat
  BY SMT DEF Written
<1>2. /\ history'[n].agent = call[c].agent /\ history'[n].serial = call[c].serial
      /\ history'[n].action = act
  BY DEF Written
<1>3. act \in {"ISSUED", "RENEWED", "REVOKED"}
  BY DEF Kind
<1> HIDE DEF n
<1> DEFINE Explained(a, st, sr, h, D) ==
              /\ st # "NONE" =>
                    \E i \in D :
                       /\ h[i].agent = a /\ h[i].action \in {"ISSUED", "RENEWED"}
                       /\ h[i].serial = sr
                       /\ \A j \in D : h[j].agent = a /\ h[j].action \in {"ISSUED", "RENEWED"}
                                         => j <= i
              /\ st = "REVOKED" <=>
                    \E i \in D :
                       /\ h[i].agent = a /\ h[i].action = "REVOKED"
                       /\ \A j \in D : h[j].agent = a /\ h[j].action = "ISSUED" => j < i
<1>4. \A a \in Agents : Explained(a, agents[a].status, agents[a].serial, history, DOMAIN history)
  BY SMT DEF Inv, HistoryExplainsRow, certifies
<1>5. ASSUME NEW a \in Agents
      PROVE  Explained(a, agents'[a].status, agents'[a].serial, history', DOMAIN history')
  <2>1. CASE a # call[c].agent
    <3>1. agents'[a] = agents[a]
      BY <2>1 DEF RowWritten
    <3>2. \A i \in DOMAIN history' : history'[i].agent = a => i \in DOMAIN history
      BY <1>1, <1>2, <2>1
    <3> QED
      BY <1>1, <1>4, <3>1, <3>2, SMT
  <2>2. CASE a = call[c].agent /\ act = "ISSUED"
    <3>1. agents'[a].status = "ACTIVE" /\ agents'[a].serial = call[c].serial
      BY <2>2 DEF RowWritten
    <3> QED
      BY <1>1, <1>2, <2>2, <3>1, SMT
  <2>3. CASE a = call[c].agent /\ act = "RENEWED"
    <3>1. agents'[a].status = agents[a].status /\ agents'[a].serial = call[c].serial
      BY <2>3 DEF RowWritten
    <3> QED
      BY <1>1, <1>2, <1>4, <2>3, <3>1, SMT
  <2>4. CASE a = call[c].agent /\ act = "REVOKED"
    <3>1. agents'[a].status = "REVOKED" /\ agents'[a].serial = agents[a].serial
      BY <2>4 DEF RowWritten
    <3>2. agents[a].status # "NONE"
      BY <2>4 DEF Kind, Inv, RevocationInv, Revoking
    <3> QED
      BY <1>1, <1>2, <1>4, <2>4, <3>1, <3>2, SMT
  <2> QED
    BY <1>3, <2>1, <2>2, <2>3, <2>4
<1> QED
  BY <1>5, SMT DEF HistoryExplainsRow, certifies

\* The admission check on a given agents table, and a certificate of a given
\* history.
ActiveIn(table, s) == \E a \in Agents : table[a] = [status |-> "ACTIVE", serial |-> s]
CertifiedIn(rows, s, a) ==
    \E i \in DOMAIN rows :
        rows[i].agent = a /\ rows[i].action \in {"ISSUED", "RENEWED"} /\ rows[i].serial = s

\* A certificate has one owner, so revoking the owner ends its admission.
LEMMA OwnerRevoked ==
    ASSUME NEW rows, NEW table, NEW a \in Agents, NEW s,
           \A i, j \in DOMAIN rows :
              /\ rows[i].action # "REVOKED" /\ rows[j].action # "REVOKED"
              /\ rows[i].serial = rows[j].serial
              => i = j,
           \A b \in Agents : table[b].status # "NONE" => CertifiedIn(rows, table[b].serial, b),
           CertifiedIn(rows, s, a),
           table[a].status = "REVOKED"
    PROVE  ~ActiveIn(table, s)
<1> SUFFICES ASSUME NEW b \in Agents, table[b] = [status |-> "ACTIVE", serial |-> s]
             PROVE  FALSE
  BY DEF ActiveIn
<1>1. table[b].status = "ACTIVE" /\ table[b].serial = s
  BY SMT
<1>2. CertifiedIn(rows, s, b)
  BY <1>1
<1>3. PICK i \in DOMAIN rows :
         rows[i].agent = b /\ rows[i].action \in {"ISSUED", "RENEWED"} /\ rows[i].serial = s
  BY <1>2 DEF CertifiedIn
<1>4. PICK j \in DOMAIN rows :
         rows[j].agent = a /\ rows[j].action \in {"ISSUED", "RENEWED"} /\ rows[j].serial = s
  BY DEF CertifiedIn
<1>5. i = j
  BY <1>3, <1>4
<1> QED
  BY <1>1, <1>3, <1>4, <1>5

\* A commit keeps what revocations and step-ca know.
LEMMA CommitRevocations ==
    ASSUME Inv, TypeOK', SerialInv', HistoryExplainsRow', NEW c \in Callers,
           enroll_commits(c) \/ renew_commits(c) \/ revoke_commits(c)
    PROVE  RevocationInv' /\ RevokedAtCaIsNotAdmitted'
<1>1. PICK act \in {"ISSUED", "RENEWED", "REVOKED"}, out \in {"OK", "REVOKED"} :
         Written(c, act, out) /\ Kind(c, act, out) /\ RowWritten(c, act)
  BY CommitKinds
<1>2. call[c].agent \in Agents
  BY DEF Inv, TypeOK, Call
<1>3. \A s, a : CertifiedIn(history, s, a) => CertifiedIn(history', s, a)
  <2>1. \A i \in DOMAIN history : i \in DOMAIN history' /\ history'[i] = history[i]
    BY <1>1, SMT DEF Written
  <2> QED
    BY <2>1 DEF CertifiedIn
<1>4. ASSUME NEW s, NEW a, CertifiedIn(history, s, a), ~ActiveIn(agents, s)
      PROVE  ~ActiveIn(agents', s)
  <2>1. PICK i \in DOMAIN history : history[i].serial = s
    BY <1>4 DEF CertifiedIn
  <2>2. ~is_agent_active(history[i].serial)
    BY <1>4, <2>1 DEF is_agent_active, ActiveIn
  <2>3. ~is_agent_active(history[i].serial)'
    BY <2>2, AdmissionStep
  <2>4. history'[i].serial = s
    BY <1>1, <2>1 DEF Written
  <2> QED
    BY <2>3, <2>4 DEF is_agent_active, ActiveIn
<1>5. ASSUME NEW d \in Callers, call'[d].stage \in {"REVOCATION", "REVOKED"}
      PROVE  /\ call'[d].agent = call[d].agent /\ call'[d].serial = call[d].serial
             /\ agents'[call[d].agent].status # "NONE"
             /\ CertifiedIn(history, call[d].serial, call[d].agent)
  <2>1. Revoking(d) /\ call'[d].agent = call[d].agent /\ call'[d].serial = call[d].serial
    BY <1>1, <1>5 DEF Written, Kind, Revoking
  <2>2. /\ agents[call[d].agent].status # "NONE"
        /\ CertifiedIn(history, call[d].serial, call[d].agent)
    BY <2>1 DEF Inv, RevocationInv, Certified, certifies, CertifiedIn
  <2>3. call[d].agent \in Agents
    BY DEF Inv, TypeOK, Call
  <2>4. agents'[call[d].agent].status # "NONE"
    BY <1>1, <2>2, <2>3 DEF RowWritten
  <2> QED
    BY <2>1, <2>2, <2>4
<1>6. ASSUME NEW d \in Callers, call'[d].stage = "REVOKED"
      PROVE  ~ActiveIn(agents', call'[d].serial)
  <2>1. /\ call'[d].agent = call[d].agent /\ call'[d].serial = call[d].serial
        /\ CertifiedIn(history, call[d].serial, call[d].agent)
    BY <1>5, <1>6
  <2>2. CASE d = c
    <3>1. act = "REVOKED"
      BY <1>1, <1>6, <2>2 DEF Kind, Written
    <3>2. agents'[call[c].agent].status = "REVOKED"
      BY <1>1, <3>1 DEF RowWritten
    <3>3. CertifiedIn(history', call[c].serial, call[c].agent)
      BY <1>3, <2>1, <2>2
    <3>4. \A i, j \in DOMAIN history' :
             /\ history'[i].action # "REVOKED" /\ history'[j].action # "REVOKED"
             /\ history'[i].serial = history'[j].serial
             => i = j
      BY DEF SerialInv
    <3>5. \A b \in Agents :
             agents'[b].status # "NONE" => CertifiedIn(history', agents'[b].serial, b)
      BY SMT DEF HistoryExplainsRow, certifies, CertifiedIn
    <3> QED
      BY <1>2, <2>1, <2>2, <3>2, <3>3, <3>4, <3>5, OwnerRevoked
  <2>3. CASE d # c
    <3>1. call[d].stage = "REVOKED"
      BY <1>1, <1>6, <2>3 DEF Written
    <3>2. ~ActiveIn(agents, call[d].serial)
      BY <3>1 DEF Inv, RevocationInv, is_agent_active, ActiveIn
    <3> QED
      BY <1>4, <2>1, <3>2
  <2> QED
    BY <2>2, <2>3
<1>7. ca_revoked' = ca_revoked
  BY <1>1 DEF Written
<1>8. \A s \in ca_revoked : \E a \in Agents : CertifiedIn(history, s, a)
  BY DEF Inv, RevocationInv, Certified, certifies, CertifiedIn
<1>9. RevocationInv'
  <2>1. \A d \in Callers : Revoking(d)' =>
           agents'[call'[d].agent].status # "NONE" /\ Certified(call[d].serial, call[d].agent)'
    <3> SUFFICES ASSUME NEW d \in Callers, Revoking(d)'
                 PROVE  /\ agents'[call'[d].agent].status # "NONE"
                        /\ Certified(call[d].serial, call[d].agent)'
      OBVIOUS
    <3>1. /\ call'[d].agent = call[d].agent /\ call'[d].serial = call[d].serial
          /\ agents'[call[d].agent].status # "NONE"
          /\ CertifiedIn(history, call[d].serial, call[d].agent)
      BY <1>5 DEF Revoking
    <3>2. CertifiedIn(history', call'[d].serial, call'[d].agent)
      BY <1>3, <3>1
    <3> QED
      BY <3>1, <3>2 DEF Certified, certifies, CertifiedIn
  <2>2. \A d \in Callers : call'[d].stage = "REVOKED" => ~is_agent_active(call[d].serial)'
    BY <1>6 DEF is_agent_active, ActiveIn
  <2>3. \A s \in ca_revoked' : \E a \in Agents : CertifiedIn(history', s, a)
    BY <1>3, <1>7, <1>8
  <2> QED
    BY <2>1, <2>2, <2>3 DEF RevocationInv, Certified, certifies, CertifiedIn
<1>10. RevokedAtCaIsNotAdmitted'
  <2>1. \A s \in ca_revoked : ~ActiveIn(agents, s)
    BY DEF Inv, RevokedAtCaIsNotAdmitted, is_agent_active, ActiveIn
  <2>2. \A s \in ca_revoked' : ~ActiveIn(agents', s)
    BY <1>4, <1>7, <1>8, <2>1
  <2> QED
    BY <2>2 DEF RevokedAtCaIsNotAdmitted, is_agent_active, ActiveIn
<1> QED
  BY <1>9, <1>10

----------------------------------------------------------------------------
(* The theorems *)

\* A step that leaves what the invariant is about alone keeps it.
LEMMA Frame ==
    ASSUME Inv, TypeOK', UNCHANGED <<used, agents, history, signed, ca_revoked, call>>
    PROVE  Inv'
<1>1. TokenInv' /\ TokenEnrolsOnce' /\ AnsweredIsUsed'
  BY DEF Inv, TokenInv, TokenEnrolsOnce, AnsweredIsUsed, Consuming
<1>2. SerialInv'
  BY DEF Inv, SerialInv, Signed
<1>3. RevocationInv'
  BY SMT DEF Inv, RevocationInv, Revoking, Certified, certifies, is_agent_active
<1>4. HistoryExplainsRow'
  BY SMT DEF Inv, HistoryExplainsRow, certifies
<1>5. RevokedAtCaIsNotAdmitted'
  BY DEF Inv, RevokedAtCaIsNotAdmitted, is_agent_active
<1> QED
  BY <1>1, <1>2, <1>3, <1>4, <1>5 DEF Inv

\* Every step keeps the invariant.
LEMMA InvStep ==
    ASSUME Inv, [Next]_vars PROVE Inv'
<1>1. CASE UNCHANGED vars
  <2>1. UNCHANGED <<minted, used, expired, agents, history, signed, ca_revoked, call>>
    BY <1>1 DEF vars
  <2>2. TypeOK'
    BY <2>1 DEF Inv, TypeOK
  <2> QED
    BY <2>1, <2>2, Frame
<1>2. ASSUME NEW t \in Token, create_enrollment_token(t) \/ token_expires(t)
      PROVE  Inv'
  <2>1. /\ UNCHANGED <<used, agents, history, signed, ca_revoked, call>>
        /\ minted' \subseteq minted \cup {t} /\ expired' \subseteq expired \cup {t}
    BY <1>2 DEF create_enrollment_token, token_expires, caVars
  <2>2. TypeOK'
    BY <2>1 DEF Inv, TypeOK
  <2> QED
    BY <2>1, <2>2, Frame
<1>3. ASSUME NEW c \in Callers, enroll_commits(c) \/ renew_commits(c) \/ revoke_commits(c)
      PROVE  Inv'
  <2>1. PICK act \in {"ISSUED", "RENEWED", "REVOKED"}, out \in {"OK", "REVOKED"} :
           Written(c, act, out) /\ Kind(c, act, out) /\ RowWritten(c, act)
    BY <1>3, CommitKinds
  <2>2. TypeOK'
    BY <1>3, CommitType DEF Inv
  <2>3. TokenInv' /\ TokenEnrolsOnce' /\ AnsweredIsUsed'
    BY <2>1, CommitTokens
  <2>4. SerialInv' /\ HistoryExplainsRow'
    BY <2>1, CommitSerials, CommitExplained
  <2>5. RevocationInv' /\ RevokedAtCaIsNotAdmitted'
    BY <1>3, <2>2, <2>4, CommitRevocations
  <2> QED
    BY <2>2, <2>3, <2>4, <2>5 DEF Inv
<1>4. ASSUME NEW c \in Callers, Enroll(c) \/ Renew(c) \/ Revoke(c) \/ fails(c)
      PROVE  Inv'
  BY <1>3, <1>4, QuietStep DEF Enroll, Renew, Revoke
<1> QED
  BY <1>1, <1>2, <1>4 DEF Next

\* The invariant holds at first.
LEMMA InvInit == Init => Inv
<1> SUFFICES ASSUME Init PROVE Inv
  OBVIOUS
<1>1. \A c \in Callers : call[c].stage = "NEW" /\ call[c].token = {}
  BY SMT DEF Init
<1>2. history = <<>> /\ DOMAIN history = {} /\ ca_revoked = {}
  BY SMT DEF Init
<1>3. TypeOK
  <2>1. call \in [Callers -> Call]
    BY SMT DEF Init, Call
  <2>2. [status |-> "NONE", serial |-> 0] \in AgentRow
    BY DEF AgentRow, Status
  <2>3. history \in Seq(HistoryRow)
    BY <1>2, SMT
  <2> QED
    BY <2>1, <2>2, <2>3 DEF Init, TypeOK
<1>4. TokenInv /\ AnsweredIsUsed /\ SerialInv /\ RevocationInv
  BY <1>1, <1>2 DEF TokenInv, AnsweredIsUsed, SerialInv, RevocationInv, Consuming, Signed,
                    Revoking
<1>5. TokenEnrolsOnce /\ RevokedAtCaIsNotAdmitted
  BY <1>2 DEF TokenEnrolsOnce, RevokedAtCaIsNotAdmitted
<1>6. HistoryExplainsRow
  BY <1>2 DEF Init, HistoryExplainsRow
<1> QED
  BY <1>3, <1>4, <1>5, <1>6 DEF Inv

\* So it holds in every reachable state.
LEMMA Invariance == Spec => []Inv
<1>1. Inv /\ [Next]_vars => Inv'
  BY InvStep
<1> QED
  BY InvInit, <1>1, PTL DEF Spec

\* The tables and the calls of enrollment.py stay well typed.
THEOREM Typed == Spec => []TypeOK
<1>1. Inv => TypeOK
  BY DEF Inv
<1> QED
  BY Invariance, <1>1, PTL

\* enroll_agent enrols at most once with a token, for any number of
\* concurrent calls, refusals and crashes.
THEOREM OneEnrolmentPerToken == Spec => [](TokenEnrolsOnce /\ AnsweredIsUsed)
<1>1. Inv => TokenEnrolsOnce /\ AnsweredIsUsed
  BY DEF Inv
<1> QED
  BY Invariance, <1>1, PTL

\* certificate_history accounts for the certificate and the status of every
\* row of agents, whatever enrolments, renewals and revocations interleave.
THEOREM HistoryIsComplete == Spec => []HistoryExplainsRow
<1>1. Inv => HistoryExplainsRow
  BY DEF Inv
<1> QED
  BY Invariance, <1>1, PTL

\* A certificate revoked at step-ca was already refused by is_agent_active.
THEOREM DatabaseFirst == Spec => []RevokedAtCaIsNotAdmitted
<1>1. Inv => RevokedAtCaIsNotAdmitted
  BY DEF Inv
<1> QED
  BY Invariance, <1>1, PTL

\* Only a commit writes agents or the history.
LEMMA OnlyCommitsWrite ==
    ASSUME Next, ~UNCHANGED <<agents, history>>
    PROVE  \E c \in Callers : enroll_commits(c) \/ renew_commits(c) \/ revoke_commits(c)
BY ZenonT(30) DEF Next, Enroll, Renew, Revoke, create_enrollment_token, token_expires,
       enroll_rejected, enroll_consumes, enroll_signs, enroll_refused, renew_reads,
       renew_signs, revoke_reads, revoke_at_ca, fails

\* A certificate that is_agent_active no longer accepts is never accepted
\* again.
THEOREM NoReadmission == Spec => NeverReadmitted
<1> DEFINE Stays ==
              \A i \in DOMAIN history :
                 history[i].action # "REVOKED" /\ ~is_agent_active(history[i].serial)
                    => ~is_agent_active(history[i].serial)'
<1>1. ASSUME Inv, [Next]_vars PROVE [Stays]_vars
  <2>1. CASE UNCHANGED <<agents, history>>
    BY <2>1 DEF is_agent_active
  <2>2. ASSUME NEW c \in Callers, enroll_commits(c) \/ renew_commits(c) \/ revoke_commits(c)
        PROVE  Stays
    BY <1>1, <2>2, AdmissionStep
  <2> QED
    BY <1>1, <2>1, <2>2, OnlyCommitsWrite DEF vars
<1> QED
  BY Invariance, <1>1, PTL DEF Spec, NeverReadmitted

\* Only enroll_agent makes a revoked agent ACTIVE, with a token of that agent
\* that was not used before.
THEOREM ReinstatementNeedsToken == Spec => ReinstatedByToken
<1> DEFINE Fresh ==
              \A a \in Agents :
                 agents[a].status = "REVOKED" /\ agents'[a].status = "ACTIVE"
                    => \E t \in used' \ used : t.subject = a
<1>1. ASSUME Inv, [Next]_vars PROVE [Fresh]_vars
  <2>1. CASE UNCHANGED <<agents, history>>
    BY <2>1
  <2>2. ASSUME NEW c \in Callers, enroll_commits(c) \/ renew_commits(c) \/ revoke_commits(c)
        PROVE  Fresh
    <3> SUFFICES ASSUME NEW a \in Agents, agents[a].status = "REVOKED",
                        agents'[a].status = "ACTIVE"
                 PROVE  \E t \in used' \ used : t.subject = a
      OBVIOUS
    <3>1. PICK act \in {"ISSUED", "RENEWED", "REVOKED"}, out \in {"OK", "REVOKED"} :
             Written(c, act, out) /\ Kind(c, act, out) /\ RowWritten(c, act)
      BY <1>1, <2>2, CommitKinds
    <3>2. a = call[c].agent /\ act = "ISSUED"
      BY <3>1 DEF RowWritten
    <3>3. PICK t \in Token : call[c].token = {t} /\ t.subject = a /\ t \notin used
      BY <1>1, <3>1, <3>2 DEF Kind, Inv, TokenInv, Consuming
    <3>4. t \in used'
      BY <3>1, <3>3 DEF Written
    <3> QED
      BY <3>3, <3>4
  <2> QED
    BY <1>1, <2>1, <2>2, OnlyCommitsWrite DEF vars
<1> QED
  BY Invariance, <1>1, PTL DEF Spec, ReinstatedByToken

----------------------------------------------------------------------------
(* Teardown *)

Certificates == {"sandbox-cert", "agent-cert"}

\* Strengthens EvidenceBeforeDestruction: an attempt stands behind steps that
\* are all in the journal, and what a journalled step achieved still holds.
AttemptInv ==
    /\ attempt.at \in 1..26 /\ attempt.ran \in {"NO", "PASS", "BLOCKED"}
    /\ attempt.ran # "NO" => attempt.at \in 1..25
    /\ DOMAIN attempt = {"at", "completed", "ran", "verified", "override", "state"}
    /\ attempt.completed \subseteq step_completed
    /\ \A n \in 1..25 : n < attempt.at => TEARDOWN_STEPS[n] \in step_completed
    /\ teardown_journal.state.revoked \subseteq attempt.state.revoked
    /\ attempt.state.revoked \subseteq Certificates
    /\ attempt.ran = "PASS" /\ attempt.at = 15 => "sandbox-cert" \in attempt.state.revoked
    /\ attempt.ran = "PASS" /\ attempt.at = 16 => "agent-cert" \in attempt.state.revoked
    /\ attempt.ran = "PASS" /\ attempt.at = 24 => disposable = {}
    /\ attempt.state.case_state = "DESTROYED" => disposable = {}

JournalInv ==
    /\ \A e \in teardown_journal.entries : e = [step |-> e.step, result |-> e.result]
    /\ teardown_journal.state.revoked \subseteq Certificates
    /\ TEARDOWN_STEPS[15] \in step_completed =>
          "sandbox-cert" \in teardown_journal.state.revoked
    /\ TEARDOWN_STEPS[16] \in step_completed =>
          "agent-cert" \in teardown_journal.state.revoked
    /\ TEARDOWN_STEPS[24] \in step_completed => disposable = {}
    /\ teardown_journal.state.case_state = "DESTROYED" => disposable = {}
    /\ resources_active # CloudResources =>
          \A n \in 1..17 : TEARDOWN_STEPS[n] \in step_completed
    /\ resources_active \subseteq CloudResources
    /\ \A r \in CloudResources : r.protected_evidence => r \in resources_active

TeardownInv == JournalInv /\ (attempt # NoAttempt => AttemptInv)

\* There are twenty-five different steps, and only four of them, behind the
\* revocations, remove anything.
LEMMA StepFacts ==
    /\ Len(TEARDOWN_STEPS) = 25
    /\ \A m, n \in 1..25 : TEARDOWN_STEPS[m] = TEARDOWN_STEPS[n] => m = n
    /\ \A n \in 1..25 : types(TEARDOWN_STEPS[n]) # {} => n \in 18..21
<1>1. Len(TEARDOWN_STEPS) = 25
  BY DEF TEARDOWN_STEPS
<1>2. \A m, n \in 1..25 : TEARDOWN_STEPS[m] = TEARDOWN_STEPS[n] => m = n
  BY SMT DEF TEARDOWN_STEPS
<1>3. \A n \in 1..25 : types(TEARDOWN_STEPS[n]) # {} => n \in 18..21
  BY SMT DEF TEARDOWN_STEPS, types
<1> QED
  BY <1>1, <1>2, <1>3

\* What the steps with an effect of their own are.
LEMMA NamedSteps ==
    /\ TEARDOWN_STEPS[15] = "revoke_sandbox_certificate"
    /\ TEARDOWN_STEPS[16] = "revoke_temporary_agent_certificates"
    /\ TEARDOWN_STEPS[24] = "confirm_no_disallowed_resources"
    /\ TEARDOWN_STEPS[25] = "mark_case_destroyed"
BY DEF TEARDOWN_STEPS

\* The attempt goes to a step behind which everything is done.
LEMMA NextStep ==
    ASSUME NEW from \in 1..26, NEW done
    PROVE  /\ next_step(from, done) \in from..26
           /\ \A m \in 1..25 : from <= m /\ m < next_step(from, done) =>
                                  TEARDOWN_STEPS[m] \in done
<1> DEFINE ok(n) == /\ n <= 25 => TEARDOWN_STEPS[n] \notin done
                    /\ \A m \in from..(n - 1) : TEARDOWN_STEPS[m] \in done
           open == {n \in from..26 : n <= 25 => TEARDOWN_STEPS[n] \notin done}
<1>1. open \in SUBSET Nat /\ open # {}
  <2>1. 26 \in open
    BY SMT
  <2> QED
    BY <2>1, SMT
<1>2. PICK n \in open : \A m \in open : n <= m
  <2> HIDE DEF open
  <2> QED
    BY <1>1, LeastElement
<1>3. n \in from..26 /\ ok(n)
  BY <1>2, SMT
<1>4. next_step(from, done) = CHOOSE k \in from..26 : ok(k)
  BY StepFacts, SMT DEF next_step
<1>5. next_step(from, done) \in from..26 /\ ok(next_step(from, done))
  BY <1>3, <1>4
<1> QED
  BY <1>5, SMT

\* Nothing is revoked, removed or destroyed at first.
LEMMA TeardownStart == TeardownInit => TeardownInv
BY SMT DEF TeardownInit, TeardownInv, JournalInv, step_completed, disposable

\* An attempt starts from the journal.
LEMMA ExecuteKeeps == TeardownInv /\ teardown_execute => TeardownInv'
<1> SUFFICES ASSUME TeardownInv, teardown_execute PROVE TeardownInv'
  OBVIOUS
<1>1. UNCHANGED <<teardown_journal, resources_active>>
  BY DEF teardown_execute
<1>2. step_completed' = step_completed /\ disposable' = disposable /\ JournalInv'
  BY <1>1 DEF TeardownInv, JournalInv, step_completed, disposable
<1>3. PICK verified \in BOOLEAN, override \in {"NONE", "VALID", "INVALID"} :
         attempt' = [at |-> next_step(1, step_completed), completed |-> step_completed,
                     ran |-> "NO", verified |-> verified, override |-> override,
                     state |-> teardown_journal.state]
  BY DEF teardown_execute
<1>4. /\ next_step(1, step_completed) \in 1..26
      /\ \A m \in 1..25 : m < next_step(1, step_completed) =>
                             TEARDOWN_STEPS[m] \in step_completed
  BY NextStep, SMT
<1>5. AttemptInv'
  BY <1>1, <1>2, <1>3, <1>4 DEF AttemptInv, TeardownInv, JournalInv
<1> QED
  BY <1>2, <1>5 DEF TeardownInv

\* What a step leaves of the resources.
LEMMA RemovalKeeps ==
    ASSUME JournalInv, running, AttemptInv, UNCHANGED teardown_journal,
           NEW some \in SUBSET {r \in disposable :
                                   r.resource_type \in types(TEARDOWN_STEPS[attempt.at])},
           resources_active' = resources_active \ some
    PROVE  /\ JournalInv' /\ step_completed' = step_completed
           /\ disposable' \subseteq disposable
<1>1. attempt.at \in 1..25
  BY StepFacts, SMT DEF running, AttemptInv
<1>2. step_completed' = step_completed
  BY DEF step_completed
<1>3. disposable' \subseteq disposable /\ some \subseteq disposable
  BY DEF disposable
<1>4. some # {} => \A n \in 1..17 : TEARDOWN_STEPS[n] \in step_completed
  <2> SUFFICES ASSUME some # {} PROVE \A n \in 1..17 : TEARDOWN_STEPS[n] \in step_completed
    OBVIOUS
  <2>1. attempt.at \in 18..21
    BY <1>1, StepFacts
  <2> QED
    BY <2>1, SMT DEF AttemptInv
<1>5. \A r \in CloudResources : r.protected_evidence => r \in resources_active'
  BY <1>3 DEF JournalInv, disposable
<1>6. resources_active' # CloudResources => \A n \in 1..17 : TEARDOWN_STEPS[n] \in step_completed
  BY <1>4 DEF JournalInv
<1> QED
  BY <1>2, <1>3, <1>5, <1>6 DEF JournalInv

\* A step that passes.
LEMMA PassKeeps == TeardownInv /\ step_passes => TeardownInv'
<1> SUFFICES ASSUME TeardownInv, step_passes PROVE TeardownInv'
  OBVIOUS
<1> DEFINE step == TEARDOWN_STEPS[attempt.at]
<1>1. /\ attempt # NoAttempt /\ running /\ AttemptInv /\ JournalInv
      /\ UNCHANGED teardown_journal
      /\ attempt' = [attempt EXCEPT !.ran = "PASS", !.state = applied(step)]
      /\ ~raises(step)
  BY DEF step_passes, running, TeardownInv
<1>2. attempt.at \in 1..25
  BY <1>1, StepFacts, SMT DEF running, AttemptInv
<1>3. JournalInv' /\ step_completed' = step_completed /\ disposable' \subseteq disposable
  BY <1>1, RemovalKeeps DEF step_passes
<1>4. /\ attempt'.at = attempt.at /\ attempt'.ran = "PASS"
      /\ attempt'.completed = attempt.completed /\ attempt'.state = applied(step)
      /\ DOMAIN attempt' = {"at", "completed", "ran", "verified", "override", "state"}
  BY <1>1 DEF AttemptInv
<1>5. /\ attempt.state.revoked \subseteq applied(step).revoked
      /\ applied(step).revoked \subseteq Certificates
      /\ attempt.at = 15 => "sandbox-cert" \in applied(step).revoked
      /\ attempt.at = 16 => "agent-cert" \in applied(step).revoked
  BY <1>1, NamedSteps DEF applied, AttemptInv, Certificates
<1>6. attempt.at = 24 => disposable' = {}
  BY <1>1, <1>3, NamedSteps DEF raises
<1>7. applied(step).case_state = "DESTROYED" => disposable' = {}
  <2> SUFFICES ASSUME applied(step).case_state = "DESTROYED" PROVE disposable' = {}
    OBVIOUS
  <2>1. step = "mark_case_destroyed" \/ attempt.state.case_state = "DESTROYED"
    BY DEF applied
  <2>2. CASE step = "mark_case_destroyed"
    <3>1. attempt.at = 25
      BY <1>2, <2>2, NamedSteps, StepFacts, SMT
    <3>2. TEARDOWN_STEPS[24] \in step_completed
      BY <1>1, <3>1, SMT DEF AttemptInv
    <3> QED
      BY <1>1, <1>3, <3>2 DEF JournalInv
  <2>3. CASE attempt.state.case_state = "DESTROYED"
    BY <1>1, <1>3, <2>3 DEF AttemptInv
  <2> QED
    BY <2>1, <2>2, <2>3
<1> HIDE DEF step
<1>8. AttemptInv'
  BY <1>1, <1>2, <1>3, <1>4, <1>5, <1>6, <1>7 DEF AttemptInv
<1> QED
  BY <1>3, <1>8 DEF TeardownInv

\* A step that raises.
LEMMA RaiseKeeps == TeardownInv /\ step_raises => TeardownInv'
<1> SUFFICES ASSUME TeardownInv, step_raises PROVE TeardownInv'
  OBVIOUS
<1>1. /\ attempt # NoAttempt /\ running /\ AttemptInv /\ JournalInv
      /\ UNCHANGED teardown_journal
      /\ attempt' = [attempt EXCEPT !.ran = "BLOCKED"]
  BY DEF step_raises, running, TeardownInv
<1>2. attempt.at \in 1..25
  BY <1>1, StepFacts, SMT DEF running, AttemptInv
<1>3. \E some \in SUBSET {r \in disposable :
                             r.resource_type \in types(TEARDOWN_STEPS[attempt.at])} :
         resources_active' = resources_active \ some
  BY DEF step_raises
<1>4. JournalInv' /\ step_completed' = step_completed /\ disposable' \subseteq disposable
  BY <1>1, <1>3, RemovalKeeps
<1>5. /\ attempt'.at = attempt.at /\ attempt'.ran = "BLOCKED"
      /\ attempt'.completed = attempt.completed /\ attempt'.state = attempt.state
      /\ DOMAIN attempt' = {"at", "completed", "ran", "verified", "override", "state"}
  BY <1>1 DEF AttemptInv
<1>6. AttemptInv'
  BY <1>1, <1>2, <1>4, <1>5 DEF AttemptInv
<1> QED
  BY <1>4, <1>6 DEF TeardownInv

\* A step is journalled.
LEMMA JournalKeeps == TeardownInv /\ write_journal => TeardownInv'
<1> SUFFICES ASSUME TeardownInv, write_journal PROVE TeardownInv'
  OBVIOUS
<1> DEFINE step == TEARDOWN_STEPS[attempt.at]
<1>1. /\ attempt # NoAttempt /\ AttemptInv /\ JournalInv /\ attempt.ran # "NO"
      /\ resources_active' = resources_active
      /\ teardown_journal' = [entries |-> teardown_journal.entries
                                            \cup {[step |-> step, result |-> attempt.ran]},
                              state |-> attempt.state]
      /\ attempt' = IF attempt.ran = "BLOCKED" THEN NoAttempt
                    ELSE [attempt EXCEPT !.ran = "NO",
                                         !.at = next_step(@ + 1, attempt.completed)]
  BY DEF write_journal, TeardownInv
<1>2. attempt.at \in 1..25
  BY <1>1 DEF AttemptInv
<1>3. disposable' = disposable
  BY <1>1 DEF disposable
<1>4. step_completed' = IF attempt.ran = "PASS" THEN step_completed \cup {step}
                        ELSE step_completed
  <2> HIDE DEF step
  <2>1. teardown_journal'.entries = teardown_journal.entries
                                      \cup {[step |-> step, result |-> attempt.ran]}
    BY <1>1
  <2> DEFINE x == [step |-> step, result |-> attempt.ran]
  <2>2. x.step = step /\ x.result = attempt.ran
    OBVIOUS
  <2> HIDE DEF x
  <2>3. \A e : e \in teardown_journal'.entries <=> e \in teardown_journal.entries \/ e = x
    BY <2>1 DEF x
  <2> QED
    BY <2>2, <2>3 DEF step_completed
<1>5. /\ teardown_journal'.state = attempt.state
      /\ \A e \in teardown_journal'.entries : e = [step |-> e.step, result |-> e.result]
  BY <1>1, SMT DEF JournalInv
<1>6. \A n \in 1..25 : TEARDOWN_STEPS[n] \in step_completed' =>
         TEARDOWN_STEPS[n] \in step_completed \/ (n = attempt.at /\ attempt.ran = "PASS")
  BY <1>2, <1>4, StepFacts
<1>7. step_completed \subseteq step_completed'
  BY <1>4
<1>8. JournalInv'
  <2>1. /\ TEARDOWN_STEPS[15] \in step_completed' => "sandbox-cert" \in attempt.state.revoked
        /\ TEARDOWN_STEPS[16] \in step_completed' => "agent-cert" \in attempt.state.revoked
        /\ TEARDOWN_STEPS[24] \in step_completed' => disposable = {}
    BY <1>1, <1>6, SMT DEF AttemptInv, JournalInv
  <2> QED
    BY <1>1, <1>3, <1>5, <1>7, <2>1 DEF AttemptInv, JournalInv
<1>9. CASE attempt.ran = "BLOCKED"
  BY <1>1, <1>8, <1>9 DEF TeardownInv
<1>10. CASE attempt.ran = "PASS"
  <2> DEFINE next == next_step(attempt.at + 1, attempt.completed)
  <2>1. /\ next \in (attempt.at + 1)..26
        /\ \A m \in 1..25 : attempt.at + 1 <= m /\ m < next =>
                               TEARDOWN_STEPS[m] \in attempt.completed
    BY <1>2, NextStep, SMT
  <2>2. attempt' = [attempt EXCEPT !.ran = "NO", !.at = next]
    BY <1>1, <1>10
  <2> HIDE DEF next
  <2>3. /\ attempt'.at = next /\ attempt'.ran = "NO"
        /\ attempt'.completed = attempt.completed /\ attempt'.state = attempt.state
        /\ DOMAIN attempt' = {"at", "completed", "ran", "verified", "override", "state"}
    BY <1>1, <2>2 DEF AttemptInv
  <2>4. \A n \in 1..25 : n < next => TEARDOWN_STEPS[n] \in step_completed'
    <3> TAKE n \in 1..25
    <3> HAVE n < next
    <3>1. n < attempt.at \/ n = attempt.at \/ attempt.at + 1 <= n
      BY <1>2, SMT
    <3>2. TEARDOWN_STEPS[attempt.at] \in step_completed'
      BY <1>4, <1>10
    <3> QED
      BY <1>1, <1>7, <2>1, <3>1, <3>2, SMT DEF AttemptInv
  <2>5. AttemptInv'
    BY <1>1, <1>2, <1>3, <1>5, <1>7, <2>1, <2>3, <2>4, SMT DEF AttemptInv
  <2> QED
    BY <1>8, <2>5 DEF TeardownInv
<1> QED
  BY <1>1, <1>9, <1>10 DEF AttemptInv

\* Every step of a teardown keeps the invariant.
LEMMA TeardownStep == TeardownInv /\ [TeardownNext]_teardownVars => TeardownInv'
<1> SUFFICES ASSUME TeardownInv, [TeardownNext]_teardownVars PROVE TeardownInv'
  OBVIOUS
<1>1. CASE attempt_ends
  BY <1>1 DEF attempt_ends, TeardownInv, JournalInv, step_completed, disposable
<1>2. CASE UNCHANGED teardownVars
  BY <1>2, ZenonT(30) DEF teardownVars, TeardownInv, JournalInv, AttemptInv, step_completed, disposable
<1> QED
  BY <1>1, <1>2, ExecuteKeeps, PassKeeps, RaiseKeeps, JournalKeeps DEF TeardownNext

\* For any resources of a case and any number of attempts, faults and deaths:
\* nothing is deactivated before the journal shows the evidence verified, the
\* export checked and the certificates revoked, protected evidence stays, and
\* a DESTROYED case has no temporary resource (TeardownWorkflow.execute).
THEOREM TeardownKeepsEvidence == TeardownSpec => []EvidenceBeforeDestruction
<1>1. TeardownInv => EvidenceBeforeDestruction
  <2> SUFFICES ASSUME TeardownInv PROVE EvidenceBeforeDestruction
    OBVIOUS
  <2>1. \A n \in 1..17 : TEARDOWN_STEPS[n] \in step_completed => step_passed(TEARDOWN_STEPS[n])
    <3> TAKE n \in 1..17
    <3> HAVE TEARDOWN_STEPS[n] \in step_completed
    <3>1. PICK e \in teardown_journal.entries : e.step = TEARDOWN_STEPS[n] /\ e.result = "PASS"
      BY DEF step_completed
    <3> QED
      BY <3>1 DEF TeardownInv, JournalInv, step_passed
  <2> QED
    BY <2>1, SMT DEF TeardownInv, JournalInv, EvidenceBeforeDestruction, Certificates
<1> QED
  BY <1>1, TeardownStart, TeardownStep, PTL DEF TeardownSpec

----------------------------------------------------------------------------
(* The server installer *)

\* No step is in a plan twice.
Distinct(p) == \A i, j \in 1..Len(p) : p[i] = p[j] => i = j
IsPlan(p) == p \in Seq(InstallSteps) /\ Distinct(p)

\* Two plans without a common step make one.
LEMMA Joined ==
    ASSUME NEW p, NEW q, IsPlan(p), IsPlan(q),
           \A i \in 1..Len(p), j \in 1..Len(q) : p[i] # q[j]
    PROVE  IsPlan(p \o q)
<1>1. /\ p \o q \in Seq(InstallSteps) /\ Len(p \o q) = Len(p) + Len(q)
      /\ \A i \in 1..Len(p \o q) :
            (p \o q)[i] = IF i <= Len(p) THEN p[i] ELSE q[i - Len(p)]
  BY ConcatProperties DEF IsPlan
<1>2. Len(p) \in Nat /\ Len(q) \in Nat
  BY LenProperties DEF IsPlan
<1>3. Distinct(p \o q)
  BY <1>1, <1>2, SMT DEF IsPlan, Distinct
<1> QED
  BY <1>1, <1>3 DEF IsPlan

\* The steps all plans begin with.
LEMMA CommonSteps == Len(common_steps) = 14 /\ IsPlan(common_steps)
<1>1. Len(common_steps) = 14
  BY SMT DEF common_steps
<1>2. common_steps \in Seq(InstallSteps)
  <2>1. common_steps \in Seq({common_steps[i] : i \in DOMAIN common_steps})
    BY SMT DEF common_steps
  <2> QED
    BY <2>1, SMT DEF InstallSteps
<1>3. Distinct(common_steps)
  BY SMT DEF common_steps, Distinct
<1> QED
  BY <1>1, <1>2, <1>3 DEF IsPlan

\* The steps of an installation.
LEMMA InstallOnlySteps == Len(install_only_steps) = 12 /\ IsPlan(install_only_steps)
<1>1. Len(install_only_steps) = 12
  BY SMT DEF install_only_steps
<1>2. install_only_steps \in Seq(InstallSteps)
  <2>1. install_only_steps \in Seq({install_only_steps[i] : i \in DOMAIN install_only_steps})
    BY SMT DEF install_only_steps
  <2> QED
    BY <2>1, SMT DEF InstallSteps
<1>3. Distinct(install_only_steps)
  BY SMT DEF install_only_steps, Distinct
<1> QED
  BY <1>1, <1>2, <1>3 DEF IsPlan

\* A tail of a plan is one.
LEMMA TailOfPlan ==
    ASSUME NEW p, IsPlan(p), NEW n \in 0..Len(p)
    PROVE  /\ IsPlan(SubSeq(p, n + 1, Len(p)))
           /\ \A j \in 1..Len(SubSeq(p, n + 1, Len(p))) :
                 \E i \in 1..Len(p) : SubSeq(p, n + 1, Len(p))[j] = p[i]
<1> DEFINE q == SubSeq(p, n + 1, Len(p))
<1>1. /\ q \in Seq(InstallSteps) /\ Len(q) = Len(p) - n
      /\ \A i \in 1..(Len(p) - n) : q[i] = p[n + i]
  BY SuffixProperties DEF IsPlan
<1>2. Len(p) \in Nat
  BY LenProperties DEF IsPlan
<1> HIDE DEF q
<1>3. \A j \in 1..Len(q) : n + j \in 1..Len(p) /\ q[j] = p[n + j]
  BY <1>1, <1>2, SMT
<1>4. Distinct(q)
  <2> SUFFICES ASSUME NEW i \in 1..Len(q), NEW j \in 1..Len(q), q[i] = q[j] PROVE i = j
    BY DEF Distinct
  <2>1. n + i = n + j
    BY <1>3 DEF IsPlan, Distinct
  <2> QED
    BY <2>1, SMT
<1> QED
  BY <1>1, <1>3, <1>4 DEF IsPlan, q

\* Every operation has a plan without repetitions (server_plan).
LEMMA Plans == \A op \in Operations : IsPlan(server_plan(op))
<1>0. ASSUME NEW q, IsPlan(q), \A i \in 1..14, j \in 1..Len(q) : common_steps[i] # q[j]
      PROVE  IsPlan(common_steps \o q)
  BY <1>0, CommonSteps, Joined
<1>1. IsPlan(server_plan("validate"))
  <2>1. IsPlan(<<>>) /\ Len(<<>>) = 0
    BY SMT DEF IsPlan, Distinct
  <2>2. server_plan("validate") = common_steps \o <<>>
    BY DEF server_plan
  <2>3. \A i \in 1..14, j \in 1..Len(<<>>) : common_steps[i] # <<>>[j]
    BY <2>1, SMT
  <2> QED
    BY <1>0, <2>1, <2>2, <2>3
<1>2. IsPlan(server_plan("status"))
  <2> DEFINE q == <<"health">>
  <2>1. IsPlan(q)
    BY SMT DEF IsPlan, Distinct, InstallSteps, install_only_steps
  <2>2. server_plan("status") = common_steps \o q
    BY DEF server_plan
  <2>3. \A i \in 1..14, j \in 1..Len(q) : common_steps[i] # q[j]
    BY SMT DEF common_steps
  <2> HIDE DEF q
  <2> QED
    BY <1>0, <2>1, <2>2, <2>3
<1>3. \A i \in 1..14, j \in 1..12 : common_steps[i] # install_only_steps[j]
  BY SMT DEF common_steps, install_only_steps
<1>4. IsPlan(server_plan("install"))
  <2>1. server_plan("install") = common_steps \o install_only_steps
    BY DEF server_plan
  <2> QED
    BY <1>0, <1>3, <2>1, InstallOnlySteps
<1>5. IsPlan(server_plan("repair"))
  <2> DEFINE q == SubSeq(install_only_steps, 6 + 1, Len(install_only_steps))
  <2>1. server_plan("repair") = common_steps \o q
    <3>1. 6 + 1 = 7
      BY SMT
    <3>2. server_plan("repair") =
             common_steps \o SubSeq(install_only_steps, 7, Len(install_only_steps))
      BY DEF server_plan
    <3> QED
      BY <3>1, <3>2
  <2>2. IsPlan(q) /\ \A j \in 1..Len(q) : \E i \in 1..12 : q[j] = install_only_steps[i]
    <3>1. 6 \in 0..Len(install_only_steps)
      BY InstallOnlySteps, SMT
    <3>2. /\ IsPlan(q)
          /\ \A j \in 1..Len(q) : \E i \in 1..Len(install_only_steps) : q[j] = install_only_steps[i]
      BY <3>1, InstallOnlySteps, TailOfPlan
    <3> HIDE DEF q
    <3> QED
      BY <3>2, InstallOnlySteps
  <2> HIDE DEF q
  <2>3. \A i \in 1..14, j \in 1..Len(q) : common_steps[i] # q[j]
    BY <1>3, <2>2
  <2> QED
    BY <1>0, <2>1, <2>2, <2>3
<1>6. IsPlan(server_plan("upgrade"))
  <2> DEFINE q == <<"release-verify">>
             r == q \o install_only_steps
  <2>1. IsPlan(q) /\ Len(q) = 1 /\ q[1] = "release-verify"
    BY SMT DEF IsPlan, Distinct, InstallSteps
  <2>2. server_plan("upgrade") = common_steps \o r
    BY DEF server_plan
  <2> HIDE DEF q
  <2>3. \A i \in 1..Len(q), j \in 1..12 : q[i] # install_only_steps[j]
    BY <2>1, SMT DEF install_only_steps
  <2>4. IsPlan(r)
    BY <2>1, <2>3, InstallOnlySteps, Joined
  <2>5. \A i \in 1..14 : common_steps[i] # "release-verify"
    BY SMT DEF common_steps
  <2>6. \A j \in 1..Len(r) : r[j] = "release-verify" \/ \E i \in 1..12 : r[j] = install_only_steps[i]
    <3>1. q \in Seq(InstallSteps) /\ install_only_steps \in Seq(InstallSteps)
      BY <2>1, InstallOnlySteps DEF IsPlan
    <3>2. /\ Len(r) = Len(q) + Len(install_only_steps)
          /\ \A j \in 1..Len(r) :
                r[j] = IF j <= Len(q) THEN q[j] ELSE install_only_steps[j - Len(q)]
      BY <3>1, ConcatProperties
    <3> HIDE DEF r
    <3> QED
      BY <2>1, <3>2, InstallOnlySteps, SMT
  <2> HIDE DEF r
  <2>7. \A i \in 1..14, j \in 1..Len(r) : common_steps[i] # r[j]
    BY <1>3, <2>5, <2>6
  <2> QED
    BY <1>0, <2>2, <2>4, <2>7
<1>7. IsPlan(server_plan("rollback"))
  <2> DEFINE q == <<"rollback", "health">>
  <2>1. IsPlan(q)
    BY SMT DEF IsPlan, Distinct, InstallSteps, install_only_steps
  <2>2. server_plan("rollback") = common_steps \o q
    BY DEF server_plan
  <2>3. \A i \in 1..14, j \in 1..Len(q) : common_steps[i] # q[j]
    BY SMT DEF common_steps
  <2> HIDE DEF q
  <2> QED
    BY <1>0, <2>1, <2>2, <2>3
<1>8. IsPlan(server_plan("uninstall"))
  <2> DEFINE q == <<"uninstall", "inventory">>
  <2>1. IsPlan(q)
    BY SMT DEF IsPlan, Distinct, InstallSteps
  <2>2. server_plan("uninstall") = common_steps \o q
    BY DEF server_plan
  <2>3. \A i \in 1..14, j \in 1..Len(q) : common_steps[i] # q[j]
    BY SMT DEF common_steps
  <2> HIDE DEF q
  <2> QED
    BY <1>0, <2>1, <2>2, <2>3
<1> QED
  BY <1>1, <1>2, <1>4, <1>5, <1>6, <1>7, <1>8 DEF Operations

\* The first step that is not completed, from the k-th on.
LEMMA PendingStep ==
    ASSUME NEW p, IsPlan(p), NEW done, NEW k \in 1..(Len(p) + 1)
    PROVE  /\ pending(p, done, k) \in k..(Len(p) + 1)
           /\ pending(p, done, k) <= Len(p) => p[pending(p, done, k)] \notin done
<1>1. Len(p) \in Nat
  BY LenProperties DEF IsPlan
<1> DEFINE S == {i \in k..(Len(p) + 1) : i <= Len(p) => p[i] \notin done}
<1>2. S \in SUBSET Nat /\ Len(p) + 1 \in S
  BY <1>1, SMT
<1>3. PICK i \in S : \A j \in S : i <= j
  BY <1>2, LeastElement
<1>4. \A j \in k..(i - 1) : p[j] \in done
  <2> TAKE j \in k..(i - 1)
  <2>1. j \in k..(Len(p) + 1) /\ j <= Len(p) /\ ~(i <= j)
    BY <1>1, <1>3, SMT
  <2> QED
    BY <1>3, <2>1
<1> QED
  BY <1>3, <1>4 DEF pending

\* A step whose success no journal has yet.
Unrecorded(s) == operating /\ operation.outcome = "PASS" /\ current_step = s

OperationType == [name : Operations, at : Nat, done : SUBSET InstallSteps,
                  outcome : {"NONE", "PASS", "FAIL"}]

\* What an operation knows: all that is completed was so when it started or
\* lies before the step it is at.
OperationInv ==
    /\ operation \in OperationType /\ operation.at \in 1..(Len(current_plan) + 1)
    /\ operation.outcome # "NONE" => operation.at <= Len(current_plan)
    /\ operation.at <= Len(current_plan) => current_step \notin operation.done
    /\ \A s \in steps_completed :
          s \in operation.done \/ \E j \in 1..(operation.at - 1) : s = current_plan[j]

\* Strengthens StepsResume: a step succeeded once more than its record was
\* lost exactly when the journal has it or is about to.
InstallerInv ==
    /\ ran \in [InstallSteps -> Nat] /\ lost_records \in [InstallSteps -> Nat]
    /\ steps_completed \subseteq InstallSteps
    /\ operating => OperationInv
    /\ \A s \in InstallSteps :
          ran[s] = IF s \in steps_completed \/ Unrecorded(s)
                   THEN lost_records[s] + 1 ELSE lost_records[s]

\* What a new entry adds to the completed steps.
LEMMA PassedAdded ==
    ASSUME NEW J, NEW s, NEW o
    PROVE  passed_steps(J \cup {[step |-> s, status |-> o]}) =
              passed_steps(J) \cup (IF o = "PASS" THEN {s} ELSE {})
<1>1. PICK r : r = [step |-> s, status |-> o]
  OBVIOUS
<1>2. r.step = s /\ r.status = o
  BY <1>1
<1>3. passed_steps(J \cup {r}) = passed_steps(J) \cup (IF o = "PASS" THEN {s} ELSE {})
  BY <1>2 DEF passed_steps
<1> QED
  BY <1>1, <1>3

\* The step an operation is at is not completed, and a step of the plan.
LEMMA CurrentIsOpen ==
    ASSUME InstallerInv, operating, operation.at <= Len(current_plan)
    PROVE  /\ current_step \in InstallSteps /\ current_step \notin steps_completed
           /\ operation.at \in 1..Len(current_plan) /\ Len(current_plan) \in Nat
<1>1. IsPlan(current_plan) /\ OperationInv
  BY Plans DEF InstallerInv, OperationInv, OperationType, current_plan
<1>2. Len(current_plan) \in Nat /\ \A i \in 1..Len(current_plan) : current_plan[i] \in InstallSteps
  BY <1>1, LenProperties DEF IsPlan
<1>3. operation.at \in 1..Len(current_plan)
  BY <1>1, <1>2, SMT DEF OperationInv
<1>4. \A j \in 1..(operation.at - 1) : current_step # current_plan[j]
  <2> TAKE j \in 1..(operation.at - 1)
  <2>1. j \in 1..Len(current_plan) /\ j # operation.at
    BY <1>2, <1>3, SMT
  <2> QED
    BY <1>1, <1>3, <2>1 DEF IsPlan, Distinct, current_step
<1> QED
  BY <1>1, <1>2, <1>3, <1>4 DEF OperationInv, current_step

\* Nothing is installed at first.
LEMMA InstallerStart == InstallerInit => InstallerInv
<1> SUFFICES ASSUME InstallerInit PROVE InstallerInv
  OBVIOUS
<1>1. ~operating /\ steps_completed = {}
  BY DEF InstallerInit, operating, steps_completed, passed_steps
<1>2. ran \in [InstallSteps -> Nat] /\ lost_records \in [InstallSteps -> Nat]
  BY SMT DEF InstallerInit
<1>3. \A s \in InstallSteps : ran[s] = lost_records[s]
  BY DEF InstallerInit
<1> QED
  BY <1>1, <1>2, <1>3 DEF InstallerInv, Unrecorded

\* Every step of an operation and every death keeps the invariant.
LEMMA InstallerStep == InstallerInv /\ [InstallerNext]_installerVars => InstallerInv'
<1> SUFFICES ASSUME InstallerInv, [InstallerNext]_installerVars PROVE InstallerInv'
  OBVIOUS
<1>0. /\ steps_completed \subseteq InstallSteps
      /\ ran \in [InstallSteps -> Nat] /\ lost_records \in [InstallSteps -> Nat]
      /\ \A s \in InstallSteps :
            ran[s] = IF s \in steps_completed \/ Unrecorded(s)
                     THEN lost_records[s] + 1 ELSE lost_records[s]
  BY DEF InstallerInv
<1>1. ASSUME NEW op \in Operations, run_operation(op) PROVE InstallerInv'
  <2> DEFINE o == [name |-> op, at |-> pending(server_plan(op), steps_completed, 1),
                   done |-> steps_completed, outcome |-> "NONE"]
  <2>1. /\ operation' = o /\ UNCHANGED <<journal, ran, lost_records>> /\ ~operating
    BY <1>1 DEF run_operation, operating
  <2>2. /\ o.name = op /\ o.at = pending(server_plan(op), steps_completed, 1)
        /\ o.done = steps_completed /\ o.outcome = "NONE"
    OBVIOUS
  <2> HIDE DEF o
  <2>3. steps_completed' = steps_completed
    BY <2>1 DEF steps_completed
  <2>4. /\ o.at \in 1..(Len(server_plan(op)) + 1)
        /\ o.at <= Len(server_plan(op)) => server_plan(op)[o.at] \notin steps_completed
    <3>1. IsPlan(server_plan(op))
      BY Plans
    <3>2. 1 \in 1..(Len(server_plan(op)) + 1)
      BY <3>1, LenProperties, SMT DEF IsPlan
    <3>3. LET n == pending(server_plan(op), steps_completed, 1)
          IN  /\ n \in 1..(Len(server_plan(op)) + 1)
              /\ n <= Len(server_plan(op)) => server_plan(op)[n] \notin steps_completed
      BY <3>1, <3>2, PendingStep
    <3> QED
      BY <2>2, <3>3
  <2>5. current_plan' = server_plan(op) /\ current_step' = server_plan(op)[o.at]
    BY <2>1, <2>2 DEF current_plan, current_step
  <2>6. OperationInv'
    <3>1. o \in OperationType
      <4>1. o.at \in Nat
        <5>1. Len(server_plan(op)) \in Nat
          BY Plans, LenProperties DEF IsPlan
        <5> QED
          BY <2>4, <5>1, SMT
      <4> QED
        BY <2>2, <4>1 DEF OperationType, InstallerInv, o
    <3> QED
      BY <2>1, <2>2, <2>3, <2>4, <2>5, <3>1 DEF OperationInv
  <2>7. \A s \in InstallSteps : ~Unrecorded(s) /\ ~Unrecorded(s)'
    BY <2>1, <2>2 DEF Unrecorded
  <2> QED
    BY <1>0, <2>1, <2>3, <2>6, <2>7 DEF InstallerInv
<1>2. CASE step_executes
  <2>1. /\ operating /\ operation.at <= Len(current_plan) /\ operation.outcome = "NONE"
        /\ operation' = [operation EXCEPT !.outcome = "PASS"]
        /\ ran' = [ran EXCEPT ![current_step] = @ + 1] /\ UNCHANGED <<journal, lost_records>>
    BY <1>2 DEF step_executes, executable
  <2>2. /\ operation'.name = operation.name /\ operation'.at = operation.at
        /\ operation'.done = operation.done /\ operation'.outcome = "PASS"
        /\ operation' \in OperationType
    <3>1. operation \in OperationType
      BY <2>1 DEF InstallerInv, OperationInv
    <3> QED
      BY <2>1, <3>1, SMT DEF OperationType
  <2>3. steps_completed' = steps_completed /\ current_plan' = current_plan
        /\ current_step' = current_step
    BY <2>1, <2>2 DEF steps_completed, current_plan, current_step
  <2>4. OperationInv'
    BY <2>1, <2>2, <2>3 DEF OperationInv, InstallerInv
  <2>5. /\ operating'
        /\ \A s \in InstallSteps : ~Unrecorded(s) /\ (Unrecorded(s)' <=> s = current_step)
    <3>1. operating'
      <4>1. operation'.name \in Operations
        BY <2>2 DEF OperationType
      <4>2. NoOperation.name = "NONE" /\ "NONE" \notin Operations
        BY DEF NoOperation, Operations
      <4> QED
        BY <4>1, <4>2 DEF operating
    <3> QED
      BY <2>1, <2>2, <2>3, <3>1 DEF Unrecorded
  <2>6. current_step \in InstallSteps /\ current_step \notin steps_completed
    BY <2>1, CurrentIsOpen
  <2>7. /\ ran' \in [InstallSteps -> Nat]
        /\ \A s \in InstallSteps : ran'[s] = IF s = current_step THEN ran[s] + 1 ELSE ran[s]
    BY <1>0, <2>1, <2>6, SMT
  <2>8. \A s \in InstallSteps :
           ran'[s] = IF s \in steps_completed' \/ Unrecorded(s)'
                     THEN lost_records'[s] + 1 ELSE lost_records'[s]
    BY <1>0, <2>1, <2>3, <2>5, <2>6, <2>7
  <2> QED
    BY <1>0, <2>1, <2>3, <2>4, <2>7, <2>8 DEF InstallerInv
<1>3. CASE step_raises_error
  <2>1. /\ operating /\ operation.at <= Len(current_plan) /\ operation.outcome = "NONE"
        /\ operation' = [operation EXCEPT !.outcome = "FAIL"]
        /\ UNCHANGED <<journal, ran, lost_records>>
    BY <1>3 DEF step_raises_error, executable
  <2>2. /\ operation'.name = operation.name /\ operation'.at = operation.at
        /\ operation'.done = operation.done /\ operation'.outcome = "FAIL"
        /\ operation' \in OperationType
    <3>1. operation \in OperationType
      BY <2>1 DEF InstallerInv, OperationInv
    <3> QED
      BY <2>1, <3>1, SMT DEF OperationType
  <2>3. steps_completed' = steps_completed /\ current_plan' = current_plan
        /\ current_step' = current_step
    BY <2>1, <2>2 DEF steps_completed, current_plan, current_step
  <2>4. OperationInv'
    BY <2>1, <2>2, <2>3 DEF OperationInv, InstallerInv
  <2>5. \A s \in InstallSteps : ~Unrecorded(s) /\ ~Unrecorded(s)'
    BY <2>1, <2>2 DEF Unrecorded
  <2> QED
    BY <1>0, <2>1, <2>3, <2>4, <2>5 DEF InstallerInv
<1>4. CASE write_installer_journal
  <2>1. /\ operating /\ operation.outcome # "NONE" /\ operation.at <= Len(current_plan)
        /\ journal' = journal \cup {[step |-> current_step, status |-> operation.outcome]}
        /\ UNCHANGED <<ran, lost_records>>
    BY <1>4 DEF write_installer_journal, InstallerInv, OperationInv
  <2>2. steps_completed' =
           steps_completed \cup (IF operation.outcome = "PASS" THEN {current_step} ELSE {})
    BY <2>1, PassedAdded DEF steps_completed
  <2>3. CASE operation.outcome = "FAIL"
    <3>1. operation' = NoOperation /\ steps_completed' = steps_completed
      BY <1>4, <2>2, <2>3 DEF write_installer_journal
    <3>2. \A s \in InstallSteps : ~Unrecorded(s) /\ ~Unrecorded(s)' /\ ~operating'
      BY <2>3, <3>1 DEF Unrecorded, operating
    <3>3. ~operating'
      BY <3>1 DEF operating
    <3> QED
      BY <1>0, <2>1, <3>1, <3>2, <3>3 DEF InstallerInv
  <2>4. CASE operation.outcome = "PASS"
    <3> DEFINE n == pending(current_plan, operation.done, operation.at + 1)
    <3>1. operation' = [operation EXCEPT !.at = n, !.outcome = "NONE"]
          /\ steps_completed' = steps_completed \cup {current_step}
      BY <1>4, <2>2, <2>4 DEF write_installer_journal
    <3>2. /\ operation'.name = operation.name /\ operation'.at = n
          /\ operation'.done = operation.done /\ operation'.outcome = "NONE"
          /\ n \in Nat => operation' \in OperationType
      <4>1. operation \in OperationType
        BY <2>1 DEF InstallerInv, OperationInv
      <4> HIDE DEF n
      <4>2. operation' = [name |-> operation.name, at |-> n, done |-> operation.done,
                          outcome |-> "NONE"]
        BY <3>1, <4>1 DEF OperationType
      <4>3. /\ operation'.name = operation.name /\ operation'.at = n
            /\ operation'.done = operation.done /\ operation'.outcome = "NONE"
        BY <4>2
      <4>4. n \in Nat => operation' \in OperationType
        BY <4>1, <4>2 DEF OperationType
      <4> QED
        BY <4>3, <4>4
    <3>3. current_plan' = current_plan /\ current_step' = current_plan[n]
      BY <3>2 DEF current_plan, current_step
    <3>4. /\ operation.at \in 1..Len(current_plan) /\ Len(current_plan) \in Nat
          /\ current_step \in InstallSteps
      BY <2>1, CurrentIsOpen
    <3>5. /\ n \in (operation.at + 1)..(Len(current_plan) + 1)
          /\ n <= Len(current_plan) => current_plan[n] \notin operation.done
      <4>1. operation.at + 1 \in 1..(Len(current_plan) + 1)
        BY <3>4, SMT
      <4>2. IsPlan(current_plan)
        BY <2>1, Plans DEF InstallerInv, OperationInv, OperationType, current_plan
      <4> QED
        BY <4>1, <4>2, PendingStep
    <3> HIDE DEF n
    <3>6. \A s \in steps_completed' :
             s \in operation.done \/ \E j \in 1..(n - 1) : s = current_plan[j]
      <4>1. operation.at \in 1..(n - 1) /\ \A j \in 1..(operation.at - 1) : j \in 1..(n - 1)
        BY <3>4, <3>5, SMT
      <4> QED
        BY <2>1, <3>1, <4>1 DEF InstallerInv, OperationInv, current_step
    <3>7. n \in 1..(Len(current_plan) + 1) /\ n \in Nat
      BY <3>4, <3>5, SMT
    <3>8. OperationInv'
      BY <2>1, <3>2, <3>3, <3>5, <3>6, <3>7 DEF OperationInv, InstallerInv
    <3>9. \A s \in InstallSteps : (Unrecorded(s) <=> s = current_step) /\ ~Unrecorded(s)'
      BY <2>1, <2>4, <3>2 DEF Unrecorded
    <3>10. \A s \in InstallSteps :
             ran'[s] = IF s \in steps_completed' \/ Unrecorded(s)'
                       THEN lost_records'[s] + 1 ELSE lost_records'[s]
      BY <1>0, <2>1, <3>1, <3>9
    <3> QED
      BY <1>0, <2>1, <3>1, <3>4, <3>8, <3>10 DEF InstallerInv
  <2> QED
    BY <2>1, <2>3, <2>4 DEF InstallerInv, OperationInv, OperationType
<1>5. CASE operation_returns
  <2>1. operating /\ operation' = NoOperation /\ UNCHANGED <<journal, ran, lost_records>>
        /\ operation.at > Len(current_plan)
    BY <1>5 DEF operation_returns
  <2>2. operation.outcome # "PASS"
    <3>1. operation.at <= Len(current_plan) => FALSE
      <4>1. operating => IsPlan(current_plan)
        BY Plans DEF InstallerInv, OperationInv, OperationType, current_plan
      <4>2. Len(current_plan) \in Nat /\ operation.at \in 1..(Len(current_plan) + 1)
        BY <2>1, <4>1, LenProperties DEF InstallerInv, OperationInv, IsPlan
      <4> QED
        BY <2>1, <4>2, SMT
    <3> QED
      BY <2>1, <3>1 DEF InstallerInv, OperationInv
  <2>3. ~operating' /\ steps_completed' = steps_completed
    BY <2>1 DEF operating, steps_completed
  <2>4. \A s \in InstallSteps : ~Unrecorded(s) /\ ~Unrecorded(s)'
    BY <2>2, <2>3 DEF Unrecorded
  <2> QED
    BY <1>0, <2>1, <2>3, <2>4 DEF InstallerInv
<1>6. CASE installer_dies
  <2>1. /\ operating /\ operation' = NoOperation /\ UNCHANGED <<journal, ran>>
        /\ lost_records' = IF operation.outcome = "PASS"
                           THEN [lost_records EXCEPT ![current_step] = @ + 1] ELSE lost_records
    BY <1>6 DEF installer_dies
  <2>2. ~operating' /\ steps_completed' = steps_completed
    BY <2>1 DEF operating, steps_completed
  <2>3. \A s \in InstallSteps : ~Unrecorded(s)'
    BY <2>2 DEF Unrecorded
  <2>4. CASE operation.outcome = "PASS"
    <3>1. current_step \in InstallSteps /\ current_step \notin steps_completed
      <4>1. operation.at <= Len(current_plan)
        BY <2>1, <2>4 DEF InstallerInv, OperationInv
      <4> QED
        BY <2>1, <4>1, CurrentIsOpen
    <3>2. /\ lost_records' \in [InstallSteps -> Nat]
          /\ \A s \in InstallSteps :
                lost_records'[s] = IF s = current_step THEN lost_records[s] + 1 ELSE lost_records[s]
      BY <1>0, <2>1, <2>4, <3>1, SMT
    <3>3. \A s \in InstallSteps : Unrecorded(s) <=> s = current_step
      BY <2>1, <2>4 DEF Unrecorded
    <3> QED
      BY <1>0, <2>1, <2>2, <2>3, <3>1, <3>2, <3>3 DEF InstallerInv
  <2>5. CASE operation.outcome # "PASS"
    <3>1. \A s \in InstallSteps : ~Unrecorded(s)
      BY <2>5 DEF Unrecorded
    <3> QED
      BY <1>0, <2>1, <2>2, <2>3, <2>5, <3>1 DEF InstallerInv
  <2> QED
    BY <2>4, <2>5
<1>7. CASE UNCHANGED installerVars
  BY <1>7 DEF installerVars, InstallerInv, OperationInv, Unrecorded, operating, current_step,
              current_plan, steps_completed
<1> QED
  BY <1>1, <1>2, <1>3, <1>4, <1>5, <1>6, <1>7 DEF InstallerNext

\* However many operations, failed steps and deaths there are, and in
\* whatever order: a step succeeds again only when the record of its success
\* was lost, and the journal claims no success that did not happen (run's
\* completed set, _write_journal, server_plan).
THEOREM StepsAreResumed == InstallerSpec => []StepsResume
<1>1. ASSUME InstallerInv PROVE StepsResume
  <2> SUFFICES ASSUME NEW s \in InstallSteps
               PROVE  /\ ran[s] <= 1 + lost_records[s]
                      /\ s \in passed_steps(journal) => ran[s] > lost_records[s]
    BY DEF StepsResume
  <2>1. /\ ran[s] \in Nat /\ lost_records[s] \in Nat
        /\ ran[s] = lost_records[s] \/ ran[s] = lost_records[s] + 1
        /\ s \in passed_steps(journal) => ran[s] = lost_records[s] + 1
    BY <1>1 DEF InstallerInv, steps_completed
  <2> QED
    BY <2>1, SMT
<1> QED
  BY <1>1, InstallerStart, InstallerStep, PTL DEF InstallerSpec

=============================================================================
