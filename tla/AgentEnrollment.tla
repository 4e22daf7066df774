--------------------------- MODULE AgentEnrollment ---------------------------
(***************************************************************************)
(* Agent identities: one-time enrolment tokens, certificate renewal and    *)
(* revocation (services/mirage-agent-ingestion enrollment.py), as calls of *)
(* several processes on one PostgreSQL database and one step-ca.           *)
(*                                                                         *)
(* A call is a sequence of steps separated by its awaits.  The UPDATE that *)
(* consumes a token keeps the token's row locked until the call commits or *)
(* rolls back; renewal and revocation read the agent's row without a lock. *)
(* The writes of one transaction are one step, as other calls see them.    *)
(***************************************************************************)
EXTENDS Naturals, Sequences, FiniteSets

CONSTANTS Agents,      \* agent_id
          Callers,     \* the calls of the behaviour, one operation each
          MaxTokens    \* enrolment tokens minted for one agent

ASSUME EnrollmentAssumption == MaxTokens \in Nat

VARIABLES minted,      \* rows of enrollment_tokens
          used,        \* those with used_at set by a committed transaction
          expired,     \* those whose expires_at has passed
          agents,      \* the agents table
          history,     \* the certificate_history table
          signed,      \* serials step-ca has issued: 1..signed
          ca_revoked,  \* serials revoked at step-ca
          call         \* where each call is, and its local variables

vars == <<minted, used, expired, agents, history, signed, ca_revoked, call>>
caVars == <<signed, ca_revoked>>
tokenVars == <<minted, used, expired>>

\* A token is minted for one subject.
Token == [subject : Agents, n : 1..MaxTokens]

Status == {"NONE", "ACTIVE", "REVOKED"}
AgentRow == [status : Status, serial : Nat]
HistoryRow == [agent : Agents, serial : Nat, action : {"ISSUED", "RENEWED", "REVOKED"},
               via : SUBSET Token]

\* TOKEN: token consumed and build hash allowed.  ENROLLING, RENEWING: signed.
\* RENEWAL, REVOCATION: the row is read.  REVOKED: the revocation is committed.
Open == {"TOKEN", "ENROLLING", "RENEWAL", "RENEWING", "REVOCATION", "REVOKED"}
\* REFUSED: answered with an error after the token was consumed.  LOST: ended
\* by any other exception or a crash.
Ended == {"OK", "REJECTED", "REFUSED", "LOST"}
Call == [stage : Open \cup Ended \cup {"NEW"}, agent : Agents, token : SUBSET Token,
         serial : Nat]

----------------------------------------------------------------------------
(* Tokens *)

usable(t) == t \in minted \ (used \cup expired)

\* Another call has updated the row and not yet ended its transaction: the
\* UPDATE waits.
\* Mutant: the token is looked up without locking its row.
locked_never(t) == FALSE
locked(t) ==
    \E c \in Callers : call[c].stage \in {"TOKEN", "ENROLLING"} /\ call[c].token = {t}

create_enrollment_token(t) ==
    /\ t \notin minted
    /\ minted' = minted \cup {t}
    /\ UNCHANGED <<used, expired, agents, history, caVars, call>>

token_expires(t) ==
    /\ t \in minted \ expired
    /\ expired' = expired \cup {t}
    /\ UNCHANGED <<minted, used, agents, history, caVars, call>>

end(c, outcome) == call' = [call EXCEPT ![c].stage = outcome]

----------------------------------------------------------------------------
(* enroll_agent *)

\* Unknown, used or expired: no row is updated.
enroll_rejected(c, t) ==
    /\ call[c].stage = "NEW"
    /\ ~locked(t)
    /\ ~usable(t)
    /\ call' = [call EXCEPT ![c] = [stage |-> "REJECTED", agent |-> t.subject,
                                    token |-> {t}, serial |-> 0]]
    /\ UNCHANGED <<tokenVars, agents, history, caVars>>

\* The token is consumed; a build hash that is not allowed ends the call, and
\* the consumption is committed all the same.
enroll_consumes(c, t, allowed) ==
    /\ call[c].stage = "NEW"
    /\ ~locked(t)
    /\ usable(t)
    /\ call' = [call EXCEPT ![c] = [stage |-> IF allowed THEN "TOKEN" ELSE "REFUSED",
                                    agent |-> t.subject, token |-> {t}, serial |-> 0]]
    /\ used' = IF allowed THEN used ELSE used \cup {t}
    /\ UNCHANGED <<minted, expired, agents, history, caVars>>

enroll_signs(c) ==
    /\ call[c].stage = "TOKEN"
    /\ signed' = signed + 1
    /\ call' = [call EXCEPT ![c] = [@ EXCEPT !.stage = "ENROLLING", !.serial = signed + 1]]
    /\ UNCHANGED <<tokenVars, agents, history, ca_revoked>>

\* step-ca refuses the request: the consumption of the token is committed.
enroll_refused(c) ==
    /\ call[c].stage = "TOKEN"
    /\ used' = used \cup call[c].token
    /\ end(c, "REFUSED")
    /\ UNCHANGED <<minted, expired, agents, history, caVars>>

\* Mutant: the upsert revives the row and leaves its certificate.
enroll_commits_revives(c) ==
    /\ call[c].stage = "ENROLLING"
    /\ used' = used \cup call[c].token
    /\ agents' = [agents EXCEPT ![call[c].agent] =
           [status |-> "ACTIVE", serial |-> IF @.status = "NONE" THEN call[c].serial ELSE @.serial]]
    /\ history' = Append(history, [agent |-> call[c].agent, serial |-> call[c].serial,
                                   action |-> "ISSUED", via |-> call[c].token])
    /\ end(c, "OK")
    /\ UNCHANGED <<minted, expired, caVars>>

\* The upsert: a new certificate, and the agent is ACTIVE whatever it was.
enroll_commits(c) ==
    /\ call[c].stage = "ENROLLING"
    /\ used' = used \cup call[c].token
    /\ agents' = [agents EXCEPT ![call[c].agent] =
                     [status |-> "ACTIVE", serial |-> call[c].serial]]
    /\ history' = Append(history, [agent |-> call[c].agent, serial |-> call[c].serial,
                                   action |-> "ISSUED", via |-> call[c].token])
    /\ end(c, "OK")
    /\ UNCHANGED <<minted, expired, caVars>>

----------------------------------------------------------------------------
(* renew_agent *)

\* The status is read without a lock.
renew_reads(c, a) ==
    /\ call[c].stage = "NEW"
    /\ call' = [call EXCEPT ![c] =
           [stage |-> IF agents[a].status = "ACTIVE" THEN "RENEWAL" ELSE "REJECTED",
            agent |-> a, token |-> {}, serial |-> 0]]
    /\ UNCHANGED <<tokenVars, agents, history, caVars>>

renew_signs(c) ==
    /\ call[c].stage = "RENEWAL"
    /\ signed' = signed + 1
    /\ call' = [call EXCEPT ![c] = [@ EXCEPT !.stage = "RENEWING", !.serial = signed + 1]]
    /\ UNCHANGED <<tokenVars, agents, history, ca_revoked>>

\* Only the certificate is written: the status is the one now in the row.
renew_commits(c) ==
    /\ call[c].stage = "RENEWING"
    /\ agents' = [agents EXCEPT ![call[c].agent].serial = call[c].serial]
    /\ history' = Append(history, [agent |-> call[c].agent, serial |-> call[c].serial,
                                   action |-> "RENEWED", via |-> {}])
    /\ end(c, "OK")
    /\ UNCHANGED <<tokenVars, caVars>>

----------------------------------------------------------------------------
(* revoke_agent *)

\* The row is read without a lock; an agent already REVOKED is left alone.
revoke_reads(c, a) ==
    /\ call[c].stage = "NEW"
    /\ call' = [call EXCEPT ![c] =
           [stage |-> CASE agents[a].status = "NONE" -> "REJECTED"
                        [] agents[a].status = "REVOKED" -> "OK"
                        [] OTHER -> "REVOCATION",
            agent |-> a, token |-> {}, serial |-> agents[a].serial]]
    /\ UNCHANGED <<tokenVars, agents, history, caVars>>

\* The history names the certificate that was read.
revoke_commits(c) ==
    /\ call[c].stage = "REVOCATION"
    /\ agents' = [agents EXCEPT ![call[c].agent].status = "REVOKED"]
    /\ history' = Append(history, [agent |-> call[c].agent, serial |-> call[c].serial,
                                   action |-> "REVOKED", via |-> {}])
    /\ end(c, "REVOKED")
    /\ UNCHANGED <<tokenVars, caVars>>

\* Passive revocation of that certificate at step-ca, after the commit.
revoke_at_ca(c) ==
    /\ call[c].stage = "REVOKED"
    /\ ca_revoked' = ca_revoked \cup {call[c].serial}
    /\ end(c, "OK")
    /\ UNCHANGED <<tokenVars, agents, history, signed>>

----------------------------------------------------------------------------
\* A crash, a lost connection, an unreachable or failing step-ca: the open
\* transaction is rolled back, a committed one stays.
fails(c) ==
    /\ call[c].stage \in Open
    /\ end(c, "LOST")
    /\ UNCHANGED <<tokenVars, agents, history, caVars>>

\* The admission check of every connection.
is_agent_active(serial) ==
    \E a \in Agents : agents[a] = [status |-> "ACTIVE", serial |-> serial]

Init ==
    /\ minted = {} /\ used = {} /\ expired = {}
    /\ agents = [a \in Agents |-> [status |-> "NONE", serial |-> 0]]
    /\ history = <<>>
    /\ signed = 0 /\ ca_revoked = {}
    /\ call \in [Callers -> {[stage |-> "NEW", agent |-> a, token |-> {}, serial |-> 0] :
                                a \in Agents}]

Enroll(c) ==
    \/ \E t \in Token : \/ enroll_rejected(c, t)
                        \/ \E allowed \in BOOLEAN : enroll_consumes(c, t, allowed)
    \/ enroll_signs(c)
    \/ enroll_refused(c)
    \/ enroll_commits(c)

Renew(c) == (\E a \in Agents : renew_reads(c, a)) \/ renew_signs(c) \/ renew_commits(c)

Revoke(c) == (\E a \in Agents : revoke_reads(c, a)) \/ revoke_commits(c) \/ revoke_at_ca(c)

Next ==
    \/ \E t \in Token : create_enrollment_token(t) \/ token_expires(t)
    \/ \E c \in Callers : Enroll(c) \/ Renew(c) \/ Revoke(c) \/ fails(c)

Spec == Init /\ [][Next]_vars

----------------------------------------------------------------------------
(* Properties *)

\* The tables and the calls are well typed.
TypeOK ==
    /\ minted \subseteq Token /\ used \subseteq Token /\ expired \subseteq Token
    /\ agents \in [Agents -> AgentRow]
    /\ history \in Seq(HistoryRow)
    /\ signed \in Nat /\ ca_revoked \subseteq Nat
    /\ call \in [Callers -> Call]

\* A token enrols at most once, however many calls present it at a time and
\* whichever of them fail.
TokenEnrolsOnce ==
    \A i, j \in DOMAIN history :
        history[i].via \cap history[j].via # {} => i = j

\* A call that was answered after consuming its token has used it up, refused
\* or not: the token is not good for a second try.
AnsweredIsUsed ==
    \A c \in Callers : call[c].stage \in {"OK", "REFUSED"} => call[c].token \subseteq used

certifies(i, a) == history[i].agent = a /\ history[i].action \in {"ISSUED", "RENEWED"}

\* certificate_history accounts for every row of agents: the certificate is
\* the last one issued or renewed, and the agent is REVOKED exactly when a
\* revocation follows its last enrolment, whatever the calls interleave.
HistoryExplainsRow ==
    \A a \in Agents :
        /\ agents[a].status # "NONE" =>
              \E i \in DOMAIN history :
                 /\ certifies(i, a) /\ history[i].serial = agents[a].serial
                 /\ \A j \in DOMAIN history : certifies(j, a) => j <= i
        /\ agents[a].status = "REVOKED" <=>
              \E i \in DOMAIN history :
                 /\ history[i].agent = a /\ history[i].action = "REVOKED"
                 /\ \A j \in DOMAIN history :
                       history[j].agent = a /\ history[j].action = "ISSUED" => j < i

\* A certificate that was admitted and no longer is will never be admitted
\* again: not by a renewal in flight, nor by a new enrolment of its agent.
NeverReadmitted ==
    [][\A i \in DOMAIN history :
          history[i].action # "REVOKED" /\ ~is_agent_active(history[i].serial)
             => ~is_agent_active(history[i].serial)']_vars

\* PostgreSQL is told first: step-ca never has a certificate revoked that the
\* admission check would still accept.
RevokedAtCaIsNotAdmitted == \A s \in ca_revoked : ~is_agent_active(s)

\* A revoked agent comes back only by consuming a fresh token of its own; a
\* renewal that had read the row before does not bring it back.
ReinstatedByToken ==
    [][\A a \in Agents :
          agents[a].status = "REVOKED" /\ agents'[a].status = "ACTIVE"
             => \E t \in used' \ used : t.subject = a]_vars

\* When revoke_agent returns and no other call is under way, the revoked
\* agent's certificate is revoked at step-ca too, and cannot be renewed there.
RevokedIsRevokedAtCa ==
    [][\A c \in Callers :
          /\ call[c].stage \in {"NEW", "REVOKED"} /\ call'[c].stage = "OK"
          /\ \A d \in Callers \ {c} : call[d].stage \notin Open
          /\ agents[call'[c].agent].status = "REVOKED"
          => agents[call'[c].agent].serial \in ca_revoked']_vars
=============================================================================
