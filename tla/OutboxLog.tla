----------------------------- MODULE OutboxLog -----------------------------
(***************************************************************************)
(* What the outbox promises, without relays, batches or locks: a committed *)
(* row is stored on the stream, once and once more for each message id the *)
(* stream forgot at most; only stored rows are marked, some at a time; and *)
(* a marked row is never stored again.                                     *)
(***************************************************************************)
EXTENDS Naturals

CONSTANT Events

VARIABLES
    rows,       \* committed
    copies,     \* stored on the stream, of each event
    published,  \* marked
    forgotten   \* number of ids the stream forgot

vars == <<rows, copies, published, forgotten>>

Init ==
    /\ rows = {} /\ published = {}
    /\ copies = [e \in Events |-> 0]
    /\ forgotten = 0

Write(e) == rows' = rows \cup {e} /\ UNCHANGED <<copies, published, forgotten>>

Store(e) ==
    /\ e \in rows \ published
    /\ copies[e] <= forgotten
    /\ copies' = [copies EXCEPT ![e] = @ + 1]
    /\ UNCHANGED <<rows, published, forgotten>>

Mark(S) ==
    /\ S \subseteq rows
    /\ \A e \in S : copies[e] > 0
    /\ published' = published \cup S
    /\ UNCHANGED <<rows, copies, forgotten>>

Forget == forgotten' = forgotten + 1 /\ UNCHANGED <<rows, copies, published>>

Next ==
    \/ \E e \in Events : Write(e) \/ Store(e)
    \/ \E S \in SUBSET Events : Mark(S)
    \/ Forget

Spec == Init /\ [][Next]_vars

============================================================================
