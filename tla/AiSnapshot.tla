----------------------------- MODULE AiSnapshot -----------------------------
(***************************************************************************)
(* assemble_snapshot: the lists of a case are cut to their caps, and then  *)
(* one item at a time is taken from the least important list until the     *)
(* canonical encoding fits.  An item is its encoded size; a directive also *)
(* says whether it is active.  The protected fields take Protected.        *)
(***************************************************************************)
EXTENDS Naturals, Sequences

CONSTANTS
    Sizes,       \* encoded sizes of an item
    ListCap,     \* [SnapshotLists -> Nat]: 10, 20, 10, 5 and 50 in the code
    Protected,   \* size of the fields that are never trimmed
    MaxSnapshot  \* MAX_SNAPSHOT_BYTES

SnapshotLists == {"untrusted", "artifacts", "previous", "directives", "events"}

ASSUME SnapshotAssumption ==
    /\ Sizes \in SUBSET Nat /\ {Protected, MaxSnapshot} \in SUBSET Nat
    /\ ListCap \in [SnapshotLists -> Nat]

VARIABLES
    source,   \* the lists after their caps
    ai_snapshot, \* the lists as they are trimmed
    trimming  \* "NEW", "TRIMMING", "DONE", "REFUSED"

snapshotVars == <<source, ai_snapshot, trimming>>

Item == [size : Sizes, active : BOOLEAN]

\* The newest ListCap items, of the artifacts the first ones.
capped(list, items) ==
    LET n == ListCap[list]
    IN  IF Len(items) <= n THEN items
        ELSE IF list = "artifacts" THEN SubSeq(items, 1, n)
        ELSE SubSeq(items, Len(items) - n + 1, Len(items))

total_size(items) ==
    LET sum[n \in 0..Len(items)] == IF n = 0 THEN 0 ELSE sum[n - 1] + items[n].size
    IN  sum[Len(items)]

encoded(s) ==
    Protected + total_size(s.untrusted) + total_size(s.artifacts) + total_size(s.previous)
              + total_size(s.directives) + total_size(s.events)

over_limit(s) == encoded(s) > MaxSnapshot

assemble(lists) ==
    /\ source' = [l \in SnapshotLists |-> capped(l, lists[l])]
    /\ ai_snapshot' = source'
    /\ trimming' = "TRIMMING"

\* Mutant: directives are dropped whether or not they are active.
inactive_directives_all(s) == DOMAIN s.directives

inactive_directives(s) == {i \in DOMAIN s.directives : ~s.directives[i].active}

\* list.pop(i), counted from 1.
pop(items, i) == SubSeq(items, 1, i - 1) \o SubSeq(items, i + 1, Len(items))

\* One round of the loop: the list it takes an item from, and what is left of
\* that list; nothing when no list may be trimmed further.
popped(s) ==
    LET first == {i \in inactive_directives(s) : \A j \in inactive_directives(s) : i <= j}
    IN  IF s.untrusted # <<>> THEN {[list |-> "untrusted", left |-> pop(s.untrusted, 1)]}
        ELSE IF s.artifacts # <<>>
        THEN {[list |-> "artifacts", left |-> pop(s.artifacts, Len(s.artifacts))]}
        ELSE IF s.previous # <<>> THEN {[list |-> "previous", left |-> pop(s.previous, 1)]}
        ELSE IF first # {}
        THEN {[list |-> "directives", left |-> pop(s.directives, i)] : i \in first}
        ELSE IF s.events # <<>> THEN {[list |-> "events", left |-> pop(s.events, 1)]}
        ELSE {}

trim ==
    /\ trimming = "TRIMMING" /\ over_limit(ai_snapshot)
    /\ \E p \in popped(ai_snapshot) : ai_snapshot' = [ai_snapshot EXCEPT ![p.list] = p.left]
    /\ UNCHANGED <<source, trimming>>

\* The protected fields alone exceed the bound: ValueError.
refuses ==
    /\ trimming = "TRIMMING" /\ over_limit(ai_snapshot) /\ popped(ai_snapshot) = {}
    /\ trimming' = "REFUSED"
    /\ UNCHANGED <<source, ai_snapshot>>

fits ==
    /\ trimming = "TRIMMING" /\ ~over_limit(ai_snapshot)
    /\ trimming' = "DONE"
    /\ UNCHANGED <<source, ai_snapshot>>

SnapshotInit ==
    /\ source = [l \in SnapshotLists |-> <<>>] /\ ai_snapshot = source
    /\ trimming = "NEW"

\* Lists of a case one item longer than their caps, to reach the cuts; only a
\* directive can be active.
Raw(l) == UNION {[1..n -> {i \in Item : i.active => l = "directives"}] : n \in 0..(ListCap[l] + 1)}

SnapshotNext ==
    \/ /\ trimming = "NEW"
       /\ \E lists \in [untrusted : Raw("untrusted"), artifacts : Raw("artifacts"),
                        previous : Raw("previous"), directives : Raw("directives"),
                        events : Raw("events")] : assemble(lists)
    \/ trim \/ refuses \/ fits

SnapshotSpec == SnapshotInit /\ [][SnapshotNext]_snapshotVars

----------------------------------------------------------------------------

\* The lists and the phase of the loop.
SnapshotTypeOK ==
    /\ \A l \in SnapshotLists : source[l] \in Seq(Item) /\ ai_snapshot[l] \in Seq(Item)
    /\ trimming \in {"NEW", "TRIMMING", "DONE", "REFUSED"}

\* The items that are, or are not, active directives, in their order.
Selected(items, active) ==
    LET select[n \in 0..Len(items)] ==
            IF n = 0 THEN <<>>
            ELSE IF items[n].active = active THEN Append(select[n - 1], items[n])
            ELSE select[n - 1]
    IN  select[Len(items)]

Reversed(items) == [i \in 1..Len(items) |-> items[Len(items) + 1 - i]]

\* What may be given up, in the order of its importance: the reference the
\* loop is compared with.
Expendable(s) ==
    s.untrusted \o (Reversed(s.artifacts) \o (s.previous
        \o (Selected(s.directives, FALSE) \o s.events)))

Kept(s) == Selected(s.directives, TRUE)

\* The loop gives up the shortest beginning of that order which makes the
\* snapshot fit, active directives never, and refuses exactly when even
\* giving up everything is not enough (assemble_snapshot).
TrimsLeastInOrder ==
    LET order == Expendable(source)
        rest == Expendable(ai_snapshot)
        gone == Len(order) - Len(rest)
        size(n) == Protected + total_size(Kept(source))
                             + total_size(SubSeq(order, n + 1, Len(order)))
    IN  /\ trimming = "DONE" =>
              /\ rest = SubSeq(order, gone + 1, Len(order)) /\ Kept(ai_snapshot) = Kept(source)
              /\ size(gone) <= MaxSnapshot /\ \A n \in 0..(gone - 1) : size(n) > MaxSnapshot
        /\ trimming = "REFUSED" => \A n \in 0..Len(order) : size(n) > MaxSnapshot

\* Every round of the loop gives up one item, the next one of that order, so
\* the loop ends after at most as many rounds as there are items.
EveryRoundGivesUpOne ==
    [][trim => /\ Expendable(ai_snapshot) # <<>>
               /\ Expendable(ai_snapshot') = Tail(Expendable(ai_snapshot))]_snapshotVars

=============================================================================
