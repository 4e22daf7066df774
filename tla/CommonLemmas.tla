---------------------------- MODULE CommonLemmas ----------------------------
(***************************************************************************)
(* What the proofs share: sequences, least and greatest elements of sets   *)
(* of numbers, and induction over an interval.  Induction is stated for a  *)
(* set of numbers and recursion for a step given as a function, so that    *)
(* first-order provers can instantiate them.                               *)
(***************************************************************************)
EXTENDS Naturals, Sequences, FiniteSets, FiniteSetTheorems, WellFoundedInduction, TLAPS

\* Most steps are first-order; those with arithmetic cite SMT.
USE Zenon

----------------------------------------------------------------------------
(* Sequences *)

\* The empty sequence, and the length of the others.
LEMMA EmptySeq ==
    ASSUME NEW S
    PROVE  /\ << >> \in Seq(S) /\ Len(<< >>) = 0
           /\ \A q \in Seq(S) : q # << >> => Len(q) \in Nat \ {0}
BY SMT

\* The length, the domain and the elements of a sequence.
LEMMA LenProperties ==
    ASSUME NEW S, NEW q \in Seq(S)
    PROVE  /\ Len(q) \in Nat /\ DOMAIN q = 1..Len(q)
           /\ \A i \in 1..Len(q) : q[i] \in S
BY SMT

\* Taking the first element of a sequence.
LEMMA HeadTailProperties ==
    ASSUME NEW S, NEW q \in Seq(S), q # << >>
    PROVE  /\ Head(q) \in S /\ Head(q) = q[1]
           /\ Tail(q) \in Seq(S) /\ Len(Tail(q)) = Len(q) - 1
           /\ \A i \in 1..Len(Tail(q)) : Tail(q)[i] = q[i + 1]
BY SMT

\* Appending one element.
LEMMA AppendProperties ==
    ASSUME NEW S, NEW q \in Seq(S), NEW e \in S
    PROVE  /\ Append(q, e) \in Seq(S) /\ Len(Append(q, e)) = Len(q) + 1
           /\ \A i \in 1..Len(q) : Append(q, e)[i] = q[i]
           /\ Append(q, e)[Len(q) + 1] = e
BY SMT

\* An element of a longer sequence is the new one or an old one in its place.
LEMMA AppendedElements ==
    ASSUME NEW S, NEW q \in Seq(S), NEW e \in S
    PROVE  \A i \in 1..Len(Append(q, e)) :
              Append(q, e)[i] = e \/ (i \in 1..Len(q) /\ Append(q, e)[i] = q[i])
BY SMT

\* A prefix of a sequence.
LEMMA PrefixProperties ==
    ASSUME NEW S, NEW q \in Seq(S), NEW n \in 0..Len(q)
    PROVE  /\ SubSeq(q, 1, n) \in Seq(S) /\ Len(SubSeq(q, 1, n)) = n
           /\ \A i \in 1..n : SubSeq(q, 1, n)[i] = q[i]
BY SMT

\* A suffix of a sequence.
LEMMA SuffixProperties ==
    ASSUME NEW S, NEW q \in Seq(S), NEW n \in 0..Len(q)
    PROVE  /\ SubSeq(q, n + 1, Len(q)) \in Seq(S)
           /\ Len(SubSeq(q, n + 1, Len(q))) = Len(q) - n
           /\ \A i \in 1..(Len(q) - n) : SubSeq(q, n + 1, Len(q))[i] = q[n + i]
BY SMT

\* The concatenation of two sequences.
LEMMA ConcatProperties ==
    ASSUME NEW S, NEW p \in Seq(S), NEW q \in Seq(S)
    PROVE  /\ p \o q \in Seq(S) /\ Len(p \o q) = Len(p) + Len(q)
           /\ \A i \in 1..Len(p \o q) :
                 (p \o q)[i] = IF i <= Len(p) THEN p[i] ELSE q[i - Len(p)]
BY SMT

\* Its elements, each of one of them.
LEMMA ConcatElements ==
    ASSUME NEW S, NEW p \in Seq(S), NEW q \in Seq(S)
    PROVE  /\ \A i \in 1..Len(p) : (p \o q)[i] = p[i]
           /\ \A i \in 1..Len(q) : (p \o q)[Len(p) + i] = q[i]
BY SMT

\* A concatenation that adds one element.
AddsOne(p, q, r) ==
    Len(q) = 1 => /\ Len(r) = Len(p) + 1
                  /\ \A i \in 1..Len(p) : r[i] = p[i]
                  /\ r[Len(p) + 1] = q[1]

LEMMA ConcatOne ==
    ASSUME NEW S, NEW p \in Seq(S), NEW q \in Seq(S), NEW r, r = p \o q
    PROVE  AddsOne(p, q, r)
<1>1. Len(r) = Len(p) + Len(q) /\ \A i \in 1..Len(p) : r[i] = p[i]
  BY ConcatProperties, ConcatElements, Zenon
<1>2. ASSUME NEW i \in 1..Len(q) PROVE r[Len(p) + i] = q[i]
  <2>1. \A j \in 1..Len(q) : (p \o q)[Len(p) + j] = q[j]
    BY ConcatElements, SMT
  <2> QED
    BY <2>1, Zenon
<1>3. ASSUME Len(q) = 1 PROVE 1 \in 1..Len(q)
  BY <1>3, SMT
<1>4. ASSUME Len(q) = 1 PROVE r[Len(p) + 1] = q[1]
  BY <1>2, <1>3, <1>4, Zenon
<1>5. ASSUME Len(q) = 1 PROVE Len(r) = Len(p) + 1
  BY <1>1, <1>5, Zenon
<1> QED
  BY <1>1, <1>4, <1>5 DEF AddsOne

\* Sequences with the same elements in the same places are the same.
LEMMA SeqEqual ==
    ASSUME NEW S, NEW p \in Seq(S), NEW q \in Seq(S), Len(p) = Len(q),
           \A i \in 1..Len(p) : p[i] = q[i]
    PROVE  p = q
BY SMT

----------------------------------------------------------------------------
(* Numbers *)

\* A set of natural numbers has a smallest element.
LEMMA LeastElement ==
    ASSUME NEW S \in SUBSET Nat, S # {}
    PROVE  \E n \in S : \A m \in S : n <= m
<1> DEFINE R == OpToRel(<, Nat)
<1>1. IsWellFoundedOn(R, Nat)
  BY NatLessThanWellFounded
<1>2. R = {ss \in Nat \X Nat : ss[1] < ss[2]}
  BY DEF OpToRel
<1> HIDE DEF R
<1>3. PICK x \in S : \A y \in S : ~ (<<y, x>> \in R)
  BY <1>1, WFMin
<1>4. \A y \in S : ~ (y < x)
  BY <1>2, <1>3
<1> QED
  BY <1>4, SMT

\* A bounded one has a largest element.
LEMMA GreatestElement ==
    ASSUME NEW S \in SUBSET Nat, S # {}, NEW bound \in Nat, \A n \in S : n <= bound
    PROVE  \E n \in S : \A m \in S : m <= n
<1> DEFINE D == {bound - n : n \in S}
<1>1. D \in SUBSET Nat /\ D # {}
  <2>1. \A n \in S : bound - n \in Nat
    BY SMT
  <2> QED
    BY <2>1
<1>2. PICK d \in D : \A e \in D : d <= e
  BY <1>1, LeastElement
<1>3. PICK n \in S : d = bound - n
  OBVIOUS
<1>4. \A m \in S : m <= n
  <2> TAKE m \in S
  <2>1. d <= bound - m
    BY <1>2
  <2> QED
    BY <1>3, <2>1, SMT
<1> QED
  BY <1>4

\* Induction up to n, for a set of numbers.
LEMMA IntervalInduction ==
    ASSUME NEW n \in Nat, NEW S, 0 \in S, \A i \in 1..n : i - 1 \in S => i \in S
    PROVE  \A i \in 0..n : i \in S
<1> SUFFICES ASSUME NEW k \in 0..n, k \notin S PROVE FALSE
  OBVIOUS
<1> DEFINE Bad == {i \in 0..n : i \notin S}
<1>1. Bad \in SUBSET Nat /\ Bad # {}
  BY SMT
<1>2. PICK i \in Bad : \A j \in Bad : i <= j
  BY <1>1, LeastElement
<1>3. i \in 1..n /\ i - 1 \in 0..n
  BY <1>2, SMT
<1>4. i - 1 \in Bad
  BY <1>2, <1>3
<1> QED
  BY <1>2, <1>3, <1>4, SMT

\* g on 0..m with values in A, made from its value a at 0 by step.
RecursiveOn(m, A, a, step, g) ==
    /\ g \in [0..m -> A] /\ g[0] = a
    /\ \A i \in 1..m : g[i] = step[<<i, g[i - 1]>>]

\* Recursion over an interval defines a function: the value at i is made from
\* i and the value at i - 1.
LEMMA IntervalRecursion ==
    ASSUME NEW n \in Nat, NEW A, NEW a \in A, NEW step \in [(1..n) \X A -> A]
    PROVE  \E g : RecursiveOn(n, A, a, step, g)
<1> USE DEF RecursiveOn
<1> DEFINE Upto(m, g) == RecursiveOn(m, A, a, step, g)
           S == {m \in 0..n : \E g : Upto(m, g)}
<1>1. 0 \in S
  <2> DEFINE g == [i \in 0..0 |-> a]
  <2>1. 0 \in 0..0 /\ 0 \in 0..n /\ \A i \in 1..0 : FALSE
    BY SMT
  <2>2. Upto(0, g)
    BY <2>1
  <2> QED
    BY <2>1, <2>2
<1>2. ASSUME NEW m \in 1..n, m - 1 \in S PROVE m \in S
  <2>1. PICK g : Upto(m - 1, g)
    BY <1>2
  <2>2. m - 1 \in 0..(m - 1) /\ g[m - 1] \in A
    <3>1. m - 1 \in 0..(m - 1)
      BY SMT
    <3> QED
      BY <2>1, <3>1
  <2> DEFINE v == step[<<m, g[m - 1]>>]
             h == [i \in 0..m |-> IF i = m THEN v ELSE g[i]]
  <2>3. v \in A
    BY <2>2
  <2>4. h[m] = v /\ h[m - 1] = g[m - 1] /\ \A i \in 0..(m - 1) : h[i] = g[i]
    BY SMT
  <2>5. h \in [0..m -> A]
    <3>1. \A i \in 0..m : i = m \/ i \in 0..(m - 1)
      BY SMT
    <3> QED
      BY <2>1, <2>3, <3>1
  <2>6. h[0] = a
    <3>1. 0 \in 0..(m - 1)
      BY SMT
    <3> QED
      BY <2>1, <2>4, <3>1
  <2>7. ASSUME NEW i \in 1..m PROVE h[i] = step[<<i, h[i - 1]>>]
    <3>1. CASE i = m
      BY <2>4, <3>1
    <3>2. CASE i # m
      <4>1. i \in 1..(m - 1) /\ i \in 0..(m - 1) /\ i - 1 \in 0..(m - 1)
        BY <3>2, SMT
      <4> QED
        BY <2>1, <2>4, <4>1
    <3> QED
      BY <3>1, <3>2
  <2> HIDE DEF h
  <2>8. Upto(m, h)
    BY <2>5, <2>6, <2>7
  <2>9. m \in 0..n
    BY SMT
  <2> QED
    BY <2>8, <2>9
<1> HIDE DEF S
<1>3. \A m \in 0..n : m \in S
  BY <1>1, <1>2, IntervalInduction
<1>4. n \in S
  BY <1>3, SMT
<1> QED
  BY <1>4 DEF S

=============================================================================
