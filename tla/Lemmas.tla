------------------------------- MODULE Lemmas -------------------------------
(***************************************************************************)
(* Facts about operators of the libraries that the proofs of several       *)
(* components need.                                                        *)
(***************************************************************************)
EXTENDS Integers, Sequences, FiniteSetsExt, SequenceTheorems,
        WellFoundedInduction, TLAPS

\* Every set of numbers has a smallest one.
LEMMA SomeLeast ==
    ASSUME NEW S \in SUBSET Nat, S # {}
    PROVE  \E x \in S : \A y \in S : x <= y
  <1> DEFINE R == {ss \in Nat \X Nat : ss[1] < ss[2]}
  <1>1. IsWellFoundedOn(R, Nat)
    <2>1. OpToRel(<, Nat) = R BY Zenon DEF OpToRel
    <2> QED BY <2>1, NatLessThanWellFounded, Zenon
  <1> HIDE DEF R
  <1>2. PICK x \in S : \A y \in S : ~(<<y, x>> \in R)
    BY <1>1, WFMin, Zenon
  <1>3. \A y \in S : x <= y
    <2> TAKE y \in S
    <2>1. <<y, x>> \in R <=> y < x BY DEF R
    <2> QED BY <1>2, <2>1
  <1> QED BY <1>3

\* The Max of a set with a bound is one of its elements, and no other is
\* larger.
LEMMA MaxOfBounded ==
    ASSUME NEW n \in Nat, NEW S \in SUBSET (0..n), S # {}
    PROVE  Max(S) \in S /\ \A y \in S : y <= Max(S)
  <1> DEFINE T == {m \in Nat : \A y \in S : y <= m}
  <1>1. T \in SUBSET Nat /\ n \in T OBVIOUS
  <1>2. PICK m \in T : \A k \in T : m <= k BY <1>1, SomeLeast
  <1>3. m \in S
    <2>1. SUFFICES ASSUME m \notin S PROVE FALSE OBVIOUS
    <2>2. PICK z \in S : TRUE OBVIOUS
    <2>3. \A y \in S : y < m BY <2>1, <1>2
    <2>4. m - 1 \in T BY <2>3, <2>2, <1>2
    <2> QED BY <2>4, <1>2
  <1>4. \E x \in S : \A y \in S : x >= y BY <1>3, <1>2
  <1> QED BY <1>4 DEF Max

\* The first n elements of a sequence.
LEMMA PrefixProperties ==
    ASSUME NEW S, NEW s \in Seq(S), NEW n \in 0..Len(s)
    PROVE  /\ SubSeq(s, 1, n) \in Seq(S)
           /\ Len(SubSeq(s, 1, n)) = n
           /\ \A i \in 1..n : SubSeq(s, 1, n)[i] = s[i]
  <1>1. \A i \in 1..n : s[i] \in S OBVIOUS
  <1>2. /\ SubSeq(s, 1, n) \in Seq(S)
        /\ Len(SubSeq(s, 1, n)) = IF 1 <= n THEN n - 1 + 1 ELSE 0
        /\ \A i \in 1..(n - 1 + 1) : SubSeq(s, 1, n)[i] = s[1 + i - 1]
    BY <1>1, SubSeqProperties
  <1> QED BY <1>2

\* A function on 1..n is a sequence of length n.
LEMMA FunctionIsSeq ==
    ASSUME NEW S, NEW n \in Nat, NEW f \in [1..n -> S]
    PROVE  f \in Seq(S) /\ Len(f) = n
  BY SeqDef
=============================================================================
