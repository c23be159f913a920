-------------------------- MODULE SeqNumbers_proofs --------------------------
(* Facts about the greatest number of a finite set of sequence numbers. *)
EXTENDS SeqNumbers, FiniteSetTheorems, TLAPS

(* If a set has a greatest number, Top is one. *)
LEMMA TopWhenExists ==
    ASSUME NEW S, NEW n \in S \cup {0}, IsTop(n, S)
    PROVE  IsTop(Top(S), S)
<1>1. (CHOOSE top \in S \cup {0} : IsTop(top, S)) \in S \cup {0}
        /\ IsTop((CHOOSE top \in S \cup {0} : IsTop(top, S)), S)
  OBVIOUS
<1> QED
  BY <1>1 DEF Top

(* There is only one greatest number. *)
LEMMA TopUnique ==
    ASSUME NEW S \in SUBSET Nat, NEW n \in Nat, IsTop(n, S)
    PROVE  Top(S) = n
<1>1. IsTop(Top(S), S)
  <2>1. n \in S \cup {0}
    BY DEF IsTop
  <2> QED
    BY <2>1, TopWhenExists
<1>2. ASSUME NEW m, IsTop(m, S) PROVE m = n
  <2>1. m \in Nat
    BY <1>2 DEF IsTop
  <2>2. m \in S => m <= n
    BY DEF IsTop
  <2>3. n \in S => n <= m
    BY <1>2 DEF IsTop
  <2>4. (m \in S \/ m = 0) /\ (n \in S \/ n = 0)
    BY <1>2 DEF IsTop
  <2> QED
    BY <2>1, <2>2, <2>3, <2>4
<1> QED
  BY <1>1, <1>2

(* A finite set of numbers has a greatest one (0 stands in for the empty set),
   and Top is it: what the ORDER BY seq DESC LIMIT 1 queries rely on.  The
   greatest is the one with the fewest numbers above it. *)
LEMMA TopIsTop ==
    ASSUME NEW S \in SUBSET Nat, IsFiniteSet(S)
    PROVE  IsTop(Top(S), S) /\ Top(S) \in Nat
<1> DEFINE Above(n) == {t \in S : t > n}
           Aboves == {Above(n) : n \in S}
<1>1. \E top \in S \cup {0} : IsTop(top, S)
  <2>1. CASE S = {}
    BY <2>1 DEF IsTop
  <2>2. CASE S # {}
    <3>1. ASSUME NEW n \in S PROVE Above(n) \in FiniteSubsetsOf(S)
      <4>1. Above(n) \in SUBSET S
        OBVIOUS
      <4>2. IsFiniteSet(Above(n))
        BY <4>1, FS_Subset
      <4> QED
        BY <4>1, <4>2 DEF FiniteSubsetsOf
    <3>2. Aboves \subseteq FiniteSubsetsOf(S)
      BY <3>1
    <3>3. Aboves # {}
      BY <2>2
    <3>4. PICK A \in Aboves : \A B \in Aboves : ~ (<<B, A>> \in StrictSubsetOrdering(S))
      <4> HIDE DEF Aboves
      <4>1. IsWellFoundedOn(StrictSubsetOrdering(S), FiniteSubsetsOf(S))
        BY FS_StrictSubsetOrderingWellFounded
      <4> QED
        BY <3>2, <3>3, <4>1, WFMin
    <3>5. PICK n \in S : A = Above(n)
      BY <3>4
    <3>6. ASSUME NEW t \in S, t > n PROVE FALSE
      <4>1. t \in Nat /\ n \in Nat
        OBVIOUS
      <4>2. Above(t) \subseteq Above(n)
        <5>1. ASSUME NEW u \in S, u > t PROVE u > n
          <6>1. u \in Nat
            OBVIOUS
          <6> QED
            BY <3>6, <4>1, <5>1, <6>1
        <5> QED
          BY <5>1
      <4>3. t \in Above(n) /\ t \notin Above(t)
        BY <3>6, <4>1
      <4>4. <<Above(t), Above(n)>> \in StrictSubsetOrdering(S)
        <5> HIDE DEF Above
        <5>1. Above(t) \in SUBSET S /\ Above(n) \in SUBSET S
          BY DEF Above
        <5> QED
          BY <4>2, <4>3, <5>1 DEF StrictSubsetOrdering
      <4> QED
        BY <3>4, <3>5, <4>4
    <3>7. \A t \in S : t <= n
      BY <3>6
    <3> QED
      BY <3>7 DEF IsTop
  <2> QED
    BY <2>1, <2>2
<1>2. IsTop(Top(S), S)
  BY <1>1, TopWhenExists
<1>3. Top(S) \in S \cup {0}
  BY <1>2 DEF IsTop
<1>4. S \cup {0} \subseteq Nat
  OBVIOUS
<1> QED
  BY <1>2, <1>3, <1>4

(* A set of numbers that is not empty has a least one: the one farthest below
   the greatest. *)
LEMMA LeastExists ==
    ASSUME NEW S \in SUBSET Nat, IsFiniteSet(S), S # {}
    PROVE  \E n \in S : \A s \in S : n <= s
<1> DEFINE T == Top(S)
           Gaps == {T - s : s \in S}
<1>1. T \in Nat /\ \A s \in S : s <= T
  BY TopIsTop DEF IsTop
<1> HIDE DEF T
<1>2. Gaps \in SUBSET (0 .. T)
  BY <1>1
<1>3. Gaps \in SUBSET Nat /\ IsFiniteSet(Gaps)
  <2>1. IsFiniteSet(0 .. T)
    BY <1>1, FS_Interval
  <2>2. 0 .. T \in SUBSET Nat
    BY <1>1
  <2> HIDE DEF Gaps
  <2> QED
    BY <1>2, <2>1, <2>2, FS_Subset
<1>4. Top(Gaps) \in Gaps /\ \A g \in Gaps : g <= Top(Gaps)
  <2>1. Gaps # {}
    OBVIOUS
  <2>2. \A g \in Gaps : g >= 0
    BY <1>2
  <2> HIDE DEF Gaps
  <2>3. IsTop(Top(Gaps), Gaps) /\ Top(Gaps) \in Nat
    BY <1>3, TopIsTop
  <2>4. Top(Gaps) \in Gaps \cup {0} /\ \A g \in Gaps : g <= Top(Gaps)
    BY <2>3 DEF IsTop
  <2>5. Top(Gaps) = 0 => 0 \in Gaps
    <3>1. PICK g \in Gaps : TRUE
      BY <2>1
    <3>2. g \in Nat
      BY <1>3
    <3> QED
      BY <2>4, <3>2
  <2> QED
    BY <2>4, <2>5
<1>5. PICK n \in S : Top(Gaps) = T - n
  BY <1>4
<1>6. ASSUME NEW s \in S PROVE n <= s
  <2>1. T - s <= T - n
    BY <1>4, <1>5
  <2>2. n \in Nat /\ s \in Nat
    OBVIOUS
  <2> QED
    BY <1>1, <2>1, <2>2
<1> QED
  BY <1>6
=============================================================================
