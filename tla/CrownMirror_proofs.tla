-------------------------- MODULE CrownMirror_proofs --------------------------
(* Theorems about the crown mirror, for any accounts and crownings: build_state
   derives what happened, and the POSTs of a cycle make the label server agree
   with it.

   The loops of build_state are recursive functions.  That such a function exists
   and what it has after each round is shown by looking at the first round for
   which it would fail (UpTo, LoopExists).                                    *)
EXTENDS CrownMirror, SeqNumbers_proofs, SequenceTheorems

(* What holds of 0, and of each number if it does of the one before. *)
LEMMA UpTo ==
    ASSUME NEW n \in Nat, NEW S, 0 \in S, \A i \in 1 .. n : i - 1 \in S => i \in S
    PROVE  0 .. n \subseteq S
<1> DEFINE Missing == (0 .. n) \ S
<1> SUFFICES ASSUME Missing # {} PROVE FALSE
  OBVIOUS
<1>1. Missing \in SUBSET Nat /\ IsFiniteSet(Missing)
  <2>1. IsFiniteSet(0 .. n) /\ Missing \in SUBSET (0 .. n) /\ 0 .. n \in SUBSET Nat
    BY FS_Interval
  <2> QED
    BY <2>1, FS_Subset
<1>2. PICK m \in Missing : \A k \in Missing : m <= k
  BY <1>1, LeastExists
<1>3. m \in 1 .. n /\ m - 1 \in (0 .. n) \ Missing
  BY <1>2
<1>4. m - 1 \in S
  BY <1>3
<1> QED
  BY <1>2, <1>3, <1>4

(* f is what a loop of n rounds has after each of them. *)
IsLoop(f, n, base, step) ==
    f[0] = base /\ \A i \in 1 .. n : f[i] = step[<<i, f[i - 1]>>]

(* The loop exists if every round has a result. *)
LEMMA LoopExists ==
    ASSUME NEW n \in Nat, NEW R, NEW base \in R, NEW step \in [(1 .. n) \X R -> R]
    PROVE  \E f \in [0 .. n -> R] : IsLoop(f, n, base, step)
<1> DEFINE Runs(k) == {f \in [0 .. k -> R] :
                          f[0] = base /\ \A i \in 1 .. k : f[i] = step[<<i, f[i - 1]>>]}
           Reached == {k \in 0 .. n : Runs(k) # {}}
<1>1. 0 \in Reached
  <2>1. [i \in 0 .. 0 |-> base] \in Runs(0)
    OBVIOUS
  <2> QED
    BY <2>1
<1>2. ASSUME NEW i \in 1 .. n, i - 1 \in Reached PROVE i \in Reached
  <2>1. PICK f \in Runs(i - 1) : TRUE
    BY <1>2
  <2>2. f \in [0 .. i - 1 -> R] /\ f[0] = base /\ \A k \in 1 .. i - 1 : f[k] = step[<<k, f[k - 1]>>]
    BY <2>1
  <2> DEFINE g == [k \in 0 .. i |-> IF k = i THEN step[<<i, f[i - 1]>>] ELSE f[k]]
  <2>3. f[i - 1] \in R /\ step[<<i, f[i - 1]>>] \in R
    BY <2>2
  <2>4. g \in [0 .. i -> R]
    BY <2>2, <2>3
  <2>5. g[0] = base
    BY <2>2
  <2>6. ASSUME NEW k \in 1 .. i PROVE g[k] = step[<<k, g[k - 1]>>]
    <3>1. k \in 0 .. i /\ k - 1 \in 0 .. i /\ k - 1 # i /\ i \in 0 .. i
      OBVIOUS
    <3>2. g[k - 1] = f[k - 1]
      BY <3>1
    <3>3. CASE k = i
      <4>1. g[i] = step[<<i, f[i - 1]>>]
        BY <3>1
      <4> QED
        BY <3>2, <3>3, <4>1
    <3>4. CASE k # i
      <4>1. g[k] = f[k] /\ k \in 1 .. i - 1
        BY <3>1, <3>4
      <4> QED
        BY <2>2, <3>2, <4>1
    <3> QED
      BY <3>3, <3>4
  <2>7. g \in Runs(i)
    BY <2>4, <2>5, <2>6
  <2> HIDE DEF g, Runs
  <2>8. Runs(i) # {} /\ i \in 0 .. n
    BY <2>7
  <2> QED
    BY <2>8
<1> HIDE DEF Reached
<1>3. 0 .. n \subseteq Reached
  BY <1>1, <1>2, UpTo
<1>4. Runs(n) # {}
  BY <1>3 DEF Reached
<1> QED
  BY <1>4 DEF IsLoop

-----------------------------------------------------------------------------
(* The order of Python's tuples is a strict total order. *)
LEMMA BeforeIsOrder ==
    ASSUME NEW a \in Crowning, NEW b \in Crowning, NEW c \in Crowning
    PROVE  /\ ~ Before(a, a)
           /\ Before(a, b) /\ Before(b, c) => Before(a, c)
           /\ a = b \/ Before(a, b) \/ Before(b, a)
<1>1. \A x \in Accounts : x \in Nat
  BY CrownAssumption
<1>2. \A x \in Crowning : /\ x.ts \in Nat /\ x.did \in Nat /\ x.likes \in Nat /\ x.post \in Nat
                          /\ x = [ts |-> x.ts, did |-> x.did, likes |-> x.likes, post |-> x.post]
  BY <1>1 DEF Crowning
<1>3. /\ a.ts \in Nat /\ a.did \in Nat /\ a.likes \in Nat /\ a.post \in Nat
      /\ b.ts \in Nat /\ b.did \in Nat /\ b.likes \in Nat /\ b.post \in Nat
      /\ c.ts \in Nat /\ c.did \in Nat /\ c.likes \in Nat /\ c.post \in Nat
      /\ a.ts = b.ts /\ a.did = b.did /\ a.likes = b.likes /\ a.post = b.post => a = b
  BY <1>2
<1> QED
  BY <1>3 DEF Before

(* As many crownings as there are before it have a lower rank. *)
LEMMA RankFacts ==
    ASSUME NEW F \in SUBSET Crowning, IsFiniteSet(F)
    PROVE  /\ Cardinality(F) \in Nat
           /\ \A c \in F : Rank(c, F) \in 1 .. Cardinality(F)
           /\ \A c, d \in F : Before(c, d) => Rank(c, F) < Rank(d, F)
<1> DEFINE Below(c) == {d \in F : Before(d, c)}
<1>1. ASSUME NEW c \in F
      PROVE  /\ IsFiniteSet(Below(c)) /\ Cardinality(Below(c)) \in Nat
             /\ Cardinality(Below(c)) < Cardinality(F) /\ Cardinality(F) \in Nat
  <2>1. Below(c) \in SUBSET F /\ c \notin Below(c)
    BY BeforeIsOrder
  <2> HIDE DEF Below
  <2>2. IsFiniteSet(Below(c)) /\ Cardinality(Below(c)) <= Cardinality(F)
        /\ (Cardinality(F) = Cardinality(Below(c)) => F = Below(c))
    BY <2>1, FS_Subset
  <2>3. Cardinality(Below(c)) \in Nat /\ Cardinality(F) \in Nat
    BY <2>2, FS_CardinalityType
  <2> QED
    BY <2>1, <2>2, <2>3
<1>2. ASSUME NEW c \in F, NEW d \in F, Before(c, d)
      PROVE  Cardinality(Below(c)) < Cardinality(Below(d))
  <2>1. Below(c) \in SUBSET Below(d) /\ c \in Below(d) /\ c \notin Below(c)
    <3>1. \A e \in F : Before(e, c) => Before(e, d)
      BY <1>2, BeforeIsOrder
    <3> QED
      BY <1>2, <3>1, BeforeIsOrder
  <2> HIDE DEF Below
  <2>2. Cardinality(Below(c)) <= Cardinality(Below(d))
        /\ (Cardinality(Below(d)) = Cardinality(Below(c)) => Below(d) = Below(c))
    BY <1>1, <2>1, FS_Subset
  <2> QED
    BY <1>1, <2>1, <2>2
<1>3. \A c \in F : Rank(c, F) = Cardinality(Below(c)) + 1
  BY DEF Rank
<1>4. Cardinality(F) \in Nat
  BY FS_CardinalityType
<1> HIDE DEF Below
<1> QED
  BY <1>1, <1>2, <1>3, <1>4

(* sorted() has every crowning once, in order. *)
LEMMA SortedFacts ==
    ASSUME NEW F \in SUBSET Crowning, IsFiniteSet(F)
    PROVE  LET s == Sorted(F)
               n == Cardinality(F)
           IN  /\ n \in Nat /\ s \in Seq(F) /\ Len(s) = n
               /\ \A c \in F : \E i \in 1 .. n : s[i] = c
               /\ \A i, j \in 1 .. n : i < j => Before(s[i], s[j])
<1> DEFINE s == Sorted(F)
           n == Cardinality(F)
           rank == [c \in F |-> Rank(c, F)]
<1>1. n \in Nat /\ IsFiniteSet(1 .. n) /\ Cardinality(1 .. n) = n
  <2>1. n \in Nat
    BY FS_CardinalityType
  <2> HIDE DEF n
  <2> QED
    BY <2>1, FS_Interval
<1>2. rank \in Injection(F, 1 .. n)
  <2>1. rank \in [F -> 1 .. n]
    BY RankFacts
  <2>2. ASSUME NEW c \in F, NEW d \in F, rank[c] = rank[d] PROVE c = d
    <3>1. Rank(c, F) = Rank(d, F) /\ Rank(c, F) \in Nat
      BY <1>1, <2>2, RankFacts
    <3>2. ~ Before(c, d) /\ ~ Before(d, c)
      BY <3>1, RankFacts
    <3> QED
      BY <3>2, BeforeIsOrder
  <2> HIDE DEF rank, n
  <2> QED
    BY <2>1, <2>2 DEF Injection, IsInjective
<1>3. \A i \in 1 .. n : \E c \in F : Rank(c, F) = i
  <2>1. rank \in Surjection(F, 1 .. n)
    <3> HIDE DEF rank
    <3>1. IsFiniteSet(1 .. n) /\ Cardinality(F) = Cardinality(1 .. n)
      BY <1>1
    <3> QED
      BY <1>2, <3>1, FS_Injection
  <2>2. \A i \in 1 .. n : \E c \in F : rank[c] = i
    <3> HIDE DEF rank, n
    <3> QED
      BY <2>1 DEF Surjection
  <2> QED
    BY <2>2
<1>4. \A i \in 1 .. n : s[i] \in F /\ Rank(s[i], F) = i
  BY <1>3 DEF Sorted
<1>5. s \in Seq(F) /\ Len(s) = n
  <2>1. s = [i \in 1 .. n |-> s[i]]
    BY DEF Sorted
  <2> HIDE DEF s, n
  <2> QED
    BY <1>1, <1>4, <2>1
<1>6. ASSUME NEW c \in F PROVE \E i \in 1 .. n : s[i] = c
  <2>1. Rank(c, F) \in 1 .. n
    BY RankFacts
  <2>2. rank[s[Rank(c, F)]] = rank[c] /\ s[Rank(c, F)] \in F
    BY <1>4, <2>1
  <2>3. s[Rank(c, F)] = c
    <3> HIDE DEF rank, s, n
    <3> QED
      BY <1>2, <2>2 DEF Injection, IsInjective
  <2> QED
    BY <2>1, <2>3
<1>7. ASSUME NEW i \in 1 .. n, NEW j \in 1 .. n, i < j PROVE Before(s[i], s[j])
  <2>1. s[i] \in F /\ s[j] \in F /\ Rank(s[i], F) = i /\ Rank(s[j], F) = j
    BY <1>4
  <2>2. s[i] # s[j] /\ ~ Before(s[j], s[i])
    <3> HIDE DEF s
    <3> QED
      BY <1>1, <1>7, <2>1, RankFacts
  <2> HIDE DEF s
  <2> QED
    BY <2>1, <2>2, BeforeIsOrder
<1> QED
  BY <1>1, <1>5, <1>6, <1>7

-----------------------------------------------------------------------------
(* The rounds of the loop that drops what it has seen. *)
LEMMA DedupingRounds ==
    ASSUME NEW F, NEW s \in Seq(F)
    PROVE  LET D == Deduping(s)
           IN  /\ \A i \in 0 .. Len(s) : D[i] \in [seen : SUBSET {KeyOf(c) : c \in F}, kept : Seq(F)]
               /\ D[0] = [seen |-> {}, kept |-> <<>>]
               /\ \A i \in 1 .. Len(s) : D[i] = Keep(D[i - 1], s[i])
<1> DEFINE n == Len(s)
           keys == {KeyOf(c) : c \in F}
           R == [seen : SUBSET keys, kept : Seq(F)]
           base == [seen |-> {}, kept |-> <<>>]
           step == [p \in (1 .. n) \X R |-> Keep(p[2], s[p[1]])]
           Loop(f) == f = [i \in 0 .. n |-> IF i = 0 THEN base ELSE Keep(f[i - 1], s[i])]
<1>1. base \in R
  OBVIOUS
<1>2. n \in Nat /\ \A i \in 1 .. n : s[i] \in F
  OBVIOUS
<1>3. ASSUME NEW r \in R, NEW c \in F PROVE Keep(r, c) \in R
  <2>1. KeyOf(c) \in keys
    OBVIOUS
  <2>2. r.seen \in SUBSET keys /\ r.kept \in Seq(F) /\ Append(r.kept, c) \in Seq(F)
    <3> HIDE DEF keys
    <3> QED
      OBVIOUS
  <2> HIDE DEF keys
  <2> QED
    BY <2>1, <2>2 DEF Keep
<1>4. step \in [(1 .. n) \X R -> R]
  <2>1. \A p \in (1 .. n) \X R : p[2] \in R /\ s[p[1]] \in F
    <3> HIDE DEF R, n
    <3> QED
      BY <1>2
  <2>2. \A p \in (1 .. n) \X R : Keep(p[2], s[p[1]]) \in R
    <3> HIDE DEF R, n
    <3> QED
      BY <1>3, <2>1
  <2> HIDE DEF R, n
  <2> QED
    BY <2>2
<1>5. PICK f \in [0 .. n -> R] : IsLoop(f, n, base, step)
  <2>1. n \in Nat
    OBVIOUS
  <2> HIDE DEF R, n, base, step
  <2> QED
    BY <1>1, <1>4, <2>1, LoopExists
<1>6. \A i \in 1 .. n : f[i] = Keep(f[i - 1], s[i])
  <2>1. ASSUME NEW i \in 1 .. n PROVE f[i] = Keep(f[i - 1], s[i])
    <3>1. i - 1 \in 0 .. n
      BY <1>2
    <3>2. <<i, f[i - 1]>> \in (1 .. n) \X R
      <4> HIDE DEF R, n
      <4> QED
        BY <1>5, <3>1
    <3> HIDE DEF R, n
    <3> QED
      BY <1>5, <3>2 DEF IsLoop
  <2> QED
    BY <2>1
<1>7. Loop(f)
  <2> HIDE DEF R, base
  <2>1. \A i \in 0 .. n : f[i] = IF i = 0 THEN base ELSE Keep(f[i - 1], s[i])
    BY <1>2, <1>5, <1>6 DEF IsLoop
  <2> HIDE DEF n
  <2> QED
    BY <1>5, <2>1
<1>8. Deduping(s) = CHOOSE g : Loop(g)
  BY DEF Deduping
<1> HIDE DEF Loop
<1>9. Loop(Deduping(s))
  BY <1>7, <1>8
<1> DEFINE D == Deduping(s)
<1>10. D = [i \in 0 .. n |-> IF i = 0 THEN base ELSE Keep(D[i - 1], s[i])]
  BY <1>9 DEF Loop
<1> HIDE DEF D
<1>11. D[0] = base /\ \A i \in 1 .. n : D[i] = Keep(D[i - 1], s[i])
  <2> HIDE DEF base
  <2>1. 0 \in 0 .. n /\ \A i \in 1 .. n : i \in 0 .. n /\ i # 0
    BY <1>2
  <2> HIDE DEF n
  <2> QED
    BY <1>10, <2>1
<1> DEFINE Typed == {i \in 0 .. n : D[i] \in R}
<1>12. 0 .. n \subseteq Typed
  <2>1. 0 \in Typed
    <3> HIDE DEF R, base
    <3> QED
      BY <1>1, <1>2, <1>11
  <2>2. ASSUME NEW i \in 1 .. n, i - 1 \in Typed PROVE i \in Typed
    <3> HIDE DEF R, base
    <3>1. i \in 0 .. n /\ D[i - 1] \in R /\ s[i] \in F
      BY <1>2, <2>2
    <3>2. Keep(D[i - 1], s[i]) \in R
      BY <1>3, <3>1
    <3> QED
      BY <1>11, <3>1, <3>2
  <2> HIDE DEF Typed
  <2> QED
    BY <1>2, <2>1, <2>2, UpTo
<1> QED
  BY <1>11, <1>12 DEF D

(* The first crowning of each key, and nothing else, in order. *)
IsFirst(j, s) == \A k \in 1 .. j - 1 : KeyOf(s[k]) # KeyOf(s[j])

KeptAfter(i, s, acc) ==
    /\ acc.seen = {KeyOf(s[j]) : j \in 1 .. i}
    /\ \A m \in DOMAIN acc.kept : \E j \in 1 .. i : IsFirst(j, s) /\ acc.kept[m] = s[j]
    /\ \A j \in 1 .. i : IsFirst(j, s) => \E m \in DOMAIN acc.kept : acc.kept[m] = s[j]
    /\ \A l, m \in DOMAIN acc.kept : l < m => Before(acc.kept[l], acc.kept[m])

(* A round of the loop keeps that. *)
LEMMA KeepOne ==
    ASSUME NEW F, NEW s \in Seq(F), \A i, j \in DOMAIN s : i < j => Before(s[i], s[j]),
           NEW acc, acc.kept \in Seq(F), NEW i \in DOMAIN s, KeptAfter(i - 1, s, acc)
    PROVE  KeptAfter(i, s, Keep(acc, s[i]))
<1> DEFINE next == Keep(acc, s[i])
<1>1. i \in Nat /\ i \in 1 .. i /\ DOMAIN s = 1 .. Len(s) /\ 1 .. i = (1 .. i - 1) \cup {i}
  OBVIOUS
<1>2. {KeyOf(s[j]) : j \in 1 .. i} = {KeyOf(s[j]) : j \in 1 .. i - 1} \cup {KeyOf(s[i])}
  BY <1>1
<1>3. KeyOf(s[i]) \in acc.seen <=> ~ IsFirst(i, s)
  BY DEF KeptAfter, IsFirst
<1>4. CASE KeyOf(s[i]) \in acc.seen
  <2>1. next = acc
    BY <1>4 DEF Keep
  <2> QED
    BY <1>1, <1>2, <1>3, <1>4, <2>1 DEF KeptAfter
<1>5. CASE KeyOf(s[i]) \notin acc.seen
  <2>1. next = [seen |-> acc.seen \cup {KeyOf(s[i])}, kept |-> Append(acc.kept, s[i])]
    BY <1>5 DEF Keep
  <2>2. s[i] \in F
    OBVIOUS
  <2> DEFINE q == acc.kept
             r == Append(q, s[i])
  <2>3. /\ DOMAIN q = 1 .. Len(q) /\ DOMAIN r = 1 .. Len(q) + 1 /\ Len(q) \in Nat
        /\ r[Len(q) + 1] = s[i] /\ \A m \in 1 .. Len(q) : r[m] = q[m]
    BY <2>2
  <2>4. next.seen = acc.seen \cup {KeyOf(s[i])} /\ next.kept = r
    BY <2>1
  <2> HIDE DEF next, q, r
  <2>5. next.seen = {KeyOf(s[j]) : j \in 1 .. i}
    BY <1>2, <2>4 DEF KeptAfter
  <2>6. ASSUME NEW m \in DOMAIN r PROVE \E j \in 1 .. i : IsFirst(j, s) /\ r[m] = s[j]
    <3>1. CASE m = Len(q) + 1
      BY <1>1, <1>3, <1>5, <2>3, <3>1
    <3>2. CASE m \in 1 .. Len(q)
      BY <1>1, <2>3, <3>2 DEF KeptAfter, q
    <3> QED
      BY <2>3, <3>1, <3>2
  <2>7. ASSUME NEW j \in 1 .. i, IsFirst(j, s) PROVE \E m \in DOMAIN r : r[m] = s[j]
    <3>1. CASE j = i
      BY <2>3, <3>1
    <3>2. CASE j \in 1 .. i - 1
      <4>1. PICK m \in DOMAIN q : q[m] = s[j]
        BY <2>7, <3>2 DEF KeptAfter, q
      <4> QED
        BY <2>3, <4>1
    <3> QED
      BY <1>1, <3>1, <3>2
  <2>8. ASSUME NEW l \in DOMAIN r, NEW m \in DOMAIN r, l < m PROVE Before(r[l], r[m])
    <3>1. l \in 1 .. Len(q) /\ r[l] = q[l]
      BY <2>3, <2>8
    <3>2. CASE m = Len(q) + 1
      <4>1. PICK j \in 1 .. i - 1 : q[l] = s[j]
        BY <2>3, <3>1 DEF KeptAfter, q
      <4>2. j \in DOMAIN s /\ j < i
        BY <1>1, <4>1
      <4> QED
        BY <2>3, <3>1, <3>2, <4>1, <4>2
    <3>3. CASE m \in 1 .. Len(q)
      BY <2>3, <2>8, <3>1, <3>3 DEF KeptAfter, q
    <3> QED
      BY <2>3, <3>2, <3>3
  <2> QED
    BY <2>4, <2>5, <2>6, <2>7, <2>8 DEF KeptAfter, next
<1> QED
  BY <1>4, <1>5

(* What is left are the first crownings of their keys, in order. *)
LEMMA DedupedFacts ==
    ASSUME NEW F \in SUBSET Crowning, IsFiniteSet(F), F # {}
    PROVE  LET q == Deduped(F)
               firsts == {c \in F : \A d \in F : Before(d, c) => KeyOf(d) # KeyOf(c)}
           IN  /\ q \in Seq(F) /\ q # <<>>
               /\ {q[m] : m \in DOMAIN q} = firsts
               /\ \A l, m \in DOMAIN q : l < m => Before(q[l], q[m])
<1> DEFINE s == Sorted(F)
           n == Cardinality(F)
           D == Deduping(s)
           q == D[n].kept
           firsts == {c \in F : \A d \in F : Before(d, c) => KeyOf(d) # KeyOf(c)}
<1>1. /\ n \in Nat /\ s \in Seq(F) /\ Len(s) = n /\ DOMAIN s = 1 .. n
      /\ \A c \in F : \E i \in 1 .. n : s[i] = c
      /\ \A i, j \in 1 .. n : i < j => Before(s[i], s[j])
  BY SortedFacts
<1> HIDE DEF s, n
<1>2. \A i \in 0 .. n : D[i].kept \in Seq(F)
  BY <1>1, DedupingRounds
<1>3. D[0] = [seen |-> {}, kept |-> <<>>] /\ \A i \in 1 .. n : D[i] = Keep(D[i - 1], s[i])
  BY <1>1, DedupingRounds
<1> HIDE DEF D
<1> DEFINE Fine == {i \in 0 .. n : KeptAfter(i, s, D[i])}
<1>4. 0 .. n \subseteq Fine
  <2>1. 0 \in Fine
    <3>1. D[0].seen = {} /\ D[0].kept = <<>> /\ 0 \in 0 .. n
      BY <1>1, <1>3
    <3>2. KeptAfter(0, s, D[0])
      BY <3>1 DEF KeptAfter
    <3> QED
      BY <3>1, <3>2
  <2>2. ASSUME NEW i \in 1 .. n, i - 1 \in Fine PROVE i \in Fine
    <3>1. i - 1 \in 0 .. n /\ i \in 0 .. n /\ i \in DOMAIN s
      BY <1>1
    <3>2. KeptAfter(i, s, Keep(D[i - 1], s[i]))
      BY <1>1, <1>2, <2>2, <3>1, KeepOne
    <3> QED
      BY <1>3, <3>1, <3>2
  <2> HIDE DEF Fine
  <2> QED
    BY <1>1, <2>1, <2>2, UpTo
<1>5. KeptAfter(n, s, D[n]) /\ n \in 0 .. n
  BY <1>1, <1>4
<1>6. q \in Seq(F)
  BY <1>2, <1>5
<1>7. \A j \in 1 .. n : IsFirst(j, s) <=> s[j] \in firsts
  <2>1. ASSUME NEW j \in 1 .. n, IsFirst(j, s) PROVE s[j] \in firsts
    <3>1. ASSUME NEW d \in F, Before(d, s[j]) PROVE KeyOf(d) # KeyOf(s[j])
      <4>1. PICK k \in 1 .. n : s[k] = d
        BY <1>1
      <4>2. ~ (j < k) /\ j # k
        BY <1>1, <3>1, <4>1, BeforeIsOrder
      <4>3. k \in 1 .. j - 1
        BY <1>1, <4>2
      <4> QED
        BY <2>1, <4>1, <4>3 DEF IsFirst
    <3> QED
      BY <1>1, <3>1
  <2>2. ASSUME NEW j \in 1 .. n, s[j] \in firsts PROVE IsFirst(j, s)
    <3>1. ASSUME NEW k \in 1 .. j - 1 PROVE KeyOf(s[k]) # KeyOf(s[j])
      <4>1. k \in 1 .. n /\ k < j
        BY <1>1
      <4>2. s[k] \in F /\ Before(s[k], s[j])
        BY <1>1, <4>1
      <4> QED
        BY <2>2, <4>2
    <3> QED
      BY <3>1 DEF IsFirst
  <2> QED
    BY <2>1, <2>2
<1>8. {q[m] : m \in DOMAIN q} = firsts
  <2>1. ASSUME NEW m \in DOMAIN q PROVE q[m] \in firsts
    BY <1>5, <1>7 DEF KeptAfter
  <2>2. ASSUME NEW c \in firsts PROVE \E m \in DOMAIN q : q[m] = c
    <3>1. PICK j \in 1 .. n : s[j] = c
      BY <1>1
    <3> QED
      BY <1>5, <1>7, <3>1 DEF KeptAfter
  <2> HIDE DEF q, firsts
  <2> QED
    BY <2>1, <2>2
<1>9. q # <<>>
  <2>1. 1 \in 1 .. n
    BY <1>1
  <2>2. IsFirst(1, s)
    BY DEF IsFirst
  <2>3. PICK m \in DOMAIN q : TRUE
    BY <1>5, <2>1, <2>2 DEF KeptAfter
  <2> HIDE DEF q
  <2> QED
    BY <2>3
<1>10. \A l, m \in DOMAIN q : l < m => Before(q[l], q[m])
  BY <1>5 DEF KeptAfter
<1> QED
  BY <1>6, <1>8, <1>9, <1>10 DEF Deduped, D, s, n

(* The loop that looks for the record. *)
HoldsRecord(i, q, best) ==
    IF i = 0 THEN best = [did |-> 0, likes |-> -1]
    ELSE \E r \in 1 .. i :
            /\ best = [did |-> q[r].did, likes |-> q[r].likes]
            /\ \A k \in 1 .. i : q[k].likes <= q[r].likes
            /\ \A k \in 1 .. r - 1 : q[k].likes < q[r].likes

(* The rounds of that loop. *)
LEMMA RecordsRounds ==
    ASSUME NEW q \in Seq(Crowning)
    PROVE  LET D == Records(q)
           IN  /\ D[0] = [did |-> 0, likes |-> -1]
               /\ \A i \in 1 .. Len(q) : D[i] = Better(D[i - 1], q[i])
<1> DEFINE n == Len(q)
           R == [did : Nat, likes : Int]
           base == [did |-> 0, likes |-> -1]
           step == [p \in (1 .. n) \X R |-> Better(p[2], q[p[1]])]
           Loop(f) == f = [i \in 0 .. n |-> IF i = 0 THEN base ELSE Better(f[i - 1], q[i])]
<1>1. base \in R
  OBVIOUS
<1>2. n \in Nat /\ \A i \in 1 .. n : q[i] \in Crowning
  OBVIOUS
<1>3. ASSUME NEW r \in R, NEW c \in Crowning PROVE Better(r, c) \in R
  <2>1. c.did \in Nat /\ c.likes \in Int
    <3>1. \A x \in Accounts : x \in Nat
      BY CrownAssumption
    <3> QED
      BY <3>1 DEF Crowning
  <2> QED
    BY <2>1 DEF Better
<1>4. step \in [(1 .. n) \X R -> R]
  <2>1. \A p \in (1 .. n) \X R : p[2] \in R /\ q[p[1]] \in Crowning
    <3> HIDE DEF R, n
    <3> QED
      BY <1>2
  <2>2. \A p \in (1 .. n) \X R : Better(p[2], q[p[1]]) \in R
    <3> HIDE DEF R, n
    <3> QED
      BY <1>3, <2>1
  <2> HIDE DEF R, n
  <2> QED
    BY <2>2
<1>5. PICK f \in [0 .. n -> R] : IsLoop(f, n, base, step)
  <2>1. n \in Nat
    OBVIOUS
  <2> HIDE DEF R, n, base, step
  <2> QED
    BY <1>1, <1>4, <2>1, LoopExists
<1>6. \A i \in 1 .. n : f[i] = Better(f[i - 1], q[i])
  <2>1. ASSUME NEW i \in 1 .. n PROVE f[i] = Better(f[i - 1], q[i])
    <3>1. i - 1 \in 0 .. n
      BY <1>2
    <3>2. <<i, f[i - 1]>> \in (1 .. n) \X R
      <4> HIDE DEF R, n
      <4> QED
        BY <1>5, <3>1
    <3> HIDE DEF R, n
    <3> QED
      BY <1>5, <3>2 DEF IsLoop
  <2> QED
    BY <2>1
<1>7. Loop(f)
  <2> HIDE DEF R, base
  <2>1. \A i \in 0 .. n : f[i] = IF i = 0 THEN base ELSE Better(f[i - 1], q[i])
    BY <1>2, <1>5, <1>6 DEF IsLoop
  <2> HIDE DEF n
  <2> QED
    BY <1>5, <2>1
<1>8. Records(q) = CHOOSE g : Loop(g)
  BY DEF Records
<1> HIDE DEF Loop
<1>9. Loop(Records(q))
  BY <1>7, <1>8
<1> DEFINE D == Records(q)
<1>10. D = [i \in 0 .. n |-> IF i = 0 THEN base ELSE Better(D[i - 1], q[i])]
  BY <1>9 DEF Loop
<1> HIDE DEF D
<1>11. D[0] = base /\ \A i \in 1 .. n : D[i] = Better(D[i - 1], q[i])
  <2> HIDE DEF base
  <2>1. 0 \in 0 .. n /\ \A i \in 1 .. n : i \in 0 .. n /\ i # 0
    BY <1>2
  <2> HIDE DEF n
  <2> QED
    BY <1>10, <2>1
<1> QED
  BY <1>11 DEF D

(* It finds the first of those with the most likes. *)
LEMMA RecordFacts ==
    ASSUME NEW q \in Seq(Crowning), q # <<>>
    PROVE  \E r \in DOMAIN q :
              /\ Records(q)[Len(q)].did = q[r].did
              /\ \A k \in DOMAIN q : q[k].likes <= q[r].likes /\ (k < r => q[k].likes < q[r].likes)
<1> DEFINE n == Len(q)
           D == Records(q)
           Fine == {i \in 0 .. n : HoldsRecord(i, q, D[i])}
<1>1. n \in Nat /\ n # 0 /\ DOMAIN q = 1 .. n /\ \A i \in 1 .. n : q[i].likes \in Nat
  <2>1. \A i \in 1 .. n : q[i] \in Crowning
    OBVIOUS
  <2> QED
    BY <2>1 DEF Crowning
<1>2. D[0] = [did |-> 0, likes |-> -1] /\ \A i \in 1 .. n : D[i] = Better(D[i - 1], q[i])
  BY RecordsRounds
<1> HIDE DEF D
<1>3. 0 .. n \subseteq Fine
  <2>1. 0 \in Fine
    BY <1>1, <1>2 DEF HoldsRecord
  <2>2. ASSUME NEW i \in 1 .. n, i - 1 \in Fine PROVE i \in Fine
    <3>1. i \in 0 .. n /\ i # 0 /\ HoldsRecord(i - 1, q, D[i - 1]) /\ 1 .. i = (1 .. i - 1) \cup {i}
          /\ 1 .. i \subseteq 1 .. n
      BY <1>1, <2>2
    <3>2. D[i] = IF q[i].likes > D[i - 1].likes THEN [did |-> q[i].did, likes |-> q[i].likes]
                 ELSE D[i - 1]
      BY <1>2 DEF Better
    <3>3. CASE i = 1
      <4>1. D[i] = [did |-> q[1].did, likes |-> q[1].likes]
        <5>1. D[0].likes = -1
          BY <1>2
        <5> QED
          BY <1>1, <3>2, <3>3, <5>1
      <4>2. HoldsRecord(i, q, D[i])
        BY <1>1, <3>3, <4>1 DEF HoldsRecord
      <4> QED
        BY <3>1, <4>2
    <3>4. CASE i # 1
      <4>1. PICK r \in 1 .. i - 1 :
               /\ D[i - 1] = [did |-> q[r].did, likes |-> q[r].likes]
               /\ \A k \in 1 .. i - 1 : q[k].likes <= q[r].likes
               /\ \A k \in 1 .. r - 1 : q[k].likes < q[r].likes
        BY <3>1, <3>4 DEF HoldsRecord
      <4>2. D[i - 1].likes = q[r].likes /\ r \in 1 .. i
        BY <4>1
      <4>3. CASE q[i].likes > q[r].likes
        <5>1. D[i] = [did |-> q[i].did, likes |-> q[i].likes]
          BY <3>2, <4>2, <4>3
        <5>2. \A k \in 1 .. i - 1 : q[k].likes < q[i].likes
          BY <1>1, <3>1, <4>1, <4>3
        <5>3. \A k \in 1 .. i : q[k].likes <= q[i].likes
          BY <1>1, <3>1, <5>2
        <5>4. i \in 1 .. i
          OBVIOUS
        <5> QED
          BY <3>1, <5>1, <5>2, <5>3, <5>4 DEF HoldsRecord
      <4>4. CASE ~ (q[i].likes > q[r].likes)
        <5>1. D[i] = [did |-> q[r].did, likes |-> q[r].likes]
          BY <3>2, <4>1, <4>2, <4>4
        <5>2. \A k \in 1 .. i : q[k].likes <= q[r].likes
          BY <1>1, <3>1, <4>1, <4>4
        <5> QED
          BY <3>1, <4>1, <4>2, <5>1, <5>2 DEF HoldsRecord
      <4> QED
        BY <4>3, <4>4
    <3> QED
      BY <3>3, <3>4
  <2> HIDE DEF Fine
  <2> QED
    BY <1>1, <2>1, <2>2, UpTo
<1>4. HoldsRecord(n, q, D[n])
  BY <1>1, <1>3
<1>5. PICK r \in 1 .. n :
         /\ D[n] = [did |-> q[r].did, likes |-> q[r].likes]
         /\ \A k \in 1 .. n : q[k].likes <= q[r].likes
         /\ \A k \in 1 .. r - 1 : q[k].likes < q[r].likes
  BY <1>1, <1>4 DEF HoldsRecord
<1>6. D[n].did = q[r].did /\ \A k \in 1 .. n : k < r => k \in 1 .. r - 1
  BY <1>5
<1> QED
  BY <1>1, <1>5, <1>6 DEF D

(* What build_state returns, in terms of the first crowning of each key. *)
LEMMA BuildFacts ==
    ASSUME NEW F \in SUBSET Crowning, IsFiniteSet(F), F # {}
    PROVE  LET b == BuildState(F)
               firsts == {c \in F : \A d \in F : Before(d, c) => KeyOf(d) # KeyOf(c)}
           IN  /\ b.alumni = {c.did : c \in firsts}
               /\ b.winning_posts = {c.post : c \in firsts} \ {NoPost}
               /\ \E l \in firsts : /\ b.current = l.did /\ b.last_crowning = l.ts
                                    /\ \A c \in firsts : c = l \/ Before(c, l)
               /\ \E r \in firsts : /\ b.record = r.did
                                    /\ \A c \in firsts : /\ c.likes <= r.likes
                                                         /\ Before(c, r) => c.likes < r.likes
<1> DEFINE b == BuildState(F)
           firsts == {c \in F : \A d \in F : Before(d, c) => KeyOf(d) # KeyOf(c)}
           q == Deduped(F)
           n == Len(q)
<1>1. /\ q \in Seq(F) /\ q # <<>> /\ {q[m] : m \in DOMAIN q} = firsts
      /\ \A l, m \in DOMAIN q : l < m => Before(q[l], q[m])
  BY DedupedFacts
<1>2. /\ b.alumni = {q[i].did : i \in DOMAIN q}
      /\ b.current = q[n].did /\ b.last_crowning = q[n].ts
      /\ b.record = Records(q)[n].did
      /\ b.winning_posts = {q[i].post : i \in DOMAIN q} \ {NoPost}
  BY DEF BuildState, Last
<1> HIDE DEF b, q
<1>3. q \in Seq(Crowning) /\ n \in Nat /\ n # 0 /\ DOMAIN q = 1 .. n
  BY <1>1
<1>4. PICK r \in DOMAIN q :
         /\ Records(q)[n].did = q[r].did
         /\ \A k \in DOMAIN q : q[k].likes <= q[r].likes /\ (k < r => q[k].likes < q[r].likes)
  BY <1>1, <1>3, RecordFacts
<1> HIDE DEF firsts, n
<1>5. \A c : c \in firsts <=> \E m \in DOMAIN q : q[m] = c
  BY <1>1
<1>6. b.alumni = {c.did : c \in firsts} /\ b.winning_posts = {c.post : c \in firsts} \ {NoPost}
  BY <1>2, <1>5
<1>7. /\ q[n] \in firsts
      /\ \A c \in firsts : c = q[n] \/ Before(c, q[n])
  <2>1. n \in DOMAIN q
    BY <1>3
  <2>2. ASSUME NEW c \in firsts PROVE c = q[n] \/ Before(c, q[n])
    <3>1. PICK m \in DOMAIN q : q[m] = c
      BY <1>5
    <3>2. m = n \/ m < n
      BY <1>3
    <3> QED
      BY <1>1, <2>1, <3>1, <3>2
  <2> QED
    BY <1>5, <2>1, <2>2
<1>8. /\ q[r] \in firsts
      /\ \A c \in firsts : c.likes <= q[r].likes /\ (Before(c, q[r]) => c.likes < q[r].likes)
  <2>1. ASSUME NEW c \in firsts
        PROVE  c.likes <= q[r].likes /\ (Before(c, q[r]) => c.likes < q[r].likes)
    <3>1. PICK m \in DOMAIN q : q[m] = c
      BY <1>5
    <3>2. ASSUME Before(c, q[r]) PROVE m < r
      <4>1. q[m] \in Crowning /\ q[r] \in Crowning
        BY <1>3
      <4>2. m # r /\ ~ (r < m)
        BY <1>1, <3>1, <3>2, <4>1, BeforeIsOrder
      <4> QED
        BY <1>3, <4>2
    <3> QED
      BY <1>4, <3>1, <3>2
  <2> QED
    BY <1>5, <2>1
<1> QED
  BY <1>2, <1>4, <1>6, <1>7, <1>8 DEF b, firsts

(* Every crowning has a first of its key. *)
LEMMA FirstExists ==
    ASSUME NEW F \in SUBSET Crowning, IsFiniteSet(F), NEW c \in F
    PROVE  \E d \in F : /\ KeyOf(d) = KeyOf(c) /\ (d = c \/ Before(d, c))
                        /\ \A e \in F : Before(e, d) => KeyOf(e) # KeyOf(d)
<1> DEFINE s == Sorted(F)
           n == Cardinality(F)
           Same == {i \in 1 .. n : KeyOf(s[i]) = KeyOf(c)}
<1>1. /\ n \in Nat /\ s \in Seq(F) /\ Len(s) = n
      /\ \A e \in F : \E i \in 1 .. n : s[i] = e
      /\ \A i, j \in 1 .. n : i < j => Before(s[i], s[j])
  BY SortedFacts
<1> HIDE DEF s, n
<1>2. PICK k \in 1 .. n : s[k] = c
  BY <1>1
<1>3. PICK m \in Same : \A i \in Same : m <= i
  <2>1. IsFiniteSet(1 .. n) /\ Same \in SUBSET (1 .. n) /\ 1 .. n \in SUBSET Nat /\ k \in Same
    BY <1>1, <1>2, FS_Interval
  <2> HIDE DEF Same
  <2>2. Same \in SUBSET Nat /\ IsFiniteSet(Same) /\ Same # {}
    BY <2>1, FS_Subset
  <2> QED
    BY <2>2, LeastExists
<1>4. s[m] \in F /\ KeyOf(s[m]) = KeyOf(c) /\ m \in 1 .. n
  BY <1>1
<1>5. s[m] = c \/ Before(s[m], c)
  <2>1. k \in Same
    BY <1>2
  <2>2. m = k \/ m < k
    BY <1>1, <1>3, <2>1
  <2> QED
    BY <1>1, <1>2, <2>2
<1>6. ASSUME NEW e \in F, Before(e, s[m]) PROVE KeyOf(e) # KeyOf(s[m])
  <2>1. PICK i \in 1 .. n : s[i] = e
    BY <1>1
  <2>2. i # m /\ ~ (m < i)
    BY <1>1, <1>4, <1>6, <2>1, BeforeIsOrder
  <2>3. i \notin Same
    BY <1>1, <1>3, <2>2
  <2> QED
    BY <1>4, <2>1, <2>3
<1> QED
  BY <1>4, <1>5, <1>6

-----------------------------------------------------------------------------
(* Dates follow times. *)
LEMMA DayFacts ==
    ASSUME NEW a \in Nat, NEW b \in Nat
    PROVE  Day(a) \in Nat /\ (a <= b => Day(a) <= Day(b))
<1> DEFINE d == DayLength
           x == a \div d
           y == b \div d
<1>1. d \in Nat \ {0}
  BY CrownAssumption
<1>2. x \in Int /\ y \in Int /\ a = d * x + (a % d) /\ b = d * y + (b % d)
      /\ a % d \in 0 .. d - 1 /\ b % d \in 0 .. d - 1
  BY <1>1
<1> HIDE DEF d, x, y
<1>3. x >= 0
  <2>1. ASSUME x <= -1 PROVE FALSE
    <3>1. d * x <= d * (-1)
      BY <1>1, <1>2, <2>1
    <3> QED
      BY <1>1, <1>2, <3>1
  <2> QED
    BY <1>2, <2>1
<1>4. ASSUME a <= b PROVE x <= y
  <2>1. ASSUME y + 1 <= x PROVE FALSE
    <3>1. d * (y + 1) <= d * x
      BY <1>1, <1>2, <2>1
    <3>2. d * (y + 1) = d * y + d
      BY <1>1, <1>2
    <3> QED
      BY <1>1, <1>2, <1>4, <3>1, <3>2
  <2> QED
    BY <1>2, <2>1
<1> QED
  BY <1>2, <1>3, <1>4 DEF Day, d, x, y

(* Which crowning an announcement is about. *)
LEMMA FeedFacts ==
    ASSUME WorldInv
    PROVE  /\ feed \in SUBSET Crowning /\ IsFiniteSet(feed)
           /\ \A i \in DOMAIN history :
                 /\ i \in Nat /\ history[i] \in Crowning
                 /\ Day(history[i].ts) \in Nat
                 /\ \A j \in DOMAIN history :
                       /\ Day(history[i].ts) = Day(history[j].ts) => i = j
                       /\ Day(history[i].ts) <= Day(history[j].ts) => i <= j
           /\ \A c \in feed : \E i \in Announced :
                 /\ Day(c.ts) = Day(history[i].ts)
                 /\ c.did = history[i].did /\ c.likes = history[i].likes /\ c.post = history[i].post
<1>0. history \in Seq(Crowning) /\ now \in Nat
  BY CrownAssumption DEF WorldInv, HistoryOK
<1>1. ASSUME NEW i \in DOMAIN history
      PROVE  i \in Nat /\ history[i] \in Crowning /\ history[i].ts \in Nat
             /\ Day(history[i].ts) \in Nat
  <2>1. i \in Nat /\ history[i] \in Crowning
    BY <1>0
  <2>2. history[i].ts \in Nat
    BY <2>1 DEF Crowning
  <2> QED
    BY <2>1, <2>2, DayFacts
<1>2. ASSUME NEW i \in DOMAIN history, NEW j \in DOMAIN history
      PROVE  /\ Day(history[i].ts) = Day(history[j].ts) => i = j
             /\ Day(history[i].ts) <= Day(history[j].ts) => i <= j
  <2>1. i < j => Day(history[i].ts) < Day(history[j].ts)
    BY DEF WorldInv, HistoryOK
  <2>2. j < i => Day(history[j].ts) < Day(history[i].ts)
    BY DEF WorldInv, HistoryOK
  <2> QED
    BY <1>1, <2>1, <2>2
<1>3. ASSUME NEW c \in feed
      PROVE  /\ c \in Crowning
             /\ \E i \in Announced :
                 /\ Day(c.ts) = Day(history[i].ts)
                 /\ c.did = history[i].did /\ c.likes = history[i].likes /\ c.post = history[i].post
  <2>1. c.ts \in Nat
    BY <1>0 DEF WorldInv, FeedOK
  <2>2. PICK i \in DOMAIN history : Day(c.ts) = Day(history[i].ts) /\ c = [history[i] EXCEPT !.ts = c.ts]
    BY DEF WorldInv, FeedOK
  <2>3. history[i] \in Crowning
    BY <1>1
  <2>4. c \in Crowning /\ c.did = history[i].did /\ c.likes = history[i].likes /\ c.post = history[i].post
    BY <2>1, <2>2, <2>3 DEF Crowning
  <2>5. i \in Announced
    BY <2>2 DEF Announced
  <2> QED
    BY <2>2, <2>4, <2>5
<1>4. IsFiniteSet(feed)
  BY DEF WorldInv, FeedOK
<1> QED
  BY <1>1, <1>2, <1>3, <1>4

(* There is one key for each announced day, so the first of the keys are the
   announced crownings. *)
LEMMA BuildIsTrue == WorldInv => StateMatchesHistory
<1> SUFFICES ASSUME WorldInv, pc # "idle"
             PROVE  /\ state.alumni = {history[i].did : i \in Announced}
                    /\ \E i \in Announced : IsRecord(i) /\ state.record = history[i].did
                    /\ state.winning_posts = WinningPosts
                    /\ \E i \in Announced :
                          LET announcements == {c \in feed : Day(c.ts) = Day(history[i].ts)}
                          IN  /\ IsLast(i) /\ state.current = history[i].did
                              /\ state.last_crowning \in {c.ts : c \in announcements}
                              /\ \A c \in announcements : state.last_crowning <= c.ts
  BY DEF StateMatchesHistory
<1> DEFINE firsts == {c \in feed : \A d \in feed : Before(d, c) => KeyOf(d) # KeyOf(c)}
           Of(c, i) == /\ Day(c.ts) = Day(history[i].ts)
                       /\ c.did = history[i].did /\ c.likes = history[i].likes
                       /\ c.post = history[i].post
<1>1. /\ feed \in SUBSET Crowning /\ IsFiniteSet(feed) /\ feed # {} /\ state = BuildState(feed)
      /\ \A c \in feed : \E i \in Announced : Of(c, i)
  BY FeedFacts DEF WorldInv
<1>2. \A i \in Announced :
         /\ i \in DOMAIN history /\ i \in Nat /\ history[i] \in Crowning /\ Day(history[i].ts) \in Nat
         /\ \A j \in Announced :
               /\ Day(history[i].ts) = Day(history[j].ts) => i = j
               /\ Day(history[i].ts) <= Day(history[j].ts) => i <= j
  BY FeedFacts DEF Announced
<1> HIDE DEF Of
<1>3. ASSUME NEW c \in feed, NEW d \in feed
      PROVE  KeyOf(c) = KeyOf(d) <=> Day(c.ts) = Day(d.ts)
  <2>1. PICK i \in Announced : Of(c, i)
    BY <1>1
  <2>2. PICK j \in Announced : Of(d, j)
    BY <1>1
  <2>3. Day(c.ts) = Day(d.ts) => i = j
    BY <1>2, <2>1, <2>2 DEF Of
  <2> QED
    BY <2>1, <2>2, <2>3 DEF Of, KeyOf
<1>4. ASSUME NEW i \in Announced PROVE \E f \in firsts : Of(f, i)
  <2>1. PICK c \in feed : Day(c.ts) = Day(history[i].ts)
    BY DEF Announced
  <2>2. PICK f \in feed : KeyOf(f) = KeyOf(c) /\ \A e \in feed : Before(e, f) => KeyOf(e) # KeyOf(f)
    BY <1>1, FirstExists
  <2>3. Day(f.ts) = Day(history[i].ts)
    BY <1>3, <2>1, <2>2
  <2>4. PICK j \in Announced : Of(f, j)
    BY <1>1
  <2>5. i = j
    BY <1>2, <2>3, <2>4 DEF Of
  <2> QED
    BY <2>2, <2>4, <2>5
<1>5. \A f \in firsts : f \in feed /\ f \in Crowning /\ \E i \in Announced : Of(f, i)
  BY <1>1
<1>6. ASSUME NEW f \in Crowning, NEW g \in Crowning, f = g \/ Before(f, g)
      PROVE  f.ts <= g.ts /\ Day(f.ts) <= Day(g.ts)
  <2>1. f.ts \in Nat /\ g.ts \in Nat
    BY DEF Crowning
  <2>2. f.ts <= g.ts
    BY <1>6, <2>1 DEF Before
  <2> QED
    BY <2>1, <2>2, DayFacts
<1>7. /\ state.alumni = {c.did : c \in firsts}
      /\ state.winning_posts = {c.post : c \in firsts} \ {NoPost}
      /\ \E l \in firsts : /\ state.current = l.did /\ state.last_crowning = l.ts
                           /\ \A c \in firsts : c = l \/ Before(c, l)
      /\ \E r \in firsts : /\ state.record = r.did
                           /\ \A c \in firsts : /\ c.likes <= r.likes
                                                /\ Before(c, r) => c.likes < r.likes
  BY <1>1, BuildFacts
<1>8. ASSUME NEW c \in feed PROVE \E f \in firsts : KeyOf(f) = KeyOf(c) /\ (f = c \/ Before(f, c))
  BY <1>1, FirstExists
<1>9. ASSUME NEW f \in firsts, NEW g \in firsts, KeyOf(f) = KeyOf(g) PROVE f = g
  BY <1>5, <1>9, BeforeIsOrder
<1> HIDE DEF firsts
<1>10. state.alumni = {history[i].did : i \in Announced} /\ state.winning_posts = WinningPosts
  <2>1. \A f \in firsts : \E i \in Announced : f.did = history[i].did /\ f.post = history[i].post
    BY <1>5 DEF Of
  <2>2. \A i \in Announced : \E f \in firsts : f.did = history[i].did /\ f.post = history[i].post
    BY <1>4 DEF Of
  <2>3. {c.did : c \in firsts} = {history[i].did : i \in Announced}
    BY <2>1, <2>2
  <2>4. {c.post : c \in firsts} = {history[i].post : i \in Announced}
    BY <2>1, <2>2
  <2> QED
    BY <1>7, <2>3, <2>4 DEF WinningPosts
<1>11. \E i \in Announced : IsRecord(i) /\ state.record = history[i].did
  <2>1. PICK r \in firsts : /\ state.record = r.did
                            /\ \A c \in firsts : /\ c.likes <= r.likes
                                                 /\ Before(c, r) => c.likes < r.likes
    BY <1>7
  <2>2. PICK i \in Announced : Of(r, i)
    BY <1>5
  <2>3. ASSUME NEW j \in Announced
        PROVE  /\ history[j].likes <= history[i].likes
               /\ history[j].likes = history[i].likes => i <= j
    <3>1. PICK f \in firsts : Of(f, j)
      BY <1>4
    <3>2. f.likes <= r.likes /\ f.likes = history[j].likes /\ r.likes = history[i].likes
      BY <2>1, <2>2, <3>1 DEF Of
    <3>3. ASSUME f.likes = r.likes PROVE i <= j
      <4>1. r.likes \in Nat
        BY <1>5 DEF Crowning
      <4>2. r = f \/ Before(r, f)
        BY <1>5, <2>1, <3>3, <4>1, BeforeIsOrder
      <4>3. Day(r.ts) <= Day(f.ts)
        BY <1>5, <1>6, <4>2
      <4> QED
        BY <1>2, <2>2, <3>1, <4>3 DEF Of
    <3> QED
      BY <3>2, <3>3
  <2>4. IsRecord(i)
    BY <2>3 DEF IsRecord
  <2> QED
    BY <2>1, <2>2, <2>4 DEF Of
<1>12. \E i \in Announced :
          LET announcements == {c \in feed : Day(c.ts) = Day(history[i].ts)}
          IN  /\ IsLast(i) /\ state.current = history[i].did
              /\ state.last_crowning \in {c.ts : c \in announcements}
              /\ \A c \in announcements : state.last_crowning <= c.ts
  <2>1. PICK l \in firsts : /\ state.current = l.did /\ state.last_crowning = l.ts
                            /\ \A c \in firsts : c = l \/ Before(c, l)
    BY <1>7
  <2>2. PICK i \in Announced : Of(l, i)
    BY <1>5
  <2>3. ASSUME NEW j \in Announced PROVE j <= i
    <3>1. PICK f \in firsts : Of(f, j)
      BY <1>4
    <3>2. Day(f.ts) <= Day(l.ts)
      BY <1>5, <1>6, <2>1
    <3> QED
      BY <1>2, <2>2, <3>1, <3>2 DEF Of
  <2>4. IsLast(i) /\ state.current = history[i].did
    BY <2>1, <2>2, <2>3 DEF IsLast, Of
  <2>5. l \in feed /\ Day(l.ts) = Day(history[i].ts)
    BY <1>5, <2>2 DEF Of
  <2>6. ASSUME NEW c \in feed, Day(c.ts) = Day(history[i].ts) PROVE l.ts <= c.ts
    <3>1. PICK f \in firsts : KeyOf(f) = KeyOf(c) /\ (f = c \/ Before(f, c))
      BY <1>8
    <3>2. KeyOf(c) = KeyOf(l)
      BY <1>3, <2>5, <2>6
    <3>3. f = l
      BY <1>9, <3>1, <3>2
    <3> QED
      BY <1>1, <1>5, <1>6, <3>1, <3>3
  <2> QED
    BY <2>1, <2>4, <2>5, <2>6
<1> QED
  BY <1>10, <1>11, <1>12

-----------------------------------------------------------------------------
(* The invariant of the world. *)

(* Nothing has happened. *)
LEMMA WorldInit == Init => WorldInv
<1> SUFFICES ASSUME Init PROVE WorldInv
  OBVIOUS
<1>1. history = <<>> /\ feed = {} /\ now = 0 /\ pc = "idle"
  BY DEF Init
<1>2. HistoryOK
  <2>1. history \in Seq(Crowning) /\ DOMAIN history = {}
    BY <1>1, EmptySeq
  <2> QED
    BY <2>1 DEF HistoryOK
<1>3. FeedOK
  BY <1>1, FS_EmptySet DEF FeedOK
<1>4. MaxNow \in Nat
  BY CrownAssumption
<1> QED
  BY <1>1, <1>2, <1>3, <1>4 DEF WorldInv

(* A crowning of today comes a day after the last one. *)
LEMMA CrownKeeps ==
    ASSUME WorldInv, pc = "idle", pc' = pc, NEW a \in Accounts, NEW win \in Wins, Crown(a, win)
    PROVE  WorldInv'
<1> DEFINE c == [ts |-> now, did |-> a, likes |-> win.likes, post |-> win.post]
           n == Len(history)
<1>0. /\ history \in Seq(Crowning) /\ now \in Nat /\ now \in 0 .. MaxNow
      /\ n \in Nat /\ DOMAIN history = 1 .. n
      /\ \A i \in 1 .. n : history[i] \in Crowning /\ history[i].ts \in Nat
                           /\ Day(history[i].ts) \in Nat /\ history[i].ts <= now
  <2>1. history \in Seq(Crowning) /\ now \in Nat /\ now \in 0 .. MaxNow
    BY CrownAssumption DEF WorldInv, HistoryOK
  <2>2. n \in Nat /\ DOMAIN history = 1 .. n /\ \A i \in 1 .. n : history[i] \in Crowning
    BY <2>1
  <2>3. \A d \in Crowning : d.ts \in Nat
    BY DEF Crowning
  <2>4. \A i \in 1 .. n : history[i].ts <= now
    BY <2>2 DEF WorldInv, HistoryOK
  <2>5. \A i \in 1 .. n : history[i].ts \in Nat
    BY <2>2, <2>3
  <2>6. \A i \in 1 .. n : Day(history[i].ts) \in Nat
    BY <2>5, DayFacts
  <2> QED
    BY <2>1, <2>2, <2>4, <2>5, <2>6
<1>1. now' = now /\ history' = Append(history, c) /\ feed' = feed \cup {c} /\ ~ CrownedToday
  BY DEF Crown
<1>2. c \in Crowning /\ [likes |-> c.likes, post |-> c.post] \in Wins /\ c.ts = now
  <2>1. win \in [likes : Nat, post : Nat]
    BY CrownAssumption
  <2>2. win.likes \in Nat /\ win.post \in Nat /\ [likes |-> win.likes, post |-> win.post] = win
    BY <2>1
  <2> QED
    BY <1>0, <2>2 DEF Crowning
<1> HIDE DEF c
<1>3. /\ history' \in Seq(Crowning) /\ DOMAIN history' = 1 .. n + 1
      /\ history'[n + 1] = c /\ \A i \in 1 .. n : history'[i] = history[i]
  BY <1>0, <1>1, <1>2
<1>4. Day(now) \in Nat /\ \A i \in 1 .. n : Day(history[i].ts) <= Day(now)
  BY <1>0, DayFacts
<1>5. \A i \in 1 .. n : Day(history[i].ts) < Day(now)
  <2>1. ASSUME n # 0 PROVE Day(history[n].ts) < Day(now)
    <3>1. history # <<>> /\ Last(history) = history[n]
      BY <1>0, <2>1 DEF Last
    <3>2. Day(history[n].ts) # Day(now)
      BY <1>1, <3>1 DEF CrownedToday
    <3> QED
      BY <1>0, <1>4, <2>1, <3>2
  <2>2. ASSUME NEW i \in 1 .. n, i # n PROVE Day(history[i].ts) < Day(now)
    <3>1. n \in 1 .. n /\ i < n
      <4>1. n \in Nat /\ i \in 1 .. n /\ i # n
        BY <1>0, <2>2
      <4> HIDE DEF n
      <4> QED
        BY <4>1
    <3>2. Day(history[i].ts) < Day(history[n].ts)
      BY <1>0, <3>1 DEF WorldInv, HistoryOK
    <3> QED
      BY <1>0, <1>4, <3>1, <3>2
  <2>3. ASSUME NEW i \in 1 .. n PROVE Day(history[i].ts) < Day(now)
    <3>1. n # 0
      <4>1. n \in Nat /\ i \in 1 .. n
        BY <1>0
      <4> HIDE DEF n
      <4> QED
        BY <4>1
    <3> QED
      BY <2>1, <2>2, <3>1
  <2> QED
    BY <2>3
<1>6. n + 1 <= Day(now) + 1
  <2>1. CASE n = 0
    BY <1>4, <2>1
  <2>2. CASE n # 0
    <3>1. n \in 1 .. n
      BY <1>0, <2>2
    <3>2. n <= Day(history[n].ts) + 1 /\ Day(history[n].ts) < Day(now)
      BY <1>0, <1>5, <3>1 DEF WorldInv, HistoryOK
    <3> QED
      BY <1>0, <1>4, <3>1, <3>2
  <2> QED
    BY <2>1, <2>2
<1> DEFINE Fine(i) ==
             /\ history'[i].ts <= now
             /\ i <= Day(history'[i].ts) + 1
             /\ [likes |-> history'[i].likes, post |-> history'[i].post] \in Wins
             /\ \A j \in DOMAIN history' : i < j => Day(history'[i].ts) < Day(history'[j].ts)
<1>7. ASSUME NEW i \in 1 .. n PROVE Fine(i)
  <2>1. /\ i \in DOMAIN history /\ history[i].ts <= now
        /\ i <= Day(history[i].ts) + 1
        /\ [likes |-> history[i].likes, post |-> history[i].post] \in Wins
        /\ \A j \in DOMAIN history : i < j => Day(history[i].ts) < Day(history[j].ts)
    BY <1>0 DEF WorldInv, HistoryOK
  <2>2. ASSUME NEW j \in 1 .. n + 1, i < j PROVE Day(history'[i].ts) < Day(history'[j].ts)
    <3>1. CASE j = n + 1
      BY <1>2, <1>3, <1>5, <3>1
    <3>2. CASE j \in 1 .. n
      BY <1>0, <1>3, <2>1, <2>2, <3>2
    <3> QED
      BY <1>0, <3>1, <3>2
  <2> QED
    BY <1>3, <2>1, <2>2
<1>8. Fine(n + 1)
  BY <1>0, <1>2, <1>3, <1>6
<1>9. \A i \in DOMAIN history' : Fine(i)
  BY <1>0, <1>3, <1>7, <1>8
<1>10. HistoryOK'
  <2>1. history' \in Seq(Crowning)
    BY <1>3
  <2> QED
    BY <1>1, <1>9, <2>1 DEF HistoryOK, Crowning
<1>11. FeedOK'
  <2>1. IsFiniteSet(feed')
    BY <1>1, FS_AddElement DEF WorldInv, FeedOK
  <2>2. ASSUME NEW d \in feed'
        PROVE  /\ d.ts \in 0 .. now
               /\ \E i \in DOMAIN history' :
                     Day(d.ts) = Day(history'[i].ts) /\ d = [history'[i] EXCEPT !.ts = d.ts]
    <3>1. CASE d = c
      <4>1. n + 1 \in DOMAIN history' /\ c = [history'[n + 1] EXCEPT !.ts = c.ts]
        BY <1>0, <1>2, <1>3 DEF Crowning
      <4> QED
        BY <1>0, <1>2, <1>3, <3>1, <4>1
    <3>2. CASE d \in feed
      <4>1. PICK i \in DOMAIN history : Day(d.ts) = Day(history[i].ts) /\ d = [history[i] EXCEPT !.ts = d.ts]
        BY <3>2 DEF WorldInv, FeedOK
      <4>2. i \in DOMAIN history' /\ history'[i] = history[i]
        BY <1>0, <1>3, <4>1
      <4>3. d.ts \in 0 .. now
        BY <3>2 DEF WorldInv, FeedOK
      <4> QED
        BY <4>1, <4>2, <4>3
    <3> QED
      BY <1>1, <3>1, <3>2
  <2> QED
    BY <1>1, <2>1, <2>2 DEF FeedOK
<1> QED
  BY <1>0, <1>1, <1>10, <1>11 DEF WorldInv

(* The other steps leave the history alone. *)
LEMMA NoCrownKeeps ==
    ASSUME WorldInv, pc = "idle", pc' = pc,
           Tick \/ AnnounceAgain \/ \E c \in feed : Delete(c)
    PROVE  WorldInv'
<1>0. /\ now \in Nat /\ now \in 0 .. MaxNow /\ history \in Seq(Crowning)
      /\ DOMAIN history = 1 .. Len(history) /\ Len(history) \in Nat /\ MaxNow \in Nat
  BY CrownAssumption DEF WorldInv, HistoryOK
<1>1. history' = history /\ now' \in 0 .. MaxNow /\ now <= now'
  BY <1>0 DEF Tick, AnnounceAgain, Delete
<1>2. HistoryOK'
  <2>1. \A i \in DOMAIN history : history[i].ts \in Nat /\ history[i].ts <= now
    BY FeedFacts DEF Crowning, WorldInv, HistoryOK
  <2>2. \A i \in DOMAIN history : history[i].ts <= now'
    BY <1>0, <1>1, <2>1
  <2> QED
    BY <1>1, <2>2 DEF WorldInv, HistoryOK, Crowning
<1> DEFINE Known(d) == \E i \in DOMAIN history :
                          Day(d.ts) = Day(history[i].ts) /\ d = [history[i] EXCEPT !.ts = d.ts]
<1>3. \A d \in feed : d.ts \in 0 .. now' /\ Known(d)
  <2>1. \A d \in feed : d.ts \in 0 .. now /\ Known(d)
    BY DEF WorldInv, FeedOK
  <2> HIDE DEF Known
  <2> QED
    BY <1>0, <1>1, <2>1
<1>4. IsFiniteSet(feed)
  BY DEF WorldInv, FeedOK
<1>5. CASE Tick \/ \E c \in feed : Delete(c)
  <2>1. feed' \in SUBSET feed
    BY <1>5 DEF Tick, Delete
  <2>2. IsFiniteSet(feed')
    BY <1>4, <2>1, FS_Subset
  <2>3. \A d \in feed' : d.ts \in 0 .. now' /\ Known(d)
    BY <1>3, <2>1
  <2>4. FeedOK'
    BY <1>1, <2>2, <2>3 DEF FeedOK
  <2> QED
    BY <1>1, <1>2, <2>4 DEF WorldInv
<1>6. CASE AnnounceAgain
  <2>1. PICK c : c = [Last(history) EXCEPT !.ts = now] /\ feed' = feed \cup {c} /\ now' = now
    BY <1>6 DEF AnnounceAgain
  <2>2. /\ Len(history) \in DOMAIN history /\ Last(history) = history[Len(history)]
        /\ Day(history[Len(history)].ts) = Day(now)
    BY <1>0, <1>6 DEF AnnounceAgain, CrownedToday, Last
  <2>3. history[Len(history)] \in Crowning
    BY <1>0, <2>2
  <2>4. c.ts = now /\ c = [history[Len(history)] EXCEPT !.ts = c.ts]
    BY <2>1, <2>2, <2>3 DEF Crowning
  <2>5. Known(c) /\ c.ts \in 0 .. now'
    <3>1. Day(c.ts) = Day(history[Len(history)].ts)
      BY <2>2, <2>4
    <3>2. Known(c)
      BY <2>2, <2>4, <3>1
    <3>3. now' = now /\ c.ts = now
      BY <2>1, <2>4
    <3>4. c.ts \in 0 .. now'
      BY <1>0, <3>3
    <3> QED
      BY <3>2, <3>4
  <2>6. IsFiniteSet(feed')
    BY <1>4, <2>1, FS_AddElement
  <2>7. \A d \in feed' : d.ts \in 0 .. now' /\ Known(d)
    <3> HIDE DEF Known
    <3> QED
      BY <1>3, <2>1, <2>5
  <2>8. FeedOK'
    BY <1>1, <2>6, <2>7 DEF FeedOK
  <2> QED
    BY <1>1, <1>2, <2>8 DEF WorldInv
<1> QED
  BY <1>5, <1>6

(* And while a cycle runs, the feeds and what it made of them stay. *)
LEMMA WorldNext == WorldInv /\ [Next]_vars => WorldInv'
<1> SUFFICES ASSUME WorldInv, [Next]_vars PROVE WorldInv'
  OBVIOUS
<1>1. CASE World
  <2>1. pc = "idle" /\ pc' = pc
    BY <1>1 DEF World, cycle
  <2> QED
    BY <1>1, <2>1, CrownKeeps, NoCrownKeeps DEF World
<1>2. CASE UNCHANGED world /\ (UNCHANGED <<pc, state>> \/ pc' = "idle" \/ StartCycle
                                 \/ (pc # "idle" /\ UNCHANGED state))
  <2>1. HistoryOK' <=> HistoryOK
    BY <1>2 DEF world, HistoryOK
  <2>2. FeedOK' <=> FeedOK
    BY <1>2 DEF world, FeedOK
  <2>3. (pc # "idle" => feed # {} /\ state = BuildState(feed))'
    <3>1. feed' = feed
      BY <1>2 DEF world
    <3>2. CASE StartCycle
      BY <3>1, <3>2 DEF StartCycle
    <3>3. CASE UNCHANGED <<pc, state>> \/ pc' = "idle" \/ (pc # "idle" /\ UNCHANGED state)
      BY <3>1, <3>3 DEF WorldInv
    <3> QED
      BY <1>2, <3>2, <3>3
  <2> QED
    BY <1>2, <2>1, <2>2, <2>3 DEF WorldInv, world
<1> QED
  BY <1>1, <1>2 DEF Next, vars, cycle, StartCycle, NextAccount, PostBadge, StartPosts, PostWinner,
                    EndCycle, Crash, Stop

(* So it always holds. *)
LEMMA WorldAlways == Spec => []WorldInv
BY WorldInit, WorldNext, PTL DEF Spec

(* build_state derives from the announcements that are left what happened,
   however often a crowning was announced and whichever announcements were
   deleted. *)
THEOREM DerivesWhatHappened == Spec => []StateMatchesHistory
BY WorldAlways, BuildIsTrue, PTL

-----------------------------------------------------------------------------
(* The POSTs of an account. *)

Labels == {L_RECORD, L_CURRENT, L_ALUMNI}

LEMMA LabelFacts ==
    /\ ToSet(ACCOUNT_LABELS) = Labels
    /\ L_RECORD # L_CURRENT /\ L_RECORD # L_ALUMNI /\ L_CURRENT # L_ALUMNI
    /\ DOMAIN ACCOUNT_LABELS = {1, 2, 3} /\ Len(ACCOUNT_LABELS) = 3
    /\ ACCOUNT_LABELS[1] = L_RECORD /\ ACCOUNT_LABELS[2] = L_CURRENT /\ ACCOUNT_LABELS[3] = L_ALUMNI
    /\ ACCOUNT_LABELS \in Seq(Labels)
<1>1. L_RECORD # L_CURRENT /\ L_RECORD # L_ALUMNI /\ L_CURRENT # L_ALUMNI
  BY DEF L_RECORD, L_CURRENT, L_ALUMNI
<1>2. DOMAIN ACCOUNT_LABELS = 1 .. 3 /\ Len(ACCOUNT_LABELS) = 3
  BY DEF ACCOUNT_LABELS
<1>3. ACCOUNT_LABELS[1] = L_RECORD /\ ACCOUNT_LABELS[2] = L_CURRENT /\ ACCOUNT_LABELS[3] = L_ALUMNI
  BY DEF ACCOUNT_LABELS
<1>4. 1 .. 3 = {1, 2, 3}
  OBVIOUS
<1>5. ACCOUNT_LABELS \in Seq(Labels)
  BY DEF ACCOUNT_LABELS, Labels
<1> QED
  BY <1>1, <1>2, <1>3, <1>4, <1>5 DEF ToSet, Labels

(* The loop over ACCOUNT_LABELS negates all badges but the one that is wanted. *)
LEMMA RemoveFacts ==
    ASSUME NEW want \in Labels
    PROVE  LET others == RemoveAt(ACCOUNT_LABELS, Position(want))
           IN  /\ others \in Seq(Labels) /\ Len(others) = 2
               /\ others[1] # want /\ others[2] # want
               /\ Labels \subseteq {want, others[1], others[2]}
<1> DEFINE s == ACCOUNT_LABELS
           p == Position(want)
           before == SubSeq(s, 1, p - 1)
           after == SubSeq(s, p + 1, Len(s))
           others == before \o after
<1>1. p \in {1, 2, 3} /\ s[p] = want
  <2>1. \E i \in DOMAIN s : s[i] = want
    BY LabelFacts DEF Labels
  <2>2. p \in DOMAIN s /\ s[p] = want
    BY <2>1 DEF Position
  <2> QED
    BY <2>2, LabelFacts
<1>2. /\ s \in Seq(Labels) /\ Len(s) = 3
      /\ s[1] # s[2] /\ s[1] # s[3] /\ s[2] # s[3]
      /\ Labels = {s[1], s[2], s[3]}
  BY LabelFacts DEF Labels
<1> HIDE DEF s, p
<1>3. /\ before \in Seq(Labels) /\ Len(before) = p - 1
      /\ \A i \in 1 .. p - 1 : before[i] = s[i]
  BY <1>1, <1>2
<1>4. /\ after \in Seq(Labels) /\ Len(after) = 3 - p
      /\ \A i \in 1 .. 3 - p : after[i] = s[p + i]
  BY <1>1, <1>2
<1>5. /\ others \in Seq(Labels) /\ Len(others) = 2
      /\ \A i \in 1 .. 2 : others[i] = IF i < p THEN s[i] ELSE s[i + 1]
  <2> HIDE DEF before, after
  <2> QED
    BY <1>1, <1>3, <1>4
<1> HIDE DEF others
<1>6. others[1] = (IF 1 < p THEN s[1] ELSE s[2]) /\ others[2] = (IF 2 < p THEN s[2] ELSE s[3])
  BY <1>5
<1>7. /\ others[1] # want /\ others[2] # want
      /\ Labels \subseteq {want, others[1], others[2]}
  BY <1>1, <1>2, <1>6
<1> QED
  BY <1>5, <1>7 DEF others, before, after, s, p, RemoveAt

LEMMA DesiredIsLabel == ASSUME NEW did PROVE DesiredAccountLabel(did) \in Labels
BY DEF DesiredAccountLabel, Labels

LEMMA ThreePosts ==
    ASSUME NEW S, NEW s \in Seq(S), NEW t \in Seq(S), Len(s) = 1, Len(t) = 2
    PROVE  /\ s \o t \in Seq(S) /\ Len(s \o t) = 3
           /\ (s \o t)[1] = s[1] /\ (s \o t)[2] = t[1] /\ (s \o t)[3] = t[2]
<1>1. /\ s \o t \in Seq(S) /\ Len(s \o t) = Len(s) + Len(t)
      /\ \A i \in 1 .. Len(s) + Len(t) :
            (s \o t)[i] = IF i <= Len(s) THEN s[i] ELSE t[i - Len(s)]
  BY ConcatProperties
<1> DEFINE u == s \o t
<1> HIDE DEF u
<1>2. \A i \in 1 .. 3 : u[i] = IF i <= 1 THEN s[i] ELSE t[i - 1]
  BY <1>1 DEF u
<1>3. u[1] = s[1] /\ u[2] = t[1] /\ u[3] = t[2]
  BY <1>2
<1> QED
  BY <1>1, <1>3 DEF u

(* The POSTs for an account: its badge first, then the negations of the others. *)
LEMMA PostsFacts ==
    ASSUME NEW did
    PROVE  /\ PostsFor(did) \in Seq([val : Labels, neg : BOOLEAN])
           /\ Len(PostsFor(did)) = 3
           /\ PostsFor(did)[1] = Assertion(DesiredAccountLabel(did))
           /\ \A i \in {2, 3} : /\ PostsFor(did)[i].neg = TRUE
                                /\ PostsFor(did)[i].val # DesiredAccountLabel(did)
           /\ Labels \subseteq {DesiredAccountLabel(did), PostsFor(did)[2].val, PostsFor(did)[3].val}
<1> DEFINE want == DesiredAccountLabel(did)
           others == Others(did)
           negations == Negations(did)
           first == <<Assertion(want)>>
<1>1. want \in Labels
  BY DesiredIsLabel
<1>2. /\ others \in Seq(Labels) /\ Len(others) = 2
      /\ others[1] # want /\ others[2] # want
      /\ Labels \subseteq {want, others[1], others[2]}
  <2> HIDE DEF want
  <2>1. others = RemoveAt(ACCOUNT_LABELS, Position(want))
    BY DEF Others, want
  <2> QED
    BY <1>1, <2>1, RemoveFacts
<1>3. negations = [i \in 1 .. 2 |-> Negation(others[i])]
  BY <1>2 DEF Negations
<1> HIDE DEF want, others
<1>4. /\ negations \in Seq([val : Labels, neg : BOOLEAN]) /\ Len(negations) = 2
      /\ \A i \in 1 .. 2 : negations[i] = Negation(others[i])
  <2>1. \A i \in 1 .. 2 : others[i] \in Labels
    BY <1>2
  <2>2. \A i \in 1 .. 2 : Negation(others[i]) \in [val : Labels, neg : BOOLEAN]
    BY <2>1 DEF Negation
  <2> HIDE DEF negations
  <2> QED
    BY <1>3, <2>2
<1>5. first \in Seq([val : Labels, neg : BOOLEAN]) /\ Len(first) = 1 /\ first[1] = Assertion(want)
  <2>1. Assertion(want) \in [val : Labels, neg : BOOLEAN]
    BY <1>1 DEF Assertion
  <2> QED
    BY <2>1
<1>6. PostsFor(did) = first \o negations
  BY DEF PostsFor, want
<1> HIDE DEF negations, first
<1>7. /\ PostsFor(did) \in Seq([val : Labels, neg : BOOLEAN]) /\ Len(PostsFor(did)) = 3
      /\ PostsFor(did)[1] = Assertion(want)
      /\ PostsFor(did)[2] = Negation(others[1]) /\ PostsFor(did)[3] = Negation(others[2])
  <2> DEFINE S == [val : Labels, neg : BOOLEAN]
  <2>1. first \in Seq(S) /\ negations \in Seq(S)
    BY <1>4, <1>5
  <2>2. Len(first) = 1 /\ Len(negations) = 2
    BY <1>4, <1>5
  <2> HIDE DEF S
  <2>3. /\ first \o negations \in Seq(S) /\ Len(first \o negations) = 3
        /\ (first \o negations)[1] = first[1]
        /\ (first \o negations)[2] = negations[1]
        /\ (first \o negations)[3] = negations[2]
    BY <2>1, <2>2, ThreePosts
  <2>4. negations[1] = Negation(others[1]) /\ negations[2] = Negation(others[2])
    BY <1>4
  <2> QED
    BY <1>5, <1>6, <2>3, <2>4 DEF S
<1>8. /\ PostsFor(did)[2].val = others[1] /\ PostsFor(did)[3].val = others[2]
      /\ PostsFor(did)[2].neg = TRUE /\ PostsFor(did)[3].neg = TRUE
  BY <1>7 DEF Negation
<1>9. /\ \A i \in {2, 3} : PostsFor(did)[i].neg = TRUE /\ PostsFor(did)[i].val # want
      /\ Labels \subseteq {want, PostsFor(did)[2].val, PostsFor(did)[3].val}
  BY <1>2, <1>8
<1> QED
  BY <1>7, <1>9 DEF want

LEMMA TailFacts ==
    ASSUME NEW S, NEW q \in Seq(S), q # <<>>
    PROVE  /\ Tail(q) \in Seq(S) /\ Len(Tail(q)) = Len(q) - 1 /\ Len(q) \in Nat \ {0}
           /\ DOMAIN q = 1 .. Len(q) /\ DOMAIN Tail(q) = 1 .. Len(q) - 1
           /\ Head(q) = q[1] /\ q[1] \in S
           /\ \A i \in 1 .. Len(q) - 1 : Tail(q)[i] = q[i + 1]
OBVIOUS

-----------------------------------------------------------------------------
(* The inductive invariant of a cycle. *)

LEMMA MirrorInit == Init => MirrorInv
<1> SUFFICES ASSUME Init PROVE MirrorInv
  OBVIOUS
<1>1. badges \in [Accounts -> SUBSET ToSet(ACCOUNT_LABELS)]
  BY DEF Init
<1>2. queue = <<>> /\ queue \in Seq([val : ToSet(ACCOUNT_LABELS), neg : BOOLEAN])
  BY EmptySeq DEF Init
<1>3. clean \in BOOLEAN /\ missed \in BOOLEAN /\ ~ missed
  BY DEF Init
<1>4. QueueOK
  BY <1>2 DEF QueueOK
<1>5. pc = "idle" /\ accounts = {}
  BY DEF Init
<1> QED
  BY <1>1, <1>2, <1>3, <1>4, <1>5 DEF MirrorInv

(* Steps that leave the cycle alone. *)
LEMMA WorldKeeps ==
    ASSUME MirrorInv, World \/ UNCHANGED vars
    PROVE  MirrorInv'
<1>1. UNCHANGED <<badges, winners, pc, state, accounts, posts, acct, queue, missed, clean>>
  BY DEF World, vars, cycle
<1>2. \A a : DesiredAccountLabel(a)' = DesiredAccountLabel(a)
  BY <1>1 DEF DesiredAccountLabel
<1>3. DesiredAccountLabel(acct)' = DesiredAccountLabel(acct)
  BY <1>1 DEF DesiredAccountLabel
<1>4. QueueOK' <=> QueueOK
  BY <1>1, <1>3 DEF QueueOK
<1>5. Negated' = Negated /\ InWork' = InWork
  BY <1>1 DEF Negated, InWork
<1>6. MirroredSoFar' <=> MirroredSoFar
  BY <1>1, <1>2, <1>3, <1>5 DEF MirroredSoFar
<1> QED
  BY <1>1, <1>3, <1>4, <1>6 DEF MirrorInv

LEMMA BoundariesKeep ==
    ASSUME MirrorInv, StartCycle \/ StartPosts \/ Stop
    PROVE  MirrorInv'
<1>0. /\ badges' = badges /\ queue' = <<>> /\ winners' = winners
      /\ clean' \in BOOLEAN /\ missed' \in BOOLEAN /\ (missed' => ~ clean')
  <2>1. badges' = badges /\ queue' = <<>> /\ winners' = winners
    BY DEF MirrorInv, StartCycle, StartPosts, Stop
  <2>2. clean \in BOOLEAN /\ missed \in BOOLEAN /\ (missed => ~ clean)
    BY DEF MirrorInv
  <2>3. CASE StartCycle
    BY <2>1, <2>2, <2>3 DEF StartCycle
  <2>4. CASE StartPosts
    BY <2>1, <2>2, <2>4 DEF StartPosts
  <2>5. CASE Stop
    BY <2>1, <2>5 DEF Stop
  <2> QED
    BY <2>3, <2>4, <2>5
<1>1. QueueOK'
  BY <1>0 DEF QueueOK
<1>2. queue' \in Seq([val : ToSet(ACCOUNT_LABELS), neg : BOOLEAN])
  BY <1>0, EmptySeq
<1>3. InWork' = {}
  BY <1>0 DEF InWork
<1>4. CASE StartCycle
  <2>1. pc' = "accounts" /\ accounts' = state'.alumni
    BY <1>4 DEF StartCycle
  <2>2. MirroredSoFar'
    BY <1>0, <1>3, <2>1 DEF MirroredSoFar
  <2> QED
    BY <1>0, <1>1, <1>2, <2>1, <2>2 DEF MirrorInv
<1>5. CASE StartPosts
  <2>1. /\ pc = "accounts" /\ pc' = "posts" /\ queue = <<>> /\ accounts = {} /\ accounts' = {}
        /\ state' = state /\ clean' = clean /\ posts' = state.winning_posts
    BY <1>5 DEF StartPosts
  <2>2. clean' => MirroredSoFar'
    <3>1. SUFFICES ASSUME clean PROVE MirroredSoFar'
      BY <2>1
    <3>2. MirroredSoFar /\ InWork = {}
      BY <2>1, <3>1 DEF MirrorInv, InWork
    <3>3. \A a : DesiredAccountLabel(a)' = DesiredAccountLabel(a)
      BY <2>1 DEF DesiredAccountLabel
    <3> QED
      BY <1>0, <1>3, <2>1, <3>2, <3>3 DEF MirroredSoFar
  <2> QED
    BY <1>0, <1>1, <1>2, <2>1, <2>2 DEF MirrorInv
<1>6. CASE Stop
  <2>1. pc' = "idle" /\ accounts' = {}
    BY <1>6 DEF Stop
  <2> QED
    BY <1>0, <1>1, <1>2, <2>1 DEF MirrorInv
<1> QED
  BY <1>4, <1>5, <1>6

LEMMA NextAccountKeeps ==
    ASSUME MirrorInv, NEW did \in Accounts, NextAccount(did)
    PROVE  MirrorInv'
<1>1. /\ UNCHANGED <<badges, winners, pc, state, posts, clean>>
      /\ pc = "accounts" /\ queue = <<>> /\ did \in accounts /\ acct' = did
      /\ accounts' = accounts \ {did} /\ queue' = PostsFor(did) /\ missed' = FALSE
  BY DEF NextAccount
<1>2. PICK want : want = DesiredAccountLabel(did)
  OBVIOUS
<1>3. DesiredAccountLabel(acct)' = want
  BY <1>1, <1>2 DEF DesiredAccountLabel
<1>4. /\ queue' \in Seq([val : Labels, neg : BOOLEAN]) /\ DOMAIN queue' = 1 .. 3
      /\ queue'[1].neg = FALSE /\ queue'[1].val = want /\ Head(queue') = queue'[1]
      /\ \A i \in {2, 3} : queue'[i].neg = TRUE /\ queue'[i].val # want
      /\ Labels \subseteq {want, queue'[2].val, queue'[3].val}
      /\ queue' # <<>>
  <2>1. /\ queue' \in Seq([val : Labels, neg : BOOLEAN]) /\ Len(queue') = 3
        /\ queue'[1] = Assertion(want)
        /\ \A i \in {2, 3} : queue'[i].neg = TRUE /\ queue'[i].val # want
        /\ Labels \subseteq {want, queue'[2].val, queue'[3].val}
    BY <1>1, <1>2, PostsFacts
  <2>2. DOMAIN queue' = 1 .. 3 /\ Head(queue') = queue'[1] /\ queue' # <<>>
    BY <2>1
  <2>3. queue'[1].neg = FALSE /\ queue'[1].val = want
    BY <2>1 DEF Assertion
  <2> QED
    BY <2>1, <2>2, <2>3
<1>5. QueueOK'
  <2>1. \A i \in DOMAIN queue' : i = 1 \/ i \in {2, 3}
    BY <1>4
  <2> QED
    BY <1>3, <1>4, <2>1 DEF QueueOK
<1>6. badges' \in [Accounts -> SUBSET Labels] /\ clean \in BOOLEAN
  BY <1>1, LabelFacts DEF MirrorInv
<1>7. queue'[2].val \in Negated' /\ queue'[3].val \in Negated'
  BY <1>4 DEF Negated
<1>8. clean' => MirroredSoFar'
  <2>1. SUFFICES ASSUME clean PROVE MirroredSoFar'
    BY <1>1
  <2>2. \A a : DesiredAccountLabel(a)' = DesiredAccountLabel(a)
    BY <1>1 DEF DesiredAccountLabel
  <2>3. InWork = {} /\ InWork' = {did} /\ MirroredSoFar
    BY <1>1, <1>4, <2>1 DEF InWork, MirrorInv
  <2>4. \A a \in (state.alumni \cap Accounts) \ (accounts' \cup InWork') :
            badges[a] = {DesiredAccountLabel(a)}
    BY <1>1, <2>3 DEF MirroredSoFar
  <2>5. badges'[acct'] \subseteq {DesiredAccountLabel(acct)'} \cup Negated'
    <3>1. badges'[acct'] \subseteq Labels
      BY <1>1, <1>6
    <3> QED
      BY <1>3, <1>4, <1>7, <3>1
  <2> QED
    BY <1>1, <2>2, <2>4, <2>5 DEF MirroredSoFar
<1>9. acct' \in Accounts \cap state'.alumni /\ accounts' \subseteq state'.alumni
  BY <1>1 DEF MirrorInv
<1>10. missed' \in BOOLEAN /\ ~ missed' /\ clean' \in BOOLEAN
  BY <1>1, <1>6
<1> QED
  BY <1>1, <1>4, <1>5, <1>6, <1>8, <1>9, <1>10, LabelFacts DEF MirrorInv

(* One POST for the account in work: whatever its outcome, the other accounts
   are left alone, and only a negation takes a badge, never the wanted one. *)
LEMMA PostBadgeFacts ==
    ASSUME MirrorInv, NEW ok \in BOOLEAN, PostBadge(ok)
    PROVE  /\ acct \in Accounts /\ queue # <<>>
           /\ badges' \in [Accounts -> SUBSET Labels]
           /\ \A a \in Accounts \ {acct} : badges'[a] = badges[a]
           /\ Head(queue).neg \in BOOLEAN /\ Head(queue).val \in Labels
           /\ Head(queue).neg =>
                 /\ Head(queue).val # DesiredAccountLabel(acct)
                 /\ badges'[acct] = badges[acct] \ {Head(queue).val}
                       \/ (badges'[acct] = badges[acct] /\ ~ ok)
           /\ ~ Head(queue).neg =>
                 /\ Head(queue).val = DesiredAccountLabel(acct)
                 /\ badges'[acct] = badges[acct] \cup {Head(queue).val}
                       \/ (badges'[acct] = badges[acct] /\ ~ ok)
<1>0. /\ badges \in [Accounts -> SUBSET Labels] /\ queue \in Seq([val : Labels, neg : BOOLEAN])
      /\ queue # <<>> /\ acct \in Accounts
  BY LabelFacts DEF MirrorInv, PostBadge
<1>1. PICK post \in [val : Labels, neg : BOOLEAN] : post = Head(queue)
  BY <1>0, TailFacts
<1>2. 1 \in DOMAIN queue /\ queue[1] = post
  BY <1>0, <1>1, TailFacts
<1>3. IF post.neg THEN post.val # DesiredAccountLabel(acct) ELSE post.val = DesiredAccountLabel(acct)
  BY <1>2 DEF MirrorInv, QueueOK
<1>4. PICK after \in SUBSET Labels :
        /\ after = IF post.neg THEN badges[acct] \ {post.val} ELSE badges[acct] \cup {post.val}
        /\ \E h \in Outcomes(badges[acct], after, ok) : badges' = [badges EXCEPT ![acct] = h]
  BY <1>0, <1>1 DEF PostBadge
<1>5. PICK h \in SUBSET Labels : /\ h = after \/ (h = badges[acct] /\ ~ ok)
                                 /\ badges' = [badges EXCEPT ![acct] = h]
  BY <1>0, <1>4 DEF Outcomes
<1> QED
  BY <1>0, <1>1, <1>3, <1>4, <1>5

LEMMA PostBadgeKeeps ==
    ASSUME MirrorInv, NEW ok \in BOOLEAN, PostBadge(ok)
    PROVE  MirrorInv'
<1>0. /\ queue \in Seq([val : Labels, neg : BOOLEAN]) /\ queue # <<>>
      /\ acct \in Accounts /\ acct \in state.alumni /\ clean \in BOOLEAN /\ missed \in BOOLEAN
  BY LabelFacts, PostBadgeFacts DEF MirrorInv
<1>1. /\ UNCHANGED <<winners, pc, state, accounts, posts, acct>> /\ pc = "accounts"
      /\ queue' = Tail(queue)
  BY DEF PostBadge
<1>2. PICK post \in [val : Labels, neg : BOOLEAN] : post = Head(queue) /\ post = queue[1]
  BY <1>0, TailFacts
<1>3. /\ clean' = (clean /\ ok)
      /\ missed' = (missed \/ (~ ok /\ ~ post.neg))
  BY <1>2 DEF PostBadge
<1>4. clean' \in BOOLEAN /\ missed' \in BOOLEAN /\ (missed' => ~ clean')
  <2>1. missed => ~ clean
    BY DEF MirrorInv
  <2> QED
    BY <1>3, <2>1
<1>5. /\ queue' \in Seq([val : Labels, neg : BOOLEAN])
      /\ DOMAIN queue' = 1 .. Len(queue) - 1 /\ DOMAIN queue = 1 .. Len(queue)
      /\ Len(queue) \in Nat \ {0} /\ \A i \in 1 .. Len(queue) - 1 : queue'[i] = queue[i + 1]
      /\ queue' # <<>> => Head(queue') = queue'[1] /\ 1 \in DOMAIN queue'
  BY <1>0, <1>1, TailFacts
<1>6. PICK want : want = DesiredAccountLabel(acct)
  OBVIOUS
<1>7. DesiredAccountLabel(acct)' = want
  BY <1>1, <1>6 DEF DesiredAccountLabel
<1>8. \A i \in DOMAIN queue' : queue'[i].neg /\ queue'[i].val # want
  <2>1. ASSUME NEW i \in DOMAIN queue' PROVE queue'[i].neg /\ queue'[i].val # want
    <3>1. i + 1 \in DOMAIN queue /\ i + 1 # 1 /\ queue'[i] = queue[i + 1]
      BY <1>5
    <3> QED
      BY <1>6, <3>1 DEF MirrorInv, QueueOK
  <2> QED
    BY <2>1
<1>9. QueueOK'
  BY <1>7, <1>8 DEF QueueOK
<1>10. /\ badges' \in [Accounts -> SUBSET Labels]
       /\ \A a \in Accounts \ {acct} : badges'[a] = badges[a]
       /\ post.neg => /\ post.val # want
                      /\ badges'[acct] = badges[acct] \ {post.val}
                            \/ (badges'[acct] = badges[acct] /\ ~ ok)
       /\ ~ post.neg => /\ post.val = want
                        /\ badges'[acct] = badges[acct] \cup {post.val}
                              \/ (badges'[acct] = badges[acct] /\ ~ ok)
  BY <1>2, <1>6, PostBadgeFacts
<1>11. ~ missed' => want \in badges'[acct]
  <2>1. CASE post.neg
    BY <1>0, <1>2, <1>3, <1>6, <1>10, <2>1 DEF MirrorInv
  <2>2. CASE ~ post.neg
    BY <1>3, <1>10, <2>2
  <2> QED
    BY <2>1, <2>2
<1>12. clean' => MirroredSoFar'
  <2>1. SUFFICES ASSUME clean, ok PROVE MirroredSoFar'
    BY <1>3
  <2>2. MirroredSoFar /\ InWork = {acct}
    BY <1>0, <1>1, <2>1 DEF MirrorInv, InWork
  <2>3. ~ missed'
    BY <1>4, <1>3, <2>1
  <2>4. Negated \subseteq {post.val : x \in {y \in {1} : post.neg}} \cup Negated'
    <3>1. ASSUME NEW i \in DOMAIN queue, queue[i].neg
          PROVE  (i = 1 /\ post.neg /\ queue[i].val = post.val) \/ queue[i].val \in Negated'
      <4>1. CASE i = 1
        BY <1>2, <3>1, <4>1
      <4>2. CASE i # 1
        <5>1. i - 1 \in DOMAIN queue' /\ queue'[i - 1] = queue[i]
          BY <1>5, <4>2
        <5> QED
          BY <3>1, <5>1 DEF Negated
      <4> QED
        BY <4>1, <4>2
    <3> QED
      BY <3>1 DEF Negated
  <2>5. badges[acct] \subseteq {want} \cup Negated
    BY <1>0, <1>6, <2>2 DEF MirroredSoFar
  <2>6. badges'[acct] \subseteq {want} \cup Negated'
    <3>1. CASE post.neg
      BY <1>10, <2>1, <2>4, <2>5, <3>1
    <3>2. CASE ~ post.neg
      BY <1>10, <2>1, <2>4, <2>5, <3>2
    <3> QED
      BY <3>1, <3>2
  <2>7. queue' = <<>> => Negated' = {}
    BY DEF Negated
  <2>8. \A a : DesiredAccountLabel(a)' = DesiredAccountLabel(a)
    BY <1>1 DEF DesiredAccountLabel
  <2>9. ASSUME NEW a \in (state.alumni \cap Accounts) \ (accounts \cup InWork')
        PROVE  badges'[a] = {DesiredAccountLabel(a)}
    <3>1. CASE a = acct
      <4>1. queue' = <<>>
        BY <1>1, <2>9, <3>1 DEF InWork
      <4> QED
        BY <1>6, <1>11, <2>3, <2>6, <2>7, <3>1, <4>1
    <3>2. CASE a # acct
      BY <1>10, <2>2, <2>9, <3>2 DEF MirroredSoFar
    <3> QED
      BY <3>1, <3>2
  <2> QED
    BY <1>1, <1>7, <2>6, <2>8, <2>9 DEF MirroredSoFar
<1>13. accounts \subseteq state.alumni
  BY DEF MirrorInv
<1> QED
  BY <1>0, <1>1, <1>4, <1>5, <1>7, <1>9, <1>10, <1>11, <1>12, <1>13, LabelFacts DEF MirrorInv

LEMMA PostWinnerKeeps ==
    ASSUME MirrorInv, NEW p \in Posts, NEW ok \in BOOLEAN, PostWinner(p, ok)
    PROVE  MirrorInv'
<1>0. clean \in BOOLEAN /\ missed \in BOOLEAN /\ (missed => ~ clean)
  BY DEF MirrorInv
<1>1. /\ UNCHANGED <<badges, pc, state, accounts, acct, queue, missed>> /\ pc = "posts"
      /\ posts' = posts \ {p} /\ winners' \in Outcomes(winners, winners \cup {p}, ok)
      /\ clean' = (clean /\ ok)
  BY DEF PostWinner
<1>2. clean' \in BOOLEAN /\ (missed' => ~ clean')
  BY <1>0, <1>1
<1>3. DesiredAccountLabel(acct)' = DesiredAccountLabel(acct)
  BY <1>1 DEF DesiredAccountLabel
<1>4. QueueOK' <=> QueueOK
  BY <1>1, <1>3 DEF QueueOK
<1>5. clean' => MirroredSoFar'
  <2>1. SUFFICES ASSUME clean, ok PROVE MirroredSoFar'
    BY <1>1
  <2>2. MirroredSoFar /\ InWork' = InWork /\ Negated' = Negated
    BY <1>1, <2>1 DEF MirrorInv, InWork, Negated
  <2>3. winners' = winners \cup {p}
    BY <1>1, <2>1 DEF Outcomes
  <2>4. \A a : DesiredAccountLabel(a)' = DesiredAccountLabel(a)
    BY <1>1 DEF DesiredAccountLabel
  <2> QED
    BY <1>1, <1>3, <2>2, <2>3, <2>4 DEF MirroredSoFar
<1> QED
  BY <1>0, <1>1, <1>2, <1>3, <1>4, <1>5 DEF MirrorInv

LEMMA MirrorNext == MirrorInv /\ [Next]_vars => MirrorInv'
BY WorldKeeps, BoundariesKeep, NextAccountKeeps, PostBadgeKeeps, PostWinnerKeeps
   DEF Next, EndCycle, Crash

LEMMA MirrorAlways == Spec => []MirrorInv
BY MirrorInit, MirrorNext, PTL DEF Spec

-----------------------------------------------------------------------------
(* An account with a badge keeps one, while the crown moves and between two
   POSTs, unless the POST of its new badge failed (reconcile of poller.py asserts
   before it negates). *)
THEOREM AccountsKeepABadge == Spec => KeepsABadge
<1> DEFINE Kept == \A a \in Accounts : badges[a] # {} /\ badges'[a] = {} => a = acct /\ missed
<1>1. MirrorInv /\ [Next]_vars => [Kept]_badges
  <2> SUFFICES ASSUME MirrorInv, [Next]_vars, badges' # badges,
                      NEW a \in Accounts, badges[a] # {}, badges'[a] = {}
               PROVE  a = acct /\ missed
    OBVIOUS
  <2>1. PICK ok \in BOOLEAN : PostBadge(ok)
    BY DEF Next, vars, World, StartCycle, NextAccount, StartPosts, PostWinner, EndCycle, Crash, Stop
  <2>2. a = acct
    BY <2>1, PostBadgeFacts
  <2>3. DesiredAccountLabel(acct) \notin badges[acct]
    BY <2>1, <2>2, PostBadgeFacts
  <2>4. Head(queue).neg /\ queue # <<>>
    BY <2>1, <2>2, PostBadgeFacts
  <2> QED
    BY <2>2, <2>3, <2>4 DEF MirrorInv
<1> HIDE DEF Kept
<1>2. Spec => [][Kept]_badges
  BY <1>1, MirrorAlways, PTL DEF Spec
<1> QED
  BY <1>2 DEF KeepsABadge, Kept

(* A cycle in which nothing fails ends with the one badge that build_state calls
   for on every alumnus, whatever earlier cycles left, and with the label on
   every winning post. *)
THEOREM CleanCyclesMirrorState ==
    Spec => [](Done /\ clean =>
                  /\ \A a \in state.alumni \cap Accounts : badges[a] = {DesiredAccountLabel(a)}
                  /\ state.winning_posts \subseteq winners)
<1>1. MirrorInv => (Done /\ clean =>
                      /\ \A a \in state.alumni \cap Accounts : badges[a] = {DesiredAccountLabel(a)}
                      /\ state.winning_posts \subseteq winners)
  <2> SUFFICES ASSUME MirrorInv, Done, clean
               PROVE  /\ \A a \in state.alumni \cap Accounts : badges[a] = {DesiredAccountLabel(a)}
                      /\ state.winning_posts \subseteq winners
    OBVIOUS
  <2>1. pc = "posts" /\ posts = {} /\ queue = <<>> /\ accounts = {} /\ MirroredSoFar
    BY DEF Done, MirrorInv
  <2> QED
    BY <2>1 DEF MirroredSoFar, InWork
<1> QED
  BY <1>1, MirrorAlways, PTL

-----------------------------------------------------------------------------
(* The cycle as a whole. *)

(* What else is known between two steps: whoever is worked on was crowned, nobody
   else has a badge, and what is written as a winning post is a post. *)
Reached ==
    /\ deletions \in 0 .. MaxDeletions
    /\ accounts \subseteq Crowned /\ acct \in Crowned \cup {0}
    /\ winners \cup posts \subseteq Posts
    /\ Len(queue) <= 3
    /\ \A a \in Accounts \ Crowned : badges[a] = {}

LEMMA ReachedInit == Init => Reached
<1> SUFFICES ASSUME Init PROVE Reached
  OBVIOUS
<1>1. MaxDeletions \in Nat
  BY CrownAssumption
<1>2. Len(queue) = 0
  BY DEF Init
<1> QED
  BY <1>1, <1>2 DEF Init, Reached

(* What build_state derives is taken from the history. *)
LEMMA DerivedFromHistory ==
    ASSUME WorldInv, StateMatchesHistory, pc # "idle"
    PROVE  state.alumni \subseteq Crowned /\ state.winning_posts \subseteq Posts
<1>1. state.alumni \subseteq Crowned
  BY DEF StateMatchesHistory, Announced, Crowned
<1>2. ASSUME NEW i \in DOMAIN history, history[i].post # NoPost PROVE history[i].post \in Posts
  <2>1. [likes |-> history[i].likes, post |-> history[i].post] \in Wins
    BY DEF WorldInv, HistoryOK
  <2> QED
    BY <1>2, <2>1 DEF Posts
<1>3. state.winning_posts \subseteq Posts
  BY <1>2 DEF StateMatchesHistory, WinningPosts, Announced
<1> QED
  BY <1>1, <1>3

(* The world only adds to those who were crowned. *)
LEMMA WorldReaches ==
    ASSUME WorldInv, Reached, World
    PROVE  Reached'
<1>1. UNCHANGED <<badges, winners, accounts, posts, acct, queue>>
  BY DEF World, cycle
<1>2. Crowned \subseteq Crowned'
  <2>1. CASE \E a \in Accounts, win \in Wins : Crown(a, win)
    <3>1. PICK c : history' = Append(history, c)
      BY <2>1 DEF Crown
    <3>2. history \in Seq(Crowning)
      BY DEF WorldInv, HistoryOK
    <3>3. /\ DOMAIN history \subseteq DOMAIN history'
          /\ \A i \in DOMAIN history : history'[i] = history[i]
      BY <3>1, <3>2
    <3> QED
      BY <3>3 DEF Crowned
  <2>2. CASE Tick \/ AnnounceAgain \/ \E c \in feed : Delete(c)
    BY <2>2 DEF Tick, AnnounceAgain, Delete, Crowned
  <2> QED
    BY <2>1, <2>2 DEF World
<1>3. deletions' \in 0 .. MaxDeletions
  <2>1. MaxDeletions \in Nat /\ deletions \in 0 .. MaxDeletions
    BY CrownAssumption DEF Reached
  <2>2. deletions' = deletions \/ (deletions < MaxDeletions /\ deletions' = deletions + 1)
    BY DEF World, Tick, Crown, AnnounceAgain, Delete
  <2> QED
    BY <2>1, <2>2
<1> QED
  BY <1>1, <1>2, <1>3 DEF Reached

(* A cycle works on what it has derived. *)
LEMMA CycleReaches ==
    ASSUME WorldInv, MirrorInv, Reached, StateMatchesHistory, StateMatchesHistory', WorldInv',
           [Next]_vars, ~ World
    PROVE  Reached'
<1>0. /\ deletions' = deletions /\ Crowned' = Crowned
      /\ deletions \in 0 .. MaxDeletions
      /\ accounts \subseteq Crowned /\ acct \in Crowned \cup {0}
      /\ winners \subseteq Posts /\ posts \subseteq Posts
      /\ Len(queue) <= 3 /\ \A a \in Accounts \ Crowned : badges[a] = {}
  <2>1. UNCHANGED world
    BY DEF Next, vars, StartCycle, NextAccount, PostBadge, StartPosts, PostWinner, EndCycle, Crash,
           Stop
  <2> QED
    BY <2>1 DEF world, Crowned, Reached
<1>1. CASE UNCHANGED vars
  BY <1>0, <1>1 DEF vars, cycle, Reached
<1>2. CASE StartCycle
  <2>1. /\ UNCHANGED <<badges, winners, posts, acct, queue>>
        /\ pc' = "accounts" /\ accounts' = state'.alumni
    BY <1>2 DEF StartCycle
  <2>2. (state.alumni \subseteq Crowned)'
    <3>1. StateMatchesHistory' /\ pc' # "idle"
      BY <2>1
    <3> QED
      BY <3>1 DEF StateMatchesHistory, Announced, Crowned
  <2> QED
    BY <1>0, <2>1, <2>2 DEF Reached
<1>3. CASE \E did \in Accounts : NextAccount(did)
  <2>1. PICK did \in Accounts : NextAccount(did)
    BY <1>3
  <2>2. /\ UNCHANGED <<badges, winners, posts>> /\ did \in accounts /\ acct' = did
        /\ accounts' = accounts \ {did} /\ queue' = PostsFor(did)
    BY <2>1 DEF NextAccount
  <2>3. Len(queue') <= 3
    <3>1. Len(PostsFor(did)) = 3
      BY PostsFacts
    <3> QED
      BY <2>2, <3>1
  <2> QED
    BY <1>0, <2>2, <2>3 DEF Reached
<1>4. CASE \E ok \in BOOLEAN : PostBadge(ok)
  <2>1. PICK ok \in BOOLEAN : PostBadge(ok)
    BY <1>4
  <2>2. UNCHANGED <<winners, posts, accounts, acct>> /\ pc # "idle" /\ acct \in state.alumni
    BY <2>1 DEF PostBadge, MirrorInv
  <2>3. acct \in Crowned
    BY <2>2, DerivedFromHistory
  <2>4. \A a \in Accounts \ {acct} : badges'[a] = badges[a]
    BY <2>1, PostBadgeFacts
  <2>5. Len(queue') <= 3
    <3>1. /\ queue \in Seq([val : ToSet(ACCOUNT_LABELS), neg : BOOLEAN])
          /\ queue # <<>> /\ queue' = Tail(queue)
      BY <2>1 DEF PostBadge, MirrorInv
    <3>2. Len(queue') = Len(queue) - 1 /\ Len(queue) \in Nat
      BY <3>1, TailFacts
    <3> QED
      BY <1>0, <3>2
  <2> QED
    BY <1>0, <2>2, <2>3, <2>4, <2>5 DEF Reached
<1>5. CASE StartPosts
  <2>1. UNCHANGED <<badges, winners, accounts, queue>> /\ acct' = 0 /\ pc # "idle"
        /\ posts' = state.winning_posts
    BY <1>5 DEF StartPosts
  <2>2. posts' \subseteq Posts
    BY <2>1, DerivedFromHistory
  <2> QED
    BY <1>0, <2>1, <2>2 DEF Reached
<1>6. CASE \E p \in Posts, ok \in BOOLEAN : PostWinner(p, ok)
  <2>1. PICK p \in Posts, ok \in BOOLEAN : PostWinner(p, ok)
    BY <1>6
  <2>2. UNCHANGED <<badges, accounts, acct, queue>> /\ posts' = posts \ {p}
        /\ winners' \in {winners, winners \cup {p}}
    BY <2>1 DEF PostWinner, Outcomes
  <2>3. winners' \subseteq Posts
    BY <1>0, <2>2
  <2> QED
    BY <1>0, <2>2, <2>3 DEF Reached
<1>7. CASE Stop
  <2>1. UNCHANGED <<badges, winners>> /\ accounts' = {} /\ posts' = {} /\ acct' = 0 /\ queue' = <<>>
    BY <1>7 DEF Stop
  <2>2. Len(queue') = 0
    BY <2>1
  <2> QED
    BY <1>0, <2>1, <2>2 DEF Reached
<1> QED
  BY <1>1, <1>2, <1>3, <1>4, <1>5, <1>6, <1>7 DEF Next, EndCycle, Crash

LEMMA ReachedAlways == Spec => []Reached
<1>1. /\ WorldInv /\ WorldInv' /\ MirrorInv /\ StateMatchesHistory /\ StateMatchesHistory'
      /\ Reached /\ [Next]_vars
      => Reached'
  BY WorldReaches, CycleReaches
<1> QED
  BY <1>1, ReachedInit, WorldAlways, MirrorAlways, DerivesWhatHappened, PTL DEF Spec

(* There is at most one crowning a day. *)
LEMMA CrowningsFitDays == ASSUME WorldInv PROVE Len(history) <= Day(now) + 1
<1> DEFINE n == Len(history)
<1>1. history \in Seq(Crowning) /\ now \in Nat /\ n \in Nat /\ DOMAIN history = 1 .. n
  BY CrownAssumption DEF WorldInv, HistoryOK
<1>2. Day(now) \in Nat
  BY <1>1, DayFacts
<1>3. CASE n = 0
  BY <1>2, <1>3
<1>4. CASE n # 0
  <2>1. n \in DOMAIN history
    BY <1>1, <1>4
  <2>2. history[n] \in Crowning
    BY <1>1, <2>1
  <2>3. history[n].ts \in Nat
    BY <2>2 DEF Crowning
  <2>4. history[n].ts <= now /\ n <= Day(history[n].ts) + 1
    BY <2>1 DEF WorldInv, HistoryOK
  <2>5. Day(history[n].ts) \in Nat /\ Day(history[n].ts) <= Day(now)
    BY <1>1, <2>3, <2>4, DayFacts
  <2> QED
    BY <1>1, <1>2, <2>4, <2>5
<1> QED
  BY <1>3, <1>4

(* Every variable keeps to its type: the cycle only ever works on accounts that
   were crowned, with at most a POST for each badge left. *)
THEOREM TypeCorrect == Spec => []TypeOK
<1>1. WorldInv /\ MirrorInv /\ Reached => TypeOK
  <2> SUFFICES ASSUME WorldInv, MirrorInv, Reached PROVE TypeOK
    OBVIOUS
  <2>1. ASSUME NEW c \in feed \cup ToSet(history)
        PROVE  c.ts \in 0 .. now /\ c.did \in Accounts
               /\ [likes |-> c.likes, post |-> c.post] \in Wins
    <3>1. PICK i \in DOMAIN history : /\ c.did = history[i].did /\ c.likes = history[i].likes
                                      /\ c.post = history[i].post
      BY FeedFacts DEF Announced, ToSet
    <3>2. history[i] \in Crowning
      BY FeedFacts
    <3>3. c.did \in Accounts
      BY <3>1, <3>2 DEF Crowning
    <3>4. [likes |-> c.likes, post |-> c.post] \in Wins
      BY <3>1 DEF WorldInv, HistoryOK
    <3>5. c.ts \in 0 .. now
      <4>1. CASE c \in feed
        BY <4>1 DEF WorldInv, FeedOK
      <4>2. CASE c \in ToSet(history)
        <5>1. PICK j \in DOMAIN history : c = history[j]
          BY <4>2 DEF ToSet
        <5>2. history[j] \in Crowning
          BY FeedFacts
        <5>3. c.ts \in Nat
          BY <5>1, <5>2 DEF Crowning
        <5>4. history[j].ts <= now
          BY DEF WorldInv, HistoryOK
        <5>5. now \in Nat
          BY CrownAssumption DEF WorldInv
        <5> QED
          BY <5>1, <5>3, <5>4, <5>5
      <4> QED
        BY <4>1, <4>2
    <3> QED
      BY <3>3, <3>4, <3>5
  <2>2. Len(history) <= Day(now) + 1
    BY CrowningsFitDays
  <2>3. now \in 0 .. MaxNow
    BY DEF WorldInv
  <2>4. /\ badges \in [Accounts -> SUBSET ToSet(ACCOUNT_LABELS)]
        /\ pc \in {"idle", "accounts", "posts"} /\ {missed, clean} \subseteq BOOLEAN
    BY DEF MirrorInv
  <2>5. Len(queue) <= Len(ACCOUNT_LABELS)
    BY LabelFacts DEF Reached
  <2> QED
    BY <2>1, <2>2, <2>3, <2>4, <2>5 DEF TypeOK, Reached
<1> QED
  BY <1>1, WorldAlways, MirrorAlways, ReachedAlways, PTL

(* If build_state gives what the history says, one account holds the record and
   one the daily crown, and reconcile wants the right badge for each. *)
LEMMA DesiredIsRight ==
    ASSUME WorldInv, StateMatchesHistory, pc # "idle",
           NEW a \in Accounts, a \in {history[i].did : i \in Announced}
    PROVE  {DesiredAccountLabel(a)} = RightBadges(a)
<1>1. PICK r \in Announced : IsRecord(r) /\ state.record = history[r].did
  BY DEF StateMatchesHistory
<1>2. PICK l \in Announced : IsLast(l) /\ state.current = history[l].did
  BY DEF StateMatchesHistory
<1>3. \A i \in Announced : i \in Nat /\ i \in DOMAIN history /\ history[i].likes \in Nat
  <2>1. \A d \in Crowning : d.likes \in Nat
    BY DEF Crowning
  <2> QED
    BY <2>1, FeedFacts DEF Announced
<1>4. ASSUME NEW i, IsRecord(i) PROVE i = r
  <2>1. i \in Announced
    BY <1>4 DEF IsRecord
  <2>2. history[i].likes = history[r].likes
    BY <1>1, <1>3, <1>4, <2>1 DEF IsRecord
  <2>3. i <= r /\ r <= i
    BY <1>1, <1>4, <2>1, <2>2 DEF IsRecord
  <2> QED
    BY <1>3, <2>1, <2>3
<1>5. ASSUME NEW i, IsLast(i) PROVE i = l
  <2>1. i \in Announced /\ i <= l /\ l <= i
    BY <1>2, <1>5 DEF IsLast
  <2> QED
    BY <1>3, <2>1
<1>6. a \in Crowned
  BY <1>3 DEF Crowned
<1>7. (\E i \in Announced : IsRecord(i) /\ history[i].did = a) <=> a = state.record
  BY <1>1, <1>4
<1>8. (\E i \in Announced : IsLast(i) /\ history[i].did = a) <=> a = state.current
  BY <1>2, <1>5
<1> QED
  BY <1>6, <1>7, <1>8 DEF DesiredAccountLabel, RightBadges

(* A clean cycle leaves the right badges, on the right accounts, whatever was
   announced twice, deleted, written half way or cut off by a crash before. *)
THEOREM CleanCyclesAreExact == Spec => []CleanCycleIsExact
<1>1. WorldInv /\ MirrorInv /\ Reached /\ StateMatchesHistory => CleanCycleIsExact
  <2> SUFFICES ASSUME WorldInv, MirrorInv, Reached, StateMatchesHistory, Done, clean
               PROVE  /\ \A a \in Accounts \ Forgotten : badges[a] = RightBadges(a)
                      /\ WinningPosts \subseteq winners
    BY DEF CleanCycleIsExact
  <2>1. /\ pc = "posts" /\ posts = {} /\ queue = <<>> /\ accounts = {} /\ MirroredSoFar
        /\ pc # "idle"
    BY DEF Done, MirrorInv
  <2>2. state.alumni = {history[i].did : i \in Announced} /\ state.winning_posts = WinningPosts
    BY <2>1 DEF StateMatchesHistory
  <2>3. ASSUME NEW a \in Accounts \ Forgotten PROVE badges[a] = RightBadges(a)
    <3>1. CASE a \notin Crowned
      BY <3>1 DEF Reached, RightBadges
    <3>2. CASE a \in Crowned
      <4>1. a \in {history[i].did : i \in Announced}
        BY <2>3, <3>2 DEF Forgotten
      <4>2. badges[a] = {DesiredAccountLabel(a)}
        BY <2>1, <2>2, <4>1 DEF MirroredSoFar, InWork
      <4> QED
        BY <2>1, <4>1, <4>2, DesiredIsRight
    <3> QED
      BY <3>1, <3>2
  <2>4. WinningPosts \subseteq winners
    BY <2>1, <2>2 DEF MirroredSoFar
  <2> QED
    BY <2>3, <2>4
<1> QED
  BY <1>1, WorldAlways, MirrorAlways, ReachedAlways, DerivesWhatHappened, PTL
=============================================================================
