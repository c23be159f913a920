-------------------------- MODULE ListLabeler_proofs --------------------------
(* Theorems about the answers of the label server and about the list labeler,
   for any table: rows with gaps, redundant entries, negations of nothing.

   "In force" is worked with as a function of the table, Lasting, since the
   proofs compare it before and after a write.                             *)
EXTENDS ListLabeler, SeqNumbers_proofs

-----------------------------------------------------------------------------
(* Facts about tables. *)

LEMMA SameKeyIsEquivalence ==
    /\ \A a : SameKey(a, a)
    /\ \A a, b : SameKey(a, b) => SameKey(b, a)
    /\ \A a, b, d : SameKey(a, b) /\ SameKey(b, d) => SameKey(a, d)
BY DEF SameKey

(* The last entries of their labels that are no negations. *)
Lasting(l) == {s \in DOMAIN l : ~ l[s].neg /\ \A t \in DOMAIN l : SameKey(l[s], l[t]) => t <= s}

LEMMA LastingIsInForce == InForce = Lasting(log)
BY DEF InForce, Lasting

LEMMA LogFacts ==
    ASSUME NEW l, IsLog(l)
    PROVE  /\ DOMAIN l \in SUBSET Nat /\ IsFiniteSet(DOMAIN l)
           /\ LastSeq(l) \in Nat /\ \A s \in DOMAIN l : s <= LastSeq(l)
           /\ \A s \in DOMAIN l : s # 0 /\ l[s] \in Entry
<1>1. /\ DOMAIN l \in SUBSET Nat /\ IsFiniteSet(DOMAIN l)
      /\ \A s \in DOMAIN l : s # 0 /\ l[s] \in Entry
  BY DEF IsLog, Seqs
<1>2. IsTop(LastSeq(l), DOMAIN l) /\ LastSeq(l) \in Nat
  BY <1>1, TopIsTop DEF LastSeq
<1> QED
  BY <1>1, <1>2 DEF IsTop

(* A label without effect is in force, or not, as it says. *)
LEMMA NoOpFacts ==
    ASSUME NEW l, IsLog(l), NEW e \in Entry, IsNoOp(l, e, LatestMatch(l, e, LastSeq(l)))
    PROVE  IF e.neg THEN \A s \in Lasting(l) : ~ SameKey(l[s], e)
           ELSE \E s \in Lasting(l) : SameKey(l[s], e)
<1> DEFINE M == Matching(l, e, LastSeq(l))
           top == Top(M)
<1>1. M = {s \in DOMAIN l : SameKey(l[s], e)}
  BY LogFacts DEF Matching
<1>2. M \in SUBSET Nat /\ IsFiniteSet(M) /\ 0 \notin M
  <2>1. M \in SUBSET DOMAIN l
    BY <1>1
  <2> HIDE DEF M
  <2> QED
    BY <2>1, LogFacts, FS_Subset
<1>3. /\ top \in Nat /\ top \in M \cup {0} /\ \A s \in M : s <= top
      /\ IsNoOp(l, e, top)
  <2>1. IsNoOp(l, e, top)
    BY DEF LatestMatch
  <2> HIDE DEF M
  <2> QED
    BY <1>2, <2>1, TopIsTop DEF IsTop
<1> HIDE DEF M, top
<1>4. CASE top = 0
  <2>1. M = {}
    BY <1>2, <1>3, <1>4
  <2>2. e.neg
    BY <1>3, <1>4 DEF IsNoOp
  <2> QED
    BY <1>1, <2>1, <2>2 DEF Lasting
<1>5. CASE top # 0
  <2>1. top \in DOMAIN l /\ SameKey(l[top], e) /\ l[top].neg = e.neg
    BY <1>1, <1>3, <1>5 DEF IsNoOp
  <2>2. \A t \in DOMAIN l : SameKey(l[t], e) => t <= top
    BY <1>1, <1>3
  <2>3. CASE e.neg
    <3>1. ASSUME NEW s \in Lasting(l), SameKey(l[s], e) PROVE FALSE
      <4>1. s \in DOMAIN l /\ ~ l[s].neg /\ top <= s
        BY <2>1, <3>1, SameKeyIsEquivalence DEF Lasting
      <4>2. s = top
        BY <1>3, <2>2, <3>1, <4>1, LogFacts
      <4> QED
        BY <2>1, <2>3, <4>1, <4>2
    <3> QED
      BY <2>3, <3>1
  <2>4. CASE ~ e.neg
    <3>1. top \in Lasting(l)
      BY <2>1, <2>2, <2>4, SameKeyIsEquivalence DEF Lasting
    <3> QED
      BY <2>1, <2>4, <3>1
  <2> QED
    BY <2>3, <2>4
<1> QED
  BY <1>4, <1>5

(* What a row at the next number changes of the labels in force. *)
LEMMA NewRowFacts ==
    ASSUME NEW l, IsLog(l), NEW e \in Entry,
           NEW n, n = LastSeq(l) + 1, NEW r, r = WithRow(l, n, e)
    PROVE  /\ IsLog(r) /\ n \notin DOMAIN l /\ DOMAIN r = DOMAIN l \cup {n}
           /\ r[n] = e /\ \A s \in DOMAIN l : r[s] = l[s]
           /\ Lasting(r) \ {n} = {s \in Lasting(l) : ~ SameKey(l[s], e)}
           /\ n \in Lasting(r) <=> ~ e.neg
<1>1. n \in Nat /\ n \in Seqs /\ n \notin DOMAIN l /\ \A s \in DOMAIN l : s <= n /\ ~ (n <= s)
  BY LogFacts DEF Seqs
<1>2. DOMAIN r = DOMAIN l \cup {n} /\ r[n] = e /\ \A s \in DOMAIN l : r[s] = l[s]
  BY <1>1 DEF WithRow
<1>3. IsLog(r)
  <2>1. IsFiniteSet(DOMAIN r) /\ DOMAIN r \in SUBSET Seqs
    BY <1>1, <1>2, FS_AddElement DEF IsLog
  <2>2. r \in [DOMAIN r -> Entry]
    BY DEF WithRow, IsLog
  <2> QED
    BY <2>1, <2>2 DEF IsLog
<1>4. ASSUME NEW s \in DOMAIN l
      PROVE  s \in Lasting(r) <=> s \in Lasting(l) /\ ~ SameKey(l[s], e)
  <2>1. s \in Lasting(r) <=> ~ r[s].neg /\ \A t \in DOMAIN r : SameKey(r[s], r[t]) => t <= s
    BY <1>2 DEF Lasting
  <2>2. (\A t \in DOMAIN r : SameKey(r[s], r[t]) => t <= s)
           <=> /\ \A t \in DOMAIN l : SameKey(r[s], r[t]) => t <= s
               /\ SameKey(r[s], r[n]) => n <= s
    BY <1>2
  <2>3. (\A t \in DOMAIN l : SameKey(r[s], r[t]) => t <= s)
           <=> \A t \in DOMAIN l : SameKey(l[s], l[t]) => t <= s
    BY <1>2
  <2>4. s \in Lasting(l) <=> ~ l[s].neg /\ \A t \in DOMAIN l : SameKey(l[s], l[t]) => t <= s
    BY DEF Lasting
  <2> QED
    BY <1>1, <1>2, <2>1, <2>2, <2>3, <2>4
<1>5. n \in Lasting(r) <=> ~ e.neg
  BY <1>1, <1>2 DEF Lasting
<1>6. Lasting(r) \subseteq DOMAIN l \cup {n} /\ Lasting(l) \subseteq DOMAIN l
  BY <1>2 DEF Lasting
<1>7. Lasting(r) \ {n} = {s \in Lasting(l) : ~ SameKey(l[s], e)}
  BY <1>1, <1>4, <1>6
<1> QED
  BY <1>1, <1>2, <1>3, <1>5, <1>7

(* AddLabel: afterwards the label is in force, or not, as it was asked, and the
   other labels are as before. *)
LEMMA AddLabelFacts ==
    ASSUME NEW l, IsLog(l), NEW e \in Entry,
           NEW r, r = IF IsNoOp(l, e, LatestMatch(l, e, LastSeq(l))) THEN l
                      ELSE WithRow(l, LastSeq(l) + 1, e)
    PROVE  /\ IsLog(r)
           /\ \A s \in Lasting(l) : ~ SameKey(l[s], e) => s \in Lasting(r) /\ r[s] = l[s]
           /\ \A s \in Lasting(r) : ~ SameKey(r[s], e) => s \in Lasting(l) /\ r[s] = l[s]
           /\ IF e.neg THEN \A s \in Lasting(r) : ~ SameKey(r[s], e)
              ELSE \E s \in Lasting(r) : SameKey(r[s], e)
<1>1. CASE IsNoOp(l, e, LatestMatch(l, e, LastSeq(l)))
  BY <1>1, NoOpFacts
<1>2. CASE ~ IsNoOp(l, e, LatestMatch(l, e, LastSeq(l)))
  <2>0. PICK n : n = LastSeq(l) + 1 /\ r = WithRow(l, n, e)
    BY <1>2
  <2>1. /\ IsLog(r) /\ n \notin DOMAIN l /\ DOMAIN r = DOMAIN l \cup {n}
        /\ r[n] = e /\ \A s \in DOMAIN l : r[s] = l[s]
        /\ Lasting(r) \ {n} = {s \in Lasting(l) : ~ SameKey(l[s], e)}
        /\ n \in Lasting(r) <=> ~ e.neg
    BY ONLY IsLog(l), e \in Entry, <2>0, NewRowFacts
  <2>2. Lasting(l) \subseteq DOMAIN l
    BY DEF Lasting
  <2>3. SameKey(e, e)
    BY SameKeyIsEquivalence
  <2> QED
    BY <2>1, <2>2, <2>3
<1> QED
  BY <1>1, <1>2

-----------------------------------------------------------------------------
(* The answer of a query. *)

(* ORDER BY has every row once, in order. *)
LEMMA OrderedFacts ==
    ASSUME NEW rows \in SUBSET Nat, IsFiniteSet(rows)
    PROVE  LET o == Ordered(rows)
               n == Cardinality(rows)
           IN  /\ n \in Nat /\ o \in [1 .. n -> rows]
               /\ \A s \in rows : \E i \in 1 .. n : o[i] = s
               /\ \A i, j \in 1 .. n : i < j => o[i] < o[j]
<1> DEFINE o == Ordered(rows)
           n == Cardinality(rows)
           UpTo(s) == {t \in rows : t <= s}
           place == [s \in rows |-> Cardinality(UpTo(s))]
<1>1. n \in Nat /\ IsFiniteSet(1 .. n) /\ Cardinality(1 .. n) = n
  <2>1. n \in Nat
    BY FS_CardinalityType
  <2> HIDE DEF n
  <2> QED
    BY <2>1, FS_Interval
<1>2. ASSUME NEW s \in rows
      PROVE  /\ IsFiniteSet(UpTo(s)) /\ Cardinality(UpTo(s)) \in 1 .. n
  <2>1. UpTo(s) \in SUBSET rows /\ s \in UpTo(s)
    OBVIOUS
  <2> HIDE DEF UpTo
  <2>2. IsFiniteSet(UpTo(s)) /\ Cardinality(UpTo(s)) <= Cardinality(rows)
    BY <2>1, FS_Subset
  <2>3. Cardinality(UpTo(s)) \in Nat /\ Cardinality(UpTo(s)) # 0
    BY <2>1, <2>2, FS_CardinalityType, FS_EmptySet
  <2> QED
    BY <1>1, <2>2, <2>3
<1>3. ASSUME NEW s \in rows, NEW t \in rows, s < t
      PROVE  Cardinality(UpTo(s)) < Cardinality(UpTo(t))
  <2>1. UpTo(s) \in SUBSET UpTo(t) /\ t \in UpTo(t) /\ t \notin UpTo(s)
    <3>1. s \in Nat /\ t \in Nat /\ \A u \in rows : u \in Nat
      OBVIOUS
    <3>2. ASSUME NEW u \in rows, u <= s PROVE u <= t
      <4>1. u \in Nat
        BY <3>1
      <4> QED
        BY <1>3, <3>1, <3>2, <4>1
    <3>3. t \in UpTo(t) /\ ~ (t <= s)
      BY <1>3, <3>1
    <3> QED
      BY <3>2, <3>3
  <2> HIDE DEF UpTo
  <2>2. /\ Cardinality(UpTo(s)) <= Cardinality(UpTo(t))
        /\ Cardinality(UpTo(t)) = Cardinality(UpTo(s)) => UpTo(t) = UpTo(s)
    BY <1>2, <2>1, FS_Subset
  <2>3. Cardinality(UpTo(s)) \in Nat /\ Cardinality(UpTo(t)) \in Nat
    BY <1>1, <1>2
  <2> QED
    BY <2>1, <2>2, <2>3
<1>4. \A s \in rows : Place(s, rows) = place[s] /\ place[s] = Cardinality(UpTo(s))
  BY DEF Place
<1> HIDE DEF UpTo
<1>5. place \in [rows -> 1 .. n] /\ \A s, t \in rows : s < t => place[s] < place[t]
  BY <1>2, <1>3
<1> HIDE DEF place, n
<1>6. \A s, t \in rows : place[s] = place[t] => s = t
  <2>1. ASSUME NEW s \in rows, NEW t \in rows, place[s] = place[t] PROVE s = t
    <3>1. place[s] \in Nat /\ ~ (s < t) /\ ~ (t < s)
      BY <1>1, <1>5, <2>1
    <3> QED
      BY <3>1
  <2> QED
    BY <2>1
<1>7. \A i \in 1 .. n : \E s \in rows : place[s] = i
  <2>1. place \in Injection(rows, 1 .. n)
    BY <1>5, <1>6 DEF Injection, IsInjective
  <2>2. IsFiniteSet(1 .. n) /\ Cardinality(rows) = Cardinality(1 .. n)
    BY <1>1 DEF n
  <2>3. place \in Surjection(rows, 1 .. n)
    BY <2>1, <2>2, FS_Injection
  <2> QED
    BY <2>3 DEF Surjection
<1>8. o = [i \in 1 .. n |-> CHOOSE s \in rows : Place(s, rows) = i]
  BY DEF Ordered, n
<1> HIDE DEF o
<1>9. \A i \in 1 .. n : o[i] \in rows /\ place[o[i]] = i
  <2>1. ASSUME NEW i \in 1 .. n PROVE o[i] \in rows /\ place[o[i]] = i
    <3>1. o[i] = CHOOSE s \in rows : Place(s, rows) = i
      BY <1>8
    <3>2. \E s \in rows : Place(s, rows) = i
      BY <1>4, <1>7
    <3>3. o[i] \in rows /\ Place(o[i], rows) = i
      BY <3>1, <3>2
    <3> QED
      BY <1>4, <3>3
  <2> QED
    BY <2>1
<1>10. o \in [1 .. n -> rows]
  BY <1>8, <1>9
<1>11. ASSUME NEW s \in rows PROVE \E i \in 1 .. n : o[i] = s
  <2>1. place[s] \in 1 .. n /\ o[place[s]] \in rows /\ place[o[place[s]]] = place[s]
    BY <1>5, <1>9
  <2> QED
    BY <1>6, <2>1
<1>12. ASSUME NEW i \in 1 .. n, NEW j \in 1 .. n, i < j PROVE o[i] < o[j]
  <2>1. o[i] \in Nat /\ o[j] \in Nat
    BY <1>9
  <2>2. o[i] # o[j] /\ ~ (o[j] < o[i])
    <3>1. /\ o[i] \in rows /\ o[j] \in rows /\ place[o[i]] = i /\ place[o[j]] = j
          /\ i \in Nat /\ j \in Nat
      BY <1>1, <1>9
    <3>2. o[j] < o[i] => j < i
      BY <1>5, <3>1
    <3> QED
      BY <1>12, <3>1, <3>2
  <2> QED
    BY <2>1, <2>2
<1> QED
  BY <1>1, <1>10, <1>11, <1>12 DEF o, n

(* What is left of a selection that has all entries of its labels. *)
LEMMA KeptFacts ==
    ASSUME IsLog(log), NEW rows \in SUBSET DOMAIN log,
           \A s \in rows, t \in DOMAIN log : SameKey(log[s], log[t]) => t \in rows
    PROVE  Kept(rows) = Lasting(log) \cap rows
<1>1. \A s, t : KeyOf(log[s]) = KeyOf(log[t]) <=> SameKey(log[s], log[t])
  BY DEF KeyOf, SameKey
<1>2. ASSUME NEW s \in rows
      PROVE  KeyOf(log[s]) \notin Decided(s, rows)
                <=> \A t \in DOMAIN log : SameKey(log[s], log[t]) => t <= s
  <2>1. KeyOf(log[s]) \in Decided(s, rows) <=> \E t \in rows : t > s /\ SameKey(log[s], log[t])
    BY <1>1 DEF Decided
  <2>2. \A t \in DOMAIN log : t \in Nat
    BY LogFacts
  <2> QED
    BY <2>1, <2>2
<1> QED
  BY <1>2 DEF Kept, Lasting

LEMMA AnswerFacts ==
    ASSUME IsLog(log), NEW rows \in SUBSET DOMAIN log,
           \A s \in rows, t \in DOMAIN log : SameKey(log[s], log[t]) => t \in rows
    PROVE  LET answer == DedupeAndNegateEntries(rows)
           IN  NewestFirst(answer) /\ ToSet(answer) = InForce \cap rows
<1> DEFINE kept == Kept(rows)
           o == Ordered(kept)
           n == Cardinality(kept)
           answer == DedupeAndNegateEntries(rows)
<1>1. kept = InForce \cap rows
  BY KeptFacts, LastingIsInForce
<1>2. kept \in SUBSET Nat /\ IsFiniteSet(kept)
  <2>1. kept \in SUBSET DOMAIN log
    BY DEF Kept
  <2> HIDE DEF kept
  <2> QED
    BY <2>1, LogFacts, FS_Subset
<1> HIDE DEF kept
<1>3. /\ n \in Nat /\ o \in [1 .. n -> kept]
      /\ \A s \in kept : \E i \in 1 .. n : o[i] = s
      /\ \A i, j \in 1 .. n : i < j => o[i] < o[j]
  BY <1>2, OrderedFacts
<1>4. answer = Reverse(o)
  BY DEF DedupeAndNegateEntries, kept
<1> HIDE DEF n, o, answer
<1>5. answer = [i \in 1 .. n |-> o[n - i + 1]]
  <2>1. Len(o) = n
    BY <1>3
  <2> QED
    BY <1>4, <2>1 DEF Reverse
<1>6. NewestFirst(answer)
  <2>1. ASSUME NEW i \in 1 .. n, NEW j \in 1 .. n, i < j PROVE o[n - i + 1] > o[n - j + 1]
    <3>1. n - i + 1 \in 1 .. n /\ n - j + 1 \in 1 .. n /\ n - j + 1 < n - i + 1
      BY <1>3, <2>1
    <3> QED
      BY <1>3, <3>1
  <2> QED
    BY <1>5, <2>1 DEF NewestFirst
<1>7. ToSet(answer) = kept
  <2>1. \A i \in 1 .. n : n - i + 1 \in 1 .. n /\ n - (n - i + 1) + 1 = i
    BY <1>3
  <2>2. \A i \in 1 .. n : answer[i] \in kept
    BY <1>3, <1>5, <2>1
  <2>3. ASSUME NEW s \in kept PROVE \E i \in 1 .. n : answer[i] = s
    <3>1. PICK i \in 1 .. n : o[i] = s
      BY <1>3
    <3>2. answer[n - i + 1] = s /\ n - i + 1 \in 1 .. n
      BY <1>5, <2>1, <3>1
    <3> QED
      BY <3>2
  <2>4. DOMAIN answer = 1 .. n
    BY <1>5
  <2> QED
    BY <2>2, <2>3, <2>4 DEF ToSet
<1> QED
  BY <1>1, <1>6, <1>7 DEF answer

(* A query is answered with the labels in force, whatever the table holds. *)
LEMMA QueryFacts == IsLog(log) => QueryServesLabelsInForce
<1> SUFFICES ASSUME IsLog(log),
                    NEW patterns \in (SUBSET (Uris \cup Wildcards)) \ {{}},
                    NEW sources \in SUBSET Srcs
             PROVE  LET answer == Query(patterns, sources)
                    IN  /\ NewestFirst(answer)
                        /\ patterns \cap Wildcards = {} =>
                             ToSet(answer) =
                                {s \in InForce : log[s].uri \in patterns
                                                   /\ (sources = {} \/ log[s].src \in sources)}
                        /\ patterns \cap Wildcards # {} => answer = <<>>
  BY DEF QueryServesLabelsInForce
<1> DEFINE rows == Selected(patterns, sources)
           answer == Query(patterns, sources)
<1>1. CASE patterns \cap Wildcards = {}
  <2>1. \A s : s \in rows <=> /\ s \in DOMAIN log /\ log[s].uri \in patterns
                              /\ sources = {} \/ log[s].src \in sources
    BY DEF Selected
  <2>2. rows \in SUBSET DOMAIN log
    BY <2>1
  <2>3. \A s \in rows, t \in DOMAIN log : SameKey(log[s], log[t]) => t \in rows
    BY <2>1 DEF SameKey
  <2>0. patterns # {}
    OBVIOUS
  <2>4. answer = DedupeAndNegateEntries(rows)
    <3>1. Valid(patterns)
      BY <1>1, <2>0 DEF Valid
    <3> QED
      BY <3>1 DEF Query
  <2> HIDE DEF rows, answer
  <2>5. NewestFirst(answer) /\ ToSet(answer) = InForce \cap rows
    BY <2>2, <2>3, <2>4, AnswerFacts
  <2>6. InForce \subseteq DOMAIN log
    BY LastingIsInForce DEF Lasting
  <2>7. InForce \cap rows = {s \in InForce : log[s].uri \in patterns
                                                /\ (sources = {} \/ log[s].src \in sources)}
    BY <2>1, <2>6
  <2> QED
    BY <1>1, <2>5, <2>7 DEF answer
<1>2. CASE patterns \cap Wildcards # {}
  <2>1. answer = <<>>
    BY <1>2 DEF Query, Valid
  <2> QED
    BY <1>2, <2>1 DEF NewestFirst
<1> QED
  BY <1>1, <1>2

-----------------------------------------------------------------------------
(* An update of the list labeler. *)

(* The accounts that show a label, and those that carry the server's own. *)
ShownIn(l, val) == {a \in Accounts : \E s \in Lasting(l) : l[s].uri = a /\ l[s].val = val}
OwnIn(l, val) ==
    {a \in Accounts : \E s \in Lasting(l) :
                         l[s].uri = a /\ l[s].val = val /\ l[s].src = Did /\ l[s].cid = NoCid}

LEMMA ShownFacts ==
    \A val : /\ Shown(val) = ShownIn(log, val) /\ Own(val) = OwnIn(log, val)
            /\ OwnIn(log, val) \subseteq ShownIn(log, val)
<1>1. \A val : Shown(val) = ShownIn(log, val)
  BY LastingIsInForce DEF Shown, ShownIn
<1>2. \A val : Own(val) = OwnIn(log, val)
  BY LastingIsInForce DEF Own, IsOwn, OwnIn
<1> QED
  BY <1>1, <1>2 DEF ShownIn, OwnIn

(* LabelEntries finds the accounts that show the label. *)
LEMMA LabeledFacts ==
    ASSUME IsLog(log), NEW val
    PROVE  LabeledDids(val) = ShownIn(log, val)
<1> DEFINE rows == {s \in DOMAIN log : log[s].val = val}
<1>1. \A s \in rows, t \in DOMAIN log : SameKey(log[s], log[t]) => t \in rows
  BY DEF SameKey
<1>2. rows \in SUBSET DOMAIN log
  OBVIOUS
<1>3. LabelEntries(val) = DedupeAndNegateEntries(rows)
  BY DEF LabelEntries
<1> HIDE DEF rows
<1>4. ToSet(LabelEntries(val)) = Lasting(log) \cap rows
  BY <1>1, <1>2, <1>3, AnswerFacts, LastingIsInForce
<1>5. Lasting(log) \subseteq DOMAIN log
  BY DEF Lasting
<1> QED
  BY <1>4, <1>5 DEF LabeledDids, ShownIn, rows

(* What AddLabel changes: the account shows the label, or does not carry the
   server's own any longer, and nothing else changes. *)
LEMMA PostedFacts ==
    ASSUME IsLog(log), label \in Listed,
           NEW did \in Accounts, NEW neg \in BOOLEAN, AddLabel(Posted(did, neg))
    PROVE  /\ IsLog(log')
           /\ \A a, val : a # did \/ val # label =>
                 /\ a \in ShownIn(log', val) <=> a \in ShownIn(log, val)
                 /\ a \in OwnIn(log', val) <=> a \in OwnIn(log, val)
           /\ neg => did \notin OwnIn(log', label)
                     /\ (did \in ShownIn(log', label) => did \in ShownIn(log, label))
           /\ ~ neg => did \in ShownIn(log', label)
           /\ \A s \in Lasting(log) : ~ (log[s].src = Did /\ log[s].cid = NoCid) => s \in Lasting(log')
<1> DEFINE e == Posted(did, neg)
<1>1. /\ e.src = Did /\ e.val = label /\ e.uri = did /\ e.cid = NoCid /\ e.neg = neg
      /\ e \in Entry
  BY ListLabelerAssumption DEF Posted, Entry
<1>2. log' = IF IsNoOp(log, e, LatestMatch(log, e, LastSeq(log))) THEN log
             ELSE WithRow(log, LastSeq(log) + 1, e)
  BY DEF AddLabel
<1> HIDE DEF e
<1>3. /\ IsLog(log')
      /\ \A s \in Lasting(log) : ~ SameKey(log[s], e) => s \in Lasting(log') /\ log'[s] = log[s]
      /\ \A s \in Lasting(log') : ~ SameKey(log'[s], e) => s \in Lasting(log) /\ log'[s] = log[s]
      /\ IF neg THEN \A s \in Lasting(log') : ~ SameKey(log'[s], e)
         ELSE \E s \in Lasting(log') : SameKey(log'[s], e)
  BY <1>1, <1>2, AddLabelFacts
<1>4. \A x : SameKey(x, e) <=> x.src = Did /\ x.val = label /\ x.uri = did /\ x.cid = NoCid
  BY <1>1 DEF SameKey
<1>5. \A a, val : a # did \/ val # label =>
         /\ a \in ShownIn(log', val) <=> a \in ShownIn(log, val)
         /\ a \in OwnIn(log', val) <=> a \in OwnIn(log, val)
  BY <1>3, <1>4 DEF ShownIn, OwnIn
<1>6. neg => did \notin OwnIn(log', label)
             /\ (did \in ShownIn(log', label) => did \in ShownIn(log, label))
  BY <1>3, <1>4 DEF ShownIn, OwnIn
<1>7. ~ neg => did \in ShownIn(log', label)
  BY <1>3, <1>4 DEF ShownIn
<1> QED
  BY <1>3, <1>4, <1>5, <1>6, <1>7

(* The invariant, in these terms. *)
LEMMA UpdateInvIs ==
    UpdateInv <=>
        /\ IsLog(log)
        /\ members \in [Listed -> SUBSET Accounts]
        /\ lists \subseteq Listed
        /\ pc = "label" =>
            /\ label \in Listed /\ list \subseteq Accounts
            /\ toAdd \subseteq list /\ toRemove \subseteq Accounts \ list
            /\ list \ toAdd \subseteq ShownIn(log, label)
            /\ OwnIn(log, label) \subseteq list \cup toRemove
BY ShownFacts DEF UpdateInv

(* The same of the next state. *)
LEMMA LastingIsInForceNext == InForce' = Lasting(log')
BY DEF InForce, Lasting

LEMMA ShownFactsNext ==
    \A val : Shown(val)' = ShownIn(log', val) /\ Own(val)' = OwnIn(log', val)
<1>1. \A val : Shown(val)' = ShownIn(log', val)
  BY LastingIsInForceNext DEF Shown, ShownIn
<1>2. \A val : Own(val)' = OwnIn(log', val)
  BY LastingIsInForceNext DEF Own, IsOwn, OwnIn
<1> QED
  BY <1>1, <1>2

LEMMA UpdateInvIsNext ==
    UpdateInv' <=>
        /\ IsLog(log')
        /\ members' \in [Listed -> SUBSET Accounts]
        /\ lists' \subseteq Listed
        /\ pc' = "label" =>
            /\ label' \in Listed /\ list' \subseteq Accounts
            /\ toAdd' \subseteq list' /\ toRemove' \subseteq Accounts \ list'
            /\ list' \ toAdd' \subseteq ShownIn(log', label')
            /\ OwnIn(log', label') \subseteq list' \cup toRemove'
<1>1. Shown(label)' = ShownIn(log', label') /\ Own(label)' = OwnIn(log', label')
  BY LastingIsInForceNext DEF Shown, Own, IsOwn, ShownIn, OwnIn
<1> QED
  BY <1>1 DEF UpdateInv

LEMMA UpdateInit == ASSUME Init PROVE UpdateInv
<1>1. log = EmptyLog /\ members \in [Listed -> SUBSET Accounts] /\ pc = "down" /\ lists = {}
  BY DEF Init, EmptyLog, EmptyLog
<1>2. IsLog(log)
  BY <1>1, FS_EmptySet DEF IsLog, EmptyLog
<1> QED
  BY <1>1, <1>2, UpdateInvIs

LEMMA CompareKeeps ==
    ASSUME UpdateInv, NEW val \in Listed, Compare(val)
    PROVE  UpdateInv'
<1>1. /\ log' = log /\ members' = members /\ lists' = lists \ {val} /\ label' = val
      /\ list' = members[val]
      /\ toAdd' = members[val] \ LabeledDids(val) /\ toRemove' = LabeledDids(val) \ members[val]
  BY DEF Compare, GetDIDs
<1>2. LabeledDids(val) = ShownIn(log, val) /\ IsLog(log)
  BY UpdateInvIs, LabeledFacts
<1>3. members[val] \subseteq Accounts /\ ShownIn(log, val) \subseteq Accounts
  BY UpdateInvIs DEF ShownIn
<1>4. OwnIn(log, val) \subseteq ShownIn(log, val)
  BY ShownFacts
<1>5. /\ label' \in Listed /\ list' \subseteq Accounts
      /\ toAdd' \subseteq list' /\ toRemove' \subseteq Accounts \ list'
      /\ list' \ toAdd' \subseteq ShownIn(log', label')
      /\ OwnIn(log', label') \subseteq list' \cup toRemove'
  BY <1>1, <1>2, <1>3, <1>4
<1>6. IsLog(log') /\ members' \in [Listed -> SUBSET Accounts] /\ lists' \subseteq Listed
  BY <1>1, <1>2, UpdateInvIs
<1> QED
  BY <1>5, <1>6, UpdateInvIsNext

(* A step that leaves no label in work, or changes nothing about the one that
   is, keeps the invariant. *)
LEMMA OtherStepKeeps ==
    ASSUME UpdateInv, IsLog(log'), members' \in [Listed -> SUBSET Accounts],
           lists' \subseteq Listed,
           pc' # "label" \/ UNCHANGED <<log, pc, label, list, toAdd, toRemove>>
    PROVE  UpdateInv'
<1>1. pc' = "label" =>
         /\ label' \in Listed /\ list' \subseteq Accounts
         /\ toAdd' \subseteq list' /\ toRemove' \subseteq Accounts \ list'
         /\ list' \ toAdd' \subseteq ShownIn(log', label')
         /\ OwnIn(log', label') \subseteq list' \cup toRemove'
  BY UpdateInvIs
<1> QED
  BY <1>1, UpdateInvIsNext

LEMMA AddToKeeps ==
    ASSUME UpdateInv, NEW did \in Accounts, AddTo(did)
    PROVE  UpdateInv'
<1>1. /\ pc = "label" /\ did \in toAdd /\ AddLabel(Posted(did, FALSE))
      /\ toAdd' = toAdd \ {did}
      /\ members' = members /\ pc' = pc /\ lists' = lists /\ label' = label
      /\ list' = list /\ toRemove' = toRemove
  BY DEF AddTo
<1>2. /\ IsLog(log) /\ label \in Listed /\ list \subseteq Accounts
      /\ toAdd \subseteq list /\ toRemove \subseteq Accounts \ list
      /\ list \ toAdd \subseteq ShownIn(log, label)
      /\ OwnIn(log, label) \subseteq list \cup toRemove
      /\ members \in [Listed -> SUBSET Accounts] /\ lists \subseteq Listed
  BY <1>1, UpdateInvIs
<1>3. /\ IsLog(log')
      /\ \A a : a # did => /\ a \in ShownIn(log', label) <=> a \in ShownIn(log, label)
                           /\ a \in OwnIn(log', label) <=> a \in OwnIn(log, label)
      /\ did \in ShownIn(log', label)
  BY <1>1, <1>2, PostedFacts
<1>4. list' \ toAdd' \subseteq ShownIn(log', label')
  BY <1>1, <1>2, <1>3
<1>5. OwnIn(log', label') \subseteq list' \cup toRemove'
  BY <1>1, <1>2, <1>3
<1> QED
  BY <1>1, <1>2, <1>3, <1>4, <1>5, UpdateInvIsNext

LEMMA RemoveFromKeeps ==
    ASSUME UpdateInv, NEW did \in Accounts, RemoveFrom(did)
    PROVE  UpdateInv'
<1>1. /\ pc = "label" /\ did \in toRemove /\ AddLabel(Posted(did, TRUE))
      /\ toRemove' = toRemove \ {did}
      /\ members' = members /\ pc' = pc /\ lists' = lists /\ label' = label
      /\ list' = list /\ toAdd' = toAdd
  BY DEF RemoveFrom
<1>2. /\ IsLog(log) /\ label \in Listed /\ list \subseteq Accounts
      /\ toAdd \subseteq list /\ toRemove \subseteq Accounts \ list
      /\ list \ toAdd \subseteq ShownIn(log, label)
      /\ OwnIn(log, label) \subseteq list \cup toRemove
      /\ members \in [Listed -> SUBSET Accounts] /\ lists \subseteq Listed
  BY <1>1, UpdateInvIs
<1>3. /\ IsLog(log')
      /\ \A a : a # did => /\ a \in ShownIn(log', label) <=> a \in ShownIn(log, label)
                           /\ a \in OwnIn(log', label) <=> a \in OwnIn(log, label)
      /\ did \notin OwnIn(log', label)
  BY <1>1, <1>2, PostedFacts
<1>4. list' \ toAdd' \subseteq ShownIn(log', label')
  BY <1>1, <1>2, <1>3
<1>5. OwnIn(log', label') \subseteq list' \cup toRemove'
  BY <1>1, <1>2, <1>3
<1> QED
  BY <1>1, <1>2, <1>3, <1>4, <1>5, UpdateInvIsNext

LEMMA UpdateNext ==
    ASSUME UpdateInv, [Next]_(vars)
    PROVE  UpdateInv'
<1>1. IsLog(log) /\ members \in [Listed -> SUBSET Accounts] /\ lists \subseteq Listed
  BY UpdateInvIs
<1>2. CASE UNCHANGED vars
  BY <1>1, <1>2, OtherStepKeeps DEF vars, work
<1>3. CASE Start \/ Tick \/ EndUpdate \/ Refused \/ EndLabel \/ Crash
  <2>1. log' = log /\ members' = members /\ lists' \subseteq Listed /\ pc' # "label"
    BY <1>1, <1>3
       DEF Start, Tick, EndUpdate, Refused, EndLabel, Crash, Idle, work
  <2> QED
    BY <1>1, <2>1, OtherStepKeeps
<1>4. ASSUME NEW val \in Listed, Compare(val) PROVE UpdateInv'
  BY <1>4, CompareKeeps
<1>5. ASSUME NEW did \in Accounts, AddTo(did) \/ RemoveFrom(did) PROVE UpdateInv'
  BY <1>5, AddToKeeps, RemoveFromKeeps
<1>6. ASSUME NEW val \in Listed, NEW a \in Accounts, Move(val, a) PROVE UpdateInv'
  <2>1. /\ UNCHANGED <<log, pc, lists, label, list, toAdd, toRemove>>
        /\ members' = [members EXCEPT ![val] = IF a \in @ THEN @ \ {a} ELSE @ \cup {a}]
    BY <1>6 DEF Move, work
  <2>2. members' \in [Listed -> SUBSET Accounts]
    BY <1>1, <2>1
  <2> QED
    BY <1>1, <2>1, <2>2, OtherStepKeeps
<1>7. ASSUME NEW seq \in 1 .. MaxImported, NEW e \in Imports, Elsewhere(seq, e)
      PROVE  UpdateInv'
  <2>1. /\ pc' # "label" /\ members' = members /\ lists' = lists
        /\ log' = WithRow(log, seq, e)
    BY <1>7 DEF Elsewhere, Insert, work
  <2>2. e \in Entry /\ seq \in Seqs
    BY ListLabelerAssumption DEF Seqs
  <2>3. IsLog(log')
    <3>1. DOMAIN log' = DOMAIN log \cup {seq} /\ log' \in [DOMAIN log' -> Entry]
      BY <1>1, <2>1, <2>2 DEF WithRow, IsLog
    <3>2. IsFiniteSet(DOMAIN log')
      BY <1>1, <3>1, FS_AddElement DEF IsLog
    <3> QED
      BY <1>1, <2>2, <3>1, <3>2 DEF IsLog
  <2> QED
    BY <1>1, <2>1, <2>3, OtherStepKeeps
<1>8. ASSUME NEW val \in Listed, CompareFails(val) PROVE UpdateInv'
  <2>1. /\ UNCHANGED <<log, members, pc, label, list, toAdd, toRemove>>
        /\ lists' \subseteq Listed
    BY <1>1, <1>8 DEF CompareFails
  <2> QED
    BY <1>1, <2>1, OtherStepKeeps
<1>9. CASE WriteFails
  <2>1. /\ pc = "label" /\ pc' # "label" /\ UNCHANGED <<members, lists>>
        /\ UNCHANGED log \/ NextWrite
    BY <1>9 DEF WriteFails, Writing
  <2>2. IsLog(log')
    <3>1. CASE UNCHANGED log
      BY <1>1, <3>1
    <3>2. CASE NextWrite
      <4>1. PICK did \in Accounts, neg \in BOOLEAN : AddLabel(Posted(did, neg))
        BY <2>1, <3>2, UpdateInvIs DEF NextWrite
      <4> QED
        BY <1>1, <2>1, <4>1, PostedFacts, UpdateInvIs
    <3> QED
      BY <2>1, <3>1, <3>2
  <2> QED
    BY <1>1, <2>1, <2>2, OtherStepKeeps
<1> QED
  BY <1>2, <1>3, <1>4, <1>5, <1>6, <1>7, <1>8, <1>9 DEF Next, Update

-----------------------------------------------------------------------------
LEMMA UpdateInvHolds == Spec => []UpdateInv
<1>1. Init => UpdateInv
  BY UpdateInit
<1>2. UpdateInv /\ [Next]_(vars) => UpdateInv'
  BY UpdateNext
<1> QED
  BY <1>1, <1>2, PTL DEF Spec

(* Whatever table the writers, imports and clones leave, a query is answered
   with the labels in force on the subjects and from the sources it names
   (query.go, core_logic.go). *)
THEOREM QueriesServeLabelsInForce ==
    Spec => []QueryServesLabelsInForce
<1>1. UpdateInv => QueryServesLabelsInForce
  BY UpdateInvIs, QueryFacts
<1> QED
  BY <1>1, UpdateInvHolds, PTL

(* When an update of the list labeler has done a label, its accounts show the
   label and no other account carries the server's own (list-labeler/main.go). *)
THEOREM UpdatesAreExact ==
    Spec => []UpdateIsExact
<1>1. UpdateInv => UpdateIsExact
  BY UpdateInvIs, ShownFacts DEF UpdateIsExact, Writing
<1> QED
  BY <1>1, UpdateInvHolds, PTL

(* No step of an update moves away from the list, and none touches an entry
   that is not the server's own. *)
THEOREM UpdatesMoveTowardsTheList ==
    Spec => MovesTowardsTheList
<1> DEFINE Towards ==
             pc # "down" =>
               /\ \A val \in Vals : Shown(val)' # Shown(val) =>
                     /\ val = label
                     /\ Shown(val)' \ Shown(val) \subseteq list
                     /\ (Shown(val) \ Shown(val)') \cap list = {}
               /\ \A s \in InForce : ~ IsOwn(log[s]) => s \in InForce'
<1>1. UpdateInv /\ [Next]_(vars) => [Towards]_log
  <2> SUFFICES ASSUME UpdateInv, Next, log' # log, pc # "down" PROVE Towards
    BY DEF vars
  <2>1. pc = "label" /\ ((\E did \in Accounts : AddTo(did) \/ RemoveFrom(did)) \/ NextWrite)
    BY DEF Next, Update, Start, Tick, EndUpdate, Compare, Refused, EndLabel, AddTo, RemoveFrom,
           Move, Elsewhere, CompareFails, WriteFails, Writing, Crash
  <2>2. PICK did \in Accounts, neg \in BOOLEAN :
               /\ AddLabel(Posted(did, neg)) /\ pc = "label"
               /\ did \in IF neg THEN toRemove ELSE toAdd
    BY <2>1, UpdateInvIs DEF AddTo, RemoveFrom, NextWrite
  <2>3. /\ IsLog(log) /\ label \in Listed
        /\ toAdd \subseteq list /\ toRemove \subseteq Accounts \ list
    BY <2>2, UpdateInvIs
  <2>4. /\ \A a, val : a # did \/ val # label =>
               (a \in ShownIn(log', val) <=> a \in ShownIn(log, val))
        /\ neg => (did \in ShownIn(log', label) => did \in ShownIn(log, label))
        /\ ~ neg => did \in ShownIn(log', label)
        /\ \A s \in Lasting(log) : ~ (log[s].src = Did /\ log[s].cid = NoCid) => s \in Lasting(log')
    BY <2>2, <2>3, PostedFacts
  <2>5. ASSUME NEW val, ShownIn(log', val) # ShownIn(log, val)
        PROVE  /\ val = label
               /\ ShownIn(log', val) \ ShownIn(log, val) \subseteq list
               /\ (ShownIn(log, val) \ ShownIn(log', val)) \cap list = {}
    <3>1. val = label
      <4>1. PICK a : ~ (a \in ShownIn(log', val) <=> a \in ShownIn(log, val))
        BY <2>5 DEF ShownIn
      <4> QED
        BY <2>4, <4>1
    <3>2. \A a : a # did => (a \in ShownIn(log', val) <=> a \in ShownIn(log, val))
      BY <2>4, <3>1
    <3>3. CASE neg
      BY <2>2, <2>3, <2>4, <3>1, <3>2, <3>3
    <3>4. CASE ~ neg
      BY <2>2, <2>3, <2>4, <3>1, <3>2, <3>4
    <3> QED
      BY <3>1, <3>3, <3>4
  <2>6. \A val : Shown(val)' = ShownIn(log', val) /\ Shown(val) = ShownIn(log, val)
    BY ShownFactsNext, ShownFacts
  <2>7. InForce = Lasting(log) /\ InForce' = Lasting(log')
    BY LastingIsInForce, LastingIsInForceNext
  <2> QED
    BY <2>4, <2>5, <2>6, <2>7 DEF IsOwn
<1> QED
  BY <1>1, UpdateInvHolds, PTL DEF Spec, MovesTowardsTheList
=============================================================================
