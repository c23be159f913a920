--------------------------- MODULE Labeler_proofs ---------------------------
(* Theorems about the label server: its write path, for any number of writers,
   requests and attempts; the writers and the streams together; and the poller
   that posts to it.

   Type correctness, and that rows are never rewritten, hold with both engines;
   the rest is proved of SQLite, whose locks make the transactions serial.

   What is proved of the streams carries over through an instance of the module
   with its proofs: SP names the same formulas as S.  The writers' invariant is
   kept by the streams' steps too, and the whole implements the specification
   of the streams, which gives their invariant; ViewOK is proved on top of
   both.                                                                    *)
EXTENDS Labeler, PollerServer, SeqNumbers_proofs

SP == INSTANCE Subscribe_proofs WITH
        seqs <- DOMAIN log,
        lastKey <- sentKey,
        InOrder <- (Engine = "sqlite")

-----------------------------------------------------------------------------
(* Facts about logs. *)

LEMMA LastSeqIsTop ==
    ASSUME NEW l, IsLog(l)
    PROVE  IsTop(LastSeq(l), DOMAIN l) /\ LastSeq(l) \in Nat
<1>1. DOMAIN l \in SUBSET Nat /\ IsFiniteSet(DOMAIN l)
  BY DEF IsLog, Seqs
<1> QED
  BY <1>1, TopIsTop DEF LastSeq

LEMMA EmptyLogIsLog == IsLog(EmptyLog) /\ DOMAIN EmptyLog = {}
BY FS_EmptySet DEF IsLog, EmptyLog

LEMMA WithRowIsLog ==
    ASSUME NEW l, IsLog(l), NEW seq \in Seqs, NEW e \in Entry
    PROVE  /\ IsLog(WithRow(l, seq, e))
           /\ DOMAIN WithRow(l, seq, e) = DOMAIN l \cup {seq}
           /\ WithRow(l, seq, e)[seq] = e
           /\ \A s \in DOMAIN l : s # seq => WithRow(l, seq, e)[s] = l[s]
<1> DEFINE r == WithRow(l, seq, e)
<1>1. DOMAIN r = DOMAIN l \cup {seq}
  BY DEF WithRow
<1>2. r[seq] = e /\ \A s \in DOMAIN l : s # seq => r[s] = l[s]
  BY DEF WithRow
<1>3. DOMAIN r \in SUBSET Seqs
  BY <1>1 DEF IsLog
<1>4. IsFiniteSet(DOMAIN r)
  BY <1>1, FS_AddElement DEF IsLog
<1>5. r \in [DOMAIN r -> Entry]
  BY <1>1 DEF WithRow, IsLog
<1> QED
  BY <1>1, <1>2, <1>3, <1>4, <1>5 DEF IsLog

-----------------------------------------------------------------------------
(* Type correctness. *)

LEMMA EntryOfIsEntry ==
    ASSUME NEW label \in Requests, ~ Refused(label)
    PROVE  EntryOf(label) \in Entry
<1>1. label \in Label
  BY WriteLabelAssumption
<1>2. SourceOf(label) \in Srcs
  BY <1>1, WriteLabelAssumption, NoSrcAssumption DEF Refused, SourceOf, Label
<1> QED
  BY <1>1, <1>2 DEF EntryOf, Label, Entry

LEMMA ReturnType ==
    ASSUME LocalsOK, NEW w \in Writers, NEW r \in Replies, Return(w, r)
    PROVE  LocalsOK'
BY WriteLabelAssumption DEF LocalsOK, Return, PCs, HoldsReserved

LEMMA FailAttemptType ==
    ASSUME LocalsOK, NEW w \in Writers, pc[w] # "idle", FailAttempt(w)
    PROVE  LocalsOK'
<1>1. CASE Retry(w, newSeq[w])
  <2>1. attempt[w] + 1 \in 0 .. MaxAttempts - 1
    BY <1>1, WriteLabelAssumption DEF LocalsOK, Retry, OutOfAttempts
  <2> QED
    BY <1>1, <2>1 DEF LocalsOK, Retry, NextAttempt, PCs, HoldsReserved
<1>2. CASE GiveUp(w)
  BY <1>2, ReturnType DEF GiveUp, Replies
<1> QED
  BY <1>1, <1>2 DEF FailAttempt

LEMMA RowSeqType ==
    ASSUME TypeOK, NEW w \in Writers
    PROVE  RowSeq(w) \in Seqs /\ NextCounter(w) \in Nat
<1>1. LastSeq(log) \in Nat
  BY LastSeqIsTop DEF TypeOK
<1>2. LastUsed \in Nat
  BY <1>1 DEF LastUsed, TypeOK
<1>3. newSeq[w] \in Nat
  BY DEF TypeOK, LocalsOK
<1>4. RowSeq(w) \in Seqs
  BY <1>2, <1>3 DEF RowSeq, Seqs
<1> QED
  BY <1>4 DEF NextCounter, TypeOK, Seqs

LEMMA InitType == Init => TypeOK
<1> SUFFICES ASSUME Init PROVE TypeOK
  OBVIOUS
<1>1. IsLog(log)
  BY EmptyLogIsLog DEF Init
<1>2. LocalsOK
  BY WriteLabelAssumption DEF Init, LocalsOK, PCs, Replies, HoldsReserved
<1> QED
  BY <1>1, <1>2 DEF TypeOK, Init

LEMMA StatementType ==
    ASSUME TypeOK, NEW w \in Writers, Statement(w)
    PROVE  TypeOK'
<1> USE DEF TypeOK
<1>0. /\ IsLog(log) /\ seqCounter \in Nat /\ allowed \in AllowedSets
      /\ wakes \in Nat /\ LocalsOK
  OBVIOUS
<1>1. CASE ReadLastKey(w)
  <2>1. LastSeq(log) \in Nat
    BY <1>0, LastSeqIsTop
  <2> QED
    BY <1>0, <1>1, <2>1 DEF ReadLastKey, LocalsOK, PCs, HoldsReserved, store
<1>2. CASE ReadMatch(w)
  BY <1>0, <1>2 DEF ReadMatch, LocalsOK, PCs, HoldsReserved, store
<1>3. CASE ReadMatchNoOp(w)
  <2>1. LocalsOK'
    BY <1>0, <1>3, ReturnType DEF ReadMatchNoOp, NoOpReply, Replies
  <2> QED
    BY <1>0, <1>3, <2>1 DEF ReadMatchNoOp, store
<1>4. CASE Create(w)
  <2>1. RowSeq(w) \in Seqs /\ RowSeq(w) \in Nat /\ NextCounter(w) \in Nat
    BY RowSeqType DEF Seqs
  <2>2. LocalsOK'
    BY <1>0, <1>4, <2>1 DEF Create, LocalsOK, PCs, HoldsReserved
  <2> QED
    BY <1>0, <1>4, <2>1, <2>2 DEF Create
<1>5. CASE CreateConflicts(w)
  <2>1. LocalsOK'
    BY <1>0, <1>5, FailAttemptType DEF CreateConflicts
  <2> QED
    BY <1>0, <1>5, <2>1, RowSeqType DEF CreateConflicts
<1>6. CASE CountConcurrent(w)
  BY <1>0, <1>6 DEF CountConcurrent, LocalsOK, PCs, HoldsReserved, store
<1>7. CASE CountConcurrentFails(w)
  <2>1. LocalsOK'
    BY <1>0, <1>7, FailAttemptType DEF CountConcurrentFails
  <2> QED
    BY <1>0, <1>7, <2>1 DEF CountConcurrentFails, store
<1>8. ASSUME pc[w] = "commit", log' = WithRow(log, newSeq[w], req[w])
      PROVE  IsLog(log')
  <2>1. newSeq[w] \in Seqs /\ req[w] \in Entry
    BY <1>0, <1>8 DEF LocalsOK, HoldsReserved
  <2> QED
    BY <1>0, <1>8, <2>1, WithRowIsLog
<1>9. CASE Commit(w)
  <2>1. LocalsOK'
    BY <1>0, <1>9, ReturnType DEF Commit, Replies
  <2>2. IsLog(log')
    BY <1>8, <1>9 DEF Commit
  <2> QED
    BY <1>0, <1>9, <2>1, <2>2 DEF Commit
<1>10. CASE CommitUnacknowledged(w)
  <2>1. LocalsOK'
    BY <1>0, <1>10, FailAttemptType DEF CommitUnacknowledged
  <2>2. IsLog(log')
    BY <1>8, <1>10 DEF CommitUnacknowledged
  <2> QED
    BY <1>0, <1>10, <2>1, <2>2 DEF CommitUnacknowledged
<1>11. CASE TxError(w)
  <2>1. LocalsOK'
    BY <1>0, <1>11, FailAttemptType DEF TxError
  <2> QED
    BY <1>0, <1>11, <2>1 DEF TxError, store
<1> QED
  BY <1>1, <1>2, <1>3, <1>4, <1>5, <1>6, <1>7, <1>9, <1>10, <1>11 DEF Statement

LEMMA NextType == TypeOK /\ [Next]_vars => TypeOK'
<1> SUFFICES ASSUME TypeOK, [Next]_vars PROVE TypeOK'
  OBVIOUS
<1> USE DEF TypeOK
<1>0. /\ IsLog(log) /\ seqCounter \in Nat /\ allowed \in AllowedSets
      /\ wakes \in Nat /\ LocalsOK
  OBVIOUS
<1>1. CASE \E w \in Writers, label \in Requests : AddLabelRefused(w, label)
  BY <1>0, <1>1 DEF AddLabelRefused, LocalsOK, Replies, HoldsReserved, store
<1>2. CASE \E w \in Writers, label \in Requests : AddLabel(w, label)
  <2>1. PICK w \in Writers, label \in Requests : AddLabel(w, label)
    BY <1>2
  <2>2. EntryOf(label) \in Entry
    BY <2>1, EntryOfIsEntry DEF AddLabel
  <2> QED
    BY <1>0, <2>1, <2>2 DEF AddLabel, LocalsOK, PCs, Replies, HoldsReserved, store
<1>3. CASE \E w \in Writers : Statement(w)
  BY <1>3, StatementType
<1>4. CASE Crash
  <2>1. LocalsOK'
    BY <1>4, WriteLabelAssumption DEF Crash, LocalsOK, PCs, Replies, HoldsReserved
  <2> QED
    BY <1>0, <1>4, <2>1 DEF Crash, store
<1>5. CASE UNCHANGED vars
  BY <1>0, <1>5 DEF vars, locals, LocalsOK, HoldsReserved
<1> QED
  BY <1>1, <1>2, <1>3, <1>4, <1>5 DEF Next

(* Type correctness with both engines; in particular a call makes at most
   MaxAttempts attempts, and only numbers above 0 are ever inserted. *)
THEOREM TypeCorrect == Spec => []TypeOK
<1>1. Init => TypeOK
  BY InitType
<1>2. TypeOK /\ [Next]_vars => TypeOK'
  BY NextType
<1> QED
  BY <1>1, <1>2, PTL DEF Spec

-----------------------------------------------------------------------------
(* SQLite: what a transaction has read stays true until it ends. *)

LEMMA MatchIsTop ==
    ASSUME NEW l, IsLog(l), NEW e, NEW n \in Int
    PROVE  /\ IsTop(LatestMatch(l, e, n), Matching(l, e, n))
           /\ LatestMatch(l, e, n) \in Nat
<1>1. Matching(l, e, n) \in SUBSET Nat
  BY DEF Matching, IsLog, Seqs
<1>2. IsFiniteSet(Matching(l, e, n))
  <2>1. Matching(l, e, n) \in SUBSET DOMAIN l
    BY DEF Matching
  <2> QED
    BY <2>1, FS_Subset DEF IsLog
<1> QED
  BY <1>1, <1>2, TopIsTop DEF LatestMatch

(* A row at the next number: it is the last, and what matched before it still
   does. *)
LEMMA NextRow ==
    ASSUME NEW l, IsLog(l), DOMAIN l = 1 .. LastSeq(l), NEW e \in Entry,
           NEW next, next = LastSeq(l) + 1, NEW r, r = WithRow(l, next, e)
    PROVE  /\ LastSeq(r) = next
           /\ DOMAIN r = 1 .. next
           /\ r[next] = e
           /\ \A s \in DOMAIN l : r[s] = l[s]
           /\ \A x, n : n \in Int /\ n <= LastSeq(l) => Matching(r, x, n) = Matching(l, x, n)
<1>1. LastSeq(l) \in Nat /\ next \in Seqs /\ next \in Nat
  BY LastSeqIsTop DEF Seqs
<1>2. /\ IsLog(r)
      /\ DOMAIN r = DOMAIN l \cup {next}
      /\ r[next] = e
      /\ \A s \in DOMAIN l : s # next => r[s] = l[s]
  <2>1. /\ IsLog(WithRow(l, next, e))
        /\ DOMAIN WithRow(l, next, e) = DOMAIN l \cup {next}
        /\ WithRow(l, next, e)[next] = e
        /\ \A s \in DOMAIN l : s # next => WithRow(l, next, e)[s] = l[s]
    BY ONLY IsLog(l), e \in Entry, <1>1, WithRowIsLog
  <2> QED
    BY <2>1
<1>3. next \notin DOMAIN l
  BY <1>1
<1>4. DOMAIN r = 1 .. next
  <2>1. (1 .. LastSeq(l)) \cup {next} = 1 .. next
    BY <1>1
  <2> QED
    BY <1>2, <2>1
<1>5. LastSeq(r) = next
  <2>1. IsTop(next, DOMAIN r)
    BY <1>1, <1>4 DEF IsTop
  <2>2. DOMAIN r \in SUBSET Nat /\ next \in Nat
    BY <1>1, <1>4
  <2> QED
    BY <2>1, <2>2, TopUnique DEF LastSeq
<1>6. \A s \in DOMAIN l : r[s] = l[s]
  BY <1>2, <1>3
<1>7. ASSUME NEW x, NEW n \in Int, n <= LastSeq(l)
      PROVE  Matching(r, x, n) = Matching(l, x, n)
  <2>1. {s \in DOMAIN r : s <= n} = {s \in DOMAIN l : s <= n}
    BY <1>1, <1>2, <1>7
  <2> QED
    BY <1>6, <2>1 DEF Matching
<1> QED
  BY <1>2, <1>4, <1>5, <1>6, <1>7

(* A step that leaves the log alone keeps the invariant if each writer is
   where it was, or starts a statement that the invariant allows. *)
Serial ==
    /\ SnapshotsStayValid
    /\ \A v, w \in Writers : v # w /\ HoldsReserved(v) => ~ HoldsReserved(w)
    /\ \A w \in Writers : newSeq[w] <= LastSeq(log) + 1

LEMMA SameLog ==
    ASSUME SerialInv, log' = log
    PROVE  /\ NoRedundantEntries'
           /\ (DOMAIN log = 1 .. LastSeq(log))'
           /\ LastSeq(log)' = LastSeq(log)
BY DEF SerialInv, NoRedundantEntries

LEMMA ReturnSerial ==
    ASSUME SerialInv, NEW w \in Writers, NEW r, Return(w, r), log' = log
    PROVE  Serial'
<1>1. pc \in [Writers -> PCs] /\ newSeq \in [Writers -> Nat] /\ lastKey \in [Writers -> Nat]
      /\ req \in [Writers -> Entry \cup {NoRequest}]
  BY DEF SerialInv, TypeOK, LocalsOK
<1>2. LastSeq(log) \in Nat
  BY LastSeqIsTop DEF SerialInv, TypeOK
<1> QED
  BY <1>1, <1>2 DEF SerialInv, Serial, SnapshotsStayValid, Return, HoldsShared, HoldsReserved

LEMMA FailAttemptSerial ==
    ASSUME SerialInv, NEW w \in Writers, FailAttempt(w), log' = log
    PROVE  Serial'
<1>1. CASE Retry(w, newSeq[w])
  <2>1. pc \in [Writers -> PCs] /\ newSeq \in [Writers -> Nat] /\ lastKey \in [Writers -> Nat]
    BY DEF SerialInv, TypeOK, LocalsOK
  <2> QED
    BY <1>1, <2>1 DEF SerialInv, Serial, SnapshotsStayValid, Retry, HoldsShared, HoldsReserved
<1>2. CASE GiveUp(w)
  BY <1>2, ReturnSerial DEF GiveUp
<1> QED
  BY <1>1, <1>2 DEF FailAttempt

LEMMA StatementSerial ==
    ASSUME Engine = "sqlite", SerialInv, NEW w \in Writers, Statement(w), log' = log
    PROVE  Serial'
<1>0. /\ pc \in [Writers -> PCs] /\ newSeq \in [Writers -> Nat]
      /\ lastKey \in [Writers -> Nat] /\ LastSeq(log) \in Nat
      /\ Serial
  BY LastSeqIsTop DEF SerialInv, Serial, TypeOK, LocalsOK
<1> USE DEF Serial, SnapshotsStayValid, HoldsShared, HoldsReserved
<1>1. CASE ReadLastKey(w)
  BY <1>0, <1>1 DEF ReadLastKey
<1>2. CASE ReadMatch(w)
  BY <1>0, <1>2 DEF ReadMatch, Found
<1>3. CASE ReadMatchNoOp(w)
  BY <1>3, ReturnSerial DEF ReadMatchNoOp
<1>4. CASE Create(w)
  <2>1. RowSeq(w) = LastSeq(log) + 1
    <3>1. DOMAIN log = 1 .. LastSeq(log) /\ newSeq[w] \in Nat /\ newSeq[w] <= LastSeq(log) + 1
      BY <1>0 DEF SerialInv
    <3> QED
      BY <1>0, <1>4, <3>1 DEF Create, Conflicts, RowSeq, LastUsed
  <2>2. \A v \in Writers \ {w} : ~ HoldsReserved(v)
    BY <1>4 DEF Create, CanReserve
  <2> QED
    BY <1>0, <1>4, <2>1, <2>2 DEF Create
<1>5. CASE CreateConflicts(w)
  BY <1>5, FailAttemptSerial DEF CreateConflicts
<1>6. CASE CountConcurrent(w)
  BY <1>0, <1>6 DEF CountConcurrent
<1>7. CASE CountConcurrentFails(w)
  BY <1>7, FailAttemptSerial DEF CountConcurrentFails
<1>8. CASE Commit(w)
  <2>1. pc[w] = "commit" /\ newSeq[w] = LastSeq(log) + 1
    BY <1>0, <1>8 DEF Commit
  <2>2. newSeq[w] \in DOMAIN log
    BY <1>8 DEF Commit, WithRow
  <2> QED
    BY <1>0, <2>1, <2>2 DEF SerialInv
<1>9. CASE CommitUnacknowledged(w)
  BY <1>9 DEF CommitUnacknowledged
<1>10. CASE TxError(w)
  BY <1>10, FailAttemptSerial DEF TxError
<1> QED
  BY <1>1, <1>2, <1>3, <1>4, <1>5, <1>6, <1>7, <1>8, <1>9, <1>10 DEF Statement

(* A COMMIT adds the next row; no other transaction is past its first query. *)
LEMMA CommitSerial ==
    ASSUME Engine = "sqlite", SerialInv, NEW w \in Writers, Commit(w)
    PROVE  /\ NoRedundantEntries'
           /\ (DOMAIN log = 1 .. LastSeq(log))'
           /\ Serial'
           /\ DOMAIN log' = DOMAIN log \cup {LastSeq(log) + 1}
           /\ \A s \in DOMAIN log : log'[s] = log[s]
<1> DEFINE next == LastSeq(log) + 1
<1>0. /\ IsLog(log) /\ DOMAIN log = 1 .. LastSeq(log)
      /\ pc \in [Writers -> PCs] /\ newSeq \in [Writers -> Nat]
      /\ lastKey \in [Writers -> Nat] /\ LastSeq(log) \in Nat
  BY LastSeqIsTop DEF SerialInv, TypeOK, LocalsOK
<1>1. /\ pc[w] = "commit" /\ req[w] \in Entry /\ newSeq[w] = next
      /\ ~ IsNoOp(log, req[w], LatestMatch(log, req[w], LastSeq(log)))
  BY DEF SerialInv, TypeOK, LocalsOK, SnapshotsStayValid, Commit, HoldsReserved
<1>2. log' = WithRow(log, next, req[w])
  BY <1>1 DEF Commit
<1>3. /\ LastSeq(log') = next
      /\ DOMAIN log' = 1 .. next
      /\ log'[next] = req[w]
      /\ \A s \in DOMAIN log : log'[s] = log[s]
      /\ \A x, n : n \in Int /\ n <= LastSeq(log) => Matching(log', x, n) = Matching(log, x, n)
  <2> HIDE DEF next
  <2>1. next = LastSeq(log) + 1
    BY DEF next
  <2> QED
    BY <1>0, <1>1, <1>2, <2>1, NextRow
<1>4. DOMAIN log' = DOMAIN log \cup {next}
  <2>1. 1 .. next = (1 .. LastSeq(log)) \cup {next}
    BY <1>0
  <2> QED
    BY <1>0, <1>3, <2>1
<1>5. NoRedundantEntries'
  <2> SUFFICES ASSUME NEW s \in DOMAIN log', NEW prev, prev = LatestMatch(log', log'[s], s - 1)
               PROVE  IF prev = 0 THEN ~ log'[s].neg
                      ELSE log'[prev].neg # log'[s].neg \/ log'[prev].exp # log'[s].exp
    BY DEF NoRedundantEntries
  <2>1. s \in Nat /\ s - 1 \in Int /\ s - 1 <= LastSeq(log)
    BY <1>0, <1>3
  <2>2. prev = LatestMatch(log, log'[s], s - 1)
    BY <1>3, <2>1 DEF LatestMatch
  <2>3. prev # 0 => prev \in DOMAIN log
    BY <1>0, <2>1, <2>2, MatchIsTop DEF IsTop, Matching
  <2>4. prev # 0 => log'[prev] = log[prev]
    BY <1>3, <2>3
  <2>5. CASE s \in DOMAIN log
    BY <1>3, <2>2, <2>4, <2>5 DEF SerialInv, NoRedundantEntries
  <2>6. CASE s = next
    <3>1. s - 1 = LastSeq(log) /\ log'[s] = req[w]
      BY <1>0, <1>3, <2>6
    <3>2. ~ IsNoOp(log, req[w], prev)
      BY <1>1, <2>2, <3>1
    <3> QED
      BY <2>4, <3>1, <3>2 DEF IsNoOp
  <2> QED
    BY <1>4, <2>5, <2>6
<1>6. Serial'
  <2>1. \A v \in Writers \ {w} : ~ HoldsShared(v)
    BY DEF Commit, CanCommit
  <2>2. LastSeq(log)' = LastSeq(log) + 1
    BY <1>3
  <2>3. pc' = [pc EXCEPT ![w] = "idle"] /\ newSeq' = [newSeq EXCEPT ![w] = 0]
    BY DEF Commit, Return
  <2>4. \A v \in Writers : ~ HoldsShared(v)'
    BY <1>0, <2>1, <2>3 DEF HoldsShared
  <2>5. \A v \in Writers : newSeq'[v] <= LastSeq(log)' + 1
    BY <1>0, <2>2, <2>3 DEF SerialInv
  <2> QED
    BY <2>4, <2>5 DEF Serial, SnapshotsStayValid, HoldsShared, HoldsReserved
<1> QED
  BY <1>3, <1>4, <1>5, <1>6

(* Only a COMMIT changes the table. *)
LEMMA OnlyCommitWrites ==
    ASSUME Engine = "sqlite", [Next]_vars, log' # log
    PROVE  \E w \in Writers : Commit(w)
BY DEF Next, vars, store, Statement, AddLabelRefused, AddLabel, ReadLastKey, ReadMatch,
       ReadMatchNoOp, Create, CreateConflicts, CountConcurrent, CountConcurrentFails,
       CommitUnacknowledged, TxError, Crash

LEMMA SerialInit == Init => SerialInv
<1> SUFFICES ASSUME Init PROVE SerialInv
  OBVIOUS
<1>1. TypeOK
  BY InitType
<1>2. DOMAIN log = {}
  BY EmptyLogIsLog DEF Init
<1>3. LastSeq(log) = 0
  BY <1>2, TopUnique DEF LastSeq, IsTop
<1>4. NoRedundantEntries
  BY <1>2 DEF NoRedundantEntries
<1>5. Serial
  BY <1>3 DEF Init, Serial, SnapshotsStayValid, HoldsShared, HoldsReserved
<1>6. DOMAIN log = 1 .. LastSeq(log)
  BY <1>2, <1>3
<1> QED
  BY <1>1, <1>3, <1>4, <1>5, <1>6 DEF SerialInv, Serial

LEMMA SerialNext ==
    ASSUME Engine = "sqlite", SerialInv, [Next]_vars
    PROVE  SerialInv'
<1>1. TypeOK'
  BY NextType DEF SerialInv
<1>2. CASE log' = log
  <2>1. NoRedundantEntries' /\ (DOMAIN log = 1 .. LastSeq(log))'
    BY <1>2, SameLog
  <2>2. Serial'
    <3>0. /\ LastSeq(log)' = LastSeq(log) /\ LastSeq(log) \in Nat /\ Serial
          /\ pc \in [Writers -> PCs] /\ req \in [Writers -> Entry \cup {NoRequest}]
      BY <1>2, SameLog, LastSeqIsTop DEF SerialInv, Serial, TypeOK, LocalsOK
    <3>1. CASE \E w \in Writers, label \in Requests : AddLabelRefused(w, label)
      BY <1>2, <3>0, <3>1 DEF AddLabelRefused, Serial, SnapshotsStayValid, HoldsShared, HoldsReserved
    <3>2. CASE \E w \in Writers, label \in Requests : AddLabel(w, label)
      BY <1>2, <3>0, <3>2 DEF AddLabel, Serial, SnapshotsStayValid, HoldsShared, HoldsReserved
    <3>3. CASE \E w \in Writers : Statement(w)
      BY <1>2, <3>3, StatementSerial
    <3>4. CASE Crash
      BY <1>2, <3>0, <3>4 DEF Crash, Serial, SnapshotsStayValid, HoldsShared, HoldsReserved
    <3>5. CASE UNCHANGED vars
      BY <3>0, <3>5 DEF vars, locals, Serial, SnapshotsStayValid, HoldsShared, HoldsReserved
    <3> QED
      BY <3>1, <3>2, <3>3, <3>4, <3>5 DEF Next
  <2> QED
    BY <1>1, <2>1, <2>2 DEF SerialInv, Serial
<1>3. CASE \E w \in Writers : Commit(w)
  <2>1. NoRedundantEntries' /\ (DOMAIN log = 1 .. LastSeq(log))' /\ Serial'
    BY <1>3, CommitSerial
  <2> QED
    BY <1>1, <2>1 DEF SerialInv, Serial
<1>4. CASE log' # log
  BY <1>3, <1>4, OnlyCommitWrites
<1> QED
  BY <1>2, <1>4

(* With SQLite, no interleaving of writers, failed attempts, retries and
   crashes writes an entry without effect. *)
THEOREM NothingRedundant ==
    ASSUME Engine = "sqlite"
    PROVE  Spec => []NoRedundantEntries
<1>1. Init => SerialInv
  BY SerialInit
<1>2. SerialInv /\ [Next]_vars => SerialInv'
  BY SerialNext
<1>3. SerialInv => NoRedundantEntries
  BY DEF SerialInv
<1> QED
  BY <1>1, <1>2, <1>3, PTL DEF Spec

(* With SQLite, what a transaction has read is still true when it commits. *)
THEOREM SnapshotsValid ==
    ASSUME Engine = "sqlite"
    PROVE  Spec => []SnapshotsStayValid
<1>1. Init => SerialInv
  BY SerialInit
<1>2. SerialInv /\ [Next]_vars => SerialInv'
  BY SerialNext
<1>3. SerialInv => SnapshotsStayValid
  BY DEF SerialInv
<1> QED
  BY <1>1, <1>2, <1>3, PTL DEF Spec

(* With SQLite, the log only grows, by the next number, and nothing in it
   changes. *)
THEOREM OnlyAppends ==
    ASSUME Engine = "sqlite"
    PROVE  Spec => AppendOnly
<1> DEFINE Appends == /\ DOMAIN log' = DOMAIN log \cup {LastSeq(log) + 1}
                      /\ \A s \in DOMAIN log : log'[s] = log[s]
<1>1. Init => SerialInv
  BY SerialInit
<1>2. SerialInv /\ [Next]_vars => SerialInv'
  BY SerialNext
<1>3. SerialInv /\ [Next]_vars => [Appends]_log
  <2> SUFFICES ASSUME SerialInv, [Next]_vars, log' # log PROVE Appends
    OBVIOUS
  <2>1. PICK w \in Writers : Commit(w)
    BY OnlyCommitWrites
  <2> QED
    BY <2>1, CommitSerial
<1> QED
  BY <1>1, <1>2, <1>3, PTL DEF Spec, AppendOnly

-----------------------------------------------------------------------------
(* SQLite: the calls are atomic.  The refinement mapping is the identity on the
   log and the replies, and a call is pending in LabelStore from the moment its
   writer leaves "idle". *)

(* LabelStore reads and writes the log with the operators of LabelLog. *)
LEMMA StoreOperators ==
    /\ Store!EmptyLog = EmptyLog
    /\ Store!Entry = Entry
    /\ \A l, seq, e : Store!WithRow(l, seq, e) = WithRow(l, seq, e)
    /\ \A l : Store!LastSeq(l) = LastSeq(l)
    /\ \A l, e, n : Store!LatestMatch(l, e, n) = LatestMatch(l, e, n)
    /\ \A l, e, prev : Store!IsNoOp(l, e, prev) <=> IsNoOp(l, e, prev)
<1>1. \A X : Store!Top(X) = Top(X)
  BY DEF Store!Top, Top, Store!IsTop, IsTop
<1>2. \A l, e, n : Store!Matching(l, e, n) = Matching(l, e, n)
  BY DEF Store!Matching, Matching, Store!SameKey, SameKey
<1> QED
  BY <1>1, <1>2 DEF Store!EmptyLog, EmptyLog, Store!Entry, Entry, Store!WithRow, WithRow,
       Store!LastSeq, LastSeq, Store!LatestMatch, LatestMatch, Store!IsNoOp, IsNoOp

LEMMA StoreInit == Init => Store!Init
BY StoreOperators DEF Init, Store!Init

(* A transaction that fails is a call that fails, or no step at all. *)
LEMMA FailAttemptImplements ==
    ASSUME TypeOK, NEW w \in Writers, pc[w] # "idle", FailAttempt(w), log' = log
    PROVE  [Store!Next]_Store!vars
<1>1. CASE Retry(w, newSeq[w])
  BY <1>1 DEF Retry, Store!vars
<1>2. CASE GiveUp(w)
  <2>1. req[w] # NoRequest
    BY WriteLabelAssumption DEF TypeOK, LocalsOK
  <2>2. Store!Fail(w)
    BY <1>2, <2>1 DEF GiveUp, Return, Store!Fail, Store!Answer
  <2> QED
    BY <2>2 DEF Store!Next
<1> QED
  BY <1>1, <1>2 DEF FailAttempt

LEMMA StatementImplements ==
    ASSUME Engine = "sqlite", SerialInv, NEW w \in Writers, Statement(w)
    PROVE  [Store!Next]_Store!vars
<1>0. /\ TypeOK
      /\ pc[w] # "idle" => req[w] \in Entry /\ req[w] # NoRequest
      /\ DOMAIN log = 1 .. LastSeq(log)
      /\ SnapshotsStayValid
  BY WriteLabelAssumption DEF SerialInv, TypeOK, LocalsOK
<1>1. CASE ReadLastKey(w)
  BY <1>1 DEF ReadLastKey, store, Store!vars
<1>2. CASE ReadMatch(w)
  BY <1>2 DEF ReadMatch, store, Store!vars
<1>3. CASE ReadMatchNoOp(w)
  <2>1. lastKey[w] = LastSeq(log) /\ pc[w] # "idle"
    BY <1>0, <1>3 DEF ReadMatchNoOp, SnapshotsStayValid, HoldsShared
  <2>2. Store!NoEffect(w)
    BY <1>3, <2>1, StoreOperators DEF ReadMatchNoOp, Found, Store!NoEffect
  <2>3. Store!Ignore(w)
    BY <1>0, <1>3, <2>1, <2>2 DEF ReadMatchNoOp, NoOpReply, Return, store, Store!Ignore, Store!Answer
  <2> QED
    BY <2>3 DEF Store!Next
<1>4. CASE Create(w)
  BY <1>4 DEF Create, Store!vars
<1>5. CASE CreateConflicts(w)
  BY <1>0, <1>5, FailAttemptImplements DEF CreateConflicts
<1>6. CASE CountConcurrent(w)
  BY <1>6 DEF CountConcurrent, store, Store!vars
<1>7. CASE CountConcurrentFails(w)
  BY <1>0, <1>7, FailAttemptImplements DEF CountConcurrentFails, store
<1>8. CASE Commit(w)
  <2>1. pc[w] = "commit" /\ newSeq[w] = LastSeq(log) + 1
    BY <1>0, <1>8 DEF Commit, SnapshotsStayValid, HoldsReserved
  <2>2. ~ Store!NoEffect(w)
    BY <1>0, <2>1, StoreOperators DEF SnapshotsStayValid, Store!NoEffect
  <2>3. Store!Append(w)
    BY <1>0, <1>8, <2>1, <2>2, StoreOperators DEF Commit, Return, Store!Append, Store!Answer
  <2> QED
    BY <2>3 DEF Store!Next
<1>9. CASE CommitUnacknowledged(w)
  BY <1>9 DEF CommitUnacknowledged
<1>10. CASE TxError(w)
  BY <1>0, <1>10, FailAttemptImplements DEF TxError, store
<1> QED
  BY <1>1, <1>2, <1>3, <1>4, <1>5, <1>6, <1>7, <1>8, <1>9, <1>10 DEF Statement

LEMMA StepImplements ==
    ASSUME Engine = "sqlite", SerialInv, [Next]_vars
    PROVE  [Store!Next]_Store!vars
<1>0. \A w \in Writers : pc[w] = "idle" => req[w] = NoRequest
  BY DEF SerialInv, TypeOK, LocalsOK
<1>1. CASE \E w \in Writers, label \in Requests : AddLabelRefused(w, label)
  <2>1. PICK w \in Writers, label \in Requests : AddLabelRefused(w, label)
    BY <1>1
  <2>2. Store!Refuse(w)
    BY <1>0, <2>1 DEF AddLabelRefused, store, Store!Refuse
  <2> QED
    BY <2>2 DEF Store!Next
<1>2. CASE \E w \in Writers, label \in Requests : AddLabel(w, label)
  <2>1. PICK w \in Writers, label \in Requests : AddLabel(w, label)
    BY <1>2
  <2>2. EntryOf(label) \in Entry
    BY <2>1, EntryOfIsEntry DEF AddLabel
  <2>3. Store!Call(w, EntryOf(label))
    BY <1>0, <2>1 DEF AddLabel, store, Store!Call
  <2> QED
    BY <2>2, <2>3, StoreOperators DEF Store!Next
<1>3. CASE \E w \in Writers : Statement(w)
  BY <1>3, StatementImplements
<1>4. CASE Crash
  <2>1. Store!Crash
    BY <1>4 DEF Crash, store, Store!Crash
  <2> QED
    BY <2>1 DEF Store!Next
<1>5. CASE UNCHANGED vars
  BY <1>5 DEF vars, locals, Store!vars
<1> QED
  BY <1>1, <1>2, <1>3, <1>4, <1>5 DEF Next

(* With SQLite, the transaction of writeLabel with its retries, lock failures
   and crashes implements the atomic store that AddLabel promises: a call
   takes effect at its COMMIT or at the query that shows it has none, and a
   call that reports an error had no effect. *)
THEOREM CallsAreAtomic ==
    ASSUME Engine = "sqlite"
    PROVE  Spec => ImplementsStore
<1>1. Init => SerialInv
  BY SerialInit
<1>2. SerialInv /\ [Next]_vars => SerialInv'
  BY SerialNext
<1>3. Init => Store!Init
  BY StoreInit
<1>4. SerialInv /\ [Next]_vars => [Store!Next]_Store!vars
  BY StepImplements
<1> QED
  BY <1>1, <1>2, <1>3, <1>4, PTL DEF Spec, ImplementsStore, Store!Spec

-----------------------------------------------------------------------------
(* PostgreSQL: numbers come from a sequence, and transactions do not wait for
   one another. *)

(* The part of UniqueInv that a step of the writers can disturb. *)
Unique ==
    /\ \A s \in DOMAIN log : s <= seqCounter
    /\ \A w \in Writers : newSeq[w] <= seqCounter
    /\ \A v, w \in Writers : v # w /\ newSeq[v] # 0 => newSeq[v] # newSeq[w]
    /\ \A w \in Writers : HoldsReserved(w) => newSeq[w] \notin DOMAIN log

(* The writer goes back to "begin" or "idle" and keeps its number or drops it;
   the sequence, if it moves, moves up. *)
LEMMA FailAttemptUnique ==
    ASSUME UniqueInv, NEW w \in Writers, FailAttempt(w), log' = log,
           seqCounter' \in Nat, seqCounter' >= seqCounter
    PROVE  Unique'
<1>0. /\ pc \in [Writers -> PCs] /\ newSeq \in [Writers -> Nat] /\ seqCounter \in Nat
      /\ \A s \in DOMAIN log : s \in Nat
      /\ Unique
  BY DEF UniqueInv, Unique, TypeOK, LocalsOK, IsLog, Seqs
<1>1. newSeq' = [newSeq EXCEPT ![w] = newSeq[w]] \/ newSeq' = [newSeq EXCEPT ![w] = 0]
  BY DEF FailAttempt, Retry, GiveUp, Return
<1>2. pc' = [pc EXCEPT ![w] = "begin"] \/ pc' = [pc EXCEPT ![w] = "idle"]
  BY DEF FailAttempt, Retry, GiveUp, Return
<1>3. \A v \in Writers : newSeq'[v] \in {0, newSeq[v]}
  BY <1>0, <1>1
<1>4. \A v \in Writers : HoldsReserved(v)' => HoldsReserved(v) /\ v # w
  BY <1>0, <1>2 DEF HoldsReserved
<1>5. \A v \in Writers : v # w => newSeq'[v] = newSeq[v]
  BY <1>0, <1>1
<1>6. \A v \in Writers : newSeq'[v] <= seqCounter'
  BY <1>0, <1>3 DEF Unique
<1>7. \A s \in DOMAIN log' : s <= seqCounter'
  BY <1>0 DEF Unique
<1>8. \A u, v \in Writers : u # v /\ newSeq'[u] # 0 => newSeq'[u] # newSeq'[v]
  BY <1>0, <1>3 DEF Unique
<1> QED
  BY <1>0, <1>4, <1>5, <1>6, <1>7, <1>8 DEF Unique

(* A row is written under the number its writer holds. *)
LEMMA RowWritten ==
    ASSUME NEW w \in Writers, newSeq[w] \notin DOMAIN log,
           log' = WithRow(log, newSeq[w], req[w])
    PROVE  /\ DOMAIN log' = DOMAIN log \cup {newSeq[w]}
           /\ log'[newSeq[w]] = req[w]
           /\ \A s \in DOMAIN log : log'[s] = log[s]
BY DEF WithRow

LEMMA CreateUnique ==
    ASSUME Engine = "postgres", UniqueInv, NEW w \in Writers, Create(w)
    PROVE  Unique'
<1>0. /\ pc \in [Writers -> PCs] /\ newSeq \in [Writers -> Nat] /\ seqCounter \in Nat
      /\ \A s \in DOMAIN log : s \in Nat
      /\ Unique
  BY DEF UniqueInv, Unique, TypeOK, LocalsOK, IsLog, Seqs
<1>1. /\ pc' = [pc EXCEPT ![w] = "count"] /\ log' = log
      /\ newSeq' = [newSeq EXCEPT ![w] = RowSeq(w)] /\ RowSeq(w) \notin DOMAIN log
  BY DEF Create, Conflicts
<1>2. CASE newSeq[w] # 0
  <2>1. RowSeq(w) = newSeq[w] /\ seqCounter' = seqCounter
    BY <1>2 DEF Create, RowSeq, NextCounter
  <2>2. newSeq' = newSeq
    BY <1>0, <1>1, <2>1
  <2> QED
    BY <1>0, <1>1, <2>1, <2>2 DEF Unique, HoldsReserved
<1>3. CASE newSeq[w] = 0
  <2>1. RowSeq(w) = seqCounter + 1 /\ seqCounter' = seqCounter + 1
    BY <1>3 DEF Create, RowSeq, NextCounter, LastUsed
  <2>2. \A v \in Writers : newSeq'[v] = IF v = w THEN seqCounter + 1 ELSE newSeq[v]
    BY <1>0, <1>1, <2>1
  <2>3. \A s \in DOMAIN log' : s <= seqCounter'
    BY <1>0, <1>1, <2>1 DEF Unique
  <2>4. \A v \in Writers : newSeq'[v] <= seqCounter'
    BY <1>0, <2>1, <2>2 DEF Unique
  <2>5. \A u, v \in Writers : u # v /\ newSeq'[u] # 0 => newSeq'[u] # newSeq'[v]
    <3>1. \A v \in Writers : newSeq[v] # seqCounter + 1
      BY <1>0 DEF Unique
    <3> QED
      BY <1>0, <2>2, <3>1 DEF Unique
  <2>6. \A v \in Writers : HoldsReserved(v)' => newSeq'[v] \notin DOMAIN log'
    <3>1. seqCounter + 1 \notin DOMAIN log
      BY <1>1, <2>1
    <3> QED
      BY <1>0, <1>1, <2>2, <3>1 DEF Unique, HoldsReserved
  <2> QED
    BY <2>3, <2>4, <2>5, <2>6 DEF Unique
<1> QED
  BY <1>2, <1>3

(* A row that is committed takes its number away from nobody else. *)
LEMMA CommitUnique ==
    ASSUME UniqueInv, NEW w \in Writers, Commit(w) \/ CommitUnacknowledged(w)
    PROVE  Unique'
<1>0. /\ TypeOK /\ pc \in [Writers -> PCs] /\ newSeq \in [Writers -> Nat]
      /\ seqCounter \in Nat /\ seqCounter' = seqCounter
      /\ HoldsReserved(w) /\ newSeq[w] \in Seqs
      /\ Unique
  BY DEF UniqueInv, Unique, TypeOK, LocalsOK, Commit, CommitUnacknowledged, HoldsReserved
<1>1. DOMAIN log' = DOMAIN log \cup {newSeq[w]}
  <2>1. log' = WithRow(log, newSeq[w], req[w])
    BY DEF Commit, CommitUnacknowledged
  <2> QED
    BY <1>0, <2>1, RowWritten DEF Unique
<1>2. newSeq' = [newSeq EXCEPT ![w] = newSeq[w]] \/ newSeq' = [newSeq EXCEPT ![w] = 0]
  BY DEF Commit, CommitUnacknowledged, FailAttempt, Retry, GiveUp, Return
<1>3. pc' = [pc EXCEPT ![w] = "begin"] \/ pc' = [pc EXCEPT ![w] = "idle"]
  BY DEF Commit, CommitUnacknowledged, FailAttempt, Retry, GiveUp, Return
<1>4. \A v \in Writers : newSeq'[v] \in {0, newSeq[v]} /\ (v # w => newSeq'[v] = newSeq[v])
  BY <1>0, <1>2
<1>5. \A v \in Writers : HoldsReserved(v)' => HoldsReserved(v) /\ v # w
  BY <1>0, <1>3 DEF HoldsReserved
<1>6. \A s \in DOMAIN log' : s <= seqCounter'
  BY <1>0, <1>1 DEF Unique
<1>7. \A v \in Writers : newSeq'[v] <= seqCounter'
  BY <1>0, <1>4 DEF Unique
<1>8. \A u, v \in Writers : u # v /\ newSeq'[u] # 0 => newSeq'[u] # newSeq'[v]
  BY <1>0, <1>4 DEF Unique
<1>9. \A v \in Writers : HoldsReserved(v)' => newSeq'[v] \notin DOMAIN log'
  <2>1. newSeq[w] # 0
    BY <1>0 DEF Seqs
  <2> QED
    BY <1>0, <1>1, <1>4, <1>5, <2>1 DEF Unique
<1> QED
  BY <1>6, <1>7, <1>8, <1>9 DEF Unique

LEMMA StatementUnique ==
    ASSUME Engine = "postgres", UniqueInv, NEW w \in Writers, Statement(w)
    PROVE  Unique'
<1>0. /\ pc \in [Writers -> PCs] /\ newSeq \in [Writers -> Nat] /\ seqCounter \in Nat
      /\ \A s \in DOMAIN log : s \in Nat
      /\ Unique
  BY DEF UniqueInv, Unique, TypeOK, LocalsOK, IsLog, Seqs
<1>1. ASSUME newSeq' = newSeq, log' = log, seqCounter' = seqCounter,
             NEW to \in {"match", "insert", "commit"}, pc' = [pc EXCEPT ![w] = to],
             to = "commit" => HoldsReserved(w)
      PROVE  Unique'
  <2>1. \A v \in Writers : HoldsReserved(v)' => HoldsReserved(v)
    BY <1>0, <1>1 DEF HoldsReserved
  <2> QED
    BY <1>0, <1>1, <2>1 DEF Unique
<1>2. CASE ReadLastKey(w)
  BY <1>1, <1>2 DEF ReadLastKey, store
<1>3. CASE ReadMatch(w)
  BY <1>1, <1>3 DEF ReadMatch, store
<1>4. CASE ReadMatchNoOp(w)
  BY <1>0, <1>4 DEF ReadMatchNoOp, Return, store, Unique, HoldsReserved
<1>5. CASE Create(w)
  BY <1>5, CreateUnique
<1>6. CASE CreateConflicts(w)
  <2>1. seqCounter' \in Nat /\ seqCounter' >= seqCounter
    BY <1>0, <1>6 DEF CreateConflicts, NextCounter, RowSeq, LastUsed
  <2> QED
    BY <1>6, <2>1, FailAttemptUnique DEF CreateConflicts
<1>7. CASE CountConcurrent(w)
  BY <1>1, <1>7 DEF CountConcurrent, HoldsReserved, store
<1>8. CASE CountConcurrentFails(w)
  BY <1>0, <1>8, FailAttemptUnique DEF CountConcurrentFails, store
<1>9. CASE Commit(w) \/ CommitUnacknowledged(w)
  BY <1>9, CommitUnique
<1>10. CASE TxError(w)
  BY <1>0, <1>10, FailAttemptUnique DEF TxError, store
<1> QED
  BY <1>2, <1>3, <1>4, <1>5, <1>6, <1>7, <1>8, <1>9, <1>10 DEF Statement

LEMMA UniqueInit == Init => UniqueInv
<1> SUFFICES ASSUME Init PROVE UniqueInv
  OBVIOUS
<1>1. TypeOK
  BY InitType
<1>2. DOMAIN log = {}
  BY EmptyLogIsLog DEF Init
<1> QED
  BY <1>1, <1>2 DEF Init, UniqueInv, HoldsReserved

LEMMA UniqueNext ==
    ASSUME Engine = "postgres", UniqueInv, [Next]_vars
    PROVE  UniqueInv'
<1>0. /\ pc \in [Writers -> PCs] /\ newSeq \in [Writers -> Nat] /\ seqCounter \in Nat
      /\ \A s \in DOMAIN log : s \in Nat
      /\ Unique /\ TypeOK
  BY DEF UniqueInv, Unique, TypeOK, LocalsOK, IsLog, Seqs
<1>1. TypeOK'
  BY <1>0, NextType
<1>2. Unique'
  <2>1. CASE \E w \in Writers, label \in Requests : AddLabelRefused(w, label)
    BY <1>0, <2>1 DEF AddLabelRefused, store, Unique, HoldsReserved
  <2>2. CASE \E w \in Writers, label \in Requests : AddLabel(w, label)
    BY <1>0, <2>2 DEF AddLabel, store, Unique, HoldsReserved
  <2>3. CASE \E w \in Writers : Statement(w)
    BY <2>3, StatementUnique
  <2>4. CASE Crash
    BY <1>0, <2>4 DEF Crash, store, Unique, HoldsReserved
  <2>5. CASE UNCHANGED vars
    BY <1>0, <2>5 DEF vars, locals, Unique, HoldsReserved
  <2> QED
    BY <2>1, <2>2, <2>3, <2>4, <2>5 DEF Next
<1> QED
  BY <1>1, <1>2 DEF UniqueInv, Unique

-----------------------------------------------------------------------------
(* Both engines: what the two invariants have in common, and what follows. *)

EngineInv == IF Engine = "sqlite" THEN SerialInv ELSE UniqueInv

LEMMA EngineInvInductive ==
    /\ Init => EngineInv
    /\ EngineInv /\ [Next]_vars => EngineInv'
<1>1. Init => EngineInv
  BY SerialInit, UniqueInit DEF EngineInv
<1>2. EngineInv /\ [Next]_vars => EngineInv'
  BY SerialNext, UniqueNext, WriteLabelAssumption DEF EngineInv
<1> QED
  BY <1>1, <1>2

(* The number a transaction has inserted its row under is not in the table. *)
LEMMA HeldNumberIsFresh ==
    ASSUME EngineInv, NEW w \in Writers, HoldsReserved(w)
    PROVE  TypeOK /\ newSeq[w] \notin DOMAIN log
<1>1. CASE Engine = "sqlite"
  <2>1. SerialInv /\ LastSeq(log) \in Nat
    BY <1>1, LastSeqIsTop DEF EngineInv, SerialInv, TypeOK
  <2> QED
    BY <2>1 DEF SerialInv, SnapshotsStayValid
<1>2. CASE Engine # "sqlite"
  BY <1>2 DEF EngineInv, UniqueInv
<1> QED
  BY <1>1, <1>2

LEMMA OnlyCommitsWrite ==
    ASSUME [Next]_vars, log' # log
    PROVE  \E w \in Writers : Commit(w) \/ CommitUnacknowledged(w)
BY DEF Next, vars, store, Statement, AddLabelRefused, AddLabel, ReadLastKey, ReadMatch,
       ReadMatchNoOp, Create, CreateConflicts, CountConcurrent, CountConcurrentFails,
       TxError, Crash

(* With either engine, a committed row stays as it is, and a step adds at most
   one: retries that name the primary key, lost acknowledgements and sequence
   numbers given out before COMMIT included. *)
THEOREM RowsStay == Spec => NothingRewritten
<1> DEFINE Grows == /\ DOMAIN log \subseteq DOMAIN log'
                    /\ Cardinality(DOMAIN log') <= Cardinality(DOMAIN log) + 1
                    /\ \A s \in DOMAIN log : log'[s] = log[s]
<1>1. EngineInv /\ [Next]_vars => [Grows]_log
  <2> SUFFICES ASSUME EngineInv, [Next]_vars, log' # log PROVE Grows
    OBVIOUS
  <2>1. PICK w \in Writers : Commit(w) \/ CommitUnacknowledged(w)
    BY OnlyCommitsWrite
  <2>2. HoldsReserved(w) /\ log' = WithRow(log, newSeq[w], req[w])
    BY <2>1 DEF Commit, CommitUnacknowledged, HoldsReserved
  <2>3. TypeOK /\ newSeq[w] \notin DOMAIN log
    BY <2>2, HeldNumberIsFresh
  <2>4. /\ DOMAIN log' = DOMAIN log \cup {newSeq[w]}
        /\ \A s \in DOMAIN log : log'[s] = log[s]
    BY <2>2, <2>3, RowWritten
  <2>5. Cardinality(DOMAIN log') = Cardinality(DOMAIN log) + 1
    BY <2>3, <2>4, FS_AddElement DEF TypeOK, IsLog
  <2>6. Cardinality(DOMAIN log') <= Cardinality(DOMAIN log) + 1
    BY <2>3, <2>5, FS_CardinalityType DEF TypeOK, IsLog
  <2> QED
    BY <2>4, <2>6
<1> QED
  BY <1>1, EngineInvInductive, PTL DEF Spec, NothingRewritten

(* With either engine, "created" is answered only in the step that writes the
   label, at a number that was free. *)
THEOREM CreatedMeansWritten == Spec => CreatedIsWritten
<1> DEFINE Written ==
        \A w \in Writers :
            pc[w] # "idle" /\ reply'[w] = "created" =>
                \E s \in DOMAIN log' \ DOMAIN log : log'[s] = req[w]
<1>1. EngineInv /\ [Next]_vars => [Written]_vars
  <2> SUFFICES ASSUME EngineInv, Next, NEW w \in Writers,
                      pc[w] # "idle", reply'[w] = "created"
               PROVE  \E s \in DOMAIN log' \ DOMAIN log : log'[s] = req[w]
    OBVIOUS
  <2>1. TypeOK /\ reply[w] = "none" /\ reply \in [Writers -> Replies]
    BY DEF EngineInv, SerialInv, UniqueInv, TypeOK, LocalsOK
  <2>2. ASSUME NEW v \in Writers, Statement(v) PROVE v = w /\ Commit(w)
    BY <2>1, <2>2 DEF Statement, ReadLastKey, ReadMatch, ReadMatchNoOp, Create,
         CreateConflicts, CountConcurrent, CountConcurrentFails, Commit,
         CommitUnacknowledged, TxError, FailAttempt, Retry, GiveUp, Return, NoOpReply
  <2>3. Commit(w)
    BY <2>1, <2>2 DEF Next, AddLabelRefused, AddLabel, Crash
  <2>4. HoldsReserved(w) /\ log' = WithRow(log, newSeq[w], req[w])
    BY <2>3 DEF Commit, HoldsReserved
  <2>5. newSeq[w] \notin DOMAIN log
    BY <2>4, HeldNumberIsFresh
  <2>6. newSeq[w] \in DOMAIN log' /\ log'[newSeq[w]] = req[w]
    BY <2>1, <2>4, <2>5, RowWritten
  <2> QED
    BY <2>5, <2>6
<1> QED
  BY <1>1, EngineInvInductive, PTL DEF Spec, CreatedIsWritten

-----------------------------------------------------------------------------
(* The label server as a whole. *)

(* The assumptions of the parts, in the terms of this module. *)
LEMMA PartsAssumptions ==
    /\ Requests \subseteq Label
    /\ NoRequest \notin Entry
    /\ Did \in Srcs \cup {NoSrc}
    /\ AllowedSets # {}
    /\ AllowedSets \subseteq SUBSET Vals
    /\ Engine \in {"sqlite", "postgres"}
    /\ MaxAttempts \in Nat \ {0}
    /\ MaxSeq \in Nat
    /\ Half \in Nat \ {0}
    /\ Cursors \subseteq 0 .. 2 * Half - 1
    /\ BatchSize \in Nat \ {0}
    /\ MaxSeq \in 0 .. Half - 1
BY LabelerAssumption, WriteLabelAssumption DEF S!SubscribeAssumption

LEMMA OperatorsOfS ==
    /\ \A X : S!Top(X) = Top(X)
    /\ \A X : S!Cardinality(X) = Cardinality(X)
<1>1. \A X : S!Top(X) = Top(X)
  BY DEF S!Top, S!IsTop, Top, IsTop
<1>2. \A X : S!Cardinality(X) = Cardinality(X)
  BY DEF S!Cardinality, Cardinality
<1> QED
  BY <1>1, <1>2

LEMMA OperatorsOfSP ==
    /\ \A X : SP!Top(X) = Top(X)
    /\ \A X : SP!Cardinality(X) = Cardinality(X)
<1>1. \A X : SP!Top(X) = Top(X)
  BY DEF SP!Top, SP!IsTop, Top, IsTop
<1>2. \A X : SP!Cardinality(X) = Cardinality(X)
  BY DEF SP!Cardinality, Cardinality
<1> QED
  BY <1>1, <1>2

-----------------------------------------------------------------------------
(* S and SP are two names of one instance. *)
LEMMA SameStreamInv == S!StreamInv <=> SP!StreamInv
<1>1. S!TypeOK <=> SP!TypeOK
  BY OperatorsOfS, OperatorsOfSP DEF S!TypeOK, S!Streaming, SP!TypeOK, SP!Streaming
<1>2. S!NoGap <=> SP!NoGap
  BY OperatorsOfS, OperatorsOfSP DEF S!NoGap, SP!NoGap
<1>3. S!WaitingIsCaughtUp <=> SP!WaitingIsCaughtUp
  BY DEF S!WaitingIsCaughtUp, SP!WaitingIsCaughtUp
<1>4. \A c : S!BatchFollows(c) <=> SP!BatchFollows(c)
  BY OperatorsOfS, OperatorsOfSP DEF S!BatchFollows, SP!BatchFollows
<1>5. \A c, n : S!HasUpTo(c, n) <=> SP!HasUpTo(c, n)
  BY DEF S!HasUpTo, SP!HasUpTo
<1> QED
  BY <1>1, <1>2, <1>3, <1>4, <1>5, OperatorsOfS, OperatorsOfSP
     DEF S!StreamInv, SP!StreamInv

LEMMA SameStreamSteps == (S!Init <=> SP!Init) /\ (S!Next <=> SP!Next) /\ S!vars = SP!vars
<1>1. S!Init <=> SP!Init
  BY DEF S!Init, S!NoCursor, SP!Init, SP!NoCursor
<1>2. S!vars = SP!vars
  BY DEF S!vars, S!server, S!client, SP!vars, SP!server, SP!client
<1>3. \A c : (S!HasCursor(c) <=> SP!HasCursor(c)) /\ S!Batch(c) = SP!Batch(c)
  <2>1. \A c : S!HasCursor(c) <=> SP!HasCursor(c)
    BY DEF S!HasCursor, S!Int64, SP!HasCursor, SP!Int64
  <2>2. \A c : S!Batch(c) = SP!Batch(c)
    BY OperatorsOfS, OperatorsOfSP DEF S!Batch, SP!Batch
  <2> QED
    BY <2>1, <2>2
<1>4. \A n : S!FutureCursor(n) <=> SP!FutureCursor(n)
  BY DEF S!FutureCursor, SP!FutureCursor
<1>5. \A c, X : S!Deliver(c, X) <=> SP!Deliver(c, X)
  BY OperatorsOfS, OperatorsOfSP DEF S!Deliver, SP!Deliver
<1>6. \A X : S!Prefixes(X) = SP!Prefixes(X)
  BY DEF S!Prefixes, SP!Prefixes
<1>7. S!CommitEntry <=> SP!CommitEntry
  BY OperatorsOfS, OperatorsOfSP
     DEF S!CommitEntry, S!server, S!client, SP!CommitEntry, SP!server, SP!client
<1>8. S!WakeUpSubs <=> SP!WakeUpSubs
  BY DEF S!WakeUpSubs, S!Woken, S!Streaming, S!client,
         SP!WakeUpSubs, SP!Woken, SP!Streaming, SP!client
<1>9. \A c \in Clients : /\ S!Register(c) <=> SP!Register(c)
                         /\ S!RefuseFutureCursor(c) <=> SP!RefuseFutureCursor(c)
                         /\ S!StartReplay(c) <=> SP!StartReplay(c)
                         /\ S!StartAtEnd(c) <=> SP!StartAtEnd(c)
  BY <1>3, <1>4, OperatorsOfS, OperatorsOfSP
     DEF S!Register, S!RefuseFutureCursor, S!StartReplay, S!StartAtEnd, S!Promise, S!client,
         SP!Register, SP!RefuseFutureCursor, SP!StartReplay, SP!StartAtEnd, SP!Promise,
         SP!client
<1>10. \A c \in Clients : /\ S!ReadBatch(c) <=> SP!ReadBatch(c)
                          /\ S!ReadNothing(c) <=> SP!ReadNothing(c)
                          /\ S!Wake(c) <=> SP!Wake(c)
  BY <1>3 DEF S!ReadBatch, S!ReadNothing, S!Wake, S!client,
              SP!ReadBatch, SP!ReadNothing, SP!Wake, SP!client
<1>11. \A c \in Clients : /\ S!SendFullBatch(c) <=> SP!SendFullBatch(c)
                          /\ S!SendLastBatch(c) <=> SP!SendLastBatch(c)
  BY <1>5, OperatorsOfS, OperatorsOfSP
     DEF S!SendFullBatch, S!SendLastBatch, S!Sent, SP!SendFullBatch, SP!SendLastBatch, SP!Sent
<1>12. \A c \in Clients : S!Disconnect(c) <=> SP!Disconnect(c)
  BY <1>5, <1>6 DEF S!Disconnect, S!HangUp, SP!Disconnect, SP!HangUp
<1>13. S!Crash <=> SP!Crash
  BY DEF S!Crash, S!client, SP!Crash, SP!client
<1>14. S!Next <=> SP!Next
  BY <1>7, <1>8, <1>9, <1>10, <1>11, <1>12, <1>13 DEF S!Next, S!Stream, SP!Next, SP!Stream
<1> QED
  BY <1>1, <1>2, <1>14

-----------------------------------------------------------------------------
(* The steps of the streams touch nothing of the writers but the wake-ups. *)
LEMMA SerialOfStreams ==
    ASSUME SerialInv, UNCHANGED writing, wakes' \in Nat
    PROVE  SerialInv'
<1>0. /\ log' = log /\ seqCounter' = seqCounter /\ allowed' = allowed /\ pc' = pc
      /\ req' = req /\ newSeq' = newSeq /\ attempt' = attempt /\ lastKey' = lastKey
      /\ reply' = reply
  BY DEF writing
<1>1. TypeOK'
  BY <1>0 DEF SerialInv, TypeOK, LocalsOK, HoldsReserved
<1>2. NoRedundantEntries' /\ SnapshotsStayValid'
  BY <1>0 DEF SerialInv, NoRedundantEntries, SnapshotsStayValid, HoldsReserved,
              HoldsShared
<1> QED
  BY <1>0, <1>1, <1>2 DEF SerialInv, HoldsReserved

(* What SerialInv says about the log, in the operators of this module. *)
LEMMA LogIsSerial ==
    ASSUME SerialInv
    PROVE  /\ LastSeq(log) \in Nat /\ DOMAIN log = 1 .. LastSeq(log)
           /\ Top(DOMAIN log) = LastSeq(log)
           /\ wakes \in Nat /\ pc \in [Writers -> PCs]
           /\ \A w \in Writers : pc[w] = "commit" => newSeq[w] = LastSeq(log) + 1
<1>1. IsLog(log) /\ wakes \in Nat /\ pc \in [Writers -> PCs]
  BY DEF SerialInv, TypeOK, LocalsOK
<1>2. Top(DOMAIN log) \in Nat
  BY <1>1, TopIsTop DEF IsLog, Seqs
<1> QED
  BY <1>1, <1>2
     DEF SerialInv, SnapshotsStayValid, HoldsReserved, LastSeq

(* A call writes at its COMMIT only: one row, at the next number. *)
LEMMA CallsWriteAtCommit ==
    ASSUME Engine = "sqlite", NEW w \in Writers, Write(w)
    PROVE  (log' = log /\ wakes' = wakes) \/ Commit(w)
BY DEF Write, AddLabelRefused, AddLabel, store, Statement, ReadLastKey,
       ReadMatch, ReadMatchNoOp, Create, CreateConflicts, CountConcurrent,
       CountConcurrentFails, CommitUnacknowledged, TxError

LEMMA CommitAddsRow ==
    ASSUME Engine = "sqlite", SerialInv, NEW w \in Writers, Commit(w)
    PROVE  /\ LastSeq(log') = LastSeq(log) + 1
           /\ DOMAIN log' = DOMAIN log \cup {LastSeq(log) + 1}
           /\ \A s \in DOMAIN log : log'[s] = log[s]
           /\ wakes' = wakes + 1
<1>1. /\ DOMAIN log' = DOMAIN log \cup {LastSeq(log) + 1}
      /\ \A s \in DOMAIN log : log'[s] = log[s]
      /\ DOMAIN log' = 1 .. LastSeq(log')
  BY CommitSerial
<1>2. DOMAIN log = 1 .. LastSeq(log) /\ LastSeq(log) \in Nat
  BY LogIsSerial
<1>3. LastSeq(log') \in Nat
  <2>1. TypeOK'
    BY StatementType DEF SerialInv, Statement
  <2> QED
    BY <2>1, LastSeqIsTop DEF TypeOK
<1>4. LastSeq(log') = LastSeq(log) + 1
  <2>1. DOMAIN log' = 1 .. LastSeq(log) + 1
    BY <1>1, <1>2
  <2> QED
    BY <1>1, <1>2, <1>3, <2>1
<1> QED
  BY <1>1, <1>4 DEF Commit

-----------------------------------------------------------------------------
(* A call that is under way has room for its row. *)
LEMMA RoomOfCalls ==
    ASSUME Engine = "sqlite", SerialInv, SerialInv', RoomKept,
           NEW w \in Writers, Write(w)
    PROVE  RoomKept'
<1> DEFINE A == Active
<1>0. /\ IsFiniteSet(A) /\ Cardinality(A) \in Nat
      /\ LastSeq(log) + Cardinality(A) <= MaxSeq
      /\ MaxSeq \in Nat /\ LastSeq(log) \in Nat /\ pc \in [Writers -> PCs]
  BY LogIsSerial, PartsAssumptions, FS_CardinalityType DEF RoomKept
<1>1. CASE \E label \in Requests : AddLabelRefused(w, label)
  <2>1. log' = log /\ pc' = pc
    BY <1>1 DEF AddLabelRefused, store
  <2> QED
    BY <2>1 DEF RoomKept, Active
<1>2. CASE \E label \in Requests : AddLabel(w, label)
  <2>1. /\ log' = log /\ pc' = [pc EXCEPT ![w] = "begin"] /\ pc[w] = "idle"
        /\ RoomLeft
    BY <1>2 DEF AddLabel, store
  <2>2. LastSeq(log) + Cardinality(A) < MaxSeq
    BY <2>1 DEF RoomLeft, LastUsed
  <2>3. Active' = A \cup {w} /\ w \notin A
    BY <1>0, <2>1 DEF Active
  <2>4. IsFiniteSet(A \cup {w}) /\ Cardinality(A \cup {w}) = Cardinality(A) + 1
    BY <1>0, <2>3, FS_AddElement
  <2> QED
    BY <1>0, <2>1, <2>2, <2>3, <2>4 DEF RoomKept
<1>3. CASE Statement(w)
  <2>1. CASE log' = log
    <3>1. Active' \subseteq A
      BY <1>0, <1>3 DEF Active, Statement, ReadLastKey, ReadMatch, ReadMatchNoOp,
         Create, CreateConflicts, CountConcurrent, CountConcurrentFails, Commit,
         CommitUnacknowledged, TxError, FailAttempt, Retry, GiveUp, Return
    <3>2. IsFiniteSet(Active') /\ Cardinality(Active') <= Cardinality(A)
      BY <1>0, <3>1, FS_Subset
    <3>3. Cardinality(Active') \in Nat
      BY <3>2, FS_CardinalityType
    <3> QED
      BY <1>0, <2>1, <3>2, <3>3 DEF RoomKept
  <2>2. CASE Commit(w)
    <3>1. Active' = A \ {w} /\ w \in A
      BY <1>0, <2>2 DEF Active, Commit, Return
    <3>2. IsFiniteSet(A \ {w}) /\ Cardinality(A \ {w}) = Cardinality(A) - 1
      BY <1>0, <3>1, FS_RemoveElement
    <3>3. LastSeq(log') = LastSeq(log) + 1
      BY <2>2, CommitAddsRow
    <3> QED
      BY <1>0, <3>1, <3>2, <3>3 DEF RoomKept
  <2> QED
    BY <2>1, <2>2, CallsWriteAtCommit
<1> QED
  BY <1>1, <1>2, <1>3 DEF Write

LEMMA RoomNext ==
    ASSUME Engine = "sqlite", SerialInv, SerialInv', RoomKept, [LabelerNext]_labelerVars
    PROVE  RoomKept'
<1>1. CASE \E w \in Writers : Write(w)
  BY <1>1, RoomOfCalls
<1>2. CASE UNCHANGED writing
  BY <1>2 DEF writing, RoomKept, Active
<1>3. CASE LabelerCrash
  <2>1. log' = log /\ Active' = {}
    BY <1>3 DEF LabelerCrash, Crash, store, Active
  <2>2. LastSeq(log) + 0 <= MaxSeq
    <3>1. Cardinality(Active) \in Nat /\ LastSeq(log) \in Nat /\ MaxSeq \in Nat
      BY LogIsSerial, PartsAssumptions, FS_CardinalityType DEF RoomKept
    <3> QED
      BY <3>1 DEF RoomKept
  <2> QED
    BY <2>1, <2>2, FS_EmptySet DEF RoomKept
<1> QED
  BY <1>1, <1>2, <1>3 DEF LabelerNext, labelerVars, WakeUpSubs, Send, Control, Disconnect

LEMMA LabelerSerialNext ==
    ASSUME Engine = "sqlite", SerialInv, [LabelerNext]_labelerVars
    PROVE  SerialInv'
<1>1. CASE \E w \in Writers : Write(w)
  BY <1>1, SerialNext DEF Write, Next
<1>2. CASE LabelerCrash
  BY <1>2, SerialNext DEF LabelerCrash, Next
<1>3. CASE UNCHANGED writing /\ wakes' \in Nat
  BY <1>3, SerialOfStreams
<1>4. wakes \in Nat
  BY LogIsSerial
<1>5. CASE WakeUpSubs
  BY <1>3, <1>4, <1>5 DEF WakeUpSubs, S!WakeUpSubs
<1>6. CASE \E c \in Clients : Send(c) \/ Control(c) \/ Disconnect(c)
  <2>1. wakes' = wakes
    BY <1>6 DEF Send, S!SendFullBatch, S!SendLastBatch, S!Sent, Control, S!Register,
       S!RefuseFutureCursor, S!StartReplay, S!StartAtEnd, S!Wake, S!ReadBatch, S!ReadNothing,
       Disconnect, S!HangUp
  <2> QED
    BY <1>3, <1>4, <1>6, <2>1 DEF Send, Control, Disconnect
<1>7. CASE UNCHANGED labelerVars
  BY <1>3, <1>4, <1>7 DEF labelerVars
<1> QED
  BY <1>1, <1>2, <1>5, <1>6, <1>7 DEF LabelerNext

-----------------------------------------------------------------------------
(* The whole implements the streams' specification, step by step: a COMMIT is
   CommitEntry, every other step of a writer is no step of Subscribe. *)
LEMMA StreamsInit == LabelerInit => S!Init
<1> SUFFICES ASSUME LabelerInit PROVE S!Init
  OBVIOUS
<1>1. DOMAIN log = {}
  BY DEF LabelerInit, Init, EmptyLog
<1>2. wakes = 0
  BY DEF LabelerInit, Init
<1> QED
  BY <1>1, <1>2 DEF LabelerInit, S!Init

LEMMA StreamsStep ==
    ASSUME Engine = "sqlite", SerialInv, SerialInv', RoomKept, RoomKept', [LabelerNext]_labelerVars
    PROVE  [S!Next]_(S!vars)
<1>1. CASE \E w \in Writers : Write(w)
  <2>0. PICK w \in Writers : Write(w)
    BY <1>1
  <2>1. UNCHANGED streaming
    BY <2>0 DEF Write
  <2>2. CASE log' = log /\ wakes' = wakes
    BY <2>1, <2>2 DEF streaming, S!vars, S!server, S!client
  <2>3. CASE Commit(w)
    <3>1. /\ LastSeq(log') = LastSeq(log) + 1
          /\ DOMAIN log' = DOMAIN log \cup {LastSeq(log) + 1}
          /\ wakes' = wakes + 1
      BY <2>3, CommitAddsRow
    <3>2. /\ LastSeq(log) \in Nat /\ DOMAIN log = 1 .. LastSeq(log)
          /\ Top(DOMAIN log) = LastSeq(log)
      BY LogIsSerial
    <3>3. LastSeq(log') <= MaxSeq
      <4>1. Cardinality(Active)' \in Nat /\ MaxSeq \in Nat
        BY PartsAssumptions, FS_CardinalityType DEF RoomKept
      <4> QED
        BY <3>1, <3>2, <4>1 DEF RoomKept
    <3>4. LastSeq(log) + 1 \in (1 .. MaxSeq) \ DOMAIN log
      BY <3>1, <3>2, <3>3, PartsAssumptions
    <3>5. S!Top(DOMAIN log) + 1 = LastSeq(log) + 1
      BY <3>2, OperatorsOfS
    <3> QED
      BY <2>1, <3>1, <3>4, <3>5 DEF S!Next, S!CommitEntry, S!server, S!client, streaming
  <2> QED
    BY <2>0, <2>2, <2>3, CallsWriteAtCommit
<1>2. CASE WakeUpSubs
  BY <1>2 DEF WakeUpSubs, S!Next
<1>3. CASE \E c \in Clients : Send(c) \/ Control(c)
  BY <1>3 DEF Send, Control, S!Next, S!Stream
<1>4. CASE \E c \in Clients : Disconnect(c)
  BY <1>4 DEF Disconnect, S!Next, S!Disconnect
<1>5. CASE LabelerCrash
  BY <1>5 DEF LabelerCrash, S!Next
<1>6. CASE UNCHANGED labelerVars
  BY <1>6 DEF labelerVars, writing, streaming, S!vars, S!server, S!client
<1> QED
  BY <1>1, <1>2, <1>3, <1>4, <1>5, <1>6 DEF LabelerNext

LEMMA LabelerSerialInit == LabelerInit => SerialInv /\ RoomKept
<1> SUFFICES ASSUME LabelerInit PROVE SerialInv /\ RoomKept
  OBVIOUS
<1>1. Init /\ SerialInv
  BY SerialInit DEF LabelerInit
<1>2. DOMAIN log = {} /\ Active = {}
  BY DEF LabelerInit, Init, EmptyLog, Active
<1>3. LastSeq(log) = 0
  <2>1. IsTop(0, {})
    BY DEF IsTop
  <2> QED
    BY <1>2, <2>1, TopUnique DEF LastSeq
<1> QED
  BY <1>1, <1>2, <1>3, FS_EmptySet, PartsAssumptions DEF RoomKept

(* With SQLite, the label server implements Subscribe: entries are committed
   one at a time in the order of their numbers, and each brings a wake-up
   (property ImplementsSubscribe; AddLabel at server.go:360, streamLabels). *)
THEOREM RunsTheStreams ==
    ASSUME Engine = "sqlite"
    PROVE  LabelerSpec => ImplementsSubscribe
<1> DEFINE I == SerialInv /\ RoomKept
<1>1. LabelerInit => I /\ S!Init
  BY LabelerSerialInit, StreamsInit
<1>2. I /\ [LabelerNext]_labelerVars => I' /\ [S!Next]_(S!vars)
  BY LabelerSerialNext, RoomNext, StreamsStep
<1> QED
  BY <1>1, <1>2, PTL DEF LabelerSpec, ImplementsSubscribe, S!Spec

-----------------------------------------------------------------------------
(* What a subscriber holds.  The invariant of the streams comes from the
   refinement. *)
LEMMA StreamInvNext ==
    ASSUME Engine = "sqlite", S!StreamInv, [S!Next]_(S!vars)
    PROVE  S!StreamInv'
<1>1. SP!StreamInv /\ [SP!Next]_(SP!vars)
  BY SameStreamInv, SameStreamSteps
     DEF S!vars, S!server, S!client, SP!vars, SP!server, SP!client
<1>2. SP!StreamInv'
  BY <1>1, SP!StreamInvNext, PartsAssumptions
<1>3. (S!StreamInv <=> SP!StreamInv)'
  BY SameStreamInv, PTL
<1> QED
  BY <1>2, <1>3

(* What StreamInv says of one client, in the operators of this module. *)
LEMMA ClientFacts ==
    ASSUME SerialInv, S!StreamInv, NEW c \in Clients
    PROVE  /\ LastSeq(log) \in Nat /\ DOMAIN log = 1 .. LastSeq(log)
           /\ got[c] \subseteq DOMAIN log /\ batch[c] \subseteq DOMAIN log
           /\ got[c] # {} => cursor[c] \in got[c]
           /\ LastGot(c) \in 0 .. LastSeq(log)
           /\ floor[c] \in Nat /\ base[c] \in Nat /\ cursor[c] \in Int
           /\ floor[c] <= LastSeq(log)
           /\ IF stream[c] = "sending" THEN batch[c] # {} ELSE batch[c] = {}
           /\ stream[c] = "sending" =>
                 {s \in DOMAIN log : floor[c] < s /\ s <= Top(batch[c])} \subseteq batch[c]
           /\ stream[c] = "sending" /\ Cardinality(batch[c]) < BatchSize
                /\ ~ wakeCh[c] /\ wakes = 0 =>
                 {s \in DOMAIN log : s > floor[c]} \subseteq batch[c]
<1>1. LastSeq(log) \in Nat /\ DOMAIN log = 1 .. LastSeq(log)
  BY LogIsSerial
<1>2. /\ got[c] \subseteq DOMAIN log /\ batch[c] \subseteq DOMAIN log
      /\ floor[c] \in Nat /\ base[c] \in Nat /\ cursor[c] \in Int
  BY DEF S!StreamInv, S!TypeOK
<1>3. /\ got[c] # {} => cursor[c] \in got[c]
      /\ IF stream[c] = "sending" THEN S!BatchFollows(c) ELSE batch[c] = {}
      /\ floor[c] <= LastSeq(log)
  BY OperatorsOfS DEF S!StreamInv, LastSeq
<1>4. LastGot(c) \in 0 .. LastSeq(log)
  BY <1>1, <1>2, <1>3 DEF LastGot
<1> QED
  BY <1>1, <1>2, <1>3, <1>4, OperatorsOfS DEF S!BatchFollows

(* The types of the streams' variables, which StreamInv includes. *)
LEMMA StreamTypes ==
    ASSUME S!StreamInv
    PROVE  /\ stream \in [Clients -> {"query", "sending", "live", "off", "registered", "refused"}]
           /\ wakeCh \in [Clients -> BOOLEAN]
           /\ floor \in [Clients -> Nat]
           /\ batch \in [Clients -> SUBSET DOMAIN log]
           /\ sentKey \in [Clients -> 0 .. MaxSeq]
           /\ cursor \in [Clients -> Int]
           /\ got \in [Clients -> SUBSET DOMAIN log]
           /\ base \in [Clients -> Nat]
BY DEF S!StreamInv, S!TypeOK, S!Streaming

(* A set of rows has its greatest member. *)
LEMMA TopOfRows ==
    ASSUME SerialInv, NEW rows \in SUBSET DOMAIN log, rows # {}
    PROVE  Top(rows) \in rows /\ \A s \in rows : s <= Top(rows)
<1>1. LastSeq(log) \in Nat /\ DOMAIN log = 1 .. LastSeq(log)
  BY LogIsSerial
<1>2. IsFiniteSet(rows) /\ rows \in SUBSET Nat
  <2>1. IsFiniteSet(DOMAIN log)
    BY DEF SerialInv, TypeOK, IsLog
  <2>2. rows \in SUBSET Nat
    BY <1>1
  <2> QED
    BY <2>1, <2>2, FS_Subset
<1>3. IsTop(Top(rows), rows)
  BY <1>2, TopIsTop
<1>4. PICK s \in rows : s > 0
  BY <1>1
<1> QED
  BY <1>2, <1>3, <1>4 DEF IsTop

LEMMA SameKeyIsEquivalence ==
    /\ \A a : SameKey(a, a)
    /\ \A a, b : SameKey(a, b) => SameKey(b, a)
    /\ \A a, b, d : SameKey(a, b) /\ SameKey(b, d) => SameKey(a, d)
BY DEF SameKey

(* Every label of a batch has a last row in it. *)
LEMMA LastExists ==
    ASSUME SerialInv, NEW rows \in SUBSET DOMAIN log, NEW t \in rows
    PROVE  \E s \in LastOfLabel(rows) : SameKey(log[s], log[t]) /\ t <= s
<1> DEFINE R == {s \in rows : SameKey(log[s], log[t])}
<1>1. t \in R /\ R \in SUBSET DOMAIN log
  BY SameKeyIsEquivalence
<1>2. PICK s \in R : \A u \in R : u <= s
  BY <1>1, TopOfRows
<1>3. \A u \in rows : SameKey(log[s], log[u]) => u <= s
  BY <1>2, SameKeyIsEquivalence
<1> QED
  BY <1>1, <1>2, <1>3 DEF LastOfLabel

(* To apply the rows after m to what comes of the rows up to n gives what comes
   of the rows up to k, whether the rows go on after n or start again. *)
LEMMA ApplyRows ==
    ASSUME SerialInv, NEW held, NEW n \in Nat, NEW m \in {0, n}, NEW k \in Nat,
           m < k, HoldsUpTo(held, n),
           NEW rows, rows = {s \in DOMAIN log : m < s /\ s <= k}
    PROVE  HoldsUpTo(Applied(held, rows), k)
<1> DEFINE kept == {s \in held : \A t \in rows : ~ SameKey(log[s], log[t])}
           new == Applied(held, rows)
<1>1. DOMAIN log \in SUBSET Nat /\ \A s \in DOMAIN log : s > 0
  BY LogIsSerial
<1>2. held \subseteq DOMAIN log /\ rows \subseteq DOMAIN log
  BY DEF HoldsUpTo
<1>3. new = kept \cup LastOfLabel(rows) /\ LastOfLabel(rows) \subseteq rows
  BY DEF Applied, LastOfLabel
<1>4. ASSUME NEW t \in rows
      PROVE  \E s \in new : SameKey(log[s], log[t])
  BY <1>2, <1>3, <1>4, LastExists
<1>5. ASSUME NEW t \in DOMAIN log, t <= k
      PROVE  \E s \in new : SameKey(log[s], log[t])
  <2>1. CASE t \in rows
    BY <2>1, <1>4
  <2>2. CASE t \notin rows
    <3>1. t <= n
      BY <1>1, <1>5, <2>2
    <3>2. PICK s \in held : SameKey(log[s], log[t])
      BY <3>1 DEF HoldsUpTo
    <3>3. CASE s \in kept
      BY <1>3, <3>2, <3>3
    <3>4. CASE s \notin kept
      <4>1. PICK u \in rows : SameKey(log[s], log[u])
        BY <3>4
      <4>2. PICK v \in new : SameKey(log[v], log[u])
        BY <1>4
      <4> QED
        BY <3>2, <4>1, <4>2, SameKeyIsEquivalence
    <3> QED
      BY <3>3, <3>4
  <2> QED
    BY <2>1, <2>2
<1>6. ASSUME NEW s \in new, NEW t \in DOMAIN log, t <= k, SameKey(log[s], log[t])
      PROVE  t <= s /\ s <= k
  <2>1. CASE s \in kept
    <3>1. t \notin rows
      BY <1>6, <2>1
    <3>2. t <= n /\ m = n
      BY <1>1, <1>6, <3>1
    <3>3. t <= s /\ s <= n
      BY <1>6, <2>1, <3>2 DEF HoldsUpTo
    <3> QED
      BY <1>1, <1>2, <2>1, <3>2, <3>3
  <2>2. CASE s \in LastOfLabel(rows)
    <3>1. s \in rows /\ \A u \in rows : SameKey(log[s], log[u]) => u <= s
      BY <2>2 DEF LastOfLabel
    <3>2. s \in Nat /\ m < s /\ s <= k
      BY <1>1, <3>1
    <3> QED
      BY <1>1, <1>6, <3>1, <3>2
  <2> QED
    BY <1>3, <2>1, <2>2
<1>7. new \subseteq DOMAIN log
  BY <1>2, <1>3
<1> HIDE DEF new
<1> QED
  BY <1>5, <1>6, <1>7 DEF HoldsUpTo, new

-----------------------------------------------------------------------------
(* ViewOK, action by action. *)
Untouched(c) ==
    /\ stream'[c] = stream[c] /\ wakeCh'[c] = wakeCh[c] /\ floor'[c] = floor[c]
    /\ batch'[c] = batch[c] /\ sentKey'[c] = sentKey[c] /\ cursor'[c] = cursor[c]
    /\ got'[c] = got[c] /\ base'[c] = base[c] /\ view'[c] = view[c]

LEMMA ViewUntouched ==
    ASSUME NEW c, ViewOK(c), Untouched(c), log' = log, wakes' = wakes
    PROVE  ViewOK(c)'
BY DEF ViewOK, Untouched, HoldsUpTo, LastGot, S!Streaming

(* A COMMIT adds a row that no stream has read; a wake-up is on its way. *)
LEMMA ViewAtCommit ==
    ASSUME Engine = "sqlite", SerialInv, SerialInv', S!StreamInv, NEW w \in Writers, Commit(w),
           NEW c \in Clients, ViewOK(c), Untouched(c)
    PROVE  ViewOK(c)'
<1>1. /\ DOMAIN log' = DOMAIN log \cup {LastSeq(log) + 1}
      /\ \A s \in DOMAIN log : log'[s] = log[s]
      /\ wakes' = wakes + 1
  BY CommitAddsRow
<1>2. wakes' # 0
  BY <1>1, LogIsSerial
<1>3. LastGot(c) <= LastSeq(log) /\ LastSeq(log) \in Nat /\ LastGot(c) \in Nat
  BY ClientFacts
<1>4. LastGot(c)' = LastGot(c)
  BY DEF Untouched, LastGot
<1>5. ASSUME HoldsUpTo(view[c], LastGot(c)) PROVE HoldsUpTo(view[c], LastGot(c))'
  <2>1. ~ (LastSeq(log) + 1 <= LastGot(c))
    BY <1>3
  <2>2. view'[c] = view[c]
    BY DEF Untouched
  <2> QED
    BY <1>1, <1>4, <1>5, <2>1, <2>2 DEF HoldsUpTo
<1> QED
  BY <1>2, <1>4, <1>5 DEF ViewOK, Untouched, S!Streaming

LEMMA ViewAtWakeUp ==
    ASSUME S!StreamInv, WakeUpSubs, NEW c \in Clients, ViewOK(c)
    PROVE  ViewOK(c)'
<1>1. /\ log' = log /\ stream' = stream /\ floor' = floor /\ batch' = batch
      /\ sentKey' = sentKey /\ cursor' = cursor /\ got' = got /\ base' = base
      /\ view' = view /\ wakeCh'[c] = S!Woken(c)
  BY DEF WakeUpSubs, S!WakeUpSubs, S!client, writing
<1>2. stream[c] = "live" => wakeCh'[c]
  BY <1>1 DEF S!Woken, S!Streaming
<1> QED
  BY <1>1, <1>2 DEF ViewOK, HoldsUpTo, LastGot, S!Streaming

(* Of a batch, the rows sent are those after floor and up to the last of them. *)
LEMMA ViewAfterDelivery ==
    ASSUME SerialInv, S!StreamInv, NEW c \in Clients, ViewOK(c), log' = log,
           stream[c] = "sending", base[c] = 0,
           NEW sent \in SUBSET batch[c], sent # {},
           \A s \in batch[c] : \A p \in sent : s <= p => s \in sent,
           view'[c] = Applied(view[c], sent),
           got'[c] = got[c] \cup sent, cursor'[c] = Top(sent)
    PROVE  /\ HoldsUpTo(view[c], LastGot(c))' /\ got'[c] # {}
           /\ LastGot(c)' = Top(sent)
<1> DEFINE k == Top(sent)
<1>1. /\ LastSeq(log) \in Nat /\ DOMAIN log = 1 .. LastSeq(log)
      /\ batch[c] \subseteq DOMAIN log /\ floor[c] \in Nat
      /\ LastGot(c) \in Nat
      /\ {s \in DOMAIN log : floor[c] < s /\ s <= Top(batch[c])} \subseteq batch[c]
  BY ClientFacts
<1>2. k \in sent /\ \A s \in sent : s <= k
  BY <1>1, TopOfRows
<1>3. k <= Top(batch[c]) /\ Top(batch[c]) \in batch[c]
  BY <1>1, <1>2, TopOfRows
<1>4. \A s \in batch[c] : floor[c] < s
  BY DEF ViewOK
<1> HIDE DEF k
<1>5. sent = {s \in DOMAIN log : floor[c] < s /\ s <= k}
  <2>1. ASSUME NEW s \in sent PROVE s \in DOMAIN log /\ floor[c] < s /\ s <= k
    BY <1>1, <1>2, <1>4
  <2>2. ASSUME NEW s \in DOMAIN log, floor[c] < s, s <= k PROVE s \in sent
    <3>1. s <= Top(batch[c])
      BY <1>1, <1>2, <1>3, <2>2
    <3> QED
      BY <1>1, <1>2, <2>2, <3>1
  <2> QED
    BY <2>1, <2>2
<1>6. /\ floor[c] \in {0, LastGot(c)} /\ HoldsUpTo(view[c], LastGot(c))
      /\ k \in Nat /\ floor[c] < k
  BY <1>1, <1>2, <1>4 DEF ViewOK, S!Streaming
<1>7. HoldsUpTo(Applied(view[c], sent), k)
  BY <1>1, <1>5, <1>6, ApplyRows
<1>8. got'[c] # {} /\ LastGot(c)' = k
  BY DEF LastGot, k
<1> QED
  BY <1>7, <1>8 DEF HoldsUpTo, k

LEMMA ViewAtSend ==
    ASSUME SerialInv, S!StreamInv, view \in [Clients -> SUBSET DOMAIN log],
           NEW c \in Clients, ViewOK(c), Send(c)
    PROVE  ViewOK(c)'
<1>0. /\ log' = log /\ stream[c] = "sending" /\ batch[c] # {}
      /\ sentKey'[c] = Top(batch[c]) /\ batch'[c] = {}
      /\ got'[c] = got[c] \cup batch[c] /\ base' = base
      /\ cursor'[c] = Top(batch[c])
      /\ view'[c] = Applied(view[c], batch[c]) /\ wakeCh' = wakeCh /\ wakes' = wakes
  <2>1. stream[c] = "sending"
    BY DEF Send, S!SendFullBatch, S!SendLastBatch, S!Sent
  <2>2. batch[c] # {}
    BY <2>1, ClientFacts
  <2> QED
    BY <2>1, <2>2, StreamTypes, OperatorsOfS
       DEF Send, writing, S!SendFullBatch, S!SendLastBatch, S!Sent, S!Deliver
<1>1. /\ LastSeq(log) \in Nat /\ DOMAIN log = 1 .. LastSeq(log)
      /\ batch[c] \subseteq DOMAIN log /\ floor[c] \in Nat
      /\ Cardinality(batch[c]) < BatchSize /\ ~ wakeCh[c] /\ wakes = 0 =>
            {s \in DOMAIN log : s > floor[c]} \subseteq batch[c]
  BY <1>0, ClientFacts
<1>2. Top(batch[c]) \in batch[c] /\ \A s \in batch[c] : s <= Top(batch[c])
  BY <1>0, <1>1, TopOfRows
<1>3. got'[c] # {} /\ LastGot(c)' = Top(batch[c])
  BY <1>0 DEF LastGot
<1>4. base[c] = 0 => HoldsUpTo(view[c], LastGot(c))'
  <2>1. \A s \in batch[c] : \A p \in batch[c] : s <= p => s \in batch[c]
    OBVIOUS
  <2> QED
    BY <1>0, <2>1, ViewAfterDelivery
<1>5. CASE S!SendFullBatch(c)
  <2>1. stream'[c] = "query" /\ floor'[c] = Top(batch[c])
    BY <1>5, StreamTypes, OperatorsOfS DEF S!SendFullBatch
  <2> QED
    BY <1>0, <1>3, <1>4, <2>1 DEF ViewOK
<1>6. CASE S!SendLastBatch(c)
  <2>1. stream'[c] = "live" /\ floor'[c] = 0 /\ Cardinality(batch[c]) < BatchSize
    BY <1>6, StreamTypes, OperatorsOfS DEF S!SendLastBatch
  <2>2. \A s \in batch[c] : floor[c] < s
    BY <1>0 DEF ViewOK
  <2>3. ~ wakeCh[c] /\ wakes = 0 => Top(batch[c]) = LastSeq(log)
    <3> SUFFICES ASSUME ~ wakeCh[c], wakes = 0 PROVE Top(batch[c]) = LastSeq(log)
      OBVIOUS
    <3>1. Top(batch[c]) \in 1 .. LastSeq(log) /\ floor[c] < Top(batch[c])
      BY <1>1, <1>2, <2>2
    <3>2. LastSeq(log) \in DOMAIN log /\ LastSeq(log) > floor[c]
      BY <1>1, <3>1
    <3>3. LastSeq(log) \in batch[c]
      BY <1>1, <2>1, <3>2
    <3> QED
      BY <1>1, <1>2, <3>1, <3>3
  <2> QED
    BY <1>0, <1>3, <1>4, <2>1, <2>3 DEF ViewOK
<1> QED
  BY <1>5, <1>6 DEF Send

LEMMA ViewAtDisconnect ==
    ASSUME SerialInv, S!StreamInv, view \in [Clients -> SUBSET DOMAIN log],
           NEW c \in Clients, ViewOK(c), Disconnect(c)
    PROVE  ViewOK(c)'
<1>1. PICK sent \in S!Prefixes(batch[c]) :
        S!Deliver(c, sent) /\ view' = [view EXCEPT ![c] = Applied(@, sent)]
  BY DEF Disconnect
<1>2. /\ log' = log /\ stream'[c] = "off" /\ base' = base
      /\ got'[c] = got[c] \cup sent
      /\ cursor'[c] = (IF sent = {} THEN cursor[c] ELSE Top(sent))
      /\ view'[c] = Applied(view[c], sent)
  BY <1>1, StreamTypes, OperatorsOfS DEF Disconnect, S!HangUp, S!Deliver, writing
<1>3. sent \in SUBSET batch[c] /\ \A s \in batch[c] : \A p \in sent : s <= p => s \in sent
  BY DEF S!Prefixes
<1>4. CASE sent = {}
  <2>1. view'[c] = view[c]
    BY <1>2, <1>4 DEF Applied, LastOfLabel
  <2> QED
    BY <1>2, <1>4, <2>1 DEF ViewOK, HoldsUpTo, LastGot, S!Streaming
<1>5. CASE sent # {}
  <2>1. stream[c] = "sending" /\ cursor'[c] = Top(sent)
    BY <1>2, <1>3, <1>5, ClientFacts
  <2>2. got'[c] # {}
    BY <1>2, <1>5
  <2>3. base[c] = 0 => HoldsUpTo(view[c], LastGot(c))'
    BY <1>2, <1>3, <1>5, <2>1, ViewAfterDelivery
  <2> QED
    BY <1>2, <2>2, <2>3 DEF ViewOK, S!Streaming
<1> QED
  BY <1>4, <1>5

LEMMA ViewAtCrash ==
    ASSUME NEW c \in Clients, ViewOK(c), LabelerCrash
    PROVE  ViewOK(c)'
<1>1. /\ log' = log /\ stream'[c] = "off" /\ base' = base /\ got' = got
      /\ cursor' = cursor /\ view' = view
  BY DEF LabelerCrash, Crash, store, S!Crash, S!client
<1> QED
  BY <1>1 DEF ViewOK, HoldsUpTo, LastGot, S!Streaming

LEMMA ViewAtStart ==
    ASSUME SerialInv, S!StreamInv, NEW c \in Clients, ViewOK(c), UNCHANGED <<writing, view>>,
           S!Register(c) \/ S!RefuseFutureCursor(c) \/ S!StartReplay(c) \/ S!StartAtEnd(c)
    PROVE  ViewOK(c)'
<1>0. log' = log /\ view' = view /\ got' = got /\ cursor' = cursor /\ batch' = batch
  BY DEF writing, S!Register, S!RefuseFutureCursor, S!StartReplay, S!StartAtEnd, S!client
<1>1. LastGot(c)' = LastGot(c)
  BY <1>0 DEF LastGot
<1>2. CASE S!Register(c) \/ S!RefuseFutureCursor(c)
  <2>1. stream'[c] \in {"registered", "refused"} /\ base' = base
    BY <1>2, StreamTypes DEF S!Register, S!RefuseFutureCursor, S!client
  <2> QED
    BY <1>0, <1>1, <2>1 DEF ViewOK, HoldsUpTo, S!Streaming
<1>3. got[c] = {} => HoldsUpTo(view[c], LastGot(c))
  BY LogIsSerial DEF ViewOK, HoldsUpTo, LastGot
<1>4. CASE S!StartReplay(c)
  <2>1. /\ stream'[c] = "query" /\ floor'[c] = cursor[c] /\ sentKey'[c] = 0
        /\ base'[c] = (IF got[c] = {} THEN cursor[c] ELSE base[c])
    BY <1>4, StreamTypes DEF S!StartReplay, S!Promise
  <2> QED
    BY <1>0, <1>1, <1>3, <2>1 DEF ViewOK, HoldsUpTo, LastGot
<1>5. CASE S!StartAtEnd(c)
  <2>1. /\ stream'[c] = "live" /\ floor'[c] = floor[c] /\ sentKey'[c] = LastSeq(log)
        /\ base'[c] = (IF got[c] = {} THEN LastSeq(log) ELSE base[c])
    BY <1>5, StreamTypes, OperatorsOfS DEF S!StartAtEnd, S!Promise, LastSeq
  <2>2. got[c] = {}
    <3>1. S!Int64(cursor[c]) < 0 /\ cursor[c] \in Int
      BY <1>5, ClientFacts, PartsAssumptions DEF S!StartAtEnd, S!HasCursor, S!Int64
    <3>2. \A s \in DOMAIN log : s \in Nat /\ s < Half
      BY PartsAssumptions DEF S!StreamInv, S!TypeOK
    <3>3. cursor[c] \notin DOMAIN log
      BY <3>1, <3>2, PartsAssumptions DEF S!Int64
    <3> QED
      BY <3>3, ClientFacts
  <2>3. floor[c] <= LastSeq(log) /\ floor[c] \in Nat
    BY ClientFacts
  <2>4. LastGot(c) = 0
    BY <2>2 DEF LastGot
  <2> QED
    BY <1>0, <1>1, <1>3, <2>1, <2>2, <2>3, <2>4 DEF ViewOK, HoldsUpTo
<1> QED
  BY <1>2, <1>4, <1>5

(* What a query of the log finds (BatchFacts of Subscribe_proofs). *)
LEMMA BatchOfQuery ==
    ASSUME S!StreamInv, NEW c \in Clients
    PROVE  /\ \A s \in S!Batch(c) : floor[c] < s
           /\ S!Batch(c) = {} => \A s \in DOMAIN log : ~ (floor[c] < s)
<1>1. SP!TypeOK
  BY SameStreamInv DEF SP!StreamInv
<1>2. S!Batch(c) = SP!Batch(c)
  BY OperatorsOfS, OperatorsOfSP DEF S!Batch, SP!Batch
<1>3. /\ SP!Batch(c) \in SUBSET {s \in DOMAIN log : s > floor[c]}
      /\ SP!Cardinality(SP!Batch(c)) < BatchSize =>
            {s \in DOMAIN log : s > floor[c]} \subseteq SP!Batch(c)
  BY <1>1, SP!BatchFacts, PartsAssumptions
<1>4. SP!Batch(c) = {} => SP!Cardinality(SP!Batch(c)) < BatchSize
  BY OperatorsOfSP, FS_EmptySet, PartsAssumptions
<1>5. \A s \in DOMAIN log : s \in Nat /\ floor[c] \in Nat
  BY DEF S!StreamInv, S!TypeOK
<1> QED
  BY <1>2, <1>3, <1>4, <1>5

LEMMA ViewAtRead ==
    ASSUME SerialInv, S!StreamInv, NEW c \in Clients, ViewOK(c), UNCHANGED <<writing, view>>,
           S!ReadBatch(c) \/ S!ReadNothing(c) \/ S!Wake(c)
    PROVE  ViewOK(c)'
<1>0. /\ log' = log /\ view' = view /\ got' = got /\ cursor' = cursor /\ base' = base
      /\ wakes' = wakes /\ sentKey' = sentKey
  BY DEF writing, S!ReadBatch, S!ReadNothing, S!Wake, S!client
<1>1. LastGot(c)' = LastGot(c)
  BY <1>0 DEF LastGot
<1>2. CASE S!ReadBatch(c)
  <2>1. /\ stream[c] = "query" /\ stream'[c] = "sending" /\ batch'[c] = S!Batch(c)
        /\ floor' = floor
    BY <1>2, StreamTypes DEF S!ReadBatch
  <2> QED
    BY <1>0, <1>1, <2>1, BatchOfQuery DEF ViewOK, HoldsUpTo, S!Streaming
<1>3. CASE S!ReadNothing(c)
  <2>1. /\ stream[c] = "query" /\ stream'[c] = "live" /\ floor'[c] = 0
        /\ \A s \in DOMAIN log : ~ (floor[c] < s)
    BY <1>3, StreamTypes, BatchOfQuery DEF S!ReadNothing
  <2>2. base[c] = 0 => LastGot(c) = LastSeq(log)
    <3>1. /\ LastSeq(log) \in Nat /\ DOMAIN log = 1 .. LastSeq(log)
          /\ LastGot(c) \in 0 .. LastSeq(log) /\ floor[c] \in Nat
      BY ClientFacts
    <3>2. base[c] = 0 => floor[c] \in {0, LastGot(c)}
      BY <2>1 DEF ViewOK, S!Streaming
    <3>3. LastSeq(log) > 0 => ~ (floor[c] < LastSeq(log))
      BY <2>1, <3>1
    <3> QED
      BY <3>1, <3>2, <3>3
  <2> QED
    BY <1>0, <1>1, <2>1, <2>2 DEF ViewOK, HoldsUpTo, S!Streaming
<1>4. CASE S!Wake(c)
  <2>1. /\ stream[c] = "live" /\ stream'[c] = "query" /\ floor'[c] = sentKey[c]
    BY <1>4, StreamTypes DEF S!Wake
  <2> QED
    BY <1>0, <1>1, <2>1 DEF ViewOK, HoldsUpTo, S!Streaming
<1> QED
  BY <1>2, <1>3, <1>4

(* A step of one stream leaves the others alone. *)
LEMMA OthersUntouched ==
    ASSUME S!StreamInv, view \in [Clients -> SUBSET DOMAIN log],
           NEW d \in Clients, Send(d) \/ Control(d) \/ Disconnect(d),
           NEW c \in Clients, c # d
    PROVE  Untouched(c) /\ log' = log /\ wakes' = wakes
<1>1. log' = log
  BY DEF Send, Control, Disconnect, writing
<1>2. CASE Send(d)
  BY <1>1, <1>2, StreamTypes
     DEF Send, S!SendFullBatch, S!SendLastBatch, S!Sent, S!Deliver, Untouched
<1>3. CASE Disconnect(d)
  BY <1>1, <1>3, StreamTypes DEF Disconnect, S!HangUp, S!Deliver, Untouched
<1>4. CASE Control(d)
  <2>1. CASE S!Register(d) \/ S!RefuseFutureCursor(d) \/ S!StartReplay(d) \/ S!StartAtEnd(d)
    BY <1>1, <1>4, <2>1, StreamTypes
       DEF Control, S!Register, S!RefuseFutureCursor, S!StartReplay, S!StartAtEnd, S!Promise,
           S!client, Untouched
  <2>2. CASE S!Wake(d) \/ S!ReadBatch(d) \/ S!ReadNothing(d)
    BY <1>1, <1>4, <2>2, StreamTypes
       DEF Control, S!Wake, S!ReadBatch, S!ReadNothing, S!client, Untouched
  <2> QED
    BY <1>4, <2>1, <2>2 DEF Control
<1> QED
  BY <1>2, <1>3, <1>4

LEMMA ViewNext ==
    ASSUME Engine = "sqlite", LabelerInv, SerialInv', NEW c \in Clients, [LabelerNext]_labelerVars
    PROVE  ViewOK(c)'
<1>0. /\ SerialInv /\ S!StreamInv /\ ViewOK(c)
      /\ view \in [Clients -> SUBSET DOMAIN log]
  BY DEF LabelerInv
<1>1. CASE \E w \in Writers : Write(w)
  <2>1. PICK w \in Writers : Write(w)
    BY <1>1
  <2>2. Untouched(c)
    BY <2>1 DEF Write, streaming, Untouched
  <2> QED
    BY <1>0, <2>1, <2>2, CallsWriteAtCommit, ViewUntouched, ViewAtCommit
<1>2. CASE WakeUpSubs
  BY <1>0, <1>2, ViewAtWakeUp
<1>3. CASE \E d \in Clients : Send(d) \/ Control(d) \/ Disconnect(d)
  <2>1. PICK d \in Clients : Send(d) \/ Control(d) \/ Disconnect(d)
    BY <1>3
  <2>2. CASE c # d
    BY <1>0, <2>1, <2>2, OthersUntouched, ViewUntouched
  <2>3. CASE Send(c)
    BY <1>0, <2>3, ViewAtSend
  <2>4. CASE Control(c)
    BY <1>0, <2>4, ViewAtStart, ViewAtRead DEF Control
  <2>5. CASE Disconnect(c)
    BY <1>0, <2>5, ViewAtDisconnect
  <2> QED
    BY <2>1, <2>2, <2>3, <2>4, <2>5
<1>4. CASE LabelerCrash
  BY <1>0, <1>4, ViewAtCrash
<1>5. CASE UNCHANGED labelerVars
  BY <1>0, <1>5, ViewUntouched DEF labelerVars, writing, streaming, Untouched
<1> QED
  BY <1>1, <1>2, <1>3, <1>4, <1>5 DEF LabelerNext

LEMMA ViewType ==
    ASSUME Engine = "sqlite", LabelerInv, SerialInv', [LabelerNext]_labelerVars
    PROVE  (view \in [Clients -> SUBSET DOMAIN log])'
<1>0. /\ SerialInv /\ S!StreamInv
      /\ view \in [Clients -> SUBSET DOMAIN log]
      /\ \A c \in Clients : batch[c] \subseteq DOMAIN log
  BY ClientFacts DEF LabelerInv
<1>1. DOMAIN log \subseteq DOMAIN log'
  <2>1. log' = log \/ \E w \in Writers : Commit(w)
    BY CallsWriteAtCommit DEF LabelerNext, WakeUpSubs, Send, Control, Disconnect, LabelerCrash, Crash,
                            store, writing, labelerVars
  <2> QED
    BY <1>0, <2>1, CommitAddsRow
<1>2. ASSUME NEW held \in SUBSET DOMAIN log, NEW rows \in SUBSET DOMAIN log
      PROVE  Applied(held, rows) \in SUBSET DOMAIN log
  BY DEF Applied, LastOfLabel
<1>3. CASE UNCHANGED view
  BY <1>0, <1>1, <1>3
<1>4. CASE \E c \in Clients : Send(c)
  <2>1. PICK c \in Clients : view' = [view EXCEPT ![c] = Applied(@, batch[c])]
    BY <1>4 DEF Send
  <2>2. Applied(view[c], batch[c]) \in SUBSET DOMAIN log
    BY <1>0, <1>2
  <2> QED
    BY <1>0, <1>1, <2>1, <2>2
<1>5. CASE \E c \in Clients : Disconnect(c)
  <2>0. PICK c \in Clients : Disconnect(c)
    BY <1>5
  <2>1. PICK sent \in S!Prefixes(batch[c]) : view' = [view EXCEPT ![c] = Applied(@, sent)]
    BY <2>0 DEF Disconnect
  <2>2. sent \in SUBSET DOMAIN log
    BY <1>0, <2>1 DEF S!Prefixes
  <2>3. Applied(view[c], sent) \in SUBSET DOMAIN log
    BY <1>0, <1>2, <2>2
  <2> QED
    BY <1>0, <1>1, <2>1, <2>3
<1> QED
  BY <1>3, <1>4, <1>5 DEF LabelerNext, Write, WakeUpSubs, Control, LabelerCrash, labelerVars

LEMMA LabelerInvInit == LabelerInit => LabelerInv
<1> SUFFICES ASSUME LabelerInit PROVE LabelerInv
  OBVIOUS
<1>1. SerialInv /\ RoomKept
  BY LabelerSerialInit
<1>2. S!StreamInv
  <2>1. SP!Init
    BY StreamsInit, SameStreamSteps
  <2> QED
    BY <2>1, SP!StreamInvInit, SameStreamInv, PartsAssumptions
<1>3. ASSUME NEW c \in Clients PROVE ViewOK(c)
  <2>1. \A t \in DOMAIN log : ~ (t <= 0)
    BY <1>1, LogIsSerial
  <2> QED
    BY <2>1 DEF LabelerInit, ViewOK, HoldsUpTo, LastGot, S!Streaming
<1>4. view \in [Clients -> SUBSET DOMAIN log]
  BY DEF LabelerInit
<1> QED
  BY <1>1, <1>2, <1>3, <1>4 DEF LabelerInv

LEMMA LabelerInvNext ==
    ASSUME Engine = "sqlite", LabelerInv, [LabelerNext]_labelerVars
    PROVE  LabelerInv'
<1>0. SerialInv /\ S!StreamInv /\ RoomKept
  BY DEF LabelerInv
<1>1. SerialInv' /\ RoomKept'
  BY <1>0, LabelerSerialNext, RoomNext
<1>2. S!StreamInv'
  BY <1>0, <1>1, StreamsStep, StreamInvNext
<1>3. \A c \in Clients : ViewOK(c)'
  BY <1>1, ViewNext
<1>4. (view \in [Clients -> SUBSET DOMAIN log])'
  BY <1>1, ViewType
<1> QED
  BY <1>1, <1>2, <1>3, <1>4 DEF LabelerInv

(* A subscriber of the whole log that has nothing under way holds the last
   entry of every label in the table, for any number of writers and
   subscribers and whatever they went through (property SubscriberAgrees;
   streamLabels at subscribe.go:56-175 with writeLabel). *)
THEOREM SubscribersAgree ==
    ASSUME Engine = "sqlite"
    PROVE  LabelerSpec => []SubscriberAgrees
<1>1. LabelerInit => LabelerInv
  BY LabelerInvInit
<1>2. LabelerInv /\ [LabelerNext]_labelerVars => LabelerInv'
  BY LabelerInvNext
<1>3. LabelerInv => SubscriberAgrees
  <2> SUFFICES ASSUME LabelerInv, NEW c \in Clients,
                      stream[c] = "live", ~ wakeCh[c], wakes = 0, base[c] = 0
               PROVE  view[c] = LastOfLabel(DOMAIN log)
    BY DEF SubscriberAgrees
  <2>1. /\ SerialInv /\ HoldsUpTo(view[c], LastSeq(log))
        /\ LastSeq(log) \in Nat /\ DOMAIN log = 1 .. LastSeq(log)
    BY LogIsSerial DEF LabelerInv, ViewOK
  <2>2. ASSUME NEW s \in view[c] PROVE s \in LastOfLabel(DOMAIN log)
    BY <2>1, <2>2 DEF HoldsUpTo, LastOfLabel
  <2>3. ASSUME NEW s \in LastOfLabel(DOMAIN log) PROVE s \in view[c]
    <3>1. s \in DOMAIN log /\ \A t \in DOMAIN log : SameKey(log[s], log[t]) => t <= s
      BY <2>3 DEF LastOfLabel
    <3>2. PICK r \in view[c] : SameKey(log[r], log[s])
      BY <2>1, <3>1 DEF HoldsUpTo
    <3>3. s <= r /\ r \in DOMAIN log
      BY <2>1, <3>1, <3>2 DEF HoldsUpTo
    <3>4. r <= s
      BY <3>1, <3>2, <3>3, SameKeyIsEquivalence
    <3>5. r = s
      BY <2>1, <3>1, <3>3, <3>4
    <3> QED
      BY <3>2, <3>5
  <2> QED
    BY <2>2, <2>3
<1> QED
  BY <1>1, <1>2, <1>3, PTL DEF LabelerSpec

-----------------------------------------------------------------------------
(* The poller: what it posts, and what the account carries. *)

LEMMA BadgeFacts ==
    ASSUME PollerServerAssumption, NEW badge \in Vals
    PROVE  /\ Other(badge) \in Vals /\ Other(badge) # badge
           /\ \A val \in Vals : val = badge \/ val = Other(badge)
           /\ badge # NoBadge
<1>1. PICK current \in Vals, alumni \in Vals : current # alumni /\ Vals = {current, alumni}
  BY DEF PollerServerAssumption
<1>2. \E val : val \in Vals \ {badge}
  BY <1>1
<1>3. Other(badge) \in Vals \ {badge}
  BY <1>2 DEF Other
<1> QED
  BY <1>1, <1>3 DEF PollerServerAssumption

AccountCid == CHOOSE cid \in Cids : TRUE
AccountExp == CHOOSE exp \in Exps : TRUE

LEMMA EntryForFacts ==
    ASSUME NEW val, NEW neg, NEW e, e = EntryFor(val, neg)
    PROVE  /\ e.val = val /\ e.neg = neg
           /\ e.uri = Account /\ e.src = Did
           /\ e.cid = AccountCid /\ e.exp = AccountExp
BY DEF EntryFor, EntryOf, Post, SourceOf, AccountCid, AccountExp

LEMMA PostsFacts ==
    ASSUME NEW badge
    PROVE  LET posts == PostsFor(badge)
           IN  /\ posts # <<>> /\ Tail(posts) # <<>> /\ Tail(posts) # posts
               /\ Tail(Tail(posts)) = <<>>
               /\ Head(posts) = Post(badge, FALSE)
               /\ Head(Tail(posts)) = Post(Other(badge), TRUE)
<1> DEFINE a == Post(badge, FALSE)
           b == Post(Other(badge), TRUE)
<1> HIDE DEF a, b
<1>1. PostsFor(badge) = <<a, b>>
  BY DEF PostsFor, a, b
<1>2. /\ Tail(<<a, b>>) = <<b>> /\ Tail(<<b>>) = <<>>
      /\ Head(<<a, b>>) = a /\ Head(<<b>>) = b
  OBVIOUS
<1>3. Len(<<a, b>>) = 2 /\ Len(<<b>>) = 1 /\ Len(<<>>) = 0
  OBVIOUS
<1>4. <<a, b>> # <<>> /\ <<b>> # <<>> /\ <<b>> # <<a, b>>
  BY <1>3
<1> QED
  BY <1>1, <1>2, <1>4 DEF a, b

(* To write the entry again would have no effect. *)
SettledIn(l, e) == IsNoOp(l, e, LatestMatch(l, e, LastSeq(l)))

(* An entry that is written is settled, and the other labels are as before. *)
LEMMA RowSettles ==
    ASSUME NEW l, IsLog(l), DOMAIN l = 1 .. LastSeq(l), NEW e \in Entry,
           NEW next, next = LastSeq(l) + 1, NEW r, r = WithRow(l, next, e)
    PROVE  /\ SettledIn(r, e)
           /\ \A x : ~ SameKey(e, x) => (SettledIn(r, x) <=> SettledIn(l, x))
<1>1. LastSeq(l) \in Nat /\ next \in Nat /\ next # 0 /\ ~ (next <= LastSeq(l))
  BY LastSeqIsTop
<1>2. /\ LastSeq(r) = next /\ DOMAIN r = 1 .. next /\ r[next] = e
      /\ \A s \in DOMAIN l : r[s] = l[s]
  <2>1. LastSeq(r) = next
    BY NextRow
  <2>2. DOMAIN r = 1 .. next
    BY NextRow
  <2>3. r[next] = e
    BY DEF WithRow
  <2>4. \A s \in DOMAIN l : r[s] = l[s]
    BY <1>1 DEF WithRow
  <2> QED
    BY <2>1, <2>2, <2>3, <2>4
<1>3. SettledIn(r, e)
  <2>1. next \in Matching(r, e, next) /\ \A s \in Matching(r, e, next) : s <= next
    BY <1>1, <1>2 DEF Matching, SameKey
  <2>2. Matching(r, e, next) \in SUBSET Nat
    BY <1>1, <1>2 DEF Matching
  <2>3. LatestMatch(r, e, next) = next
    BY <1>1, <2>1, <2>2, TopUnique DEF LatestMatch, IsTop
  <2> QED
    BY <1>1, <1>2, <2>3 DEF SettledIn, IsNoOp
<1>4. ASSUME NEW x, ~ SameKey(e, x)
      PROVE  SettledIn(r, x) <=> SettledIn(l, x)
  <2>1. Matching(r, x, next) = Matching(l, x, LastSeq(l))
    <3>1. next \notin Matching(r, x, next)
      BY <1>2, <1>4 DEF Matching
    <3>2. \A s : s \in DOMAIN r /\ s # next <=> s \in DOMAIN l
      BY <1>1, <1>2
    <3>3. \A s \in DOMAIN l : s <= next /\ s <= LastSeq(l)
      BY <1>1
    <3>4. ASSUME NEW s PROVE s \in Matching(r, x, next) <=> s \in Matching(l, x, LastSeq(l))
      <4>1. CASE s \in DOMAIN l
        <5>1. r[s] = l[s] /\ s \in DOMAIN r /\ s <= next /\ s <= LastSeq(l)
          BY <1>2, <3>2, <3>3, <4>1
        <5> QED
          BY <4>1, <5>1 DEF Matching
      <4>2. CASE s \notin DOMAIN l
        <5>1. s = next \/ s \notin DOMAIN r
          BY <3>2, <4>2
        <5> QED
          BY <3>1, <4>2, <5>1 DEF Matching
      <4> QED
        BY <4>1, <4>2
    <3> QED
      BY <3>4 DEF Matching
  <2>2. LatestMatch(r, x, next) = LatestMatch(l, x, LastSeq(l))
    BY <2>1 DEF LatestMatch
  <2>3. PICK prev : prev = LatestMatch(l, x, LastSeq(l))
    OBVIOUS
  <2>4. prev # 0 => prev \in DOMAIN l
    BY <1>1, <2>3, MatchIsTop DEF IsTop, Matching
  <2>5. prev # 0 => r[prev] = l[prev]
    BY <1>2, <2>4
  <2> QED
    BY <1>2, <2>2, <2>3, <2>5 DEF SettledIn, IsNoOp
<1> QED
  BY <1>3, <1>4

(* On a table of the poller's posts, a badge is carried when to post it again
   would have no effect, and is not when to negate it would have none. *)
LEMMA CarriedFacts ==
    ASSUME IsLog(log), \A s \in DOMAIN log : log[s] \in Entries, NEW val \in Vals,
           NEW e, e = EntryFor(val, FALSE), NEW f, f = EntryFor(val, TRUE)
    PROVE  /\ SettledIn(log, e) <=> val \in Carried
           /\ SettledIn(log, f) <=> val \notin Carried
<1>1. PICK m, last : m = LatestMatch(log, e, last) /\ last = LastSeq(log)
  OBVIOUS
<1>2. last \in Int
  BY <1>1, LastSeqIsTop
<1>3. /\ e.val = val /\ e.uri = Account /\ e.src = Did /\ e.cid = AccountCid
      /\ e.exp = AccountExp /\ e.neg = FALSE
  BY DEF EntryFor, EntryOf, Post, SourceOf, AccountCid, AccountExp
<1>4. /\ f.val = val /\ f.uri = Account /\ f.src = Did /\ f.cid = AccountCid
      /\ f.exp = AccountExp /\ f.neg = TRUE
  BY DEF EntryFor, EntryOf, Post, SourceOf, AccountCid, AccountExp
<1>5. ASSUME NEW s \in DOMAIN log
      PROVE  /\ s # 0
             /\ log[s].uri = Account /\ log[s].src = Did /\ log[s].cid = AccountCid
             /\ log[s].exp = AccountExp /\ log[s].neg \in BOOLEAN
  <2>1. PICK v \in Vals, sign \in BOOLEAN : log[s] = EntryFor(v, sign)
    BY DEF Entries
  <2>2. s # 0
    BY DEF IsLog, Seqs
  <2> QED
    BY <2>1, <2>2, EntryForFacts
<1>6. \A s, t \in DOMAIN log :
         /\ SameKey(log[s], log[t]) <=> log[s].val = log[t].val
         /\ SameKey(log[s], e) <=> log[s].val = val
         /\ SameKey(log[s], f) <=> log[s].val = val
  BY <1>3, <1>4, <1>5 DEF SameKey
<1>7. m \in Nat /\ m \in Matching(log, e, last) \cup {0}
  <2>1. IsTop(m, Matching(log, e, last)) /\ m \in Nat
    BY <1>1, <1>2, MatchIsTop
  <2> QED
    BY <2>1 DEF IsTop
<1>8. LatestMatch(log, f, last) = m
  <2>1. Matching(log, f, last) = Matching(log, e, last)
    BY <1>6 DEF Matching
  <2> QED
    BY <1>1, <2>1 DEF LatestMatch
<1>9. ASSUME NEW t \in DOMAIN log, log[t].val = val
      PROVE  LatestMatch(log, log[t], last) = m
  <2>1. Matching(log, log[t], last) = Matching(log, e, last)
    BY <1>6, <1>9 DEF Matching
  <2> QED
    BY <1>1, <2>1 DEF LatestMatch
<1>10. m # 0 => m \in DOMAIN log /\ log[m].val = val
  BY <1>6, <1>7 DEF Matching
<1>11. val \in Carried <=> m # 0 /\ ~ log[m].neg
  <2>1. ASSUME val \in Carried PROVE m # 0 /\ ~ log[m].neg
    <3>1. PICK t \in DOMAIN log : /\ ~ log[t].neg /\ log[t].val = val
                                  /\ t = LatestMatch(log, log[t], last)
      BY <1>1, <2>1 DEF Carried
    <3>2. t = m
      BY <1>9, <3>1
    <3> QED
      BY <1>5, <3>1, <3>2
  <2>2. ASSUME m # 0, ~ log[m].neg PROVE val \in Carried
    <3>1. m \in DOMAIN log /\ log[m].val = val
      BY <1>10, <2>2
    <3>2. m = LatestMatch(log, log[m], last)
      BY <1>9, <3>1
    <3> QED
      BY <1>1, <2>2, <3>1, <3>2 DEF Carried
  <2> QED
    BY <2>1, <2>2
<1>12. SettledIn(log, e) <=> m # 0 /\ ~ log[m].neg
  <2>1. SettledIn(log, e) <=> IsNoOp(log, e, m)
    BY <1>1 DEF SettledIn
  <2>2. IsNoOp(log, e, m) <=> m # 0 /\ ~ log[m].neg
    <3>1. CASE m = 0
      BY <1>3, <3>1 DEF IsNoOp
    <3>2. CASE m # 0
      <4>1. log[m].neg \in BOOLEAN /\ log[m].exp = e.exp
        BY <1>3, <1>5, <1>10, <3>2
      <4>2. IsNoOp(log, e, m) <=> log[m].neg = FALSE
        BY <1>3, <3>2, <4>1 DEF IsNoOp
      <4> QED
        BY <3>2, <4>1, <4>2
    <3> QED
      BY <3>1, <3>2
  <2> QED
    BY <2>1, <2>2
<1>13. SettledIn(log, f) <=> ~ (m # 0 /\ ~ log[m].neg)
  <2>1. SettledIn(log, f) <=> IsNoOp(log, f, m)
    BY <1>1, <1>8 DEF SettledIn
  <2>2. IsNoOp(log, f, m) <=> ~ (m # 0 /\ ~ log[m].neg)
    <3>1. CASE m = 0
      BY <1>4, <3>1 DEF IsNoOp
    <3>2. CASE m # 0
      <4>1. log[m].neg \in BOOLEAN /\ log[m].exp = f.exp
        BY <1>4, <1>5, <1>10, <3>2
      <4>2. IsNoOp(log, f, m) <=> log[m].neg = TRUE
        BY <1>4, <3>2, <4>1 DEF IsNoOp
      <4> QED
        BY <3>2, <4>1, <4>2
    <3> QED
      BY <3>1, <3>2
  <2> QED
    BY <2>1, <2>2
<1> QED
  BY <1>11, <1>12, <1>13

-----------------------------------------------------------------------------
(* The poller: one step of the server that posts or works for it. *)

LEMMA SettledIs == \A e : Settled(e) <=> SettledIn(log, e)
BY DEF Settled, SettledIn

(* What a statement does to its handler: it keeps its label until it is done,
   and when it answers without an error the label is settled. *)
LEMMA StatementOutcome ==
    ASSUME Engine = "sqlite", SerialInv, NEW h \in Writers, Statement(h)
    PROVE  /\ pc[h] # "idle"
           /\ \A g \in Writers \ {h} : pc'[g] = pc[g] /\ req'[g] = req[g] /\ reply'[g] = reply[g]
           /\ pc'[h] # "idle" => req'[h] = req[h]
           /\ log' = log \/ Commit(h)
           /\ pc'[h] = "idle" /\ reply'[h] \in {"created", "noop"} => SettledIn(log', req[h])
<1>1. LocalsOK /\ IsLog(log) /\ SnapshotsStayValid
  BY DEF SerialInv, TypeOK
<1>2. /\ pc \in [Writers -> PCs] /\ req \in [Writers -> Entry \cup {NoRequest}]
      /\ reply \in [Writers -> Replies]
  BY <1>1 DEF LocalsOK
<1>3. ASSUME FailAttempt(h)
      PROVE  /\ \A g \in Writers \ {h} : pc'[g] = pc[g] /\ req'[g] = req[g] /\ reply'[g] = reply[g]
             /\ pc'[h] # "idle" => req'[h] = req[h]
             /\ ~ (pc'[h] = "idle" /\ reply'[h] \in {"created", "noop"})
  BY <1>2, <1>3 DEF FailAttempt, Retry, GiveUp, Return
<1>4. ASSUME NEW r, Return(h, r)
      PROVE  /\ \A g \in Writers \ {h} : pc'[g] = pc[g] /\ req'[g] = req[g] /\ reply'[g] = reply[g]
             /\ pc'[h] = "idle"
  BY <1>2, <1>4 DEF Return
<1>5. CASE ReadLastKey(h) \/ ReadMatch(h) \/ Create(h) \/ CountConcurrent(h)
  BY <1>2, <1>5 DEF ReadLastKey, ReadMatch, Create, CountConcurrent, store
<1>6. CASE CreateConflicts(h) \/ CountConcurrentFails(h) \/ TxError(h)
  BY <1>3, <1>6 DEF CreateConflicts, CountConcurrentFails, TxError, store
<1>7. CASE ReadMatchNoOp(h)
  <2>1. pc[h] = "match" /\ log' = log /\ Return(h, "noop")
        /\ IsNoOp(log, req[h], LatestMatch(log, req[h], lastKey[h]))
    BY <1>7 DEF ReadMatchNoOp, Found, NoOpReply, store
  <2>2. lastKey[h] = LastSeq(log)
    BY <1>1, <2>1 DEF SnapshotsStayValid, HoldsShared
  <2>3. SettledIn(log', req[h])
    BY <2>1, <2>2 DEF SettledIn
  <2> QED
    BY <1>4, <2>1, <2>3
<1>8. CASE Commit(h)
  <2>1. /\ pc[h] = "commit" /\ Return(h, "created")
        /\ log' = WithRow(log, newSeq[h], req[h])
    BY <1>8 DEF Commit
  <2>2. req[h] \in Entry /\ newSeq[h] = LastSeq(log) + 1 /\ DOMAIN log = 1 .. LastSeq(log)
    <3>1. req[h] \in Entry
      BY <1>1, <2>1 DEF LocalsOK
    <3> QED
      BY <2>1, <3>1, LogIsSerial
  <2>3. SettledIn(log', req[h])
    BY <1>1, <2>1, <2>2, RowSettles
  <2> QED
    BY <1>4, <1>8, <2>1, <2>3
<1> QED
  BY <1>5, <1>6, <1>7, <1>8 DEF Statement, CommitUnacknowledged

(* Other labels stay as they were. *)
LEMMA OthersStaySettled ==
    ASSUME Engine = "sqlite", SerialInv, NEW h \in Writers, Statement(h),
           NEW x, ~ SameKey(req[h], x), SettledIn(log, x)
    PROVE  SettledIn(log', x)
<1>1. CASE log' = log
  BY <1>1
<1>2. CASE Commit(h)
  <2>1. pc[h] = "commit" /\ log' = WithRow(log, newSeq[h], req[h])
    BY <1>2 DEF Commit
  <2>2. req[h] \in Entry /\ newSeq[h] = LastSeq(log) + 1 /\ DOMAIN log = 1 .. LastSeq(log)
        /\ IsLog(log)
    <3>1. LocalsOK /\ IsLog(log)
      BY DEF SerialInv, TypeOK
    <3>2. req[h] \in Entry
      BY <2>1, <3>1 DEF LocalsOK
    <3> QED
      BY <2>1, <3>1, <3>2, LogIsSerial
  <2> QED
    BY <2>1, <2>2, RowSettles
<1> QED
  BY <1>1, <1>2, StatementOutcome

-----------------------------------------------------------------------------
(* The poller's cycle, step by step. *)

(* What is posted next is a request; in a cycle, the POST that was sent last is
   that of LastPosted. *)
LEMMA NextPost ==
    ASSUME PollerServerAssumption, CyclePosted, queue # <<>>
    PROVE  /\ target \in Vals /\ target # NoBadge /\ Head(queue) \in Requests
           /\ queue = PostsFor(target) =>
                /\ Head(queue) = Post(target, FALSE) /\ Tail(queue) # <<>>
           /\ queue # PostsFor(target) =>
                /\ Head(queue) = Post(Other(target), TRUE) /\ Tail(queue) = <<>>
           /\ Tail(queue) # PostsFor(target)
           /\ Tail(queue) \in {Tail(PostsFor(target)), <<>>}
<1>1. target \in Vals /\ target # NoBadge /\ queue \in {PostsFor(target), Tail(PostsFor(target))}
  BY DEF CyclePosted, PollerServerAssumption
<1>2. Other(target) \in Vals
  BY <1>1, BadgeFacts
<1>3. \A val \in Vals, neg \in BOOLEAN : Post(val, neg) \in Requests
  BY DEF PollerServerAssumption
<1>4. PICK posts : posts = PostsFor(target)
  OBVIOUS
<1>5. /\ posts # <<>> /\ Tail(posts) # <<>> /\ Tail(posts) # posts /\ Tail(Tail(posts)) = <<>>
      /\ Head(posts) = Post(target, FALSE) /\ Head(Tail(posts)) = Post(Other(target), TRUE)
  BY <1>4, PostsFacts
<1>6. CASE queue = posts
  BY <1>1, <1>3, <1>4, <1>5, <1>6
<1>7. CASE queue = Tail(posts)
  BY <1>1, <1>2, <1>3, <1>4, <1>5, <1>7
<1> QED
  BY <1>1, <1>4, <1>6, <1>7

LEMMA InEntries ==
    \A val \in Vals : EntryFor(val, FALSE) \in Entries /\ EntryFor(val, TRUE) \in Entries
<1>1. ASSUME NEW val \in Vals, NEW neg \in BOOLEAN PROVE EntryFor(val, neg) \in Entries
  BY DEF Entries
<1> QED
  BY <1>1

(* Each step is a step of the server, or none. *)
LEMMA PollerStepIsNext ==
    ASSUME PollerServerAssumption, PollInv, [PollerNext]_pollerVars
    PROVE  [Next]_vars
<1>1. CASE UNCHANGED pollerVars
  BY <1>1 DEF pollerVars, server, vars, locals
<1>2. CASE Move \/ StartCycle \/ Answer \/ EndCycle \/ Timeout
  BY <1>2 DEF Move, StartCycle, Answer, EndCycle, Timeout, server, vars, locals
<1>3. ASSUME NEW h \in Writers, SendPost(h) PROVE Next
  <2>1. AddLabel(h, Head(queue)) /\ queue # <<>>
    BY <1>3 DEF SendPost
  <2>2. Head(queue) \in Requests
    BY <2>1, NextPost DEF PollInv
  <2> QED
    BY <2>1, <2>2 DEF Next
<1>4. ASSUME NEW h \in Writers, Handle(h) \/ StatementFails(h) PROVE Next
  BY <1>4 DEF Handle, StatementFails, Succeeds, Statement, Next
<1>5. CASE PollerCrash
  BY <1>5 DEF PollerCrash, Next
<1> QED
  BY <1>1, <1>2, <1>3, <1>4, <1>5 DEF PollerNext, Poll

LEMMA PollInvInit == ASSUME PollerServerAssumption, PollerInit PROVE PollInv
<1>1. SerialInv
  BY SerialInit DEF PollerInit
<1>2. DOMAIN log = {}
  BY EmptyLogIsLog DEF PollerInit, Init
<1>3. \A h \in Writers : pc[h] = "idle"
  BY DEF PollerInit, Init
<1> QED
  BY <1>1, <1>2, <1>3 DEF PollInv, CyclePosted, CycleSettled, PollerInit

(* The steps of the poller alone. *)
LEMMA PollerAlone ==
    ASSUME PollerServerAssumption, PollInv,
           Move \/ StartCycle \/ Answer \/ EndCycle \/ Timeout
    PROVE  CyclePosted' /\ CycleSettled'
<1>0. UNCHANGED <<log, pc, req, reply>>
  BY DEF Move, StartCycle, Answer, EndCycle, Timeout, server
<1>1. CASE Move
  <2>1. UNCHANGED <<target, queue, waiting, exact, abandoned>> /\ want' \in Vals
    BY <1>1 DEF Move, cycle
  <2>2. LastPosted' = LastPosted
    BY <2>1 DEF LastPosted
  <2>3. CyclePosted'
    BY <1>0, <2>1, <2>2 DEF PollInv, CyclePosted
  <2>4. Acknowledged' = Acknowledged
    BY <1>0, <2>1 DEF Acknowledged
  <2>5. CycleSettled'
    BY <1>0, <2>1, <2>2, <2>4 DEF PollInv, CycleSettled, Settled
  <2> QED
    BY <2>3, <2>5
<1>2. CASE StartCycle
  <2>1. /\ target = NoBadge /\ target' = want /\ queue' = PostsFor(want)
        /\ exact' = (abandoned = {}) /\ UNCHANGED <<want, waiting, abandoned>>
    BY <1>2 DEF StartCycle
  <2>2. want \in Vals /\ want # NoBadge /\ waiting = NoHandler
    BY <2>1 DEF PollInv, CyclePosted, PollerServerAssumption
  <2>3. PostsFor(want) # <<>>
    BY PostsFacts
  <2>4. CyclePosted'
    BY <1>0, <2>1, <2>2 DEF PollInv, CyclePosted
  <2>5. CycleSettled'
    BY <2>1, <2>3 DEF CycleSettled
  <2> QED
    BY <2>4, <2>5
<1>3. CASE Answer
  <2>1. /\ waiting # NoHandler /\ pc[waiting] = "idle" /\ waiting' = NoHandler
        /\ exact' = (exact /\ reply[waiting] \in {"created", "noop"})
        /\ UNCHANGED <<want, target, queue, abandoned>>
    BY <1>3 DEF Answer
  <2>2. target # NoBadge
    BY <2>1 DEF PollInv, CyclePosted
  <2>3. CyclePosted'
    BY <1>0, <2>1, <2>2 DEF PollInv, CyclePosted
  <2>4. LastPosted' = LastPosted
    BY <2>1 DEF LastPosted
  <2>5. exact' => Acknowledged
    BY <2>1 DEF Acknowledged
  <2>6. CycleSettled'
    BY <1>0, <2>1, <2>4, <2>5 DEF PollInv, CycleSettled, Settled
  <2> QED
    BY <2>3, <2>6
<1>4. CASE EndCycle
  <2>1. /\ queue = <<>> /\ waiting = NoHandler /\ target' = NoBadge /\ exact' = FALSE
        /\ UNCHANGED <<want, queue, waiting, abandoned>>
    BY <1>4 DEF EndCycle, Done
  <2> QED
    BY <1>0, <2>1 DEF PollInv, CyclePosted, CycleSettled
<1>5. CASE Timeout
  <2>1. /\ waiting # NoHandler /\ abandoned' = abandoned \cup {waiting}
        /\ waiting' = NoHandler /\ exact' = FALSE
        /\ UNCHANGED <<want, target, queue>>
    BY <1>5 DEF Timeout
  <2>2. target # NoBadge
    BY <2>1 DEF PollInv, CyclePosted
  <2> QED
    BY <1>0, <2>1, <2>2 DEF PollInv, CyclePosted, CycleSettled
<1> QED
  BY <1>1, <1>2, <1>3, <1>4, <1>5

(* A POST goes out: the one before it was answered, so in an exact cycle its
   label is settled. *)
LEMMA PollerSends ==
    ASSUME PollerServerAssumption, PollInv, NEW h \in Writers, SendPost(h)
    PROVE  CyclePosted' /\ CycleSettled'
<1>1. /\ waiting = NoHandler /\ queue # <<>> /\ queue' = Tail(queue) /\ waiting' = h
      /\ UNCHANGED <<want, target, exact, abandoned, log>>
      /\ pc' = [pc EXCEPT ![h] = "begin"]
      /\ req' = [req EXCEPT ![h] = EntryOf(Head(queue))]
  BY DEF SendPost, AddLabel, store
<1>2. LocalsOK
  BY DEF PollInv, SerialInv, TypeOK
<1>3. pc \in [Writers -> PCs] /\ req \in [Writers -> Entry \cup {NoRequest}]
  BY <1>2 DEF LocalsOK
<1>4. /\ target \in Vals /\ target # NoBadge
      /\ queue = PostsFor(target) =>
           /\ Head(queue) = Post(target, FALSE) /\ Tail(queue) # <<>>
      /\ queue # PostsFor(target) =>
           /\ Head(queue) = Post(Other(target), TRUE) /\ Tail(queue) = <<>>
      /\ Tail(queue) # PostsFor(target)
      /\ Tail(queue) \in {Tail(PostsFor(target)), <<>>}
  BY <1>1, NextPost DEF PollInv
<1>5. req'[h] = LastPosted' /\ LastPosted' \in Entries
  <2>1. Other(target) \in Vals
    BY <1>4, BadgeFacts
  <2>2. CASE queue = PostsFor(target)
    <3>1. req'[h] = EntryFor(target, FALSE)
      BY <1>1, <1>3, <1>4, <2>2 DEF EntryFor
    <3>2. LastPosted' = EntryFor(target, FALSE)
      BY <1>1, <1>4, <2>2 DEF LastPosted
    <3> QED
      BY <1>4, <3>1, <3>2, InEntries
  <2>3. CASE queue # PostsFor(target)
    <3>1. req'[h] = EntryFor(Other(target), TRUE)
      BY <1>1, <1>3, <1>4, <2>3 DEF EntryFor
    <3>2. LastPosted' = EntryFor(Other(target), TRUE)
      BY <1>1, <1>4, <2>3 DEF LastPosted
    <3> QED
      BY <2>1, <3>1, <3>2, InEntries
  <2> QED
    BY <2>2, <2>3
<1>6. pc'[h] = "begin" /\ \A g \in Writers \ {h} : pc'[g] = pc[g] /\ req'[g] = req[g]
  BY <1>1, <1>3
<1>7. CyclePosted'
  <2>1. want' \in Vals /\ waiting' \in Writers \cup {NoHandler} /\ exact' \in BOOLEAN
    BY <1>1 DEF PollInv, CyclePosted
  <2>2. \A s \in DOMAIN log' : log'[s] \in Entries
    BY <1>1 DEF PollInv, CyclePosted
  <2>3. \A g \in Writers : pc'[g] # "idle" => req'[g] \in Entries /\ g \in abandoned' \cup {waiting'}
    <3>1. \A g \in Writers : pc[g] # "idle" => req[g] \in Entries /\ g \in abandoned
      BY <1>1 DEF PollInv, CyclePosted, PollerServerAssumption
    <3> QED
      BY <1>1, <1>5, <1>6, <3>1
  <2>4. target' # NoBadge /\ target' \in Vals
        /\ queue' \in {PostsFor(target'), Tail(PostsFor(target')), <<>>}
        /\ queue' # PostsFor(target')
    BY <1>1, <1>4
  <2>5. req'[waiting'] = LastPosted'
    BY <1>1, <1>5
  <2> QED
    BY <2>1, <2>2, <2>3, <2>4, <2>5 DEF CyclePosted
<1>8. CycleSettled'
  <2> SUFFICES ASSUME exact'
               PROVE  /\ abandoned' = {}
                      /\ queue' = <<>> => Settled(EntryFor(target, FALSE))'
                      /\ ~ Acknowledged'
    BY DEF CycleSettled
  <2>1. exact /\ abandoned' = {}
    BY <1>1 DEF PollInv, CycleSettled
  <2>2. ~ Acknowledged'
    BY <1>1, <1>6 DEF Acknowledged, PollerServerAssumption
  <2>3. ASSUME queue' = <<>> PROVE Settled(EntryFor(target, FALSE))'
    <3>1. queue # PostsFor(target)
      BY <1>1, <1>4, <2>3
    <3>2. Acknowledged
      BY <1>1 DEF Acknowledged
    <3>3. Settled(LastPosted)
      BY <2>1, <3>1, <3>2 DEF PollInv, CycleSettled
    <3>4. LastPosted = EntryFor(target, FALSE)
      BY <1>1 DEF LastPosted
    <3> QED
      BY <1>1, <3>3, <3>4 DEF Settled
  <2> QED
    BY <2>1, <2>2, <2>3
<1> QED
  BY <1>7, <1>8

(* A handler works for the poller: in an exact cycle, on the POST it waits for. *)
LEMMA HandlerSteps ==
    ASSUME PollerServerAssumption, Engine = "sqlite", PollInv,
           NEW h \in Writers, Statement(h), StillAbandoned,
           UNCHANGED <<want, target, queue, waiting, exact>>
    PROVE  CyclePosted' /\ CycleSettled'
<1>0. SerialInv /\ CyclePosted /\ CycleSettled
  BY DEF PollInv
<1>1. /\ pc[h] # "idle"
      /\ \A g \in Writers \ {h} : pc'[g] = pc[g] /\ req'[g] = req[g] /\ reply'[g] = reply[g]
      /\ pc'[h] # "idle" => req'[h] = req[h]
      /\ log' = log \/ Commit(h)
      /\ pc'[h] = "idle" /\ reply'[h] \in {"created", "noop"} => SettledIn(log', req[h])
  BY <1>0, StatementOutcome
<1>2. /\ req[h] \in Entries /\ h \in abandoned \cup {waiting}
      /\ h = waiting => req[h] = LastPosted /\ queue # PostsFor(target)
  BY <1>0, <1>1 DEF CyclePosted, PollerServerAssumption
<1>3. LastPosted' = LastPosted
  BY DEF LastPosted
<1>4. CyclePosted'
  <2>1. \A s \in DOMAIN log' : log'[s] \in Entries
    <3>1. CASE log' = log
      BY <1>0, <3>1 DEF CyclePosted
    <3>2. CASE Commit(h)
      <4>1. log' = WithRow(log, newSeq[h], req[h])
        BY <3>2 DEF Commit
      <4> QED
        BY <1>0, <1>2, <4>1 DEF CyclePosted, WithRow
    <3> QED
      BY <1>1, <3>1, <3>2
  <2>2. \A g \in Writers : pc'[g] # "idle" => req'[g] \in Entries /\ g \in abandoned' \cup {waiting'}
    <3>1. \A g \in Writers : pc[g] # "idle" => req[g] \in Entries /\ g \in abandoned \cup {waiting}
      BY <1>0 DEF CyclePosted
    <3>2. \A g \in Writers : pc'[g] # "idle" => pc[g] # "idle" /\ req'[g] = req[g]
      BY <1>1
    <3> QED
      BY <3>1, <3>2 DEF StillAbandoned
  <2>3. waiting' # NoHandler =>
           /\ queue' # PostsFor(target')
           /\ pc'[waiting'] # "idle" => req'[waiting'] = LastPosted'
    <3>1. waiting # NoHandler =>
             /\ waiting \in Writers /\ queue # PostsFor(target)
             /\ pc[waiting] # "idle" => req[waiting] = LastPosted
      BY <1>0 DEF CyclePosted
    <3>2. \A g \in Writers : pc'[g] # "idle" => pc[g] # "idle" /\ req'[g] = req[g]
      BY <1>1
    <3> QED
      BY <1>3, <3>1, <3>2
  <2> QED
    BY <1>0, <2>1, <2>2, <2>3 DEF CyclePosted
<1>5. CycleSettled'
  <2> SUFFICES ASSUME exact
               PROVE  /\ abandoned' = {}
                      /\ queue = <<>> => SettledIn(log', EntryFor(target, FALSE))
                      /\ queue # PostsFor(target) /\ Acknowledged' => SettledIn(log', LastPosted)
    BY <1>3 DEF CycleSettled, Settled, SettledIn
  <2>1. abandoned = {} /\ h = waiting
    BY <1>0, <1>2 DEF CycleSettled
  <2>2. abandoned' = {}
    BY <2>1 DEF StillAbandoned
  <2>3. ASSUME queue = <<>> PROVE SettledIn(log', EntryFor(target, FALSE))
    <3>1. target \in Vals
      BY <1>0, <1>2, <2>1 DEF CyclePosted, PollerServerAssumption
    <3>2. Other(target) # target
      BY <3>1, BadgeFacts
    <3>3. req[h] = EntryFor(Other(target), TRUE)
      BY <1>2, <2>1, <2>3 DEF LastPosted
    <3>4. ~ SameKey(req[h], EntryFor(target, FALSE))
      <4>1. EntryFor(target, FALSE).val = target
        BY DEF EntryFor, EntryOf, Post
      <4>2. EntryFor(Other(target), TRUE).val = Other(target)
        BY DEF EntryFor, EntryOf, Post
      <4> QED
        BY <3>2, <3>3, <4>1, <4>2 DEF SameKey
    <3>5. SettledIn(log, EntryFor(target, FALSE))
      BY <1>0, <2>3 DEF CycleSettled, Settled, SettledIn
    <3> QED
      BY <1>0, <3>4, <3>5, OthersStaySettled
  <2>4. ASSUME Acknowledged' PROVE SettledIn(log', LastPosted)
    <3>1. waiting # NoHandler
      BY <2>1 DEF PollerServerAssumption
    <3>2. pc'[h] = "idle" /\ reply'[h] \in {"created", "noop"}
      BY <2>1, <2>4, <3>1 DEF Acknowledged
    <3> QED
      BY <1>1, <1>2, <2>1, <3>2
  <2> QED
    BY <2>2, <2>3, <2>4
<1> QED
  BY <1>4, <1>5

LEMMA PollerCrashes ==
    ASSUME PollInv, PollerCrash
    PROVE  CyclePosted' /\ CycleSettled'
<1>1. /\ want' = want /\ log' = log /\ target' = NoBadge /\ queue' = <<>>
      /\ waiting' = NoHandler /\ exact' = FALSE
      /\ pc' = [h \in Writers |-> "idle"]
  BY DEF PollerCrash, Crash, store
<1> QED
  BY <1>1 DEF PollInv, CyclePosted, CycleSettled

LEMMA PollInvNext ==
    ASSUME PollerServerAssumption, Engine = "sqlite", PollInv, [PollerNext]_pollerVars
    PROVE  PollInv'
<1>1. SerialInv'
  BY PollerStepIsNext, SerialNext DEF PollInv
<1>2. CASE UNCHANGED pollerVars
  <2>1. /\ UNCHANGED <<log, pc, req, reply>>
        /\ UNCHANGED <<want, target, queue, waiting, exact, abandoned>>
    BY <1>2 DEF pollerVars, server, cycle
  <2>2. LastPosted' = LastPosted /\ Acknowledged' = Acknowledged
    BY <2>1 DEF LastPosted, Acknowledged
  <2>3. CyclePosted' /\ CycleSettled'
    BY <2>1, <2>2 DEF PollInv, CyclePosted, CycleSettled, Settled
  <2> QED
    BY <1>1, <2>3 DEF PollInv
<1>3. CASE Move \/ StartCycle \/ Answer \/ EndCycle \/ Timeout
  BY <1>1, <1>3, PollerAlone DEF PollInv
<1>4. ASSUME NEW h \in Writers, SendPost(h) PROVE PollInv'
  BY <1>1, <1>4, PollerSends DEF PollInv
<1>5. ASSUME NEW h \in Writers, Handle(h) \/ StatementFails(h) PROVE PollInv'
  <2>1. Statement(h) /\ StillAbandoned /\ UNCHANGED <<want, target, queue, waiting, exact>>
    BY <1>5 DEF Handle, StatementFails, Succeeds, Statement, cycle
  <2> QED
    BY <1>1, <2>1, HandlerSteps DEF PollInv
<1>6. CASE PollerCrash
  BY <1>1, <1>6, PollerCrashes DEF PollInv
<1> QED
  BY <1>2, <1>3, <1>4, <1>5, <1>6 DEF PollerNext, Poll

(* With SQLite, when every POST of a cycle was answered, and none was given up,
   the account carries the badge of the cycle and no other (poller.py, reconcile,
   and writeLabel), for any number of handlers, timeouts and crashes before. *)
THEOREM AnsweredCyclesAreExact ==
    ASSUME PollerServerAssumption, Engine = "sqlite"
    PROVE  PollerSpec => []AnsweredCycleIsExact
<1>1. PollInv => AnsweredCycleIsExact
  <2> SUFFICES ASSUME PollInv, Done, exact PROVE Carried = {target}
    BY DEF AnsweredCycleIsExact
  <2>1. /\ target \in Vals /\ queue = <<>> /\ queue # PostsFor(target)
        /\ waiting = NoHandler
    BY PostsFacts DEF Done, PollInv, CyclePosted
  <2>2. Other(target) \in Vals /\ \A val \in Vals : val = target \/ val = Other(target)
    BY <2>1, BadgeFacts
  <2>3. /\ SettledIn(log, EntryFor(target, FALSE))
        /\ SettledIn(log, EntryFor(Other(target), TRUE))
    BY <2>1 DEF PollInv, CycleSettled, Acknowledged, LastPosted, Settled, SettledIn
  <2>4. IsLog(log) /\ \A s \in DOMAIN log : log[s] \in Entries
    BY DEF PollInv, CyclePosted, SerialInv, TypeOK
  <2>5. target \in Carried /\ Other(target) \notin Carried
    BY <2>1, <2>2, <2>3, <2>4, CarriedFacts
  <2>6. Carried \subseteq Vals
    <3>1. \A s \in DOMAIN log : log[s].val \in Vals
      BY <2>4 DEF IsLog, Entry
    <3> QED
      BY <3>1 DEF Carried
  <2> QED
    BY <2>2, <2>5, <2>6
<1>2. PollerInit => PollInv
  BY PollInvInit
<1>3. PollInv /\ [PollerNext]_pollerVars => PollInv'
  BY PollInvNext
<1> QED
  BY <1>1, <1>2, <1>3, PTL DEF PollerSpec

(* With SQLite, no row is written while the account carries the badge of the
   cycle and no other, except by a handler that was given up. *)
THEOREM RepeatedPostsWriteNothing ==
    ASSUME PollerServerAssumption, Engine = "sqlite"
    PROVE  PollerSpec => UnchangedIsNotWritten
<1> DEFINE ByAbandoned ==
             Carried = {target} => \E h \in abandoned : log'[LastSeq(log')] = req[h]
<1>1. PollInv /\ [PollerNext]_pollerVars => [ByAbandoned]_log
  <2> SUFFICES ASSUME PollInv, [PollerNext]_pollerVars, log' # log, Carried = {target}
               PROVE  \E h \in abandoned : log'[LastSeq(log')] = req[h]
    OBVIOUS
  <2>1. PICK h \in Writers : Commit(h)
    BY PollerStepIsNext, OnlyCommitWrites
  <2>2. /\ pc[h] = "commit" /\ log' = WithRow(log, newSeq[h], req[h])
    BY <2>1 DEF Commit
  <2>3. SerialInv /\ CyclePosted /\ IsLog(log)
    BY DEF PollInv, SerialInv, TypeOK
  <2>4. newSeq[h] = LastSeq(log) + 1
    BY <2>2, <2>3, LogIsSerial
  <2>5. LastSeq(log') = newSeq[h]
    BY <2>1, <2>3, <2>4, CommitAddsRow
  <2>6. log'[LastSeq(log')] = req[h]
    BY <2>2, <2>5 DEF WithRow
  <2>7. ASSUME h \notin abandoned PROVE FALSE
    <3>1. h = waiting /\ waiting # NoHandler /\ req[h] = LastPosted
      BY <2>2, <2>3, <2>7 DEF CyclePosted, PollerServerAssumption
    <3>2. target \in Vals
      BY <2>3, <3>1 DEF CyclePosted
    <3>3. Other(target) \in Vals /\ Other(target) # target
      BY <3>2, BadgeFacts
    <3>4. \A s \in DOMAIN log : log[s] \in Entries
      BY <2>3 DEF CyclePosted
    <3>5. SettledIn(log, EntryFor(target, FALSE))
      BY <2>3, <3>2, <3>4, CarriedFacts
    <3>6. SettledIn(log, EntryFor(Other(target), TRUE))
      BY <2>3, <3>3, <3>4, CarriedFacts
    <3>7. SettledIn(log, req[h])
      BY <3>1, <3>5, <3>6 DEF LastPosted
    <3>8. ~ SettledIn(log, req[h])
      BY <2>2, <2>3 DEF SerialInv, SnapshotsStayValid, SettledIn
    <3> QED
      BY <3>7, <3>8
  <2> QED
    BY <2>6, <2>7
<1>2. PollerInit => PollInv
  BY PollInvInit
<1>3. PollInv /\ [PollerNext]_pollerVars => PollInv'
  BY PollInvNext
<1> QED
  BY <1>1, <1>2, <1>3, PTL DEF PollerSpec, UnchangedIsNotWritten

=============================================================================
