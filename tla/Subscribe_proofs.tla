--------------------------- MODULE Subscribe_proofs ---------------------------
(* Theorems about the subscription streams, for any number of subscribers, any
   batch size and any int64 width.  Type correctness and the check of the
   cursor hold for any order of commits; that nothing is lost is proved of
   entries that are committed in the order of their numbers.               *)
EXTENDS Subscribe, SeqNumbers_proofs

-----------------------------------------------------------------------------
(* Facts about the rows in the table. *)

LEMMA RowsAreFinite ==
    ASSUME NEW S \in SUBSET (1 .. MaxSeq)
    PROVE  /\ S \in SUBSET Nat /\ IsFiniteSet(S)
           /\ \A s \in S : s \in Nat /\ s >= 1 /\ s <= MaxSeq
           /\ Top(S) \in 0 .. MaxSeq
           /\ \A s \in S : s <= Top(S)
           /\ S # {} => Top(S) \in S
           /\ S = {} => Top(S) = 0
<1>1. MaxSeq \in Nat
  BY SubscribeAssumption
<1>2. /\ S \in SUBSET Nat
      /\ \A s \in S : s \in Nat /\ s >= 1 /\ s <= MaxSeq
  BY <1>1
<1>3. IsFiniteSet(S)
  <2>1. IsFiniteSet(1 .. MaxSeq)
    BY <1>1, FS_Interval
  <2> QED
    BY <2>1, FS_Subset
<1>4. IsTop(Top(S), S) /\ Top(S) \in Nat
  BY <1>2, <1>3, TopIsTop
<1>5. Top(S) \in S \cup {0} /\ \A s \in S : s <= Top(S)
  BY <1>4 DEF IsTop
<1>6. ASSUME S # {} PROVE Top(S) \in S
  <2>1. PICK s \in S : TRUE
    BY <1>6
  <2>2. s <= Top(S) /\ s >= 1 /\ s \in Nat
    BY <1>2, <1>5
  <2>3. Top(S) # 0
    BY <2>2
  <2> QED
    BY <1>5, <2>3
<1>7. Top(S) \in 0 .. MaxSeq
  BY <1>1, <1>2, <1>4, <1>5
<1> QED
  BY <1>2, <1>3, <1>5, <1>6, <1>7

(* The greatest of a set does not come down when the set grows. *)
LEMMA TopGrows ==
    ASSUME NEW S \in SUBSET (1 .. MaxSeq), NEW T \in SUBSET S
    PROVE  Top(T) <= Top(S)
<1>1. T \in SUBSET (1 .. MaxSeq)
  OBVIOUS
<1>2. Top(S) \in 0 .. MaxSeq /\ \A s \in S : s <= Top(S)
  BY RowsAreFinite
<1>3. T # {} => Top(T) \in T
  BY <1>1, RowsAreFinite
<1>4. T = {} => Top(T) = 0
  BY <1>1, RowsAreFinite
<1>5. CASE T = {}
  <2>1. Top(S) >= 0
    BY <1>2
  <2> QED
    BY <1>4, <1>5, <2>1
<1>6. CASE T # {}
  BY <1>2, <1>3, <1>6
<1> QED
  BY <1>5, <1>6

(* One query of FindInBatches: at most BatchSize rows, none left out up to the
   last of them, and all there are when there are fewer. *)
LEMMA BatchFacts ==
    ASSUME TypeOK, NEW c \in Clients
    PROVE  /\ Batch(c) \in SUBSET {s \in seqs : s > floor[c]}
           /\ Cardinality(Batch(c)) <= BatchSize
           /\ {s \in seqs : floor[c] < s /\ s <= Top(Batch(c))} \subseteq Batch(c)
           /\ Cardinality(Batch(c)) < BatchSize =>
                {s \in seqs : s > floor[c]} \subseteq Batch(c)
<1> DEFINE after == {s \in seqs : s > floor[c]}
           upTo(s) == {t \in after : t <= s}
           b == Batch(c)
<1>0. BatchSize \in Nat \ {0} /\ seqs \in SUBSET (1 .. MaxSeq)
  BY SubscribeAssumption DEF TypeOK
<1>1. after \in SUBSET (1 .. MaxSeq) /\ b \in SUBSET after
  BY <1>0 DEF Batch
<1>2. b = {s \in after : Cardinality(upTo(s)) <= BatchSize}
  BY DEF Batch
<1>3. \A s \in after : s \in Nat
  BY <1>1, RowsAreFinite
<1>4. ASSUME NEW s PROVE IsFiniteSet(upTo(s)) /\ Cardinality(upTo(s)) \in Nat
  <2>1. upTo(s) \in SUBSET after
    OBVIOUS
  <2> HIDE DEF upTo, after
  <2> QED
    BY <1>1, <2>1, RowsAreFinite, FS_Subset, FS_CardinalityType
<1> HIDE DEF b
<1>5. b \in SUBSET (1 .. MaxSeq)
  BY <1>1
<1>6. /\ IsFiniteSet(b) /\ Cardinality(b) \in Nat
      /\ \A s \in b : s <= Top(b)
      /\ b # {} => Top(b) \in b
  BY <1>5, RowsAreFinite, FS_CardinalityType
<1>7. Cardinality(b) <= BatchSize
  <2>1. CASE b = {}
    BY <1>0, <2>1, FS_EmptySet
  <2>2. CASE b # {}
    <3>1. b \in SUBSET upTo(Top(b))
      BY <1>1, <1>6
    <3>2. Cardinality(upTo(Top(b))) <= BatchSize
      BY <1>2, <1>6, <2>2
    <3>3. Cardinality(b) <= Cardinality(upTo(Top(b)))
      <4> HIDE DEF upTo
      <4> QED
        BY <1>4, <3>1, FS_Subset
    <3> QED
      BY <1>0, <1>4, <1>6, <3>2, <3>3
  <2> QED
    BY <2>1, <2>2
<1>8. ASSUME NEW s \in after, s <= Top(b) PROVE s \in b
  <2>1. b # {}
    <3>1. s >= 1 /\ s \in Nat
      BY <1>1, RowsAreFinite
    <3>2. b = {} => Top(b) = 0
      BY <1>5, RowsAreFinite
    <3> QED
      BY <1>8, <3>1, <3>2
  <2>2. Top(b) \in after /\ Cardinality(upTo(Top(b))) <= BatchSize
    BY <1>2, <1>6, <2>1
  <2>3. upTo(s) \in SUBSET upTo(Top(b))
    BY <1>3, <1>8, <2>2
  <2>4. Cardinality(upTo(s)) <= Cardinality(upTo(Top(b)))
    <3> HIDE DEF upTo
    <3> QED
      BY <1>4, <2>3, FS_Subset
  <2>5. Cardinality(upTo(s)) <= BatchSize
    <3> HIDE DEF upTo
    <3> QED
      BY <1>0, <1>4, <2>2, <2>4
  <2> QED
    BY <1>2, <2>5
<1>9. ASSUME Cardinality(b) < BatchSize PROVE after \subseteq b
  <2> SUFFICES ASSUME after \ b # {} PROVE FALSE
    OBVIOUS
  <2> DEFINE rest == after \ b
  <2>1. PICK x \in rest : \A y \in rest : x <= y
    <3>1. rest \in SUBSET (1 .. MaxSeq)
      BY <1>1
    <3> HIDE DEF rest
    <3>2. rest \in SUBSET Nat /\ IsFiniteSet(rest)
      BY <3>1, RowsAreFinite
    <3> QED
      BY <3>2, LeastExists DEF rest
  <2>2. Cardinality(upTo(x)) > BatchSize
    <3>1. ~ (Cardinality(upTo(x)) <= BatchSize)
      BY <1>2
    <3>2. Cardinality(upTo(x)) \in Nat
      BY <1>4
    <3> HIDE DEF upTo
    <3> QED
      BY <1>0, <3>1, <3>2
  <2>3. upTo(x) \in SUBSET (b \cup {x})
    BY <1>3, <2>1
  <2>4. IsFiniteSet(b \cup {x}) /\ Cardinality(b \cup {x}) = Cardinality(b) + 1
    BY <1>6, FS_AddElement
  <2>5. Cardinality(upTo(x)) <= Cardinality(b \cup {x})
    <3> HIDE DEF upTo
    <3> QED
      BY <2>3, <2>4, FS_Subset
  <2> QED
    <3> HIDE DEF upTo
    <3> QED
      BY <1>0, <1>4, <1>6, <1>9, <2>2, <2>4, <2>5
<1> QED
  BY <1>1, <1>7, <1>8, <1>9 DEF b

-----------------------------------------------------------------------------
(* Type correctness. *)

LEMMA CursorIsNat ==
    ASSUME TypeOK, NEW c \in Clients, HasCursor(c)
    PROVE  cursor[c] \in Nat
<1>1. cursor[c] \in Int /\ Half \in Nat \ {0}
  BY SubscribeAssumption DEF TypeOK
<1> QED
  BY <1>1 DEF HasCursor, Int64

LEMMA InitType == Init => TypeOK
<1> SUFFICES ASSUME Init PROVE TypeOK
  OBVIOUS
<1>1. /\ MaxSeq \in Nat /\ BatchSize \in Nat
      /\ Cursors \cup {NoCursor} \subseteq Int
  BY SubscribeAssumption DEF NoCursor
<1>2. cursor \in [Clients -> Int]
  BY <1>1 DEF Init
<1>3. \A c \in Clients : Cardinality(batch[c]) <= BatchSize
  BY <1>1, FS_EmptySet DEF Init
<1> QED
  BY <1>1, <1>2, <1>3 DEF Init, TypeOK, Streaming

(* Rows are sent: whatever part of the batch it is, the client has rows of the
   table. *)
LEMMA DeliverType ==
    ASSUME TypeOK, NEW c \in Clients, NEW sent \in SUBSET batch[c], Deliver(c, sent)
    PROVE  /\ cursor' \in [Clients -> Int]
           /\ got' \in [Clients -> SUBSET seqs]
           /\ base' \in [Clients -> Nat]
<1>1. sent \in SUBSET seqs /\ sent \in SUBSET (1 .. MaxSeq)
  BY DEF TypeOK
<1>2. Top(sent) \in Int
  BY <1>1, RowsAreFinite
<1> QED
  BY <1>1, <1>2 DEF Deliver, TypeOK

LEMMA SentType ==
    ASSUME TypeOK, NEW c \in Clients, SendFullBatch(c) \/ SendLastBatch(c)
    PROVE  TypeOK'
<1>0. Sent(c)
  BY DEF SendFullBatch, SendLastBatch
<1>1. batch[c] \in SUBSET (1 .. MaxSeq)
  BY DEF TypeOK
<1>2. Top(batch[c]) \in 0 .. MaxSeq
  BY <1>1, RowsAreFinite
<1>3. /\ cursor' \in [Clients -> Int]
      /\ got' \in [Clients -> SUBSET seqs]
      /\ base' \in [Clients -> Nat]
  BY <1>0, DeliverType DEF Sent
<1>4. \A d \in Clients : Cardinality(batch'[d]) <= BatchSize
  BY <1>0, FS_EmptySet, SubscribeAssumption DEF Sent, TypeOK
<1>5. floor' \in [Clients -> Nat] /\ lastKey' \in [Clients -> 0 .. MaxSeq]
  BY <1>0, <1>2 DEF Sent, SendFullBatch, SendLastBatch, TypeOK
<1> QED
  BY <1>0, <1>3, <1>4, <1>5 DEF Sent, SendFullBatch, SendLastBatch, TypeOK, Streaming

LEMMA StreamType ==
    ASSUME TypeOK, NEW c \in Clients, Stream(c)
    PROVE  TypeOK'
<1>0. seqs \in SUBSET (1 .. MaxSeq) /\ MaxSeq \in Nat
  BY SubscribeAssumption DEF TypeOK
<1>1. Top(seqs) \in 0 .. MaxSeq /\ Top(seqs) \in Nat
  BY <1>0, RowsAreFinite
<1>2. CASE RefuseFutureCursor(c)
  BY <1>2 DEF RefuseFutureCursor, TypeOK, client
<1>3. CASE StartReplay(c)
  <2>1. cursor[c] \in Nat
    BY <1>3, CursorIsNat DEF StartReplay
  <2> QED
    BY <1>0, <1>3, <2>1 DEF StartReplay, Promise, TypeOK, Streaming
<1>4. CASE StartAtEnd(c)
  BY <1>1, <1>4 DEF StartAtEnd, Promise, TypeOK, Streaming
<1>5. CASE ReadBatch(c)
  <2>1. Batch(c) \in SUBSET seqs /\ Cardinality(Batch(c)) <= BatchSize
    BY BatchFacts
  <2> QED
    BY <1>5, <2>1 DEF ReadBatch, TypeOK, Streaming, client
<1>6. CASE ReadNothing(c)
  BY <1>6 DEF ReadNothing, TypeOK, Streaming, client
<1>7. CASE SendFullBatch(c) \/ SendLastBatch(c)
  BY <1>7, SentType
<1>8. CASE Wake(c)
  <2>1. lastKey[c] \in Nat
    BY <1>0 DEF TypeOK
  <2> QED
    BY <1>8, <2>1 DEF Wake, TypeOK, Streaming, client
<1> QED
  BY <1>2, <1>3, <1>4, <1>5, <1>6, <1>7, <1>8 DEF Stream

LEMMA DisconnectType ==
    ASSUME TypeOK, NEW c \in Clients, Disconnect(c)
    PROVE  TypeOK'
<1>1. PICK sent \in Prefixes(batch[c]) : Deliver(c, sent)
  BY DEF Disconnect
<1>2. /\ cursor' \in [Clients -> Int]
      /\ got' \in [Clients -> SUBSET seqs]
      /\ base' \in [Clients -> Nat]
  BY <1>1, DeliverType DEF Prefixes
<1>3. \A d \in Clients : Cardinality(batch'[d]) <= BatchSize
  BY FS_EmptySet, SubscribeAssumption DEF Disconnect, HangUp, TypeOK
<1>4. 0 \in 0 .. MaxSeq
  BY SubscribeAssumption
<1> QED
  BY <1>2, <1>3, <1>4 DEF Disconnect, HangUp, TypeOK, Streaming

LEMMA CrashType ==
    ASSUME TypeOK, Crash
    PROVE  TypeOK'
<1>1. \A d \in Clients : Cardinality(batch'[d]) <= BatchSize
  BY FS_EmptySet, SubscribeAssumption DEF Crash
<1>2. 0 \in 0 .. MaxSeq
  BY SubscribeAssumption
<1> QED
  BY <1>1, <1>2 DEF Crash, TypeOK, Streaming, client

LEMMA NextType == TypeOK /\ [Next]_vars => TypeOK'
<1> SUFFICES ASSUME TypeOK, [Next]_vars PROVE TypeOK'
  OBVIOUS
<1>1. CASE CommitEntry
  <2>1. PICK s \in (1 .. MaxSeq) \ seqs : seqs' = seqs \cup {s}
    BY <1>1 DEF CommitEntry
  <2>2. seqs \subseteq seqs' /\ seqs' \subseteq 1 .. MaxSeq
    BY <2>1 DEF TypeOK
  <2> QED
    BY <1>1, <2>2 DEF CommitEntry, TypeOK, server, client
<1>2. CASE WakeUpSubs
  <2>1. wakes' \in Nat
    BY <1>2 DEF WakeUpSubs, TypeOK
  <2>2. \A c \in Clients : Woken(c) \in BOOLEAN
    BY DEF Woken, TypeOK
  <2> QED
    BY <1>2, <2>1, <2>2 DEF WakeUpSubs, TypeOK, client
<1>3. CASE \E c \in Clients : Register(c)
  BY <1>3 DEF Register, TypeOK, client
<1>4. CASE \E c \in Clients : Stream(c)
  BY <1>4, StreamType
<1>5. CASE \E c \in Clients : Disconnect(c)
  BY <1>5, DisconnectType
<1>6. CASE Crash
  BY <1>6, CrashType
<1>7. CASE UNCHANGED vars
  BY <1>7 DEF vars, server, client, TypeOK
<1> QED
  BY <1>1, <1>2, <1>3, <1>4, <1>5, <1>6, <1>7 DEF Next

(* Type correctness: whatever the order of commits, a subscriber has only rows
   of the table, and a batch is never longer than the limit of the query. *)
THEOREM TypeCorrect == Spec => []TypeOK
<1>1. Init => TypeOK
  BY InitType
<1>2. TypeOK /\ [Next]_vars => TypeOK'
  BY NextType
<1> QED
  BY <1>1, <1>2, PTL DEF Spec

-----------------------------------------------------------------------------
(* The check of the cursor. *)

LEMMA CursorValidNext ==
    ASSUME TypeOK, ReceivedCursorIsValid, [Next]_vars
    PROVE  ReceivedCursorIsValid'
<1> SUFFICES ASSUME NEW c \in Clients, stream'[c] = "refused"
             PROVE  cursor'[c] \notin got'[c]
  BY DEF ReceivedCursorIsValid
<1>0. /\ stream \in [Clients -> Streaming \cup {"off", "registered", "refused"}]
      /\ cursor \in [Clients -> Int] /\ got \in [Clients -> SUBSET seqs]
      /\ seqs \in SUBSET (1 .. MaxSeq)
  BY DEF TypeOK
<1>1. ASSUME NEW d \in Clients, RefuseFutureCursor(d) PROVE cursor'[c] \notin got'[c]
  <2>1. CASE c = d
    <3>1. cursor[c] \notin seqs
      <4>1. \A s \in seqs : s < cursor[c]
        BY <1>1, <2>1 DEF RefuseFutureCursor, FutureCursor
      <4> QED
        BY <1>0, <4>1
    <3> QED
      BY <1>0, <1>1, <3>1 DEF RefuseFutureCursor, client
  <2>2. CASE c # d
    BY <1>0, <1>1, <2>2 DEF RefuseFutureCursor, client, ReceivedCursorIsValid
  <2> QED
    BY <2>1, <2>2
<1>2. ASSUME stream[c] = "refused", cursor'[c] = cursor[c], got'[c] = got[c]
      PROVE  cursor'[c] \notin got'[c]
  BY <1>2 DEF ReceivedCursorIsValid
<1>3. CASE CommitEntry \/ WakeUpSubs \/ UNCHANGED vars
  BY <1>2, <1>3 DEF CommitEntry, WakeUpSubs, vars, server, client
<1>4. ASSUME NEW d \in Clients, Register(d) \/ Stream(d) \/ Disconnect(d)
      PROVE  cursor'[c] \notin got'[c]
  <2>1. CASE Register(d)
    BY <1>0, <1>2, <2>1 DEF Register, client
  <2>2. CASE StartReplay(d) \/ StartAtEnd(d)
    BY <1>0, <1>2, <2>2 DEF StartReplay, StartAtEnd
  <2>3. CASE ReadBatch(d) \/ ReadNothing(d) \/ Wake(d)
    BY <1>0, <1>2, <2>3 DEF ReadBatch, ReadNothing, Wake, client
  <2>4. CASE SendFullBatch(d) \/ SendLastBatch(d)
    BY <1>0, <1>2, <2>4 DEF SendFullBatch, SendLastBatch, Sent, Deliver
  <2>5. CASE Disconnect(d)
    BY <1>0, <1>2, <2>5 DEF Disconnect, HangUp, Deliver
  <2> QED
    BY <1>1, <1>4, <2>1, <2>2, <2>3, <2>4, <2>5 DEF Stream
<1>5. CASE Crash
  BY <1>5 DEF Crash
<1> QED
  BY <1>3, <1>4, <1>5 DEF Next

(* A subscriber that comes back with a cursor it was given is not told that
   the cursor is from the future; entries may be committed in any order. *)
THEOREM CursorsAreValid == Spec => []ReceivedCursorIsValid
<1>1. Init => ReceivedCursorIsValid
  BY DEF Init, ReceivedCursorIsValid
<1>2. TypeOK /\ ReceivedCursorIsValid /\ [Next]_vars => ReceivedCursorIsValid'
  BY CursorValidNext
<1> QED
  BY <1>1, <1>2, TypeCorrect, PTL DEF Spec

-----------------------------------------------------------------------------
(* Nothing is lost: StreamInv, one client at a time. *)

Waiting(c) ==
    stream[c] = "live" /\ ~ wakeCh[c] /\ wakes = 0 =>
        {s \in seqs : s > base[c]} \subseteq got[c]

StreamOK(c) ==
    /\ HasUpTo(c, Top(got[c]))
    /\ Waiting(c)
    /\ got[c] # {} => cursor[c] \in got[c]
    /\ lastKey[c] <= Top(seqs) /\ HasUpTo(c, lastKey[c])
    /\ floor[c] <= Top(seqs)
    /\ stream[c] \in {"query", "sending"} => HasUpTo(c, floor[c])
    /\ IF stream[c] = "sending" THEN BatchFollows(c) ELSE batch[c] = {}

LEMMA StreamInvByClient == StreamInv <=> TypeOK /\ \A c \in Clients : StreamOK(c)
BY DEF StreamInv, NoGap, WaitingIsCaughtUp, StreamOK, Waiting, HasUpTo

(* A step of another client. *)
LEMMA OthersStay ==
    ASSUME NEW c, StreamOK(c), seqs' = seqs, wakes' = wakes,
           stream'[c] = stream[c], wakeCh'[c] = wakeCh[c], floor'[c] = floor[c],
           batch'[c] = batch[c], lastKey'[c] = lastKey[c], cursor'[c] = cursor[c],
           got'[c] = got[c], base'[c] = base[c]
    PROVE  StreamOK(c)'
BY DEF StreamOK, Waiting, HasUpTo, BatchFollows

(* The numbers of one client. *)
LEMMA ClientNumbers ==
    ASSUME TypeOK, NEW c \in Clients
    PROVE  /\ seqs \in SUBSET (1 .. MaxSeq) /\ MaxSeq \in Nat
           /\ Top(seqs) \in Nat /\ Top(seqs) <= MaxSeq
           /\ \A s \in seqs : s \in Nat /\ s >= 1 /\ s <= Top(seqs)
           /\ got[c] \in SUBSET seqs /\ batch[c] \in SUBSET seqs
           /\ Top(got[c]) \in Nat /\ Top(got[c]) <= Top(seqs)
           /\ Top(batch[c]) \in Nat /\ Top(batch[c]) <= Top(seqs)
           /\ floor[c] \in Nat /\ lastKey[c] \in Nat /\ base[c] \in Nat
           /\ cursor[c] \in Int /\ wakes \in Nat /\ wakeCh[c] \in BOOLEAN
<1>1. /\ seqs \in SUBSET (1 .. MaxSeq) /\ MaxSeq \in Nat
      /\ got[c] \in SUBSET seqs /\ batch[c] \in SUBSET seqs
      /\ floor[c] \in Nat /\ lastKey[c] \in 0 .. MaxSeq /\ base[c] \in Nat
      /\ cursor[c] \in Int /\ wakes \in Nat /\ wakeCh[c] \in BOOLEAN
  BY SubscribeAssumption DEF TypeOK
<1>2. /\ Top(seqs) \in 0 .. MaxSeq
      /\ \A s \in seqs : s \in Nat /\ s >= 1 /\ s <= Top(seqs)
  BY <1>1, RowsAreFinite
<1>3. Top(got[c]) \in 0 .. MaxSeq /\ Top(batch[c]) \in 0 .. MaxSeq
  <2>1. got[c] \in SUBSET (1 .. MaxSeq) /\ batch[c] \in SUBSET (1 .. MaxSeq)
    BY <1>1
  <2> QED
    BY <2>1, RowsAreFinite
<1>4. Top(got[c]) <= Top(seqs) /\ Top(batch[c]) <= Top(seqs)
  BY <1>1, TopGrows
<1> QED
  BY <1>1, <1>2, <1>3, <1>4

(* The next entry is above everything a client has, or waits for. *)
LEMMA CommitKeeps ==
    ASSUME InOrder, TypeOK, CommitEntry, NEW c \in Clients, StreamOK(c)
    PROVE  StreamOK(c)'
<1>1. PICK s \in (1 .. MaxSeq) \ seqs : s = Top(seqs) + 1 /\ seqs' = seqs \cup {s}
  BY DEF CommitEntry
<1>2. /\ seqs' \in SUBSET (1 .. MaxSeq) /\ seqs \in SUBSET seqs'
      /\ Top(seqs) \in Nat /\ Top(got[c]) \in Nat /\ Top(got[c]) <= Top(seqs)
      /\ Top(batch[c]) \in Nat /\ Top(batch[c]) <= Top(seqs)
      /\ lastKey[c] \in Nat /\ floor[c] \in Nat /\ wakes \in Nat
  BY <1>1, ClientNumbers
<1>3. Top(seqs) <= Top(seqs')
  BY <1>2, TopGrows
<1>4. Top(seqs') \in Nat
  BY <1>2, RowsAreFinite
<1>5. /\ stream' = stream /\ wakeCh' = wakeCh /\ floor' = floor /\ batch' = batch
      /\ lastKey' = lastKey /\ cursor' = cursor /\ got' = got /\ base' = base
      /\ wakes' = wakes + 1 /\ wakes' # 0
  BY <1>2 DEF CommitEntry, server, client
<1>6. BatchFollows(c) => BatchFollows(c)'
  BY <1>1, <1>2, <1>5 DEF BatchFollows
<1>7. HasUpTo(c, Top(got[c])) => HasUpTo(c, Top(got[c]))'
  BY <1>1, <1>2, <1>5 DEF HasUpTo
<1>8. HasUpTo(c, lastKey[c]) /\ lastKey[c] <= Top(seqs) => HasUpTo(c, lastKey[c])'
  BY <1>1, <1>2, <1>5 DEF HasUpTo
<1>9. HasUpTo(c, floor[c]) /\ floor[c] <= Top(seqs) => HasUpTo(c, floor[c])'
  BY <1>1, <1>2, <1>5 DEF HasUpTo
<1>10. lastKey[c] <= Top(seqs) => lastKey'[c] <= Top(seqs')
  BY <1>2, <1>3, <1>4, <1>5
<1>11. floor[c] <= Top(seqs) => floor'[c] <= Top(seqs')
  BY <1>2, <1>3, <1>4, <1>5
<1> QED
  BY <1>5, <1>6, <1>7, <1>8, <1>9, <1>10, <1>11 DEF StreamOK, Waiting

(* A wake-up reaches every stream that waits or is about to. *)
LEMMA WakeUpKeeps ==
    ASSUME TypeOK, WakeUpSubs, NEW c \in Clients, StreamOK(c)
    PROVE  StreamOK(c)'
<1>1. /\ seqs' = seqs /\ stream' = stream /\ floor' = floor /\ batch' = batch
      /\ lastKey' = lastKey /\ cursor' = cursor /\ got' = got /\ base' = base
      /\ wakeCh'[c] = Woken(c)
  BY DEF WakeUpSubs, client
<1>2. stream[c] \in Streaming => wakeCh'[c]
  BY <1>1 DEF Woken
<1>3. stream[c] = "sending" /\ BatchFollows(c) => BatchFollows(c)'
  BY <1>1, <1>2 DEF BatchFollows, Streaming
<1> QED
  BY <1>1, <1>2, <1>3 DEF StreamOK, Waiting, HasUpTo, Streaming

(* Only the entries of one client change. *)
Untouched(c) ==
    /\ stream'[c] = stream[c] /\ wakeCh'[c] = wakeCh[c] /\ floor'[c] = floor[c]
    /\ batch'[c] = batch[c] /\ lastKey'[c] = lastKey[c] /\ cursor'[c] = cursor[c]
    /\ got'[c] = got[c] /\ base'[c] = base[c]

LEMMA StepOfOther ==
    ASSUME TypeOK, NEW d \in Clients, Register(d) \/ Stream(d) \/ Disconnect(d),
           NEW c \in Clients, c # d
    PROVE  Untouched(c) /\ seqs' = seqs /\ wakes' = wakes
<1>1. CASE Register(d)
  BY <1>1 DEF Register, Untouched, client, TypeOK
<1>2. CASE RefuseFutureCursor(d) \/ StartReplay(d) \/ StartAtEnd(d)
  BY <1>2 DEF RefuseFutureCursor, StartReplay, StartAtEnd, Promise, Untouched, client, TypeOK
<1>3. CASE ReadBatch(d) \/ ReadNothing(d) \/ Wake(d)
  BY <1>3 DEF ReadBatch, ReadNothing, Wake, Untouched, client, TypeOK
<1>4. CASE SendFullBatch(d) \/ SendLastBatch(d)
  BY <1>4 DEF SendFullBatch, SendLastBatch, Sent, Deliver, Untouched, TypeOK
<1>5. CASE Disconnect(d)
  BY <1>5 DEF Disconnect, HangUp, Deliver, Untouched, TypeOK
<1> QED
  BY <1>1, <1>2, <1>3, <1>4, <1>5 DEF Stream

(* The replay starts where the client says it stopped: at a row it has, or at
   the cursor that it is promised everything from. *)
LEMMA StartReplayKeeps ==
    ASSUME TypeOK, NEW c \in Clients, StreamOK(c), StartReplay(c)
    PROVE  StreamOK(c)'
<1>0. /\ stream'[c] = "query" /\ floor'[c] = cursor[c] /\ lastKey'[c] = 0
      /\ base'[c] = (IF got[c] = {} THEN cursor[c] ELSE base[c])
      /\ seqs' = seqs /\ batch' = batch /\ cursor' = cursor /\ got' = got
      /\ stream[c] = "registered" /\ ~ FutureCursor(cursor[c])
  BY DEF StartReplay, Promise, TypeOK
<1>1. /\ seqs \in SUBSET (1 .. MaxSeq) /\ Top(seqs) \in Nat
      /\ \A s \in seqs : s \in Nat /\ s >= 1 /\ s <= Top(seqs)
      /\ got[c] \in SUBSET seqs /\ cursor[c] \in Int
  BY ClientNumbers
<1>2. cursor[c] <= Top(seqs)
  BY <1>0, <1>1 DEF FutureCursor
<1>3. batch'[c] = {}
  BY <1>0 DEF StreamOK
<1>4. CASE got[c] = {}
  <2>1. base'[c] = cursor[c] /\ cursor'[c] = cursor[c] /\ got'[c] = {}
    BY <1>0, <1>4
  <2>2. HasUpTo(c, cursor[c])'
    <3>1. \A s \in seqs : ~ (cursor[c] < s /\ s <= cursor[c])
      BY <1>1
    <3> QED
      BY <1>0, <2>1, <3>1 DEF HasUpTo
  <2>3. Top({}) = 0
    BY RowsAreFinite
  <2>4. HasUpTo(c, Top(got[c]))' /\ HasUpTo(c, lastKey[c])'
    <3>1. \A s \in seqs : ~ (s <= 0)
      BY <1>1
    <3> QED
      BY <1>0, <2>1, <2>3, <3>1 DEF HasUpTo
  <2> QED
    BY <1>0, <1>1, <1>2, <1>3, <2>1, <2>2, <2>4 DEF StreamOK, Waiting
<1>5. CASE got[c] # {}
  <2>1. cursor[c] \in got[c] /\ base'[c] = base[c]
    BY <1>0, <1>5 DEF StreamOK
  <2>2. cursor[c] <= Top(got[c]) /\ Top(got[c]) \in Nat
    <3>1. got[c] \in SUBSET (1 .. MaxSeq)
      BY <1>1
    <3> QED
      BY <2>1, <3>1, RowsAreFinite, ClientNumbers
  <2>3. HasUpTo(c, Top(got[c])) /\ HasUpTo(c, Top(got[c]))'
    BY <1>0, <2>1 DEF StreamOK, HasUpTo
  <2>4. HasUpTo(c, cursor[c])' /\ HasUpTo(c, lastKey[c])'
    <3>1. \A s \in seqs : ~ (s <= 0)
      BY <1>1
    <3>2. \A s \in seqs : s <= cursor[c] => s <= Top(got[c])
      BY <1>1, <2>2
    <3> QED
      BY <1>0, <2>1, <2>3, <3>1, <3>2 DEF HasUpTo
  <2> QED
    BY <1>0, <1>1, <1>2, <1>3, <2>1, <2>3, <2>4 DEF StreamOK, Waiting
<1> QED
  BY <1>4, <1>5

(* Without a cursor, a client has nothing yet and is promised what follows. *)
LEMMA StartAtEndKeeps ==
    ASSUME TypeOK, NEW c \in Clients, StreamOK(c), StartAtEnd(c)
    PROVE  StreamOK(c)'
<1>0. /\ stream'[c] = "live" /\ lastKey'[c] = Top(seqs) /\ floor' = floor
      /\ seqs' = seqs /\ batch' = batch /\ cursor' = cursor /\ got' = got
      /\ base'[c] = (IF got[c] = {} THEN Top(seqs) ELSE base[c])
      /\ stream[c] = "registered" /\ ~ HasCursor(c)
  BY DEF StartAtEnd, Promise, TypeOK
<1>1. /\ seqs \in SUBSET (1 .. MaxSeq) /\ MaxSeq \in Nat /\ Top(seqs) \in Nat
      /\ \A s \in seqs : s \in Nat /\ s >= 1 /\ s <= Top(seqs)
      /\ got[c] \in SUBSET seqs /\ floor[c] \in Nat
  BY ClientNumbers
<1>2. got[c] = {}
  <2>1. ASSUME got[c] # {} PROVE FALSE
    <3>1. cursor[c] \in 1 .. MaxSeq
      BY <1>1, <2>1 DEF StreamOK
    <3>2. MaxSeq < Half /\ Half \in Nat
      BY SubscribeAssumption
    <3> QED
      BY <1>0, <1>1, <3>1, <3>2 DEF HasCursor, Int64
  <2> QED
    BY <2>1
<1>3. HasUpTo(c, Top(seqs))' /\ {s \in seqs : s > base'[c]} = {}
  BY <1>0, <1>1, <1>2 DEF HasUpTo
<1>4. HasUpTo(c, Top(got[c]))'
  BY <1>0, <1>1, <1>2, <1>3 DEF HasUpTo
<1>5. batch'[c] = {}
  BY <1>0 DEF StreamOK
<1> QED
  BY <1>0, <1>1, <1>2, <1>3, <1>4, <1>5 DEF StreamOK, Waiting

(* A batch follows on from the row the query started at. *)
LEMMA ReadBatchKeeps ==
    ASSUME TypeOK, NEW c \in Clients, StreamOK(c), ReadBatch(c)
    PROVE  StreamOK(c)'
<1>0. /\ stream'[c] = "sending" /\ batch'[c] = Batch(c) /\ stream[c] = "query"
      /\ seqs' = seqs /\ wakes' = wakes /\ wakeCh' = wakeCh /\ floor' = floor
      /\ lastKey' = lastKey /\ cursor' = cursor /\ got' = got /\ base' = base
      /\ Batch(c) # {}
  BY DEF ReadBatch, client, TypeOK
<1>1. BatchFollows(c)'
  BY <1>0, BatchFacts DEF BatchFollows
<1> QED
  BY <1>0, <1>1 DEF StreamOK, Waiting, HasUpTo

(* A query that finds nothing shows that nothing is missing. *)
LEMMA ReadNothingKeeps ==
    ASSUME TypeOK, NEW c \in Clients, StreamOK(c), ReadNothing(c)
    PROVE  StreamOK(c)'
<1>0. /\ stream'[c] = "live" /\ floor'[c] = 0 /\ stream[c] = "query"
      /\ seqs' = seqs /\ batch' = batch
      /\ lastKey' = lastKey /\ cursor' = cursor /\ got' = got /\ base' = base
      /\ Batch(c) = {}
  BY DEF ReadNothing, client, TypeOK
<1>1. /\ Top(seqs) \in Nat /\ floor[c] \in Nat /\ base[c] \in Nat
      /\ \A s \in seqs : s \in Nat
  BY ClientNumbers
<1>2. Cardinality({}) < BatchSize
  BY FS_EmptySet, SubscribeAssumption
<1>3. {s \in seqs : s > floor[c]} = {}
  BY <1>0, <1>2, BatchFacts
<1>4. HasUpTo(c, floor[c])
  BY <1>0 DEF StreamOK
<1>5. {s \in seqs : s > base[c]} \subseteq got[c]
  BY <1>1, <1>3, <1>4 DEF HasUpTo
<1> QED
  BY <1>0, <1>1, <1>5 DEF StreamOK, Waiting, HasUpTo

(* The rows of a batch that a client gets leave no gap behind them. *)
LEMMA DeliverLeavesNoGap ==
    ASSUME TypeOK, NEW c \in Clients, StreamOK(c), stream[c] = "sending",
           NEW sent \in SUBSET batch[c], sent # {},
           \A s \in batch[c] : \A p \in sent : s <= p => s \in sent,
           Deliver(c, sent), seqs' = seqs
    PROVE  /\ HasUpTo(c, Top(sent))' /\ HasUpTo(c, Top(got[c]))'
           /\ cursor'[c] \in got'[c]
           /\ Top(sent) \in Nat /\ Top(sent) <= Top(seqs)
<1>0. /\ got'[c] = got[c] \cup sent /\ cursor'[c] = Top(sent) /\ base' = base
  BY DEF Deliver, TypeOK
<1>1. /\ seqs \in SUBSET (1 .. MaxSeq) /\ floor[c] \in Nat /\ base[c] \in Nat
      /\ \A s \in seqs : s \in Nat
      /\ got[c] \in SUBSET seqs /\ batch[c] \in SUBSET seqs
      /\ Top(batch[c]) \in Nat /\ Top(batch[c]) <= Top(seqs) /\ Top(seqs) \in Nat
      /\ Top(got[c]) \in Nat /\ lastKey[c] \in Nat
  BY ClientNumbers
<1>2. /\ Top(sent) \in sent /\ Top(sent) \in Nat
      /\ \A s \in sent : s <= Top(sent)
      /\ Top(sent) <= Top(batch[c])
  <2>1. sent \in SUBSET (1 .. MaxSeq) /\ batch[c] \in SUBSET (1 .. MaxSeq)
    BY <1>1
  <2> QED
    BY <1>1, <2>1, RowsAreFinite, TopGrows
<1>3. HasUpTo(c, floor[c]) /\ BatchFollows(c)
  BY DEF StreamOK
<1>4. ASSUME NEW s \in seqs, base[c] < s, s <= Top(sent) PROVE s \in got[c] \cup sent
  <2>0. s \in Nat
    BY <1>1
  <2>1. CASE s <= floor[c]
    BY <1>3, <1>4, <2>1 DEF HasUpTo
  <2>2. CASE s > floor[c]
    <3>1. s <= Top(batch[c])
      BY <1>1, <1>2, <1>4, <2>0
    <3>2. s \in batch[c]
      BY <1>3, <2>2, <3>1 DEF BatchFollows
    <3> QED
      BY <1>2, <1>4, <3>2
  <2> QED
    BY <1>1, <2>0, <2>1, <2>2
<1>5. HasUpTo(c, Top(sent))'
  BY <1>0, <1>4 DEF HasUpTo
<1>6. HasUpTo(c, Top(got[c]))'
  <2>1. Top(got'[c]) \in got[c] \cup sent
    <3>1. got'[c] \in SUBSET (1 .. MaxSeq) /\ got'[c] # {}
      BY <1>0, <1>1
    <3> QED
      BY <1>0, <3>1, RowsAreFinite
  <2>2. \A s \in got[c] : s <= Top(got[c])
    <3>1. got[c] \in SUBSET (1 .. MaxSeq)
      BY <1>1
    <3> QED
      BY <3>1, RowsAreFinite
  <2>3. ASSUME NEW s \in seqs, base[c] < s, s <= Top(got'[c]) PROVE s \in got'[c]
    <3>0. s \in Nat /\ Top(got'[c]) \in Nat
      BY <1>1, <2>1
    <3>1. CASE Top(got'[c]) \in got[c]
      <4>1. s <= Top(got[c])
        BY <1>1, <2>2, <2>3, <3>0, <3>1
      <4>2. HasUpTo(c, Top(got[c]))
        BY DEF StreamOK
      <4> QED
        BY <1>0, <2>3, <4>1, <4>2 DEF HasUpTo
    <3>2. CASE Top(got'[c]) \in sent
      <4>1. s <= Top(sent)
        BY <1>2, <2>3, <3>0, <3>2
      <4> QED
        BY <1>0, <1>4, <2>3, <4>1
    <3> QED
      BY <2>1, <3>1, <3>2
  <2> QED
    BY <1>0, <2>3 DEF HasUpTo
<1> QED
  BY <1>0, <1>1, <1>2, <1>5, <1>6

LEMMA SendKeeps ==
    ASSUME TypeOK, NEW c \in Clients, StreamOK(c), SendFullBatch(c) \/ SendLastBatch(c)
    PROVE  StreamOK(c)'
<1>0. Sent(c) /\ stream[c] = "sending" /\ Deliver(c, batch[c]) /\ BatchFollows(c)
  BY DEF SendFullBatch, SendLastBatch, Sent, StreamOK
<1>1. /\ got'[c] = got[c] \cup batch[c] /\ base' = base /\ seqs' = seqs
      /\ lastKey'[c] = Top(batch[c]) /\ batch'[c] = {}
      /\ wakes' = wakes /\ wakeCh' = wakeCh
  BY <1>0 DEF Sent, Deliver, TypeOK
<1>2. PICK sent \in SUBSET batch[c] : sent = batch[c] /\ sent # {}
  BY <1>0 DEF BatchFollows
<1>3. /\ HasUpTo(c, Top(sent))' /\ HasUpTo(c, Top(got[c]))'
      /\ cursor'[c] \in got'[c]
      /\ Top(sent) \in Nat /\ Top(sent) <= Top(seqs)
  <2>1. Deliver(c, sent)
    BY <1>0, <1>2
  <2> QED
    BY <1>0, <1>1, <1>2, <2>1, DeliverLeavesNoGap
<1>4. HasUpTo(c, lastKey[c])'
  BY <1>1, <1>2, <1>3 DEF HasUpTo
<1>5. CASE SendFullBatch(c)
  <2>1. stream'[c] = "query" /\ floor'[c] = Top(batch[c])
    BY <1>5 DEF SendFullBatch, TypeOK
  <2>2. HasUpTo(c, floor[c])'
    BY <1>1, <1>4, <2>1 DEF HasUpTo
  <2> QED
    BY <1>1, <1>2, <1>3, <1>4, <2>1, <2>2 DEF StreamOK, Waiting
<1>6. CASE SendLastBatch(c)
  <2>1. stream'[c] = "live" /\ floor'[c] = 0 /\ Cardinality(batch[c]) < BatchSize
    BY <1>6 DEF SendLastBatch, TypeOK
  <2>2. Waiting(c)'
    <3>1. SUFFICES ASSUME ~ wakeCh[c], wakes = 0, NEW s \in seqs, s > base[c]
                   PROVE  s \in got[c] \cup batch[c]
      BY <1>1 DEF Waiting
    <3>2. HasUpTo(c, floor[c])
      BY <1>0 DEF StreamOK
    <3>3. s \in Nat /\ floor[c] \in Nat /\ base[c] \in Nat
      BY ClientNumbers
    <3>4. CASE s <= floor[c]
      BY <3>1, <3>2, <3>3, <3>4 DEF HasUpTo
    <3>5. CASE s > floor[c]
      BY <1>0, <2>1, <3>1, <3>5 DEF BatchFollows
    <3> QED
      BY <3>3, <3>4, <3>5
  <2>3. floor'[c] <= Top(seqs')
    <3>1. Top(seqs) \in Nat
      BY ClientNumbers
    <3> QED
      BY <1>1, <2>1, <3>1
  <2> QED
    BY <1>1, <1>2, <1>3, <1>4, <2>1, <2>2, <2>3 DEF StreamOK
<1> QED
  BY <1>5, <1>6

(* The next queries go on from lastKey, up to which nothing is missing. *)
LEMMA WakeKeeps ==
    ASSUME TypeOK, NEW c \in Clients, StreamOK(c), Wake(c)
    PROVE  StreamOK(c)'
<1>0. /\ stream'[c] = "query" /\ floor'[c] = lastKey[c] /\ stream[c] = "live"
      /\ seqs' = seqs /\ batch' = batch
      /\ lastKey' = lastKey /\ cursor' = cursor /\ got' = got /\ base' = base
  BY DEF Wake, client, TypeOK
<1>1. HasUpTo(c, floor[c])'
  BY <1>0 DEF StreamOK, HasUpTo
<1> QED
  BY <1>0, <1>1 DEF StreamOK, Waiting, HasUpTo

(* A client that loses its connection has the first rows of a batch, if any. *)
LEMMA DisconnectKeeps ==
    ASSUME TypeOK, NEW c \in Clients, StreamOK(c), Disconnect(c)
    PROVE  StreamOK(c)'
<1>0. /\ stream'[c] = "off" /\ floor'[c] = 0 /\ batch'[c] = {} /\ lastKey'[c] = 0
      /\ seqs' = seqs
  BY DEF Disconnect, HangUp, TypeOK
<1>1. PICK sent \in Prefixes(batch[c]) : Deliver(c, sent)
  BY DEF Disconnect
<1>2. /\ sent \in SUBSET batch[c]
      /\ \A s \in batch[c] : \A p \in sent : s <= p => s \in sent
  BY DEF Prefixes
<1>3. Top(seqs) \in Nat /\ \A s \in seqs : s \in Nat /\ s >= 1
  BY ClientNumbers
<1>4. HasUpTo(c, Top(got[c]))' /\ (got'[c] # {} => cursor'[c] \in got'[c])
  <2>1. CASE sent = {}
    <3>1. got'[c] = got[c] /\ cursor'[c] = cursor[c] /\ base' = base
      BY <1>1, <2>1 DEF Deliver, TypeOK
    <3> QED
      BY <1>0, <3>1 DEF StreamOK, HasUpTo
  <2>2. CASE sent # {}
    <3>1. stream[c] = "sending"
      BY <1>2, <2>2 DEF StreamOK
    <3> QED
      BY <1>0, <1>1, <1>2, <2>2, <3>1, DeliverLeavesNoGap
  <2> QED
    BY <2>1, <2>2
<1>5. HasUpTo(c, lastKey[c])'
  <2>1. \A s \in seqs : ~ (s <= 0)
    BY <1>3
  <2> QED
    BY <1>0, <2>1 DEF HasUpTo
<1> QED
  BY <1>0, <1>3, <1>4, <1>5 DEF StreamOK, Waiting

LEMMA CrashKeeps ==
    ASSUME TypeOK, NEW c \in Clients, StreamOK(c), Crash
    PROVE  StreamOK(c)'
<1>0. /\ stream'[c] = "off" /\ floor'[c] = 0 /\ batch'[c] = {} /\ lastKey'[c] = 0
      /\ seqs' = seqs /\ cursor' = cursor /\ got' = got /\ base' = base
  BY DEF Crash, client
<1>1. Top(seqs) \in Nat /\ \A s \in seqs : ~ (s <= 0)
  BY ClientNumbers
<1>2. HasUpTo(c, lastKey[c])'
  BY <1>0, <1>1 DEF HasUpTo
<1> QED
  BY <1>0, <1>1, <1>2 DEF StreamOK, Waiting, HasUpTo

LEMMA StepKeeps ==
    ASSUME TypeOK, NEW c \in Clients, StreamOK(c), Register(c) \/ Stream(c) \/ Disconnect(c)
    PROVE  StreamOK(c)'
<1>1. CASE Register(c)
  <2>1. /\ stream[c] = "off" /\ stream'[c] = "registered" /\ seqs' = seqs /\ floor' = floor
        /\ batch' = batch /\ lastKey' = lastKey /\ cursor' = cursor /\ got' = got
        /\ base' = base
    BY <1>1 DEF Register, client, TypeOK
  <2> QED
    BY <2>1 DEF StreamOK, Waiting, HasUpTo
<1>2. CASE RefuseFutureCursor(c)
  <2>1. /\ stream[c] = "registered" /\ stream'[c] = "refused" /\ seqs' = seqs
        /\ floor' = floor /\ batch' = batch /\ lastKey' = lastKey /\ cursor' = cursor
        /\ got' = got /\ base' = base
    BY <1>2 DEF RefuseFutureCursor, client, TypeOK
  <2> QED
    BY <2>1 DEF StreamOK, Waiting, HasUpTo
<1>3. CASE StartReplay(c) \/ StartAtEnd(c) \/ ReadBatch(c) \/ ReadNothing(c)
  BY <1>3, StartReplayKeeps, StartAtEndKeeps, ReadBatchKeeps, ReadNothingKeeps
<1>4. CASE SendFullBatch(c) \/ SendLastBatch(c) \/ Wake(c) \/ Disconnect(c)
  BY <1>4, SendKeeps, WakeKeeps, DisconnectKeeps
<1> QED
  BY <1>1, <1>2, <1>3, <1>4 DEF Stream

LEMMA StreamInvInit == Init => StreamInv
<1> SUFFICES ASSUME Init, NEW c \in Clients PROVE TypeOK /\ StreamOK(c)
  BY InitType, StreamInvByClient
<1>1. TypeOK
  BY InitType
<1>2. Top({}) = 0
  BY RowsAreFinite
<1> QED
  BY <1>1, <1>2 DEF Init, StreamOK, Waiting, HasUpTo

LEMMA StreamInvNext ==
    ASSUME InOrder, StreamInv, [Next]_vars
    PROVE  StreamInv'
<1>0. TypeOK /\ \A c \in Clients : StreamOK(c)
  BY StreamInvByClient
<1>1. TypeOK'
  BY <1>0, NextType
<1>2. ASSUME NEW c \in Clients PROVE StreamOK(c)'
  <2>0. StreamOK(c)
    BY <1>0
  <2>1. CASE CommitEntry
    BY <1>0, <2>0, <2>1, CommitKeeps
  <2>2. CASE WakeUpSubs
    BY <1>0, <2>0, <2>2, WakeUpKeeps
  <2>3. ASSUME NEW d \in Clients, Register(d) \/ Stream(d) \/ Disconnect(d)
        PROVE  StreamOK(c)'
    <3>1. CASE c = d
      BY <1>0, <2>0, <2>3, <3>1, StepKeeps
    <3>2. CASE c # d
      <4>1. Untouched(c) /\ seqs' = seqs /\ wakes' = wakes
        BY <1>0, <2>3, <3>2, StepOfOther
      <4> QED
        BY <2>0, <4>1, OthersStay DEF Untouched
    <3> QED
      BY <3>1, <3>2
  <2>4. CASE Crash
    BY <1>0, <2>0, <2>4, CrashKeeps
  <2>5. CASE UNCHANGED vars
    BY <2>0, <2>5, OthersStay DEF vars, server, client
  <2> QED
    BY <2>1, <2>2, <2>3, <2>4, <2>5 DEF Next
<1>3. StreamInv' <=> (TypeOK' /\ \A c \in Clients : StreamOK(c)')
  BY DEF StreamInv, NoGap, WaitingIsCaughtUp, StreamOK, Waiting, HasUpTo
<1> QED
  BY <1>1, <1>2, <1>3

(* With entries committed in order, a subscriber has no gap below the last
   entry it got, over any number of connections, crashes, and batches that
   were cut off. *)
THEOREM SubscribersHaveNoGap ==
    ASSUME InOrder
    PROVE  Spec => []NoGap
<1>1. Init => StreamInv
  BY StreamInvInit
<1>2. StreamInv /\ [Next]_vars => StreamInv'
  BY StreamInvNext
<1>3. StreamInv => NoGap
  BY DEF StreamInv
<1> QED
  BY <1>1, <1>2, <1>3, PTL DEF Spec

(* With entries committed in order, no wake-up is lost: a stream that waits,
   with no wake-up on its way, has sent everything. *)
THEOREM NoWakeUpIsLost ==
    ASSUME InOrder
    PROVE  Spec => []WaitingIsCaughtUp
<1>1. Init => StreamInv
  BY StreamInvInit
<1>2. StreamInv /\ [Next]_vars => StreamInv'
  BY StreamInvNext
<1>3. StreamInv => WaitingIsCaughtUp
  BY DEF StreamInv
<1> QED
  BY <1>1, <1>2, <1>3, PTL DEF Spec
=============================================================================
