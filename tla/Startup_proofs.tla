---------------------------- MODULE Startup_proofs ----------------------------
(* Theorems about the start of the server: the migration or clone of an older
   log, and the label definitions, for any old log, batch size and bounds.   *)
EXTENDS Startup, SeqNumbers_proofs

-----------------------------------------------------------------------------
(* Facts about the rows of the new database. *)

LEMMA TopOfFinite ==
    ASSUME NEW S \in SUBSET Nat, IsFiniteSet(S)
    PROVE  /\ Top(S) \in Nat
           /\ \A s \in S : s <= Top(S)
           /\ Top(S) \in S \cup {0}
BY TopIsTop DEF IsTop

LEMMA FiniteRows ==
    ASSUME TypeOK
    PROVE  /\ oldLabels \in SUBSET Seqs /\ IsFiniteSet(oldLabels)
           /\ IsFiniteSet(oldLabels \cup padding) /\ oldLabels \cup padding \in SUBSET Nat
           /\ rows \in SUBSET Seqs /\ rows \in SUBSET Nat /\ IsFiniteSet(rows)
           /\ todo \in SUBSET Nat /\ IsFiniteSet(todo)
<1>1. /\ oldLabels \in SUBSET Keys /\ padding \in SUBSET Keys
      /\ oldLabels \cup padding \in SUBSET Keys
      /\ copied \in SUBSET oldLabels /\ todo \in SUBSET oldLabels
      /\ added \in SUBSET (1 .. MaxSeq)
      /\ Keys \in SUBSET Seqs /\ IsFiniteSet(Keys) /\ MaxSeq \in Nat
  BY HandoverAssumption DEF TypeOK
<1>2. IsFiniteSet(oldLabels) /\ IsFiniteSet(oldLabels \cup padding)
  BY <1>1, FS_Subset
<1>3. IsFiniteSet(copied) /\ IsFiniteSet(todo)
  BY <1>1, <1>2, FS_Subset
<1>4. IsFiniteSet(added)
  <2>1. IsFiniteSet(1 .. MaxSeq)
    BY <1>1, FS_Interval
  <2> QED
    BY <1>1, <2>1, FS_Subset
<1>5. IsFiniteSet(rows)
  BY <1>3, <1>4, FS_Union DEF rows
<1>6. added \in SUBSET Seqs
  BY <1>1 DEF Seqs
<1>7. rows \in SUBSET Seqs
  BY <1>1, <1>6 DEF rows
<1> QED
  BY <1>1, <1>2, <1>3, <1>5, <1>7 DEF Seqs

LEMMA LastKeyFacts ==
    ASSUME TypeOK
    PROVE  /\ LastKey \in Nat /\ LastKey + 1 \notin rows
           /\ \A r \in rows : r \in Nat /\ r <= LastKey
           /\ LastKey = 0 <=> rows = {}
           /\ LastKey \in rows \cup {0}
<1>1. rows \in SUBSET Seqs /\ rows \in SUBSET Nat /\ IsFiniteSet(rows)
  BY FiniteRows
<1>2. LastKey \in Nat /\ LastKey \in rows \cup {0} /\ \A r \in rows : r \in Nat /\ r <= LastKey
  BY <1>1, TopOfFinite DEF LastKey
<1>3. LastKey + 1 \notin rows
  BY <1>2
<1>4. LastKey = 0 <=> rows = {}
  BY <1>1, <1>2 DEF Seqs
<1> QED
  BY <1>2, <1>3, <1>4

(* The number that a call of AddLabel takes. *)
LEMMA NewNumber ==
    ASSUME TypeOK, NEW seq \in Free
    PROVE  /\ seq \in Seqs /\ seq \notin rows
           /\ engine = "sqlite" => \A r \in rows : r < seq
           /\ engine # "sqlite" => seq > seqCounter
<1>1. /\ LastKey \in Nat /\ \A r \in rows : r \in Nat /\ r <= LastKey
  BY LastKeyFacts
<1>2. seqCounter \in Nat /\ MaxAttempts \in Nat \ {0}
  BY HandoverAssumption DEF TypeOK
<1> QED
  BY <1>1, <1>2 DEF Free, Tried, Seqs

(* A batch of an import takes the first of the rows that are left. *)
LEMMA FirstBatchIsFirst ==
    ASSUME TypeOK
    PROVE  /\ FirstBatch \in SUBSET todo /\ AfterBatch = todo \ FirstBatch
           /\ \A j \in todo, k \in FirstBatch : j <= k => j \in FirstBatch
<1>0. todo \in SUBSET Nat /\ IsFiniteSet(todo) /\ BatchSize \in Nat
  BY FiniteRows, HandoverAssumption
<1> DEFINE below(k) == {j \in todo : j < k}
<1>1. ASSUME NEW k PROVE IsFiniteSet(below(k)) /\ Cardinality(below(k)) \in Nat
  <2>1. below(k) \in SUBSET todo
    OBVIOUS
  <2> HIDE DEF below
  <2> QED
    BY <1>0, <2>1, FS_Subset, FS_CardinalityType
<1>2. /\ FirstBatch = {k \in todo : Cardinality(below(k)) < BatchSize}
      /\ AfterBatch = {k \in todo : Cardinality(below(k)) >= BatchSize}
  BY DEF FirstBatch, AfterBatch
<1>3. AfterBatch = todo \ FirstBatch
  <2> HIDE DEF below
  <2>1. \A k : Cardinality(below(k)) \in Nat
    BY <1>1
  <2> QED
    BY <1>0, <1>2, <2>1
<1>4. ASSUME NEW j \in todo, NEW k \in FirstBatch, j <= k PROVE j \in FirstBatch
  <2>1. below(j) \in SUBSET below(k)
    <3>1. j \in Nat /\ k \in Nat /\ \A i \in todo : i \in Nat
      BY <1>0, <1>2
    <3>2. \A i \in todo : i < j => i < k
      BY <1>4, <3>1
    <3> QED
      BY <3>2
  <2> HIDE DEF below
  <2>2. Cardinality(below(j)) <= Cardinality(below(k))
    BY <1>1, <2>1, FS_Subset
  <2>3. Cardinality(below(k)) < BatchSize
    BY <1>2
  <2>4. Cardinality(below(j)) \in Nat /\ Cardinality(below(k)) \in Nat
    BY <1>1
  <2> QED
    BY <1>0, <1>2, <2>2, <2>3, <2>4
<1>5. FirstBatch \in SUBSET todo
  BY <1>2
<1> QED
  BY <1>3, <1>4, <1>5

(* When no old row is missing above the last row of the table, none is missing:
   the check with which the migration is skipped. *)
LEMMA NoMigrationIsRight ==
    ASSUME TypeOK, HandoverInv, source # "stream", NoMigrationNeeded
    PROVE  oldLabels \subseteq copied
<1> SUFFICES ASSUME added = {} PROVE oldLabels \subseteq copied
  BY DEF HandoverInv
<1>1. OldLastKey \in Nat /\ \A k \in oldLabels : k \in Nat /\ k <= OldLastKey
  <2>1. IsFiniteSet(oldLabels \cup padding) /\ oldLabels \cup padding \in SUBSET Nat
    BY FiniteRows
  <2> QED
    BY <2>1, TopOfFinite DEF OldLastKey
<1>2. LastKey \in Nat /\ LastKey \in copied \cup {0} /\ OldLastKey <= LastKey
  BY LastKeyFacts DEF NoMigrationNeeded, rows
<1>3. \A k \in oldLabels : k > 0
  BY FiniteRows DEF Seqs
<1>4. ASSUME NEW k \in oldLabels PROVE k \in copied
  <2>1. k <= LastKey /\ k > 0
    BY <1>1, <1>2, <1>3
  <2>2. LastKey \in copied
    BY <1>1, <1>2, <2>1
  <2> QED
    BY <2>1, <2>2 DEF HandoverInv, Received
<1> QED
  BY <1>4

-----------------------------------------------------------------------------
(* The inductive invariant of the database. *)

LEMMA HandoverInit == Init => HandoverInv
<1> SUFFICES ASSUME Init PROVE HandoverInv
  OBVIOUS
<1>1. TypeOK
  BY DEF Init, TypeOK
<1> QED
  BY <1>1 DEF Init, HandoverInv, WritesWork, Received

LEMMA StartKeeps ==
    ASSUME HandoverInv, StartServing \/ StartRefused \/ StartMigration \/ Clone
    PROVE  HandoverInv'
<1>0. TypeOK
  BY DEF HandoverInv
<1>1. CASE StartServing
  <2>1. source # "stream" => oldLabels \subseteq copied
    BY <1>0, <1>1, NoMigrationIsRight DEF StartServing
  <2>2. TypeOK'
    BY <1>0, <1>1 DEF StartServing, Serve, given, TypeOK
  <2> QED
    BY <1>1, <2>1, <2>2 DEF StartServing, Serve, given, HandoverInv, WritesWork, Received, rows
<1>2. CASE StartRefused
  <2>1. TableReadable \in BOOLEAN
    BY <1>0 DEF TableReadable, TypeOK
  <2>2. TypeOK'
    BY <1>0, <1>2, <2>1 DEF StartRefused, given, TypeOK
  <2> QED
    BY <1>2, <2>2 DEF StartRefused, given, HandoverInv, WritesWork, Received, rows
<1>3. ASSUME rows = {} PROVE copied = {} /\ added = {} /\ ~ setvalDone
  BY <1>3 DEF HandoverInv, rows
<1>4. CASE StartMigration
  <2>1. copied = {} /\ added = {} /\ ~ setvalDone
    BY <1>0, <1>3, <1>4, LastKeyFacts DEF StartMigration
  <2>2. TypeOK'
    BY <1>0, <1>4, <2>1 DEF StartMigration, given, TypeOK, GetLabels
  <2>3. source # "stream"
    BY <1>4 DEF StartMigration, NoMigrationNeeded
  <2> QED
    BY <1>4, <2>1, <2>2, <2>3
       DEF StartMigration, given, GetLabels, HandoverInv, WritesWork, Received, rows
<1>5. CASE Clone
  <2>1. copied = {} /\ added = {} /\ ~ setvalDone
    BY <1>3, <1>5 DEF Clone
  <2>2. PICK P \in SUBSET oldLabels : todo' = P
    BY <1>5 DEF Clone
  <2>3. TypeOK'
    BY <1>0, <1>5, <2>1, <2>2 DEF Clone, given, TypeOK
  <2> QED
    BY <1>5, <2>1, <2>3 DEF Clone, given, HandoverInv, WritesWork, rows
<1> QED
  BY <1>1, <1>2, <1>4, <1>5

(* After a batch the table still holds the old log up to some row. *)
LEMMA ImportKeeps ==
    ASSUME HandoverInv, ImportBatch
    PROVE  HandoverInv'
<1>0. TypeOK /\ added = {} /\ ~ setvalDone
  BY DEF HandoverInv, ImportBatch
<1>1. /\ FirstBatch \in SUBSET todo /\ AfterBatch = todo \ FirstBatch
      /\ \A j \in todo, k \in FirstBatch : j <= k => j \in FirstBatch
  BY <1>0, FirstBatchIsFirst
<1>2. copied' = copied \cup FirstBatch /\ todo' = todo \ FirstBatch
  BY <1>1 DEF ImportBatch
<1>3. TypeOK'
  BY <1>0, <1>1, <1>2 DEF ImportBatch, given, TypeOK
<1>4. ASSUME source # "stream" PROVE Received(copied)' /\ oldLabels = copied' \cup todo'
  <2>1. Received(copied) /\ oldLabels = copied \cup todo
    BY <1>4 DEF HandoverInv, ImportBatch
  <2>2. oldLabels' = oldLabels
    BY DEF ImportBatch, given
  <2>3. ASSUME NEW j \in oldLabels, NEW k \in copied', j <= k PROVE j \in copied'
    <3>1. CASE k \in copied
      BY <1>2, <2>1, <2>3, <3>1 DEF Received
    <3>2. CASE k \in FirstBatch
      BY <1>1, <1>2, <2>1, <2>3, <3>2
    <3> QED
      BY <1>2, <2>3, <3>1, <3>2
  <2> QED
    BY <1>1, <1>2, <2>1, <2>2, <2>3 DEF Received
<1>5. /\ source' = source /\ oldLabels' = oldLabels /\ engine' = engine /\ added' = added
      /\ pc' = pc /\ pc = "import" /\ failed' = failed /\ setvalDone' = setvalDone
  BY DEF ImportBatch, given
<1>6. source' # "stream" =>
          /\ Received(copied)'
          /\ added' # {} \/ pc' \in {"setval", "serving"} => oldLabels' \subseteq copied'
          /\ pc' = "import" => oldLabels' = copied' \cup todo'
  BY <1>0, <1>4, <1>5
<1>7. ~ failed
  BY <1>5 DEF HandoverInv
<1> QED
  BY <1>0, <1>3, <1>5, <1>6, <1>7 DEF HandoverInv, WritesWork

LEMMA EndImportKeeps ==
    ASSUME HandoverInv, EndImport \/ SetVal \/ SetValFails
    PROVE  HandoverInv'
<1>0. TypeOK /\ added = {} /\ ~ setvalDone
  BY DEF HandoverInv, EndImport, SetVal, SetValFails
<1>1. CASE EndImport
  <2>1. source # "stream" => oldLabels \subseteq copied
    BY <1>1 DEF EndImport, HandoverInv
  <2>2. pc' \in {"down", "setval", "serving"} /\ schema
    BY <1>0, <1>1 DEF EndImport, TypeOK
  <2>3. pc' = "setval" => engine = "postgres" /\ source # "stream"
    BY <1>0, <1>1 DEF EndImport, TypeOK
  <2>4. TypeOK'
    BY <1>0, <1>1, <2>2 DEF EndImport, given, db, TypeOK
  <2>5. /\ source' = source /\ oldLabels' = oldLabels /\ engine' = engine /\ added' = added
        /\ copied' = copied /\ ~ failed' /\ ~ setvalDone'
    BY <1>0, <1>1 DEF EndImport, given, db, HandoverInv
  <2>6. Received(copied)' <=> Received(copied)
    BY <2>5 DEF Received
  <2> QED
    BY <1>0, <2>1, <2>2, <2>3, <2>4, <2>5, <2>6 DEF HandoverInv, WritesWork
<1>2. CASE SetVal
  <2>1. engine = "postgres" /\ source # "stream" /\ oldLabels \subseteq copied /\ oldLabels # {}
    BY <1>2 DEF SetVal, GetLabels, HandoverInv
  <2>2. copied = oldLabels
    BY <1>0, <2>1 DEF TypeOK
  <2>3. LastImported \in Nat /\ \A k \in oldLabels : k <= LastImported
    <3>1. oldLabels \in SUBSET Nat /\ IsFiniteSet(oldLabels)
      BY <1>0, FiniteRows DEF Seqs
    <3> QED
      BY <3>1, TopOfFinite DEF LastImported, GetLabels
  <2>4. /\ source' = source /\ oldLabels' = oldLabels /\ engine' = engine /\ added' = added
        /\ copied' = copied /\ failed' = failed /\ setvalDone' = TRUE
        /\ seqCounter' = LastImported /\ pc' = "serving" /\ todo' = todo
        /\ schema' = schema /\ padding' = padding /\ schema
    BY <1>0, <1>2 DEF SetVal, given, TypeOK
  <2>5. TypeOK'
    BY <1>0, <2>3, <2>4 DEF TypeOK
  <2>6. Received(copied)'
    BY <2>2, <2>4 DEF Received
  <2>7. \A r \in rows' : r <= seqCounter'
    BY <1>0, <2>2, <2>3, <2>4 DEF rows
  <2>8. ~ failed
    BY <1>2 DEF SetVal, HandoverInv
  <2> QED
    BY <2>1, <2>2, <2>4, <2>5, <2>6, <2>7, <2>8 DEF HandoverInv, WritesWork
<1>3. CASE SetValFails
  <2>1. TypeOK'
    BY <1>0, <1>3 DEF SetValFails, given, db, TypeOK
  <2> QED
    BY <1>0, <1>3, <2>1 DEF SetValFails, given, db, HandoverInv, WritesWork, Received
<1> QED
  BY <1>1, <1>2, <1>3

(* A call fails only while log_seq_seq is behind the rows. *)
LEMMA AddLabelKeeps ==
    ASSUME HandoverInv, AddLabel \/ AddLabelFails
    PROVE  HandoverInv'
<1>0. /\ TypeOK /\ pc = "serving" /\ MaxAttempts \in Nat \ {0} /\ seqCounter \in Nat
      /\ rows \in SUBSET Nat /\ MaxSeq \in Nat
  BY FiniteRows, HandoverAssumption DEF HandoverInv, AddLabel, AddLabelFails, TypeOK
<1>1. /\ source' = source /\ oldLabels' = oldLabels /\ engine' = engine /\ padding' = padding
      /\ copied' = copied /\ setvalDone' = setvalDone /\ pc' = pc /\ todo' = todo
      /\ schema' = schema
  BY DEF AddLabel, AddLabelFails, given
<1>2. Received(copied)' <=> Received(copied)
  BY <1>1 DEF Received
<1>3. CASE AddLabel
  <2>1. PICK seq \in Free : /\ seq <= MaxSeq /\ added' = added \cup {seq}
                            /\ seqCounter' = IF engine = "postgres" THEN seq ELSE seqCounter
    BY <1>3 DEF AddLabel
  <2>2. /\ seq \in Nat /\ seq \in 1 .. MaxSeq /\ seq \notin rows
        /\ engine # "sqlite" => seq > seqCounter
    BY <1>0, <2>1, NewNumber DEF Seqs
  <2>3. failed' = FALSE
    BY <1>3 DEF AddLabel
  <2>4. TypeOK'
    BY <1>0, <1>1, <2>1, <2>2, <2>3 DEF TypeOK, rows
  <2>5. setvalDone => \A r \in rows' : r <= seqCounter'
    <3>1. SUFFICES ASSUME setvalDone, NEW r \in rows' PROVE r <= seqCounter'
      OBVIOUS
    <3>2. engine = "postgres" /\ seqCounter' = seq /\ seq > seqCounter
      BY <2>1, <2>2, <3>1 DEF HandoverInv
    <3>3. r \in rows \cup {seq}
      BY <1>1, <2>1, <3>1 DEF rows
    <3>4. r \in rows => r <= seqCounter /\ r \in Nat
      BY <1>0, <3>1 DEF HandoverInv
    <3> QED
      BY <1>0, <2>2, <3>2, <3>3, <3>4
  <2> QED
    BY <1>0, <1>1, <1>2, <2>3, <2>4, <2>5 DEF HandoverInv, WritesWork
<1>4. CASE AddLabelFails
  <2>1. added' = added /\ seqCounter' = seqCounter + MaxAttempts /\ Free = {}
    BY <1>4 DEF AddLabelFails
  <2>2. seqCounter' \in Nat /\ seqCounter' > seqCounter
    BY <1>0, <2>1
  <2>3. engine # "sqlite"
    BY <1>0, <2>1, LastKeyFacts DEF Free, Tried
  <2>4. ~ setvalDone
    <3>1. ASSUME setvalDone PROVE FALSE
      <4>1. seqCounter + 1 \in seqCounter + 1 .. seqCounter + MaxAttempts
        BY <1>0
      <4>2. seqCounter + 1 \notin rows
        BY <1>0, <3>1 DEF HandoverInv
      <4> QED
        BY <2>1, <2>3, <4>1, <4>2 DEF Free, Tried
    <3> QED
      BY <3>1
  <2>5. TypeOK' /\ engine = "postgres"
    BY <1>0, <1>1, <1>4, <2>1, <2>2, <2>3 DEF AddLabelFails, TypeOK
  <2> QED
    BY <1>0, <1>1, <1>2, <2>1, <2>4, <2>5 DEF HandoverInv, WritesWork
<1> QED
  BY <1>3, <1>4

LEMMA CrashKeeps ==
    ASSUME HandoverInv, Crash \/ UNCHANGED vars
    PROVE  HandoverInv'
<1>0. TypeOK
  BY DEF HandoverInv
<1>1. CASE Crash
  <2>1. TypeOK'
    BY <1>0, <1>1 DEF Crash, given, db, TypeOK
  <2> QED
    BY <1>1, <2>1 DEF Crash, given, db, HandoverInv, WritesWork, Received, rows
<1>2. CASE UNCHANGED vars
  BY <1>2 DEF vars, given, db, HandoverInv, TypeOK, WritesWork, Received, rows
<1> QED
  BY <1>1, <1>2

LEMMA HandoverNext == HandoverInv /\ [Next]_vars => HandoverInv'
BY StartKeeps, ImportKeeps, EndImportKeeps, AddLabelKeeps, CrashKeeps DEF Next

(* Every step of the start is a step of the database, or leaves it alone. *)
LEMMA StartupStepIsNext ==
    [StartupNext]_<<database, declaring>> => [Next]_vars
<1> SUFFICES ASSUME [StartupNext]_<<database, declaring>> PROVE [Next]_vars
  OBVIOUS
<1>1. CASE OpenDatabase
  BY <1>1 DEF OpenDatabase, Next
<1>2. CASE Declare
  BY <1>2 DEF Declare, database, vars, given, db
<1>3. CASE DeclareFails
  BY <1>3 DEF DeclareFails, Next
<1>4. CASE Listen
  BY <1>4 DEF Listen, Next
<1>5. CASE Die
  BY <1>5 DEF Die, Next
<1>6. CASE EditRecord
  BY <1>6 DEF EditRecord, database, vars, given, db
<1>7. CASE UNCHANGED <<database, declaring>>
  BY <1>7 DEF database, vars, given, db
<1> QED
  BY <1>1, <1>2, <1>3, <1>4, <1>5, <1>6, <1>7 DEF StartupNext

LEMMA HandoverAlways == StartupSpec => []HandoverInv
<1>1. StartupInit => HandoverInv
  BY HandoverInit DEF StartupInit
<1>2. HandoverInv /\ [StartupNext]_<<database, declaring>> => HandoverInv'
  BY StartupStepIsNext, HandoverNext
<1> QED
  BY <1>1, <1>2, PTL DEF StartupSpec

-----------------------------------------------------------------------------
(* The inductive invariant of the label definitions. *)

LEMMA DeclaringInit == StartupInit => DeclaringInv
<1> SUFFICES ASSUME StartupInit PROVE DeclaringInv
  OBVIOUS
<1>1. record \in {NoRecord} \cup AllRecords
  BY DEF StartupInit, D!Init, D!Records, AllRecords, AllPolicies
<1> QED
  BY <1>1 DEF StartupInit, D!Init, DeclaringInv, D!AllowedIsPublished

(* What UpdateLabelDefs puts is a record with the policies of the configuration. *)
LEMMA PutFacts ==
    ASSUME DeclaringInv, D!Put
    PROVE  /\ record' \in AllRecords
           /\ record' # NoRecord
           /\ record'.policies = D!PoliciesOf(config)
           /\ record = seen
           /\ record # NoRecord => record'.fields = record.fields
<1>1. D!PoliciesOf(config) \in AllPolicies
  BY DEF DeclaringInv, AllPolicies
<1>2. PICK fields \in IF seen = NoRecord THEN Fields ELSE {seen.fields} :
             record' = [policies |-> D!PoliciesOf(config), fields |-> fields, extras |-> {}]
  BY DEF D!Put
<1>3. seen # NoRecord => seen.fields \in Fields
  BY DEF DeclaringInv, AllRecords
<1>4. fields \in Fields
  BY <1>2, <1>3
<1>5. record = seen
  BY DEF D!Put, D!Swaps
<1>6. record' \in AllRecords
  BY <1>1, <1>2, <1>4 DEF AllRecords
<1> QED
  BY <1>2, <1>5, <1>6, StartupAssumption

LEMMA EndKeepsDeclaring ==
    ASSUME DeclaringInv, D!End,
           record' \in {NoRecord} \cup AllRecords
    PROVE  DeclaringInv'
BY DEF DeclaringInv, D!End, D!AllowedIsPublished

LEMMA DeclareKeeps ==
    ASSUME DeclaringInv, D!SetAllowedLabels \/ D!GetRecord \/ D!PutRecord
    PROVE  DeclaringInv'
<1>1. CASE D!SetAllowedLabels
  <2>1. /\ config' \in Configs /\ allowed' = D!LabelValues(config)'
        /\ step' \in {"read", "ready"}
        /\ step' = "ready" => ~ D!Publishes(config)'
    BY <1>1 DEF D!SetAllowedLabels, D!LabelValues, D!Publishes
  <2>2. UNCHANGED <<record, seen, edits, touched>>
    BY <1>1 DEF D!SetAllowedLabels
  <2>3. D!AllowedIsPublished'
    BY <2>1 DEF D!AllowedIsPublished
  <2> QED
    BY <2>1, <2>2, <2>3 DEF DeclaringInv
<1>2. CASE D!GetRecord
  <2>1. /\ UNCHANGED <<config, allowed, record, edits>> /\ touched' = FALSE
        /\ seen' = record /\ step' \in {"put", "ready"}
        /\ step' = "ready" => D!UpToDate
    BY <1>2 DEF D!GetRecord
  <2>2. allowed = D!LabelValues(config)
    BY <1>2 DEF D!GetRecord, DeclaringInv
  <2>3. allowed' = D!LabelValues(config)'
    BY <2>1, <2>2 DEF D!LabelValues
  <2>4. D!UpToDate => record # NoRecord /\ record.policies.values = allowed
    BY <2>2 DEF D!UpToDate, D!PoliciesOf
  <2>5. D!AllowedIsPublished'
    BY <2>1, <2>4 DEF D!AllowedIsPublished
  <2> QED
    BY <2>1, <2>3, <2>5 DEF DeclaringInv
<1>3. CASE D!PutRecord
  <2>1. /\ UNCHANGED <<config, allowed, seen, edits, touched>>
        /\ step' = "ready" /\ D!Put /\ step = "put"
    BY <1>3 DEF D!PutRecord
  <2>2. /\ record' \in AllRecords /\ record' # NoRecord
        /\ record'.policies = D!PoliciesOf(config)
    BY <2>1, PutFacts
  <2>3. allowed = D!LabelValues(config)
    BY <2>1 DEF DeclaringInv
  <2>4. allowed' = D!LabelValues(config)' /\ record'.policies.values = allowed'
    BY <2>1, <2>2, <2>3 DEF D!LabelValues, D!PoliciesOf
  <2>5. D!AllowedIsPublished'
    BY <2>2, <2>4 DEF D!AllowedIsPublished
  <2> QED
    BY <2>1, <2>2, <2>4, <2>5 DEF DeclaringInv
<1> QED
  BY <1>1, <1>2, <1>3

LEMMA EditKeeps ==
    ASSUME DeclaringInv, D!Edit
    PROVE  DeclaringInv' /\ edits' # edits
<1>1. /\ UNCHANGED <<config, allowed, seen, step>>
      /\ edits' = edits + 1 /\ touched' = TRUE /\ edits \in Nat
      /\ record' \in D!Records
  BY DEF D!Edit, DeclaringInv
<1>2. record' \in AllRecords
  BY <1>1 DEF D!Records, AllRecords, AllPolicies
<1>3. step # "down" => allowed' = D!LabelValues(config)'
  BY <1>1 DEF DeclaringInv, D!LabelValues
<1>4. D!AllowedIsPublished'
  BY <1>1 DEF D!AllowedIsPublished
<1>5. edits' \in Nat /\ edits' # edits
  BY <1>1
<1> QED
  BY <1>1, <1>2, <1>3, <1>4, <1>5 DEF DeclaringInv

LEMMA IdleKeeps ==
    ASSUME DeclaringInv, UNCHANGED declaring
    PROVE  DeclaringInv'
<1>1. UNCHANGED <<config, allowed, record, seen, step, edits, touched>>
  BY DEF declaring
<1>2. D!AllowedIsPublished' <=> D!AllowedIsPublished
  BY <1>1 DEF D!AllowedIsPublished, D!Publishes
<1>3. D!LabelValues(config)' = D!LabelValues(config)
  BY <1>1 DEF D!LabelValues
<1> QED
  BY <1>1, <1>2, <1>3 DEF DeclaringInv

LEMMA DeclaringNext ==
    DeclaringInv /\ [StartupNext]_<<database, declaring>> => DeclaringInv'
<1> SUFFICES ASSUME DeclaringInv, [StartupNext]_<<database, declaring>> PROVE DeclaringInv'
  OBVIOUS
<1>1. CASE OpenDatabase \/ Listen \/ UNCHANGED <<database, declaring>>
  BY <1>1, IdleKeeps DEF OpenDatabase, Listen
<1>2. CASE Declare
  BY <1>2, DeclareKeeps DEF Declare
<1>3. record \in {NoRecord} \cup AllRecords
  BY DEF DeclaringInv
<1>4. CASE DeclareFails
  <2>1. CASE D!PutRefused
    BY <1>3, <2>1, EndKeepsDeclaring DEF D!PutRefused
  <2>2. CASE D!PutUnanswered
    BY <2>2, PutFacts, EndKeepsDeclaring DEF D!PutUnanswered
  <2> QED
    BY <1>4, <2>1, <2>2 DEF DeclareFails
<1>5. CASE Die
  BY <1>3, <1>5, EndKeepsDeclaring DEF Die, D!Stop
<1>6. CASE EditRecord
  BY <1>6, EditKeeps DEF EditRecord
<1> QED
  BY <1>1, <1>2, <1>4, <1>5, <1>6 DEF StartupNext

LEMMA DeclaringAlways == StartupSpec => []DeclaringInv
BY DeclaringInit, DeclaringNext, PTL DEF StartupSpec

-----------------------------------------------------------------------------
(* A server never serves a part of the log that it had to migrate: the check of
   NewWithConfig cannot take a broken-off import for a finished one, because
   batches come in the order of the log (migration.go). *)
THEOREM ServesWholeLog == StartupSpec => []ServedLogIsWhole
<1>1. HandoverInv => ServedLogIsWhole
  BY DEF HandoverInv, ServedLogIsWhole
<1> QED
  BY <1>1, HandoverAlways, PTL

(* A write can only run out of attempts on a PostgreSQL database whose sequence
   was never told where the imported rows end. *)
THEOREM WritesOnlyFailUnset == StartupSpec => []WritesWork
<1>1. HandoverInv => WritesWork
  BY DEF HandoverInv
<1> QED
  BY <1>1, HandoverAlways, PTL

(* After the hand-over a new label gets a number above every row (AddLabel in
   core_logic.go, setval in migration.go), whatever starts broke off before. *)
THEOREM NewRowsComeLast == StartupSpec => NewRowsAreLast
<1> DEFINE Last == \A s \in added' \ added :
                      engine = "sqlite" \/ setvalDone => \A r \in rows : r < s
<1>1. HandoverInv /\ [Next]_vars => [Last]_added
  <2> SUFFICES ASSUME HandoverInv, [Next]_vars, added' # added PROVE Last
    OBVIOUS
  <2>1. AddLabel
    BY DEF Next, vars, given, db, StartServing, StartRefused, StartMigration, ImportBatch,
           EndImport, SetVal, SetValFails, Clone, AddLabelFails, Crash
  <2>2. PICK seq \in Free : added' = added \cup {seq}
    BY <2>1 DEF AddLabel
  <2>3. TypeOK /\ rows \in SUBSET Nat /\ seqCounter \in Nat
    BY FiniteRows DEF HandoverInv, TypeOK
  <2>4. /\ seq \in Nat
        /\ engine = "sqlite" => \A r \in rows : r < seq
        /\ engine # "sqlite" => seq > seqCounter
    BY <2>2, <2>3, NewNumber DEF Seqs
  <2>5. setvalDone => engine # "sqlite" /\ \A r \in rows : r \in Nat /\ r <= seqCounter
    BY <2>3 DEF HandoverInv
  <2>6. engine = "sqlite" \/ setvalDone => \A r \in rows : r < seq
    BY <2>3, <2>4, <2>5
  <2> QED
    BY <2>2, <2>6
<1>2. HandoverInv /\ [StartupNext]_<<database, declaring>> => [Last]_added
  BY <1>1, StartupStepIsNext
<1> HIDE DEF Last
<1>3. StartupSpec => [][Last]_added
  BY <1>2, HandoverAlways, PTL DEF StartupSpec
<1> QED
  BY <1>3 DEF NewRowsAreLast, Last

(* A server that listens allows what the service record declares, unless others
   have edited the record since the start read it. *)
THEOREM AllowsWhatIsPublished == StartupSpec => []AllowedIsPublished
<1>1. DeclaringInv => AllowedIsPublished
  BY DEF DeclaringInv, AllowedIsPublished
<1> QED
  BY <1>1, DeclaringAlways, PTL

(* No start overwrites an edit of the service record that it has not read: the
   swap record that UpdateLabelDefs sends makes a put fail after an edit. *)
THEOREM UnreadEditsAreKept == StartupSpec => UnreadEditsKept
<1> DEFINE Kept == edits' = edits => /\ touched => record = seen
                                     /\ record # NoRecord => record'.fields = record.fields
<1>1. DeclaringInv /\ [StartupNext]_<<database, declaring>> => [Kept]_record
  <2> SUFFICES ASSUME DeclaringInv, [StartupNext]_<<database, declaring>>, record' # record
               PROVE  Kept
    OBVIOUS
  <2>1. D!Put \/ D!Edit
    BY DEF StartupNext, OpenDatabase, Declare, DeclareFails, Listen, Die, EditRecord, declaring,
           D!SetAllowedLabels, D!GetRecord, D!PutRecord, D!PutRefused, D!PutUnanswered, D!Stop
  <2>2. CASE D!Put
    BY <2>2, PutFacts
  <2>3. CASE D!Edit
    BY <2>3, EditKeeps
  <2> QED
    BY <2>1, <2>2, <2>3
<1> HIDE DEF Kept
<1>2. StartupSpec => [][Kept]_record
  BY <1>1, DeclaringAlways, PTL DEF StartupSpec
<1> QED
  BY <1>2 DEF UnreadEditsKept, D!UnreadEditsKept, Kept
=============================================================================
