------------------------------ MODULE Handover ------------------------------
(* A database is filled with the log of an older one, and then served: the
   migration at start-up (NewWithConfig, server.go and migration.go) and
   cmd/clone, which copies the log of a running labeler from its stream.

   A row is its sequence number and where it comes from.  One action is one
   statement that changes the database; the process may die between any two.
   Once the server runs, AddLabel is one step: WriteLabel has the rest.    *)
EXTENDS SeqNumbers

CONSTANTS
    Keys,         \* sequence numbers that the old log may use
    BatchSize,    \* rows per INSERT of an import (1000 in the code)
    MaxAttempts,  \* transactions per call of AddLabel (5 in the code)
    MaxSeq        \* bound: no label is added above this number

ASSUME HandoverAssumption ==
    /\ Keys \subseteq Seqs
    /\ IsFiniteSet(Keys)
    /\ BatchSize \in Nat \ {0}
    /\ MaxAttempts \in Nat \ {0}
    /\ MaxSeq \in Nat

VARIABLES
    engine,       \* of the new database: "sqlite" or "postgres"
    source,       \* of the old log: "bolt", "sqlite", or "stream" of a labeler
    oldLabels,    \* numbers of the old labels
    padding,      \* numbers of the empty entries a bolt database may have
    schema,       \* whether the new database has the table
    copied,       \* rows of the new database that are old labels
    added,        \* rows that AddLabel has written
    seqCounter,   \* log_seq_seq of PostgreSQL
    pc,           \* "down", "import", "setval", "serving"
    todo,         \* keys of entries that are still to be imported
    failed,       \* the last call of AddLabel has failed
    setvalDone    \* log_seq_seq has been set after an import

given == <<engine, source, oldLabels, padding>>
db == <<schema, copied, added, seqCounter>>
vars == <<given, db, pc, todo, failed, setvalDone>>

(* NewWithConfig takes a bolt database before it looks for an SQLite one, and
   an SQLite one only into PostgreSQL. *)
Init ==
    /\ engine \in {"sqlite", "postgres"}
    /\ source \in {"bolt", "sqlite", "stream"}
    /\ engine = "sqlite" => source # "sqlite"
    /\ oldLabels \in SUBSET Keys
    /\ padding \in SUBSET (Keys \ oldLabels)
    /\ source # "bolt" => padding = {}
    /\ schema \in BOOLEAN
    /\ copied = {} /\ added = {} /\ seqCounter = 0
    /\ pc = "down" /\ todo = {} /\ failed = FALSE /\ setvalDone = FALSE

rows == copied \cup added
OldLastKey == Top(oldLabels \cup padding)
LastKey == Top(rows)

(* The old labels, without the padding. *)
GetLabels == oldLabels

-----------------------------------------------------------------------------
(* The start of the server.  The table is made by AutoMigrate, which the
   migration to SQLite does not call before its first query. *)
TableReadable == schema \/ engine = "postgres" \/ source = "stream"

(* Bug for NoMigrationNeeded: any row shows that the migration was done. *)
NoMigrationAnyRow == source = "stream" \/ OldLastKey = 0 \/ LastKey > 0
NoMigrationNeeded == source = "stream" \/ OldLastKey <= LastKey

Serve ==
    /\ pc' = "serving"
    /\ schema' = TRUE

StartServing ==
    /\ pc = "down"
    /\ TableReadable
    /\ NoMigrationNeeded
    /\ Serve
    /\ UNCHANGED <<given, copied, added, seqCounter, todo, failed, setvalDone>>

(* The process ends with an error; the database may have got its table. *)
StartRefused ==
    /\ pc = "down"
    /\ ~ TableReadable \/ (~ NoMigrationNeeded /\ LastKey # 0)
    /\ schema' = (schema \/ TableReadable)
    /\ UNCHANGED <<given, copied, added, seqCounter, pc, todo, failed, setvalDone>>

StartMigration ==
    /\ pc = "down"
    /\ TableReadable
    /\ ~ NoMigrationNeeded
    /\ LastKey = 0
    /\ pc' = "import"
    /\ schema' = TRUE
    /\ todo' = GetLabels
    /\ UNCHANGED <<given, copied, added, seqCounter, failed, setvalDone>>

FirstBatch == {k \in todo : Cardinality({j \in todo : j < k}) < BatchSize}
AfterBatch == {k \in todo : Cardinality({j \in todo : j < k}) >= BatchSize}

ImportBatch ==
    /\ pc = "import"
    /\ todo # {}
    /\ copied' = copied \cup FirstBatch
    /\ todo' = AfterBatch
    /\ UNCHANGED <<given, schema, added, seqCounter, pc, failed, setvalDone>>

EndImport ==
    /\ pc = "import"
    /\ todo = {}
    /\ pc' = CASE source = "stream" -> "down"
               [] source # "stream" /\ engine = "postgres" -> "setval"
               [] OTHER -> "serving"
    /\ UNCHANGED <<given, db, todo, failed, setvalDone>>

(* Bug for LastImported: the number of rows instead of the last. *)
LastImportedCount == Cardinality(GetLabels)
LastImported == Top(GetLabels)

(* setval refuses 0, which it gets when there was nothing but padding. *)
SetVal ==
    /\ pc = "setval"
    /\ GetLabels # {}
    /\ seqCounter' = LastImported
    /\ setvalDone' = TRUE
    /\ pc' = "serving"
    /\ UNCHANGED <<given, schema, copied, added, todo, failed>>

SetValFails ==
    /\ pc = "setval"
    /\ GetLabels = {}
    /\ pc' = "down"
    /\ UNCHANGED <<given, db, todo, failed, setvalDone>>

-----------------------------------------------------------------------------
(* cmd/clone, into an empty database: what has come when the stream is silent
   for five seconds is imported, and the process ends. *)
Received(P) == \A j \in oldLabels, k \in P : j <= k => j \in P

Clone ==
    /\ pc = "down"
    /\ source = "stream"
    /\ rows = {}
    /\ schema' = TRUE
    /\ \E P \in SUBSET oldLabels : Received(P) /\ todo' = P
    /\ pc' = "import"
    /\ UNCHANGED <<given, copied, added, seqCounter, failed, setvalDone>>

-----------------------------------------------------------------------------
(* The numbers that the attempts of a call try; a number that is in use fails
   the attempt. *)
Tried == IF engine = "sqlite" THEN {LastKey + 1} ELSE seqCounter + 1 .. seqCounter + MaxAttempts
Free == Tried \ rows

AddLabel ==
    /\ pc = "serving"
    /\ Free # {}
    /\ \E seq \in Free :
        /\ \A s \in Free : seq <= s
        /\ seq <= MaxSeq
        /\ added' = added \cup {seq}
        /\ seqCounter' = IF engine = "postgres" THEN seq ELSE seqCounter
    /\ failed' = FALSE
    /\ UNCHANGED <<given, schema, copied, pc, todo, setvalDone>>

AddLabelFails ==
    /\ pc = "serving"
    /\ Free = {}
    /\ seqCounter' = seqCounter + MaxAttempts
    /\ failed' = TRUE
    /\ UNCHANGED <<given, schema, copied, added, pc, todo, setvalDone>>

(* The process dies, is stopped, or cannot go on. *)
Crash ==
    /\ pc # "down"
    /\ pc' = "down" /\ todo' = {} /\ failed' = FALSE
    /\ UNCHANGED <<given, db, setvalDone>>

Next ==
    \/ StartServing \/ StartRefused \/ StartMigration
    \/ ImportBatch \/ EndImport \/ SetVal \/ SetValFails
    \/ Clone
    \/ AddLabel \/ AddLabelFails
    \/ Crash

Spec == Init /\ [][Next]_vars

-----------------------------------------------------------------------------
TypeOK ==
    /\ engine \in {"sqlite", "postgres"}
    /\ source \in {"bolt", "sqlite", "stream"}
    /\ oldLabels \subseteq Keys
    /\ padding \subseteq Keys
    /\ schema \in BOOLEAN
    /\ copied \subseteq oldLabels
    /\ added \subseteq 1 .. MaxSeq
    /\ copied \cap added = {}
    /\ seqCounter \in Nat
    /\ pc \in {"down", "import", "setval", "serving"}
    /\ todo \subseteq oldLabels \ copied
    /\ pc \notin {"down"} => schema
    /\ {failed, setvalDone} \subseteq BOOLEAN

(* A server that had to migrate never serves a part of the old log: a crash
   between two batches does not make it take the rest for migrated. *)
ServedLogIsWhole == pc = "serving" /\ source # "stream" => oldLabels \subseteq copied

(* A write only fails (all its attempts hit rows in use) when the sequence was
   not told where the imported rows end. *)
WritesWork == failed => engine = "postgres" /\ ~ setvalDone

(* The inductive invariant: what is copied is the old log up to some row, and
   all of it before any new row; an import starts from an empty table and ends
   with the whole log; and once log_seq_seq is set, it is ahead of every row. *)
HandoverInv ==
    /\ TypeOK
    /\ WritesWork
    /\ source # "stream" =>
          /\ Received(copied)
          /\ added # {} \/ pc \in {"setval", "serving"} => oldLabels \subseteq copied
          /\ pc = "import" => oldLabels = copied \cup todo
    /\ pc \in {"import", "setval"} => added = {} /\ ~ setvalDone
    /\ pc = "setval" => engine = "postgres" /\ source # "stream"
    /\ failed => pc = "serving"
    /\ setvalDone =>
          /\ engine = "postgres"
          /\ copied # {}
          /\ \A r \in rows : r <= seqCounter

(* Once the numbers are handed over, a new label gets a number above every row,
   so that subscribers with any cursor see it.  PostgreSQL counts on its own: it
   has to be told, and a crash before setval, or a clone, forgets to. *)
NewRowsAreLast ==
    [][ \A s \in added' \ added :
            engine = "sqlite" \/ setvalDone => \A r \in rows : r < s ]_added
=============================================================================
