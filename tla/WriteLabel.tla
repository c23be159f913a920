----------------------------- MODULE WriteLabel -----------------------------
(* The write path of the label server: AddLabel (server.go) and the
   transaction in writeLabel (core_logic.go), run by several HTTP handlers at
   once against SQLite or PostgreSQL.

   One action is one statement of the transaction, the grain at which the
   handlers interleave.  A local variable of writeLabel is a function on the
   writers; it is reset when the call returns.                             *)
EXTENDS LabelLog

CONSTANTS
    Writers,      \* HTTP handlers that may be in AddLabel at the same time
    Requests,     \* the labels that clients post
    NoRequest,    \* what an idle writer works on
    Did,          \* the server's own DID, the source of a label that names none
    AllowedSets,  \* label values of the configurations the server is started with
    Engine,       \* "sqlite" or "postgres"
    MaxAttempts,  \* transactions tried per call (5 in the code)
    MaxSeq        \* bound: no call starts that could need a greater sequence number

ASSUME WriteLabelAssumption ==
    /\ Requests \subseteq Label
    /\ NoRequest \notin Entry
    /\ Did \in Srcs \cup {NoSrc}
    /\ AllowedSets # {}
    /\ AllowedSets \subseteq SUBSET Vals
    /\ Engine \in {"sqlite", "postgres"}
    /\ MaxAttempts \in Nat \ {0}
    /\ MaxSeq \in Nat

VARIABLES
    log,          \* committed rows of the table
    seqCounter,   \* the PostgreSQL sequence log_seq_seq (stays 0 with SQLite)
    allowed,      \* Server.allowedLabels
    wakes,        \* goroutines "go s.wakeUpSubs()" that have not run yet
    pc,           \* the next statement of each writer
    req,          \* newLabel, without its Seq
    newSeq,       \* newLabel.Seq: 0 until an INSERT succeeds, kept by a retry
    attempt,      \* i, the loop counter of writeLabel
    lastKey,      \* lastKey of writeLabel
    reply         \* the answer to the last call of each writer

store == <<log, seqCounter>>
locals == <<pc, req, newSeq, attempt, lastKey, reply>>
vars == <<log, seqCounter, allowed, wakes, locals>>

Init ==
    /\ log = EmptyLog
    /\ seqCounter = 0
    /\ allowed \in AllowedSets
    /\ wakes = 0
    /\ pc = [w \in Writers |-> "idle"]
    /\ req = [w \in Writers |-> NoRequest]
    /\ newSeq = [w \in Writers |-> 0]
    /\ attempt = [w \in Writers |-> 0]
    /\ lastKey = [w \in Writers |-> 0]
    /\ reply = [w \in Writers |-> "none"]

-----------------------------------------------------------------------------
(* SQLite's locks in a deferred transaction (rollback journal).  The first
   SELECT takes SHARED, the INSERT takes RESERVED, which one connection holds
   at a time, and COMMIT needs all other SHARED locks gone.  PostgreSQL
   writers wait for one another only when they insert the same key.        *)

(* Bug for HoldsShared: lastKey is read before the transaction begins. *)
HoldsSharedFromMatch(w) == pc[w] \in {"insert", "count", "commit"}
HoldsShared(w) == pc[w] \in {"match", "insert", "count", "commit"}
HoldsReserved(w) == pc[w] \in {"count", "commit"}

CanReserve(w, seq) ==
    \A v \in Writers \ {w} :
        HoldsReserved(v) => Engine = "postgres" /\ newSeq[v] # seq
CanCommit(w) == Engine = "sqlite" => \A v \in Writers \ {w} : ~ HoldsShared(v)

Active == {w \in Writers : pc[w] # "idle"}
LastUsed == IF Engine = "sqlite" THEN LastSeq(log) ELSE seqCounter
RoomLeft == LastUsed + Cardinality(Active) < MaxSeq

-----------------------------------------------------------------------------
(* AddLabel, up to the call of writeLabel. *)
Permitted(val) == allowed = {} \/ val \in allowed

SourceOf(label) == IF label.src = NoSrc THEN Did ELSE label.src
EntryOf(label) == [label EXCEPT !.src = SourceOf(label)]

Refused(label) == ~ Permitted(label.val) \/ SourceOf(label) = NoSrc

AddLabelRefused(w, label) ==
    /\ pc[w] = "idle"
    /\ Refused(label)
    /\ reply' = [reply EXCEPT ![w] =
                    IF Permitted(label.val) THEN "failed" ELSE "denied"]
    /\ UNCHANGED <<store, allowed, wakes, pc, req, newSeq, attempt, lastKey>>

AddLabel(w, label) ==
    /\ pc[w] = "idle"
    /\ ~ Refused(label)
    /\ RoomLeft
    /\ pc' = [pc EXCEPT ![w] = "begin"]
    /\ req' = [req EXCEPT ![w] = EntryOf(label)]
    /\ reply' = [reply EXCEPT ![w] = "none"]
    /\ UNCHANGED <<store, allowed, wakes, newSeq, attempt, lastKey>>

-----------------------------------------------------------------------------
(* How an attempt ends. *)
Return(w, r) ==
    /\ pc' = [pc EXCEPT ![w] = "idle"]
    /\ req' = [req EXCEPT ![w] = NoRequest]
    /\ newSeq' = [newSeq EXCEPT ![w] = 0]
    /\ attempt' = [attempt EXCEPT ![w] = 0]
    /\ lastKey' = [lastKey EXCEPT ![w] = 0]
    /\ reply' = [reply EXCEPT ![w] = r]

(* Bugs for OutOfAttempts and NextAttempt: one attempt too many; a retry that
   is not counted. *)
OutOfAttemptsLate(w) == attempt[w] >= MaxAttempts
NextAttemptUncounted(w) == attempt[w]

OutOfAttempts(w) == attempt[w] + 1 >= MaxAttempts
NextAttempt(w) == attempt[w] + 1

(* The transaction is rolled back; the sequence number an INSERT left in
   newLabel stays there. *)
Retry(w, seq) ==
    /\ ~ OutOfAttempts(w)
    /\ pc' = [pc EXCEPT ![w] = "begin"]
    /\ newSeq' = [newSeq EXCEPT ![w] = seq]
    /\ attempt' = [attempt EXCEPT ![w] = NextAttempt(w)]
    /\ lastKey' = [lastKey EXCEPT ![w] = 0]
    /\ UNCHANGED <<req, reply>>

GiveUp(w) == OutOfAttempts(w) /\ Return(w, "failed")

FailAttempt(w) == Retry(w, newSeq[w]) \/ GiveUp(w)

-----------------------------------------------------------------------------
(* The statements of the transaction. *)
ReadLastKey(w) ==
    /\ pc[w] = "begin"
    /\ lastKey' = [lastKey EXCEPT ![w] = LastSeq(log)]
    /\ pc' = [pc EXCEPT ![w] = "match"]
    /\ UNCHANGED <<store, allowed, wakes, req, newSeq, attempt, reply>>

(* Bug for Found: seq < ? in the query that looks for a match. *)
FoundBefore(w) == LatestMatch(log, req[w], lastKey[w] - 1)
Found(w) == LatestMatch(log, req[w], lastKey[w])

(* Bug for NoOpReply: "updated" keeps its value from an attempt that failed. *)
NoOpReplyStale(w) == IF newSeq[w] = 0 THEN "noop" ELSE "created"
NoOpReply(w) == "noop"

ReadMatch(w) ==
    /\ pc[w] = "match"
    /\ ~ IsNoOp(log, req[w], Found(w))
    /\ pc' = [pc EXCEPT ![w] = "insert"]
    /\ UNCHANGED <<store, allowed, wakes, req, newSeq, attempt, lastKey, reply>>

ReadMatchNoOp(w) ==
    /\ pc[w] = "match"
    /\ IsNoOp(log, req[w], Found(w))
    /\ Return(w, NoOpReply(w))
    /\ UNCHANGED <<store, allowed, wakes>>

(* gorm names the primary key in the INSERT when newLabel.Seq is not zero;
   otherwise SQLite takes the next rowid and PostgreSQL the next value of the
   sequence, which a rollback does not give back. *)
RowSeq(w) == IF newSeq[w] # 0 THEN newSeq[w] ELSE LastUsed + 1
NextCounter(w) ==
    IF Engine = "postgres" /\ newSeq[w] = 0 THEN RowSeq(w) ELSE seqCounter

(* Bug for Conflicts: an INSERT that replaces the row it conflicts with.  (A
   row that is not committed yet is waited for: CanReserve.) *)
ConflictsNever(seq) == FALSE
Conflicts(seq) == seq \in DOMAIN log

(* Bug for Create: the row is saved (an upsert) at the number after lastKey. *)
CreateBySave(w) ==
    /\ pc[w] = "insert"
    /\ CanReserve(w, lastKey[w] + 1)
    /\ pc' = [pc EXCEPT ![w] = "count"]
    /\ newSeq' = [newSeq EXCEPT ![w] = lastKey[w] + 1]
    /\ UNCHANGED <<store, allowed, wakes, req, attempt, lastKey, reply>>

Create(w) ==
    /\ pc[w] = "insert"
    /\ CanReserve(w, RowSeq(w))
    /\ ~ Conflicts(RowSeq(w))
    /\ pc' = [pc EXCEPT ![w] = "count"]
    /\ newSeq' = [newSeq EXCEPT ![w] = RowSeq(w)]
    /\ seqCounter' = NextCounter(w)
    /\ UNCHANGED <<log, allowed, wakes, req, attempt, lastKey, reply>>

CreateConflicts(w) ==
    /\ pc[w] = "insert"
    /\ CanReserve(w, RowSeq(w))
    /\ Conflicts(RowSeq(w))
    /\ FailAttempt(w)
    /\ seqCounter' = NextCounter(w)
    /\ UNCHANGED <<log, allowed, wakes>>

(* Rows about the same label that were committed since lastKey was read. *)
WrittenSince(w) == {s \in Matching(log, req[w], newSeq[w] - 1) : s > lastKey[w]}

CountConcurrent(w) ==
    /\ pc[w] = "count"
    /\ WrittenSince(w) = {}
    /\ pc' = [pc EXCEPT ![w] = "commit"]
    /\ UNCHANGED <<store, allowed, wakes, req, newSeq, attempt, lastKey, reply>>

CountConcurrentFails(w) ==
    /\ pc[w] = "count"
    /\ WrittenSince(w) # {}
    /\ FailAttempt(w)
    /\ UNCHANGED <<store, allowed, wakes>>

(* COMMIT, the return from AddLabel, and the goroutine it starts. *)
Commit(w) ==
    /\ pc[w] = "commit"
    /\ CanCommit(w)
    /\ log' = WithRow(log, newSeq[w], req[w])
    /\ Return(w, "created")
    /\ wakes' = wakes + 1
    /\ UNCHANGED <<seqCounter, allowed>>

(* PostgreSQL commits, but the connection is lost before it says so. *)
CommitUnacknowledged(w) ==
    /\ Engine = "postgres"
    /\ pc[w] = "commit"
    /\ log' = WithRow(log, newSeq[w], req[w])
    /\ FailAttempt(w)
    /\ UNCHANGED <<seqCounter, allowed, wakes>>

(* A statement, or the COMMIT, fails and has no effect: SQLITE_BUSY after the
   busy timeout, a lost connection, an I/O error. *)
TxError(w) ==
    /\ pc[w] # "idle"
    /\ FailAttempt(w)
    /\ UNCHANGED <<store, allowed, wakes>>

(* The process dies and starts again, perhaps with another configuration. *)
Crash ==
    /\ allowed' \in AllowedSets
    /\ wakes' = 0
    /\ pc' = [w \in Writers |-> "idle"]
    /\ req' = [w \in Writers |-> NoRequest]
    /\ newSeq' = [w \in Writers |-> 0]
    /\ attempt' = [w \in Writers |-> 0]
    /\ lastKey' = [w \in Writers |-> 0]
    /\ reply' = [w \in Writers |-> "none"]
    /\ UNCHANGED store

Statement(w) ==
    \/ ReadLastKey(w)
    \/ ReadMatch(w)
    \/ ReadMatchNoOp(w)
    \/ Create(w)
    \/ CreateConflicts(w)
    \/ CountConcurrent(w)
    \/ CountConcurrentFails(w)
    \/ Commit(w)
    \/ CommitUnacknowledged(w)
    \/ TxError(w)

Next ==
    \/ \E w \in Writers :
        \/ \E label \in Requests : AddLabelRefused(w, label) \/ AddLabel(w, label)
        \/ Statement(w)
    \/ Crash

Spec == Init /\ [][Next]_vars

(* Every statement comes back, with a result or an error: the busy timeout of
   SQLite and the connection's failure bound the wait.  Nothing says that it
   ever succeeds. *)
FairSpec == Spec /\ \A w \in Writers : WF_vars(Statement(w))

-----------------------------------------------------------------------------
PCs == {"idle", "begin", "match", "insert", "count", "commit"}
Replies == {"none", "created", "noop", "failed", "denied"}

LocalsOK ==
    /\ pc \in [Writers -> PCs]
    /\ req \in [Writers -> Entry \cup {NoRequest}]
    /\ \A w \in Writers :
          IF pc[w] = "idle" THEN req[w] = NoRequest
          ELSE req[w] \in Entry /\ reply[w] = "none"
    /\ newSeq \in [Writers -> Nat]
    /\ \A w \in Writers : HoldsReserved(w) => newSeq[w] \in Seqs
    /\ attempt \in [Writers -> 0 .. MaxAttempts - 1]
    /\ lastKey \in [Writers -> Nat]
    /\ reply \in [Writers -> Replies]

(* Types, and the range of the attempt counter: a call never starts an attempt
   past the last, and what it inserts has a sequence number above 0. *)
TypeOK ==
    /\ IsLog(log)
    /\ seqCounter \in Nat
    /\ allowed \in AllowedSets
    /\ wakes \in Nat
    /\ LocalsOK

(* The log holds no entry without effect, whatever the writers' interleaving:
   the first entry of a label asserts it, and each later one changes the
   negation or the expiry of the one before (server.go:323, "it will ignore
   values that have no effect"). *)
NoRedundantEntries ==
    \A s \in DOMAIN log :
        LET prev == LatestMatch(log, log[s], s - 1) IN
        IF prev = 0 THEN ~ log[s].neg
        ELSE log[prev].neg # log[s].neg \/ log[prev].exp # log[s].exp

(* What a transaction has read stays true until it ends: no other call commits
   in between.  So the number it reported is the last one, the label it is
   about to write still has an effect, and its row will be the next. *)
SnapshotsStayValid ==
    \A w \in Writers :
        /\ HoldsShared(w) => lastKey[w] = LastSeq(log)
        /\ pc[w] \in {"insert", "count", "commit"} =>
              ~ IsNoOp(log, req[w], LatestMatch(log, req[w], LastSeq(log)))
        /\ HoldsReserved(w) => newSeq[w] = LastSeq(log) + 1

(* The inductive invariant for SQLite: with SnapshotsStayValid, one writer at a
   time has inserted a row, rows are numbered without gaps, and the number a
   failed attempt left behind is at most the next one. *)
SerialInv ==
    /\ TypeOK
    /\ NoRedundantEntries
    /\ SnapshotsStayValid
    /\ \A v, w \in Writers : v # w /\ HoldsReserved(v) => ~ HoldsReserved(w)
    /\ DOMAIN log = 1 .. LastSeq(log)
    /\ \A w \in Writers : newSeq[w] <= LastSeq(log) + 1

(* The inductive invariant for PostgreSQL: the sequence is ahead of every number
   in use, no two calls hold the same number, and a transaction that has
   inserted its row holds a number that no committed row has.  (A call that
   retries after a lost acknowledgement may hold the number of its own row.) *)
UniqueInv ==
    /\ TypeOK
    /\ \A s \in DOMAIN log : s <= seqCounter
    /\ \A w \in Writers : newSeq[w] <= seqCounter
    /\ \A v, w \in Writers : v # w /\ newSeq[v] # 0 => newSeq[v] # newSeq[w]
    /\ \A w \in Writers : HoldsReserved(w) => newSeq[w] \notin DOMAIN log

(* The log grows by one row at a time, at the next sequence number, and no
   committed row is ever changed or removed: subscribers that have read up to
   the last row can go on from it. *)
AppendOnly ==
    [][ /\ DOMAIN log' = DOMAIN log \cup {LastSeq(log) + 1}
        /\ \A s \in DOMAIN log : log'[s] = log[s] ]_log

(* A committed row is never changed or removed, retries and lost
   acknowledgements included, and a step adds at most one. *)
NothingRewritten ==
    [][ /\ DOMAIN log \subseteq DOMAIN log'
        /\ Cardinality(DOMAIN log') <= Cardinality(DOMAIN log) + 1
        /\ \A s \in DOMAIN log : log'[s] = log[s] ]_log

(* A call answered "created" has written its label, in the step that answers,
   at a sequence number that was not in use; so the answer is never given for
   a row of another call, or for a row that was rolled back. *)
CreatedIsWritten ==
    [][ \A w \in Writers :
            pc[w] # "idle" /\ reply'[w] = "created" =>
                \E s \in DOMAIN log' \ DOMAIN log : log'[s] = req[w] ]_vars

(* Every call of AddLabel is answered, unless the process dies first. *)
CallsReturn == \A w \in Writers : pc[w] # "idle" ~> pc[w] = "idle"

(* With SQLite, the calls are atomic: LabelStore, with the effect of a call at
   its COMMIT, or at the query that shows it has none. *)
Store == INSTANCE LabelStore WITH
    Clients <- Writers,
    pending <- req

ImplementsStore == Store!Spec
=============================================================================
