------------------------------ MODULE Subscribe ------------------------------
(* subscribeLabels (server/subscribe.go): a WebSocket subscriber gives the
   cursor it has, gets the entries after it, and then every new entry as
   writers commit and wake it up.

   A stream reads the table in its own transactions, so commits and wake-ups
   fall between any two of its steps: a query is one step, and the sends of
   the rows it has read are another.  The subscriber is part of the model: it
   keeps the sequence number of the last message it got and asks for what
   follows when it connects again.                                         *)
EXTENDS SeqNumbers

CONSTANTS
    Clients,      \* subscribers
    Cursors,      \* cursors a subscriber may start from
    Half,         \* 2^63: a greater cursor is a negative int64
    BatchSize,    \* rows per query (100 in the code)
    MaxSeq,       \* bound on sequence numbers
    InOrder       \* whether entries are committed in the order of their numbers

ASSUME SubscribeAssumption ==
    /\ Half \in Nat \ {0}
    /\ Cursors \subseteq 0 .. 2 * Half - 1
    /\ BatchSize \in Nat \ {0}
    /\ MaxSeq \in 0 .. Half - 1
    /\ InOrder \in BOOLEAN

NoCursor == -1

VARIABLES
    seqs,         \* sequence numbers of the committed rows
    wakes,        \* goroutines "go s.wakeUpSubs()" that have not run yet
    stream,       \* where streamLabels is, for each client
    wakeCh,       \* whether the client's wake channel (of capacity 1) is full
    floor,        \* FindInBatches goes on with the rows above this one
    batch,        \* rows that were read and are still to be sent
    lastKey,      \* lastKey of streamLabels
    cursor,       \* what the client sends as its cursor
    got,          \* sequence numbers the client has received
    base          \* the client was promised every entry above this one

server == <<stream, wakeCh, floor, batch, lastKey>>
client == <<cursor, got, base>>
vars == <<seqs, wakes, server, client>>

Streaming == {"query", "sending", "live"}

Init ==
    /\ seqs = {}
    /\ wakes = 0
    /\ stream = [c \in Clients |-> "off"]
    /\ wakeCh = [c \in Clients |-> FALSE]
    /\ floor = [c \in Clients |-> 0]
    /\ batch = [c \in Clients |-> {}]
    /\ lastKey = [c \in Clients |-> 0]
    /\ cursor \in [Clients -> Cursors \cup {NoCursor}]
    /\ got = [c \in Clients |-> {}]
    /\ base = [c \in Clients |-> 0]

-----------------------------------------------------------------------------
(* A writer commits an entry and starts a goroutine that wakes the streams. *)
CommitEntry ==
    /\ \E s \in (1 .. MaxSeq) \ seqs :
        /\ InOrder => s = Top(seqs) + 1
        /\ seqs' = seqs \cup {s}
    /\ wakes' = wakes + 1
    /\ UNCHANGED <<server, client>>

(* Bug for Woken: the wake-up reaches only the streams that are waiting. *)
WokenIfLive(c) == wakeCh[c] \/ stream[c] = "live"
(* A non-blocking send to every registered channel. *)
Woken(c) == wakeCh[c] \/ stream[c] \in Streaming \cup {"registered", "refused"}

WakeUpSubs ==
    /\ wakes > 0
    /\ wakes' = wakes - 1
    /\ wakeCh' = [c \in Clients |-> Woken(c)]
    /\ UNCHANGED <<seqs, stream, floor, batch, lastKey, client>>

-----------------------------------------------------------------------------
(* The handler: the wake channel is registered before the table is read. *)
Register(c) ==
    /\ stream[c] = "off"
    /\ stream' = [stream EXCEPT ![c] = "registered"]
    /\ UNCHANGED <<seqs, wakes, wakeCh, floor, batch, lastKey, client>>

(* int64(n) of a uint64 *)
Int64(n) == IF n >= Half THEN n - 2 * Half ELSE n

(* Bug for HasCursor: a missing cursor is taken for one. *)
HasCursorAlways(c) == TRUE
HasCursor(c) == Int64(cursor[c]) >= 0

(* Bug for FutureCursor: the count asks for a row after the cursor. *)
FutureCursorStrict(n) == IF seqs = {} THEN n > 0 ELSE \A s \in seqs : s <= n
FutureCursor(n) == IF seqs = {} THEN n > 0 ELSE \A s \in seqs : s < n

Promise(c, from) ==
    base' = [base EXCEPT ![c] = IF got[c] = {} THEN from ELSE base[c]]

RefuseFutureCursor(c) ==
    /\ stream[c] = "registered"
    /\ HasCursor(c)
    /\ FutureCursor(cursor[c])
    /\ stream' = [stream EXCEPT ![c] = "refused"]
    /\ UNCHANGED <<seqs, wakes, wakeCh, floor, batch, lastKey, client>>

StartReplay(c) ==
    /\ stream[c] = "registered"
    /\ HasCursor(c)
    /\ ~ FutureCursor(cursor[c])
    /\ stream' = [stream EXCEPT ![c] = "query"]
    /\ floor' = [floor EXCEPT ![c] = cursor[c]]
    /\ lastKey' = [lastKey EXCEPT ![c] = 0]
    /\ Promise(c, cursor[c])
    /\ UNCHANGED <<seqs, wakes, wakeCh, batch, cursor, got>>

StartAtEnd(c) ==
    /\ stream[c] = "registered"
    /\ ~ HasCursor(c)
    /\ stream' = [stream EXCEPT ![c] = "live"]
    /\ lastKey' = [lastKey EXCEPT ![c] = Top(seqs)]
    /\ Promise(c, Top(seqs))
    /\ UNCHANGED <<seqs, wakes, wakeCh, floor, batch, cursor, got>>

(* Bug for Batch: the next query goes on after the row that follows. *)
BatchSkipping(c) == {s \in seqs : s > floor[c] + 1}
(* One query of FindInBatches. *)
Batch(c) ==
    LET after == {s \in seqs : s > floor[c]}
    IN  {s \in after : Cardinality({t \in after : t <= s}) <= BatchSize}

Deliver(c, sent) ==
    /\ got' = [got EXCEPT ![c] = @ \cup sent]
    /\ cursor' = [cursor EXCEPT ![c] = IF sent = {} THEN @ ELSE Top(sent)]
    /\ UNCHANGED base

ReadBatch(c) ==
    /\ stream[c] = "query"
    /\ Batch(c) # {}
    /\ stream' = [stream EXCEPT ![c] = "sending"]
    /\ batch' = [batch EXCEPT ![c] = Batch(c)]
    /\ UNCHANGED <<seqs, wakes, wakeCh, floor, lastKey, client>>

ReadNothing(c) ==
    /\ stream[c] = "query"
    /\ Batch(c) = {}
    /\ stream' = [stream EXCEPT ![c] = "live"]
    /\ floor' = [floor EXCEPT ![c] = 0]
    /\ UNCHANGED <<seqs, wakes, wakeCh, batch, lastKey, client>>

Sent(c) ==
    /\ stream[c] = "sending"
    /\ lastKey' = [lastKey EXCEPT ![c] = Top(batch[c])]
    /\ batch' = [batch EXCEPT ![c] = {}]
    /\ Deliver(c, batch[c])
    /\ UNCHANGED <<seqs, wakes, wakeCh>>

(* A full batch may have more rows after it; a shorter one is the last. *)
SendFullBatch(c) ==
    /\ Sent(c)
    /\ Cardinality(batch[c]) = BatchSize
    /\ stream' = [stream EXCEPT ![c] = "query"]
    /\ floor' = [floor EXCEPT ![c] = Top(batch[c])]

SendLastBatch(c) ==
    /\ Sent(c)
    /\ Cardinality(batch[c]) < BatchSize
    /\ stream' = [stream EXCEPT ![c] = "live"]
    /\ floor' = [floor EXCEPT ![c] = 0]

Wake(c) ==
    /\ stream[c] = "live"
    /\ wakeCh[c]
    /\ wakeCh' = [wakeCh EXCEPT ![c] = FALSE]
    /\ stream' = [stream EXCEPT ![c] = "query"]
    /\ floor' = [floor EXCEPT ![c] = lastKey[c]]
    /\ UNCHANGED <<seqs, wakes, batch, lastKey, client>>

(* The handler returns: a ping or a query fails, a client leaves or was
   refused.  Of a batch on its way, the client has got the first rows. *)
Prefixes(S) == {P \in SUBSET S : \A s \in S : \A p \in P : s <= p => s \in P}

HangUp(c) ==
    /\ stream[c] # "off"
    /\ stream' = [stream EXCEPT ![c] = "off"]
    /\ wakeCh' = [wakeCh EXCEPT ![c] = FALSE]
    /\ floor' = [floor EXCEPT ![c] = 0]
    /\ batch' = [batch EXCEPT ![c] = {}]
    /\ lastKey' = [lastKey EXCEPT ![c] = 0]
    /\ UNCHANGED <<seqs, wakes>>

Disconnect(c) ==
    /\ HangUp(c)
    /\ \E sent \in Prefixes(batch[c]) : Deliver(c, sent)

(* The process dies and starts again: every connection breaks. *)
Crash ==
    /\ wakes' = 0
    /\ stream' = [c \in Clients |-> "off"]
    /\ wakeCh' = [c \in Clients |-> FALSE]
    /\ floor' = [c \in Clients |-> 0]
    /\ batch' = [c \in Clients |-> {}]
    /\ lastKey' = [c \in Clients |-> 0]
    /\ UNCHANGED <<seqs, client>>

Stream(c) ==
    \/ RefuseFutureCursor(c)
    \/ StartReplay(c)
    \/ StartAtEnd(c)
    \/ ReadBatch(c)
    \/ ReadNothing(c)
    \/ SendFullBatch(c)
    \/ SendLastBatch(c)
    \/ Wake(c)

Next ==
    \/ CommitEntry
    \/ WakeUpSubs
    \/ \E c \in Clients : Register(c) \/ Stream(c) \/ Disconnect(c)
    \/ Crash

Spec == Init /\ [][Next]_vars

(* The scheduler runs every goroutine that can run. *)
FairSpec ==
    /\ Spec
    /\ WF_vars(WakeUpSubs)
    /\ \A c \in Clients : WF_vars(Stream(c))

-----------------------------------------------------------------------------
TypeOK ==
    /\ seqs \subseteq 1 .. MaxSeq
    /\ wakes \in Nat
    /\ stream \in [Clients -> Streaming \cup {"off", "registered", "refused"}]
    /\ wakeCh \in [Clients -> BOOLEAN]
    /\ floor \in [Clients -> Nat]
    /\ batch \in [Clients -> SUBSET seqs]
    /\ \A c \in Clients : Cardinality(batch[c]) <= BatchSize
    /\ lastKey \in [Clients -> 0 .. MaxSeq]
    /\ cursor \in [Clients -> Int]
    /\ got \in [Clients -> SUBSET seqs]
    /\ base \in [Clients -> Nat]

(* A subscriber that has an entry has every entry before it that it was
   promised, over any number of connections: the cursor it would come back
   with loses nothing. *)
NoGap ==
    \A c \in Clients : {s \in seqs : base[c] < s /\ s <= Top(got[c])} \subseteq got[c]

(* A stream that waits, when no wake-up is on its way to it, has sent
   everything: no wake-up is lost, whether the entry was committed before the
   registration, during the replay or while a batch was sent. *)
WaitingIsCaughtUp ==
    \A c \in Clients :
        stream[c] = "live" /\ ~ wakeCh[c] /\ wakes = 0 =>
            {s \in seqs : s > base[c]} \subseteq got[c]

(* The inductive invariant for entries that are committed in order: the client
   has everything it was promised up to lastKey and, while the table is read,
   up to the row that FindInBatches goes on from; the rows of a batch follow on
   without a gap, and a short batch misses nothing but rows whose wake-up is
   still on its way. *)
HasUpTo(c, n) == {s \in seqs : base[c] < s /\ s <= n} \subseteq got[c]

BatchFollows(c) ==
    /\ batch[c] # {}
    /\ {s \in seqs : floor[c] < s /\ s <= Top(batch[c])} \subseteq batch[c]
    /\ Cardinality(batch[c]) < BatchSize /\ ~ wakeCh[c] /\ wakes = 0 =>
          {s \in seqs : s > floor[c]} \subseteq batch[c]

StreamInv ==
    /\ TypeOK
    /\ NoGap
    /\ WaitingIsCaughtUp
    /\ \A c \in Clients :
          /\ got[c] # {} => cursor[c] \in got[c]
          /\ lastKey[c] <= Top(seqs) /\ HasUpTo(c, lastKey[c])
          /\ floor[c] <= Top(seqs)
          /\ stream[c] \in {"query", "sending"} => HasUpTo(c, floor[c])
          /\ IF stream[c] = "sending" THEN BatchFollows(c) ELSE batch[c] = {}

(* A subscriber that comes back with a cursor it was given is never told that
   its cursor is from the future. *)
ReceivedCursorIsValid ==
    \A c \in Clients : stream[c] = "refused" => cursor[c] \notin got[c]

(* Every committed entry reaches every subscriber whose stream stays up. *)
Delivered ==
    \A c \in Clients, s \in 1 .. MaxSeq :
        (stream[c] \in Streaming /\ s \in seqs /\ s > base[c])
            ~> (s \in got[c] \/ stream[c] = "off")

(* Sequence numbers of the messages a subscriber gets only go up
   (stress-test/main.go:214 counts anything else as a cursor rollback). *)
NeverRewinds ==
    [][ \A c \in Clients : cursor'[c] >= cursor[c] ]_cursor
=============================================================================
