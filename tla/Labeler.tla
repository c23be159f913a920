------------------------------ MODULE Labeler ------------------------------
(* The label server: the write path (WriteLabel) and the subscriptions, which
   share the table and the wake-ups.  A subscriber applies what it receives, in
   the order it receives it: it remembers one entry per label, the last it got.

   Variables of Subscribe keep their names; its sequence numbers are those of
   the rows of the table.                                                   *)
EXTENDS WriteLabel

CONSTANTS
    Clients,      \* subscribers
    Cursors,      \* cursors they start with
    Half,         \* 2^63: cursors from here on are negative to the server
    BatchSize     \* rows a query of the log returns at most

VARIABLES
    stream, wakeCh, floor, batch, sentKey, cursor, got, base,
    view      \* for each client, the rows it holds: the last received of each label

S == INSTANCE Subscribe WITH
        seqs <- DOMAIN log,
        lastKey <- sentKey,
        InOrder <- (Engine = "sqlite")

ASSUME LabelerAssumption == S!SubscribeAssumption

writing == <<log, seqCounter, allowed, pc, req, newSeq, attempt, lastKey, reply>>
streaming == <<stream, wakeCh, floor, batch, sentKey, cursor, got, base>>
labelerVars == <<writing, wakes, streaming, view>>

LabelerInit ==
    /\ Init
    /\ stream = [c \in Clients |-> "off"]
    /\ wakeCh = [c \in Clients |-> FALSE]
    /\ floor = [c \in Clients |-> 0]
    /\ batch = [c \in Clients |-> {}]
    /\ sentKey = [c \in Clients |-> 0]
    /\ cursor \in [Clients -> Cursors]
    /\ got = [c \in Clients |-> {}]
    /\ base = [c \in Clients |-> 0]
    /\ view = [c \in Clients |-> {}]

(* What a client holds once it has applied the rows of a batch, in order. *)
LastOfLabel(rows) ==
    {s \in rows : \A t \in rows : SameKey(log[s], log[t]) => t <= s}
Applied(held, rows) ==
    {s \in held : \A t \in rows : ~ SameKey(log[s], log[t])} \cup LastOfLabel(rows)

Write(w) ==
    /\ \/ \E label \in Requests : AddLabelRefused(w, label) \/ AddLabel(w, label)
       \/ Statement(w)
    /\ UNCHANGED <<streaming, view>>

WakeUpSubs == UNCHANGED <<writing, view>> /\ S!WakeUpSubs

Send(c) ==
    /\ UNCHANGED writing
    /\ S!SendFullBatch(c) \/ S!SendLastBatch(c)
    /\ view' = [view EXCEPT ![c] = Applied(@, batch[c])]

Control(c) ==
    /\ UNCHANGED <<writing, view>>
    /\ \/ S!Register(c) \/ S!RefuseFutureCursor(c)
       \/ S!StartReplay(c) \/ S!StartAtEnd(c) \/ S!Wake(c)
       \/ S!ReadBatch(c) \/ S!ReadNothing(c)

Disconnect(c) ==
    /\ UNCHANGED writing
    /\ \E sent \in S!Prefixes(batch[c]) :
        /\ S!Deliver(c, sent)
        /\ view' = [view EXCEPT ![c] = Applied(@, sent)]
    /\ S!HangUp(c)

LabelerCrash == Crash /\ S!Crash /\ UNCHANGED view

LabelerNext ==
    \/ \E w \in Writers : Write(w)
    \/ WakeUpSubs
    \/ \E c \in Clients : Send(c) \/ Control(c) \/ Disconnect(c)
    \/ LabelerCrash

LabelerSpec == LabelerInit /\ [][LabelerNext]_labelerVars

-----------------------------------------------------------------------------
(* What a subscriber of the whole log holds, when its stream waits and no
   wake-up is on its way, is the last entry of every label in the table: the
   labels it shows are the ones queryLabels would serve, although writers
   commit concurrently, retry and fail, streams break and go on from a cursor,
   and a stream may send old entries again. *)
SubscriberAgrees ==
    \A c \in Clients :
        stream[c] = "live" /\ ~ wakeCh[c] /\ wakes = 0 /\ base[c] = 0 =>
            view[c] = LastOfLabel(DOMAIN log)

(* The inductive invariant, for SQLite.  Each part keeps its own, and a call
   under way has room for its row.  A subscriber of the whole log holds what
   comes of the rows 1 to the last it got, applied in order, whatever it had
   got before; a stream goes on after that row or, when a replay found nothing
   and lastKey stayed 0, from the first row of the log. *)
RoomKept ==
    /\ IsFiniteSet(Active)
    /\ LastSeq(log) + Cardinality(Active) <= MaxSeq

LastGot(c) == IF got[c] = {} THEN 0 ELSE cursor[c]

HoldsUpTo(held, n) ==
    /\ held \subseteq DOMAIN log
    /\ \A t \in DOMAIN log : t <= n => \E s \in held : SameKey(log[s], log[t])
    /\ \A s \in held, t \in DOMAIN log :
          t <= n /\ SameKey(log[s], log[t]) => t <= s /\ s <= n

ViewOK(c) ==
    /\ stream[c] = "sending" => \A s \in batch[c] : floor[c] < s
    /\ got[c] = {} => view[c] = {}
    /\ base[c] = 0 =>
          /\ HoldsUpTo(view[c], LastGot(c))
          /\ stream[c] \in S!Streaming =>
                sentKey[c] \in {0, LastGot(c)} /\ floor[c] \in {0, LastGot(c)}
          /\ stream[c] = "live" /\ ~ wakeCh[c] /\ wakes = 0 =>
                LastGot(c) = LastSeq(log)

LabelerInv ==
    /\ SerialInv
    /\ S!StreamInv
    /\ RoomKept
    /\ view \in [Clients -> SUBSET DOMAIN log]
    /\ \A c \in Clients : ViewOK(c)

(* With SQLite the table gives the streams what Subscribe assumes of it:
   entries committed one at a time in the order of their numbers, each with a
   wake-up that is lost only with the streams themselves. *)
ImplementsSubscribe == S!Spec
=============================================================================
