------------------------------ MODULE LabelLog ------------------------------
(* The table "log" (server/model.go): the label server's only durable state.
   A row is a label that was applied, or negated, at a sequence number.

   Data that no property tells apart is left out: the creation time Cts, the
   version and the signature (made on demand).  A log is a function from the
   sequence numbers in use to entries, so it may have gaps (PostgreSQL) and
   Seq, the primary key, is the argument and not a field.                  *)
EXTENDS SeqNumbers

CONSTANTS
    Srcs,     \* DIDs that may stand as the source of a label
    Vals,     \* label values
    Uris,     \* subjects
    Cids,     \* versions of a subject; one of them stands for "no cid"
    Exps,     \* expiry times; one of them stands for "no expiry"
    NoSrc     \* the empty string, in a request that names no source

ASSUME NoSrcAssumption == NoSrc \notin Srcs

(* What a client posts, and what a row holds. *)
Label == [src : Srcs \cup {NoSrc}, val : Vals, uri : Uris, cid : Cids,
          exp : Exps, neg : BOOLEAN]
Entry == [src : Srcs, val : Vals, uri : Uris, cid : Cids,
          exp : Exps, neg : BOOLEAN]

IsLog(log) == /\ DOMAIN log \in SUBSET Seqs
              /\ IsFiniteSet(DOMAIN log)
              /\ log \in [DOMAIN log -> Entry]

EmptyLog == [s \in {} |-> {}]

(* Two entries are about the same label when src, val, uri and cid agree. *)
SameKey(a, b) == /\ a.src = b.src
                 /\ a.val = b.val
                 /\ a.uri = b.uri
                 /\ a.cid = b.cid

(* SELECT seq ORDER BY seq DESC LIMIT 1: 0 when there is no row. *)
LastSeq(log) == Top(DOMAIN log)

(* The rows about the label e, up to a sequence number, and the last of them
   (0 when there is none). *)
Matching(log, e, upTo) == {s \in DOMAIN log : s <= upTo /\ SameKey(log[s], e)}
LatestMatch(log, e, upTo) == Top(Matching(log, e, upTo))

(* Whether writing e after the matching row at prev (0: none) has no effect. *)
IsNoOp(log, e, prev) ==
    IF prev = 0 THEN e.neg
    ELSE log[prev].neg = e.neg /\ log[prev].exp = e.exp

(* INSERT of one row. *)
WithRow(log, seq, e) ==
    [s \in DOMAIN log \cup {seq} |-> IF s = seq THEN e ELSE log[s]]
=============================================================================
