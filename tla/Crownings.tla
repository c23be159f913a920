----------------------------- MODULE Crownings -----------------------------
(* What the poller makes of the announcements in the feeds of the two bots
   (build_state of poller.py).  An announcement has the time it was posted, the
   account and the likes that its text and its mention name, and the post it
   quotes.  DIDs and posts are numbers: only their order matters, to the sort. *)
EXTENDS Integers, FiniteSets, Sequences, SequencesExt

CONSTANT DayLength    \* ts \div DayLength is the date of a time

NoPost == 0           \* an announcement that quotes no post

Day(ts) == ts \div DayLength

(* The order of Python's tuples, the post as last component. *)
Before(a, b) ==
    \/ a.ts < b.ts
    \/ a.ts = b.ts /\ a.did < b.did
    \/ a.ts = b.ts /\ a.did = b.did /\ a.likes < b.likes
    \/ a.ts = b.ts /\ a.did = b.did /\ a.likes = b.likes /\ a.post < b.post

(* sorted() fails when it has to compare a post with None. *)
Sortable(feed) ==
    \A a, b \in feed :
        a # b /\ a.ts = b.ts /\ a.did = b.did /\ a.likes = b.likes =>
            a.post # NoPost /\ b.post # NoPost

(* Bug for KeyOf: a crowning is known by its account and its likes. *)
KeyOfAnyDay(c) == <<c.did, c.likes>>
KeyOf(c) == <<Day(c.ts), c.did, c.likes>>

Rank(c, feed) == Cardinality({d \in feed : Before(d, c)}) + 1
Sorted(feed) == [i \in 1 .. Cardinality(feed) |-> CHOOSE c \in feed : Rank(c, feed) = i]

Keep(acc, c) ==
    IF KeyOf(c) \in acc.seen THEN acc
    ELSE [seen |-> acc.seen \cup {KeyOf(c)}, kept |-> Append(acc.kept, c)]

(* What the loop over the sorted crownings has kept after each of them. *)
Deduping(sorted) ==
    LET after[i \in 0 .. Len(sorted)] ==
            IF i = 0 THEN [seen |-> {}, kept |-> <<>>] ELSE Keep(after[i - 1], sorted[i])
    IN  after
Deduped(feed) == Deduping(Sorted(feed))[Cardinality(feed)].kept

(* A record is broken by more likes, not by as many. *)
Better(best, c) ==
    IF c.likes > best.likes THEN [did |-> c.did, likes |-> c.likes] ELSE best

(* Who holds the record after each of the crownings. *)
Records(deduped) ==
    LET best[i \in 0 .. Len(deduped)] ==
            IF i = 0 THEN [did |-> 0, likes |-> -1] ELSE Better(best[i - 1], deduped[i])
    IN  best

BuildState(feed) ==
    LET deduped == Deduped(feed)
    IN  [alumni        |-> {deduped[i].did : i \in DOMAIN deduped},
         current       |-> Last(deduped).did,
         record        |-> Records(deduped)[Len(deduped)].did,
         winning_posts |-> {deduped[i].post : i \in DOMAIN deduped} \ {NoPost},
         last_crowning |-> Last(deduped).ts]
=============================================================================
