---------------------------- MODULE CrownMirror ----------------------------
(* The crown mirror of poller.py: every cycle reads all announcements, derives
   who should carry which badge, and POSTs all of it to the label server again.

   The label server is the badges that each account carries and the posts that
   carry top-chicken-post.  A POST may fail, with or without effect, and the
   process may die at any step; a cycle goes on after a POST that failed.  As
   a cycle reads the feeds once, at its start, the world moves between cycles. *)
EXTENDS Crownings

CONSTANTS
    Accounts,     \* accounts that may be crowned
    Wins,         \* likes, and the post if it is quoted, of the crownings to come
    MaxNow,       \* bound on time
    MaxDeletions  \* bound on deleted announcements

ASSUME CrownAssumption ==
    /\ Accounts \subseteq Nat \ {0}
    /\ Wins \subseteq [likes : Nat, post : Nat]
    /\ {MaxNow, MaxDeletions} \subseteq Nat
    /\ DayLength \in Nat \ {0}

L_RECORD == "tiptop-chicken"
L_CURRENT == "top-chicken"
L_ALUMNI == "top-chicken-alumni"
ACCOUNT_LABELS == <<L_RECORD, L_CURRENT, L_ALUMNI>>

Posts == {win.post : win \in Wins} \ {NoPost}

VARIABLES
    now,
    history,      \* the crownings there have been, at most one a day
    feed,         \* the announcements in the feeds of the two bots
    deletions,    \* announcements that have been deleted
    badges,       \* the account labels in force, for each account
    winners,      \* the posts that carry top-chicken-post
    pc,           \* where the cycle is
    state,        \* what build_state has returned, NoState between cycles
    accounts, posts,    \* alumni and winning posts that are still to be done
    acct, queue,  \* the account in work, and the POSTs left for it
    missed,       \* the POST of this account's new badge has failed
    clean         \* no POST of this cycle has failed

world == <<now, history, feed, deletions>>
cycle == <<pc, state, accounts, posts, acct, queue, missed, clean>>
vars == <<world, badges, winners, cycle>>

NoState == [alumni |-> {}, current |-> 0, record |-> 0, winning_posts |-> {},
            last_crowning |-> 0]

Init ==
    /\ now = 0 /\ history = <<>> /\ feed = {} /\ deletions = 0
    /\ badges = [a \in Accounts |-> {}]
    /\ winners = {}
    /\ pc = "idle" /\ state = NoState /\ accounts = {} /\ posts = {}
    /\ acct = 0 /\ queue = <<>> /\ missed = FALSE /\ clean = TRUE

-----------------------------------------------------------------------------
(* The world.  The bots announce a crowning on the day it is made; in the
   handover from one to the other both did. *)
Tick ==
    /\ now < MaxNow
    /\ now' = now + 1
    /\ UNCHANGED <<history, feed, deletions>>

CrownedToday == history # <<>> /\ Day(Last(history).ts) = Day(now)

Crown(a, win) ==
    LET c == [ts |-> now, did |-> a, likes |-> win.likes, post |-> win.post]
    IN  /\ ~ CrownedToday
        /\ history' = Append(history, c)
        /\ feed' = feed \cup {c}
        /\ UNCHANGED <<now, deletions>>

AnnounceAgain ==
    /\ CrownedToday
    /\ feed' = feed \cup {[Last(history) EXCEPT !.ts = now]}
    /\ UNCHANGED <<now, history, deletions>>

Delete(c) ==
    /\ deletions < MaxDeletions
    /\ deletions' = deletions + 1
    /\ feed' = feed \ {c}
    /\ UNCHANGED <<now, history>>

World ==
    /\ pc = "idle"
    /\ \/ Tick
       \/ \E a \in Accounts, win \in Wins : Crown(a, win)
       \/ AnnounceAgain
       \/ \E c \in feed : Delete(c)
    /\ UNCHANGED <<badges, winners, cycle>>

-----------------------------------------------------------------------------
(* A cycle of main: nothing happens without announcements, or when a feed
   cannot be read or sorted. *)
StartCycle ==
    /\ pc = "idle"
    /\ feed # {}
    /\ Sortable(feed)
    /\ pc' = "accounts"
    /\ state' = BuildState(feed)
    /\ accounts' = state'.alumni
    /\ UNCHANGED <<world, badges, winners, posts, acct, queue, missed, clean>>

(* Bug for DesiredAccountLabel: the daily crown goes before the record. *)
DesiredCurrentFirst(did) ==
    IF did = state.current THEN L_CURRENT
    ELSE IF did = state.record THEN L_RECORD ELSE L_ALUMNI
DesiredAccountLabel(did) ==
    IF did = state.record THEN L_RECORD
    ELSE IF did = state.current THEN L_CURRENT ELSE L_ALUMNI

Assertion(val) == [val |-> val, neg |-> FALSE]
Negation(val) == [val |-> val, neg |-> TRUE]

(* Bug for Others: the badge an account should carry is negated too. *)
OthersAll(did) == ACCOUNT_LABELS
Position(val) == CHOOSE i \in DOMAIN ACCOUNT_LABELS : ACCOUNT_LABELS[i] = val
Others(did) == RemoveAt(ACCOUNT_LABELS, Position(DesiredAccountLabel(did)))
Negations(did) == [i \in DOMAIN Others(did) |-> Negation(Others(did)[i])]

(* Bug for PostsFor: the old badges go before the new one is there. *)
PostsForNegateFirst(did) == Append(Negations(did), Assertion(DesiredAccountLabel(did)))
PostsFor(did) == <<Assertion(DesiredAccountLabel(did))>> \o Negations(did)

(* A Python set is walked in any order. *)
NextAccount(did) ==
    /\ pc = "accounts" /\ queue = <<>> /\ did \in accounts
    /\ acct' = did
    /\ accounts' = accounts \ {did}
    /\ queue' = PostsFor(did)
    /\ missed' = FALSE
    /\ UNCHANGED <<world, badges, winners, pc, state, posts, clean>>

(* add_label: a POST is answered, or fails with or without effect. *)
Outcomes(before, after, ok) == IF ok THEN {after} ELSE {before, after}

PostBadge(ok) ==
    /\ pc = "accounts" /\ queue # <<>>
    /\ LET post == Head(queue)
           held == badges[acct]
           after == IF post.neg THEN held \ {post.val} ELSE held \cup {post.val}
       IN  /\ \E h \in Outcomes(held, after, ok) : badges' = [badges EXCEPT ![acct] = h]
           /\ missed' = (missed \/ (~ ok /\ ~ post.neg))
    /\ queue' = Tail(queue)
    /\ clean' = (clean /\ ok)
    /\ UNCHANGED <<world, winners, pc, state, accounts, posts, acct>>

StartPosts ==
    /\ pc = "accounts" /\ queue = <<>> /\ accounts = {}
    /\ pc' = "posts"
    /\ posts' = state.winning_posts
    /\ acct' = 0 /\ missed' = FALSE
    /\ UNCHANGED <<world, badges, winners, state, accounts, queue, clean>>

PostWinner(p, ok) ==
    /\ pc = "posts" /\ p \in posts
    /\ winners' \in Outcomes(winners, winners \cup {p}, ok)
    /\ posts' = posts \ {p}
    /\ clean' = (clean /\ ok)
    /\ UNCHANGED <<world, badges, pc, state, accounts, acct, queue, missed>>

Stop ==
    /\ pc' = "idle" /\ state' = NoState /\ accounts' = {} /\ posts' = {}
    /\ acct' = 0 /\ queue' = <<>> /\ missed' = FALSE /\ clean' = TRUE
    /\ UNCHANGED <<world, badges, winners>>

Done == pc = "posts" /\ posts = {}
EndCycle == Done /\ Stop
Crash == pc # "idle" /\ Stop

Next ==
    \/ World
    \/ StartCycle
    \/ \E did \in Accounts : NextAccount(did)
    \/ \E ok \in BOOLEAN : PostBadge(ok)
    \/ StartPosts
    \/ \E p \in Posts, ok \in BOOLEAN : PostWinner(p, ok)
    \/ EndCycle
    \/ Crash

Spec == Init /\ [][Next]_vars

-----------------------------------------------------------------------------
Crowned == {history[i].did : i \in DOMAIN history}

TypeOK ==
    /\ now \in 0 .. MaxNow /\ deletions \in 0 .. MaxDeletions
    /\ Len(history) <= Day(now) + 1
    /\ \A c \in feed \cup ToSet(history) :
          c.ts \in 0 .. now /\ c.did \in Accounts /\ [likes |-> c.likes, post |-> c.post] \in Wins
    /\ badges \in [Accounts -> SUBSET ToSet(ACCOUNT_LABELS)]
    /\ winners \cup posts \subseteq Posts
    /\ pc \in {"idle", "accounts", "posts"}
    /\ accounts \subseteq Crowned
    /\ acct \in Crowned \cup {0}
    /\ Len(queue) <= Len(ACCOUNT_LABELS)
    /\ {missed, clean} \subseteq BOOLEAN

(* The crownings that are still announced, and among them the last one and the
   one that set the record: nobody had more likes, and nobody had as many
   before. *)
Announced == {i \in DOMAIN history : \E c \in feed : Day(c.ts) = Day(history[i].ts)}
IsLast(i) == i \in Announced /\ \A j \in Announced : j <= i
IsRecord(i) ==
    /\ i \in Announced
    /\ \A j \in Announced :
        /\ history[j].likes <= history[i].likes
        /\ history[j].likes = history[i].likes => i <= j
WinningPosts == {history[i].post : i \in Announced} \ {NoPost}

(* However often the bots announce a crowning, and whichever announcements are
   deleted, the poller derives from the rest what happened: who was crowned,
   who is the last, who holds the record ("moves only when the record is
   broken", README.md), which posts won, and when the last crowning was first
   announced (the cutoff of the eligible sweep). *)
StateMatchesHistory ==
    pc # "idle" =>
        /\ state.alumni = {history[i].did : i \in Announced}
        /\ \E i \in Announced : IsRecord(i) /\ state.record = history[i].did
        /\ state.winning_posts = WinningPosts
        /\ \E i \in Announced :
              LET announcements == {c \in feed : Day(c.ts) = Day(history[i].ts)}
              IN  /\ IsLast(i) /\ state.current = history[i].did
                  /\ state.last_crowning \in {c.ts : c \in announcements}
                  /\ \A c \in announcements : state.last_crowning <= c.ts

(* The badge an account should carry (README.md:40-43: the record before the
   daily crown before the alum badge, one badge per account). *)
RightBadges(a) ==
    IF a \notin Crowned THEN {}
    ELSE IF \E i \in Announced : IsRecord(i) /\ history[i].did = a THEN {L_RECORD}
    ELSE IF \E i \in Announced : IsLast(i) /\ history[i].did = a THEN {L_CURRENT}
    ELSE {L_ALUMNI}

(* Whatever earlier cycles left (POSTs that failed half way, crashes, a crown
   that moved or was forgotten meanwhile), a cycle in which nothing fails ends
   with one badge on every account whose crowning is announced, the right one,
   and none on accounts that were never crowned, so that among them there is one
   daily holder and one record holder; and every winning post has its label. *)
Forgotten == Crowned \ {history[i].did : i \in Announced}
CleanCycleIsExact ==
    Done /\ clean =>
        /\ \A a \in Accounts \ Forgotten : badges[a] = RightBadges(a)
        /\ WinningPosts \subseteq winners

(* The inductive invariant of the world: one crowning a day, and every
   announcement is that of the crowning of its day; a cycle works on what
   build_state makes of the feeds, which do not change meanwhile. *)
Crowning == [ts : Nat, did : Accounts, likes : Nat, post : Nat]

HistoryOK ==
    /\ history \in Seq(Crowning)
    /\ \A i \in DOMAIN history :
          /\ history[i].ts <= now
          /\ i <= Day(history[i].ts) + 1
          /\ [likes |-> history[i].likes, post |-> history[i].post] \in Wins
          /\ \A j \in DOMAIN history : i < j => Day(history[i].ts) < Day(history[j].ts)

FeedOK ==
    /\ IsFiniteSet(feed)
    /\ \A c \in feed :
          /\ c.ts \in 0 .. now
          /\ \E i \in DOMAIN history :
                Day(c.ts) = Day(history[i].ts) /\ c = [history[i] EXCEPT !.ts = c.ts]

WorldInv ==
    /\ now \in 0 .. MaxNow
    /\ HistoryOK
    /\ FeedOK
    /\ pc # "idle" => feed # {} /\ state = BuildState(feed)

(* The inductive invariant of a cycle, for any state that it mirrors: which POSTs
   are left for the account in work, and what the POSTs so far have done. *)
Negated == {queue[i].val : i \in {j \in DOMAIN queue : queue[j].neg}}
InWork == IF queue = <<>> THEN {} ELSE {acct}

QueueOK ==
    \A i \in DOMAIN queue :
        IF queue[i].neg THEN queue[i].val # DesiredAccountLabel(acct)
        ELSE i = 1 /\ queue[i].val = DesiredAccountLabel(acct)

MirroredSoFar ==
    /\ \A a \in (state.alumni \cap Accounts) \ (accounts \cup InWork) :
          badges[a] = {DesiredAccountLabel(a)}
    /\ queue # <<>> => badges[acct] \subseteq {DesiredAccountLabel(acct)} \cup Negated
    /\ pc = "posts" => state.winning_posts \ posts \subseteq winners

MirrorInv ==
    /\ badges \in [Accounts -> SUBSET ToSet(ACCOUNT_LABELS)]
    /\ queue \in Seq([val : ToSet(ACCOUNT_LABELS), neg : BOOLEAN])
    /\ pc \in {"idle", "accounts", "posts"}
    /\ clean \in BOOLEAN /\ missed \in BOOLEAN
    /\ pc # "accounts" => queue = <<>> /\ accounts = {}
    /\ queue # <<>> => acct \in Accounts \cap state.alumni
    /\ accounts \subseteq state.alumni
    /\ QueueOK
    /\ queue # <<>> /\ Head(queue).neg /\ ~ missed =>
          DesiredAccountLabel(acct) \in badges[acct]
    /\ missed => ~ clean
    /\ pc # "idle" /\ clean => MirroredSoFar

(* An account that carries a badge always carries one, while the crown moves and
   in between two POSTs too, unless the POST of its new badge has failed. *)
KeepsABadge ==
    [][ \A a \in Accounts :
            badges[a] # {} /\ badges'[a] = {} => a = acct /\ missed ]_badges
=============================================================================
