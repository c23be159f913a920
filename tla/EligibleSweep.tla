--------------------------- MODULE EligibleSweep ---------------------------
(* The eligible-post sweep of poller.py: keep the label top-chicken-eligible on
   the posts that no crowning has judged yet, with a label server, a network
   and a state file that may fail at any step.

   The label server is the set of posts that carry the label; WriteLabel says
   what one POST does to it.  Time is a number that only orders creations,
   crownings and sweeps.  A post stands for its uri and cid, which the sweep
   always uses together.  The world (posts, followers, crownings) moves only
   between sweeps: a sweep reads it once, in Fetch, so a change after that is
   as if it came after the end.                                            *)
EXTENDS Integers, FiniteSets

CONSTANTS
    Posts, Accounts,
    AuthorOf,     \* the account of each post
    JudgeDelay,   \* a crowning judges posts at least this old (12 hours)
    Lookback,     \* and at most this old (36 hours)
    HealWindow,   \* how far below the cutoff the heal pass looks (24 hours)
    MaxNow        \* bound on time

ASSUME SweepAssumption ==
    /\ AuthorOf \in [Posts -> Accounts]
    /\ {JudgeDelay, Lookback, HealWindow, MaxNow} \subseteq Nat
    /\ JudgeDelay <= Lookback

Never == -1       \* no such post yet; no crowning known

VARIABLES
    now,
    created,      \* when each post was created
    crowned,      \* time of the last crowning that the feeds show
    labels,       \* posts that carry the label (the label server's state)
    file,         \* posts in the state file; {} also when there is no file
    known,        \* last_crowning_ts of main, None after a start
    pc,           \* where eligible_sweep is
    cutoff, previous, desired, failed,  \* its locals (failed is failed_negate)
    heal,         \* heal_posts
    todo,         \* posts that the current loop has still to POST
    flaky,        \* accounts whose profile or feed could not be read
    seen,         \* posts that the feeds showed
    clean,        \* no read and no POST of this sweep has failed
    forgot        \* a crash, or a loss of the state file, has ever been

world == <<now, created, crowned>>
sweep == <<cutoff, previous, desired, failed, heal, todo, flaky, seen, clean>>
vars == <<world, labels, file, known, pc, sweep, forgot>>

Init ==
    /\ now = 0
    /\ created = [p \in Posts |-> Never]
    /\ crowned = Never
    /\ labels = {}
    /\ file = {}
    /\ known = Never
    /\ forgot = FALSE
    /\ pc = "idle" /\ cutoff = 0 /\ previous = {} /\ desired = {} /\ failed = {}
    /\ heal = {} /\ todo = {} /\ flaky = {} /\ seen = {} /\ clean = TRUE

-----------------------------------------------------------------------------
(* The world. *)
Tick ==
    /\ now < MaxNow
    /\ now' = now + 1
    /\ UNCHANGED <<created, crowned>>

CreatePost(p) ==
    /\ created[p] = Never
    /\ created' = [created EXCEPT ![p] = now]
    /\ UNCHANGED <<now, crowned>>

Crowning ==
    /\ crowned' = now
    /\ UNCHANGED <<now, created>>

(* The announcement of the last crowning is deleted: an earlier one, at
   whatever time it was, is the last now, or there is none. *)
Withdraw ==
    /\ crowned' \in {t \in {Never} \cup 0 .. now : t < crowned}
    /\ UNCHANGED <<now, created>>

World ==
    /\ pc = "idle"
    /\ Tick \/ Crowning \/ Withdraw \/ \E p \in Posts : CreatePost(p)
    /\ UNCHANGED <<labels, file, known, pc, sweep, forgot>>

(* The volume loses the state file. *)
LoseFile ==
    /\ pc = "idle"
    /\ file' = {}
    /\ forgot' = TRUE
    /\ UNCHANGED <<world, labels, known, pc, sweep>>

-----------------------------------------------------------------------------
(* The crown mirror has got through and left the time of the last crowning; if
   there is none, what it left before stays. *)
ReadCrownings ==
    /\ pc = "idle"
    /\ crowned # Never
    /\ known' = crowned
    /\ UNCHANGED <<world, labels, file, pc, sweep, forgot>>

Later(a, b) == IF a > b THEN a ELSE b

EligibleCutoff ==
    IF known = Never THEN now - Lookback
    ELSE Later(known - JudgeDelay, now - Lookback)

InWindow(p, c) == created[p] >= c
InHealWindow(p, c) == created[p] < c /\ created[p] >= c - HealWindow

(* Bug for CarriedOver: only failed feeds are carried over, and not accounts
   whose follower count is unknown. *)
CarriedOverFeedsOnly(unknown, unread) == {p \in file : AuthorOf[p] \in unread}
CarriedOver(unknown, unread) == {p \in file : AuthorOf[p] \in unknown \cup unread}

(* The state file is loaded, the pool, the profiles and the feeds are read.
   Accounts are under the limit (their feed read or not), of unknown follower
   count, or neither: over the limit, out of the pool, or without a profile.
   hidden: posts that a feed does not show (deleted, taken down, past the page
   cap).  A pool or state file that cannot be read ends the sweep here, with
   nothing changed. *)
Fetch(under, unread, unknown, hidden) ==
    /\ pc = "idle"
    /\ pc' = "negate"
    /\ cutoff' = EligibleCutoff
    /\ previous' = file
    /\ seen' = {p \in Posts \ hidden : created[p] # Never /\ AuthorOf[p] \in under \ unread}
    /\ desired' = {p \in seen' : InWindow(p, cutoff')} \cup CarriedOver(unknown, unread)
    /\ heal' = {p \in seen' : InHealWindow(p, cutoff')}
    /\ todo' = file \ desired'
    /\ failed' = {}
    /\ flaky' = unknown \cup unread
    /\ clean' = (flaky' = {})
    /\ UNCHANGED <<world, labels, file, known, forgot>>

(* One POST to the label server: it is done or not, and a failure may hide
   that it was (the answer is lost, or comes after the timeout). *)
Post(after, ok) ==
    /\ labels' \in IF ok THEN {after} ELSE {labels, after}
    /\ clean' = (clean /\ ok)

(* Bug for FailedNegate: a negation that failed is not kept for the next sweep. *)
FailedNegateForget(p, ok) == failed
FailedNegate(p, ok) == IF ok THEN failed ELSE failed \cup {p}

NegateLabel(p, ok) ==
    /\ pc = "negate" /\ p \in todo
    /\ todo' = todo \ {p}
    /\ Post(labels \ {p}, ok)
    /\ failed' = FailedNegate(p, ok)
    /\ UNCHANGED <<world, file, known, pc, cutoff, previous, desired, heal, flaky, seen, forgot>>

(* Bug for AssertTodo: what was asserted before is asserted again. *)
AssertTodoPrevious == desired \cup previous
AssertTodo == desired

StartAsserting ==
    /\ pc = "negate" /\ todo = {}
    /\ pc' = "assert" /\ todo' = AssertTodo
    /\ UNCHANGED <<world, labels, file, known, cutoff, previous, desired, failed,
                   heal, flaky, seen, clean, forgot>>

AssertLabel(p, ok) ==
    /\ pc = "assert" /\ p \in todo
    /\ todo' = todo \ {p}
    /\ Post(labels \cup {p}, ok)
    /\ UNCHANGED <<world, file, known, pc, cutoff, previous, desired, failed,
                   heal, flaky, seen, forgot>>

(* Bug for HealTodo: the heal pass covers only what the state file names. *)
HealTodoPrevious == (heal \ desired) \cap previous
HealTodo == heal \ desired

StartHealing ==
    /\ pc = "assert" /\ todo = {}
    /\ pc' = "heal" /\ todo' = HealTodo
    /\ UNCHANGED <<world, labels, file, known, cutoff, previous, desired, failed,
                   heal, flaky, seen, clean, forgot>>

Heal(p, ok) ==
    /\ pc = "heal" /\ p \in todo
    /\ todo' = todo \ {p}
    /\ Post(labels \ {p}, ok)
    /\ UNCHANGED <<world, file, known, pc, cutoff, previous, desired, failed,
                   heal, flaky, seen, forgot>>

(* The sweep is over, and its locals with it. *)
EndSweep ==
    /\ pc' = "idle" /\ cutoff' = 0 /\ previous' = {} /\ desired' = {} /\ failed' = {}
    /\ heal' = {} /\ todo' = {} /\ flaky' = {} /\ seen' = {} /\ clean' = TRUE

Done == pc = "heal" /\ todo = {}

Save ==
    /\ Done
    /\ file' = desired \cup failed
    /\ EndSweep
    /\ UNCHANGED <<world, labels, known, forgot>>

(* The new file cannot be written or renamed: the old one stays. *)
SaveFails ==
    /\ Done
    /\ forgot' = TRUE
    /\ EndSweep
    /\ UNCHANGED <<world, labels, file, known>>

Crash ==
    /\ forgot' = TRUE
    /\ known' = Never
    /\ EndSweep
    /\ UNCHANGED <<world, labels, file>>

Next ==
    \/ World
    \/ LoseFile
    \/ ReadCrownings
    \/ \E under, unknown \in SUBSET Accounts, hidden \in SUBSET Posts :
        \E unread \in SUBSET under :
            under \cap unknown = {} /\ Fetch(under, unread, unknown, hidden)
    \/ \E p \in Posts, ok \in BOOLEAN : NegateLabel(p, ok) \/ AssertLabel(p, ok) \/ Heal(p, ok)
    \/ StartAsserting
    \/ StartHealing
    \/ Save
    \/ SaveFails
    \/ Crash

Spec == Init /\ [][Next]_vars

-----------------------------------------------------------------------------
TypeOK ==
    /\ now \in 0 .. MaxNow
    /\ created \in [Posts -> {Never} \cup 0 .. now]
    /\ {crowned, known} \subseteq {Never} \cup 0 .. now
    /\ pc \in {"idle", "negate", "assert", "heal"}
    /\ labels \cup file \cup previous \cup desired \cup failed \cup heal \cup seen
         \subseteq {p \in Posts : created[p] # Never}
    /\ todo \subseteq CASE pc = "negate" -> previous \ desired
                        [] pc = "assert" -> desired
                        [] pc = "heal"   -> heal \ desired
                        [] pc = "idle"   -> {}
    /\ cutoff \in Int /\ {clean, forgot} \subseteq BOOLEAN
    /\ flaky \subseteq Accounts

(* As long as the process has not died and has saved its state file, every label
   that is up is in the file, so that a later sweep which does not want it takes
   it down: no failed or half-done POST and no unreadable feed or profile makes
   the poller lose track of one (the plan's "negate previous - desired" and "any
   URIs whose negation POST failed"). *)
NothingStranded == pc = "idle" /\ ~ forgot => labels \subseteq file

(* Whatever happened before (crashes, a lost state file, failed POSTs), a sweep
   in which nothing fails leaves every post it knows of with the label that the
   rules give it: up if it is to be judged, down if it is in the heal window or
   in the state file and is not. *)
CleanSweepIsExact ==
    Done /\ clean => labels \cap (desired \cup heal \cup previous) = desired

(* An account that could not be read in a sweep loses no label in that sweep
   (plan of 2026-07-07, "nothing gets mass-negated on a flaky cycle"). *)
FlakyAccountKeepsLabels ==
    [][ \A p \in labels \ labels' : AuthorOf[p] \notin flaky ]_labels

(* The inductive invariant: what each of the three loops has done so far, and
   that an account that could not be read has nothing in the loops that negate. *)
TracksLabels ==
    labels \subseteq CASE pc = "idle"              -> file
                       [] pc = "negate"            -> desired \cup failed \cup todo
                       [] pc \in {"assert", "heal"} -> desired \cup failed

CleanSoFar ==
    LET stale == labels \cap (previous \ desired)
    IN  CASE pc = "idle"   -> TRUE
          [] pc = "negate" -> stale \subseteq todo
          [] pc = "assert" -> stale = {} /\ desired \ todo \subseteq labels
          [] pc = "heal"   -> /\ stale = {} /\ desired \subseteq labels
                              /\ labels \cap (heal \ desired) \subseteq todo

SweepInv ==
    /\ TypeOK
    /\ ~ forgot => TracksLabels
    /\ clean => CleanSoFar
    /\ \A p \in Posts :
          AuthorOf[p] \in flaky => p \notin heal /\ (p \in previous => p \in desired)

(* A sweep in which nothing fails ends with no label on a judged post that a
   feed showed (plan of 2026-07-07, "any stranded label is caught here within
   one sweep of the cutoff moving past it -- regardless of state-file
   integrity").  The heal pass looks no further than HealWindow below the
   cutoff, so a crash before the save and an outage break it.              *)
HealCatchesStranded ==
    Done /\ clean => \A p \in labels \cap seen : InWindow(p, cutoff)
=============================================================================
