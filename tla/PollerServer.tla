---------------------------- MODULE PollerServer ----------------------------
(* The poller and the label server it posts to, on one account: CrownMirror
   takes a POST for one step, and WriteLabel takes its requests from anywhere;
   here the requests are those of reconcile, one at a time, and each is run by
   a handler of the server, statement by statement, on SQLite.

   add_label gives up after 30 seconds and reconcile goes on; the handler does
   not notice (the transaction does not have the context of the request), so it
   may write its label behind the POSTs that come after it.                  *)
EXTENDS WriteLabel, Sequences

CONSTANTS
    Account,      \* the account
    NoBadge,      \* the badge of no cycle
    NoHandler,    \* the handler of no POST
    MaxMoves,     \* bound on how often the crown moves
    MaxFaults     \* bound on timeouts, failed statements and crashes

VARIABLES
    want,         \* the badge the account should carry
    target,       \* the badge this cycle gives it, NoBadge between cycles
    queue,        \* the POSTs that are left of the cycle
    waiting,      \* the handler whose answer add_label waits for
    abandoned,    \* handlers that are at work, but nobody waits for
    exact,        \* every POST of the cycle was answered, and no handler was abandoned
    moves, faults

server == <<log, seqCounter, allowed, wakes, pc, req, newSeq, attempt, lastKey, reply>>
cycle == <<target, queue, waiting, exact>>
pollerVars == <<server, want, cycle, abandoned, moves, faults>>

Post(val, neg) ==
    [src |-> NoSrc, val |-> val, uri |-> Account, cid |-> CHOOSE c \in Cids : TRUE,
     exp |-> CHOOSE e \in Exps : TRUE, neg |-> neg]

(* Bug for PostsFor: only the badge of the account is posted. *)
PostsForNoNegation(badge) == <<Post(badge, FALSE)>>
Other(badge) == CHOOSE v \in Vals \ {badge} : TRUE
PostsFor(badge) == <<Post(badge, FALSE), Post(Other(badge), TRUE)>>

(* Two badges stand for the labels of ACCOUNT_LABELS; every configuration of the
   server that has labels at all allows both. *)
PollerServerAssumption ==
    /\ \E current, alumni \in Vals : current # alumni /\ Vals = {current, alumni}
    /\ \A set \in AllowedSets : set = {} \/ Vals \subseteq set
    /\ \A val \in Vals, neg \in BOOLEAN : Post(val, neg) \in Requests
    /\ NoBadge \notin Vals /\ NoHandler \notin Writers
    /\ MaxMoves \in Nat /\ MaxFaults \in Nat

PollerInit ==
    /\ Init
    /\ want \in Vals
    /\ target = NoBadge /\ queue = <<>> /\ waiting = NoHandler /\ exact = FALSE
    /\ abandoned = {}
    /\ moves = 0 /\ faults = 0

-----------------------------------------------------------------------------
Move ==
    /\ moves < MaxMoves
    /\ want' \in Vals \ {want}
    /\ moves' = moves + 1
    /\ UNCHANGED <<server, cycle, abandoned, faults>>

StartCycle ==
    /\ target = NoBadge
    /\ target' = want
    /\ queue' = PostsFor(want)
    /\ exact' = (abandoned = {})
    /\ UNCHANGED <<server, want, waiting, abandoned, moves, faults>>

SendPost(h) ==
    /\ waiting = NoHandler /\ queue # <<>>
    /\ h \notin abandoned
    /\ AddLabel(h, Head(queue))
    /\ queue' = Tail(queue)
    /\ waiting' = h
    /\ UNCHANGED <<want, target, exact, abandoned, moves, faults>>

(* The answer: reconcile goes on, whatever it is. *)
Answer ==
    /\ waiting # NoHandler
    /\ pc[waiting] = "idle"
    /\ waiting' = NoHandler
    /\ exact' = (exact /\ reply[waiting] \in {"created", "noop"})
    /\ UNCHANGED <<server, want, target, queue, abandoned, moves, faults>>

Timeout ==
    /\ waiting # NoHandler
    /\ pc[waiting] # "idle"
    /\ faults < MaxFaults
    /\ faults' = faults + 1
    /\ abandoned' = abandoned \cup {waiting}
    /\ waiting' = NoHandler
    /\ exact' = FALSE
    /\ UNCHANGED <<server, want, target, queue, moves>>

Done == target # NoBadge /\ queue = <<>> /\ waiting = NoHandler

EndCycle ==
    /\ Done
    /\ target' = NoBadge /\ exact' = FALSE
    /\ UNCHANGED <<server, want, queue, waiting, abandoned, moves, faults>>

-----------------------------------------------------------------------------
(* A statement of a handler.  It fails by chance, or because the locks of the
   other handler do not go away (SQLITE_BUSY). *)
Blocked(h) ==
    \/ pc[h] = "insert" /\ ~ CanReserve(h, RowSeq(h))
    \/ pc[h] = "commit" /\ ~ CanCommit(h)

Succeeds(h) ==
    \/ ReadLastKey(h) \/ ReadMatch(h) \/ ReadMatchNoOp(h)
    \/ Create(h) \/ CreateConflicts(h)
    \/ CountConcurrent(h) \/ CountConcurrentFails(h)
    \/ Commit(h)

StillAbandoned == abandoned' = {h \in abandoned : pc'[h] # "idle"}

Handle(h) ==
    /\ \/ Succeeds(h)
       \/ Blocked(h) /\ TxError(h)
    /\ StillAbandoned
    /\ UNCHANGED <<want, cycle, moves, faults>>

StatementFails(h) ==
    /\ ~ Blocked(h) /\ TxError(h)
    /\ faults < MaxFaults
    /\ faults' = faults + 1
    /\ StillAbandoned
    /\ UNCHANGED <<want, cycle, moves>>

(* The container goes down as one, and is started again. *)
PollerCrash ==
    /\ faults < MaxFaults
    /\ faults' = faults + 1
    /\ Crash
    /\ target' = NoBadge /\ queue' = <<>> /\ waiting' = NoHandler /\ exact' = FALSE
    /\ abandoned' = {}
    /\ UNCHANGED <<want, moves>>

Poll ==
    \/ StartCycle
    \/ \E h \in Writers : SendPost(h)
    \/ Answer
    \/ EndCycle

PollerNext ==
    \/ Move
    \/ Poll
    \/ Timeout
    \/ \E h \in Writers : Handle(h) \/ StatementFails(h)
    \/ PollerCrash

PollerSpec == PollerInit /\ [][PollerNext]_pollerVars

(* The poller goes on for ever, and the database answers or fails. *)
PollerFairSpec ==
    /\ PollerSpec
    /\ WF_pollerVars(Poll)
    /\ \A h \in Writers : WF_pollerVars(Handle(h))

-----------------------------------------------------------------------------
Carried ==
    {log[s].val : s \in {t \in DOMAIN log :
        ~ log[t].neg /\ t = LatestMatch(log, log[t], LastSeq(log))}}

(* A cycle whose POSTs were all answered, and that no handler of an earlier POST
   was still at work beside, ends with the right badge on the account and no
   other, whatever had been written before it by POSTs that were given up,
   failed or were cut off by a restart. *)
AnsweredCycleIsExact == Done /\ exact => Carried = {target}

(* "Idempotent - re-POSTing an unchanged label is a no-op" (poller.py:222-225):
   while the account carries the badge of the cycle and no other, no row is
   written, except by a handler that nobody waits for. *)
UnchangedIsNotWritten ==
    [][ Carried = {target} => \E h \in abandoned : log'[LastSeq(log')] = req[h] ]_log

(* The inductive invariant, for SQLite: a handler at work has the last POST of
   the cycle or was abandoned, every row is of a POST, and in an exact cycle
   what has been answered is settled: to post it again would have no effect. *)
EntryFor(val, neg) == EntryOf(Post(val, neg))
Entries == {EntryFor(val, neg) : val \in Vals, neg \in BOOLEAN}
Settled(e) == IsNoOp(log, e, LatestMatch(log, e, LastSeq(log)))

LastPosted == IF queue = <<>> THEN EntryFor(Other(target), TRUE) ELSE EntryFor(target, FALSE)
Acknowledged ==
    waiting = NoHandler \/ (pc[waiting] = "idle" /\ reply[waiting] \in {"created", "noop"})

CyclePosted ==
    /\ want \in Vals /\ waiting \in Writers \cup {NoHandler} /\ exact \in BOOLEAN
    /\ \A s \in DOMAIN log : log[s] \in Entries
    /\ \A h \in Writers : pc[h] # "idle" => req[h] \in Entries /\ h \in abandoned \cup {waiting}
    /\ IF target = NoBadge THEN queue = <<>> /\ waiting = NoHandler /\ ~ exact
       ELSE target \in Vals /\ queue \in {PostsFor(target), Tail(PostsFor(target)), <<>>}
    /\ waiting # NoHandler =>
          /\ queue # PostsFor(target)
          /\ pc[waiting] # "idle" => req[waiting] = LastPosted

CycleSettled ==
    exact =>
        /\ abandoned = {}
        /\ queue = <<>> => Settled(EntryFor(target, FALSE))
        /\ queue # PostsFor(target) /\ Acknowledged => Settled(LastPosted)

PollInv == SerialInv /\ CyclePosted /\ CycleSettled

(* Once the crown rests, the account comes to carry its badge alone, and keeps
   it: what late handlers spoil, a later cycle repairs. *)
BadgesSettle == <>[](Carried = {want})
=============================================================================
