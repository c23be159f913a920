---------------------------- MODULE ListLabeler ----------------------------
(* cmd/list-labeler: a label server that keeps one label per list, on the
   accounts of the list.  Every update compares the table (LabelEntries) with
   the list and writes the difference, one AddLabel at a time; the first error
   ends the update of that label, and the next update starts from scratch.

   The process is the only writer of its table: AddLabel is one step (WriteLabel
   has the rest), and so is the comparison.  While it is down the table may get
   rows from elsewhere: cmd/labeler on the same file, an import, a clone.     *)
EXTENDS QueryLabels

CONSTANTS
    Did,          \* the server's own DID
    Accounts,     \* the subjects that begin with "did:"
    Listed,       \* the labels that have a list (config.Lists)
    AllowedSets,  \* label values of the configurations
    NoCid, NoExp, \* what a label without a cid and an expiry has
    Imports,      \* the entries that rows from elsewhere may hold
    MaxImported,  \* bound: last number of a row from elsewhere
    MaxMoves,     \* bound on changes of the lists
    MaxFailures   \* bound on errors and crashes

ASSUME ListLabelerAssumption ==
    /\ Did \in Srcs
    /\ Accounts \subseteq Uris
    /\ Listed \subseteq Vals
    /\ AllowedSets \subseteq SUBSET Vals
    /\ NoCid \in Cids /\ NoExp \in Exps
    /\ Imports \subseteq Entry
    /\ {MaxImported, MaxMoves, MaxFailures} \subseteq Nat

VARIABLES
    members,      \* the accounts that each list shows
    allowed,      \* Server.allowedLabels
    pc,           \* "down", "update", "label" in work, "wait" for the ticker
    lists,        \* labels whose turn in this update is still to come
    label, list,  \* the label in work, and the members it has been given
    toAdd, toRemove,
    moves, failures

work == <<lists, label, list, toAdd, toRemove>>
vars == <<log, members, allowed, pc, work, moves, failures>>

NoLabel == "none"

Idle ==
    /\ label' = NoLabel /\ list' = {} /\ toAdd' = {} /\ toRemove' = {}

Init ==
    /\ log = EmptyLog
    /\ members \in [Listed -> SUBSET Accounts]
    /\ allowed \in AllowedSets
    /\ pc = "down" /\ lists = {}
    /\ label = NoLabel /\ list = {} /\ toAdd = {} /\ toRemove = {}
    /\ moves = 0 /\ failures = 0

-----------------------------------------------------------------------------
(* The world: someone edits a list, or blocks the labeler and is no longer
   shown; and rows get into the table while the process is down. *)
Move(val, a) ==
    /\ moves < MaxMoves
    /\ moves' = moves + 1
    /\ members' = [members EXCEPT ![val] = IF a \in @ THEN @ \ {a} ELSE @ \cup {a}]
    /\ UNCHANGED <<log, allowed, pc, work, failures>>

Elsewhere(seq, e) ==
    /\ pc = "down"
    /\ Insert(seq, e)
    /\ UNCHANGED <<members, allowed, pc, work, moves, failures>>

-----------------------------------------------------------------------------
(* The process starts with a configuration, and updates at once; then the
   ticker fires. *)
Start ==
    /\ pc = "down"
    /\ allowed' \in AllowedSets
    /\ pc' = "update" /\ lists' = Listed
    /\ UNCHANGED <<log, members, label, list, toAdd, toRemove, moves, failures>>

Tick ==
    /\ pc = "wait"
    /\ pc' = "update" /\ lists' = Listed
    /\ UNCHANGED <<log, members, allowed, label, list, toAdd, toRemove, moves, failures>>

EndUpdate ==
    /\ pc = "update" /\ lists = {}
    /\ pc' = "wait"
    /\ UNCHANGED <<log, members, allowed, work, moves, failures>>

(* Bug for LabeledDids: negations are overlooked. *)
LabeledDidsEver(val) == {log[s].uri : s \in {t \in DOMAIN log : log[t].val = val}} \cap Accounts
LabeledDids(val) == {log[s].uri : s \in ToSet(LabelEntries(val))} \cap Accounts

(* Bug for GetDIDs: an error of the list is taken for an empty list. *)
GetDIDsOrNone(val) == IF failures = 0 THEN members[val] ELSE {}
GetDIDs(val) == members[val]

(* A Go map is walked in any order. *)
Compare(val) ==
    /\ pc = "update" /\ val \in lists
    /\ pc' = "label"
    /\ lists' = lists \ {val} /\ label' = val
    /\ list' = members[val]
    /\ toAdd' = GetDIDs(val) \ LabeledDids(val)
    /\ toRemove' = LabeledDids(val) \ GetDIDs(val)
    /\ UNCHANGED <<log, members, allowed, moves, failures>>

(* The table or the list cannot be read: the other labels go on. *)
CompareFails(val) ==
    /\ pc = "update" /\ val \in lists
    /\ failures < MaxFailures
    /\ failures' = failures + 1
    /\ lists' = lists \ {val}
    /\ UNCHANGED <<log, members, allowed, pc, label, list, toAdd, toRemove, moves>>

-----------------------------------------------------------------------------
Permitted(val) == allowed = {} \/ val \in allowed

Posted(did, neg) ==
    [src |-> Did, val |-> label, uri |-> did, cid |-> NoCid, exp |-> NoExp, neg |-> neg]

(* AddLabel: a label without effect is ignored. *)
AddLabel(e) ==
    log' = IF IsNoOp(log, e, LatestMatch(log, e, LastSeq(log))) THEN log
           ELSE WithRow(log, LastSeq(log) + 1, e)

AddTo(did) ==
    /\ pc = "label" /\ did \in toAdd
    /\ Permitted(label)
    /\ AddLabel(Posted(did, FALSE))
    /\ toAdd' = toAdd \ {did}
    /\ UNCHANGED <<members, allowed, pc, lists, label, list, toRemove, moves, failures>>

RemoveFrom(did) ==
    /\ pc = "label" /\ toAdd = {} /\ did \in toRemove
    /\ Permitted(label)
    /\ AddLabel(Posted(did, TRUE))
    /\ toRemove' = toRemove \ {did}
    /\ UNCHANGED <<members, allowed, pc, lists, label, list, toAdd, moves, failures>>

Writing == pc = "label" /\ toAdd \cup toRemove # {}

(* updateFromList returns the error: the value is not in the configuration, or
   the database fails. *)
Refused ==
    /\ Writing /\ ~ Permitted(label)
    /\ pc' = "update" /\ Idle
    /\ UNCHANGED <<log, members, allowed, lists, moves, failures>>

(* The next of the writes, whichever it is. *)
NextWrite ==
    \/ \E did \in toAdd : AddLabel(Posted(did, FALSE))
    \/ toAdd = {} /\ \E did \in toRemove : AddLabel(Posted(did, TRUE))

(* The failure leaves no row, or comes after the COMMIT. *)
WriteFails ==
    /\ Writing /\ Permitted(label)
    /\ UNCHANGED log \/ NextWrite
    /\ failures < MaxFailures
    /\ failures' = failures + 1
    /\ pc' = "update" /\ Idle
    /\ UNCHANGED <<members, allowed, lists, moves>>

EndLabel ==
    /\ pc = "label" /\ ~ Writing
    /\ pc' = "update" /\ Idle
    /\ UNCHANGED <<log, members, allowed, lists, moves, failures>>

Crash ==
    /\ pc # "down"
    /\ failures < MaxFailures
    /\ failures' = failures + 1
    /\ pc' = "down" /\ lists' = {} /\ Idle
    /\ UNCHANGED <<log, members, allowed, moves>>

Update ==
    \/ Start \/ Tick \/ EndUpdate
    \/ \E val \in Listed : Compare(val)
    \/ \E did \in Accounts : AddTo(did) \/ RemoveFrom(did)
    \/ Refused \/ EndLabel

Next ==
    \/ Update
    \/ \E val \in Listed, a \in Accounts : Move(val, a)
    \/ \E seq \in 1 .. MaxImported, e \in Imports : Elsewhere(seq, e)
    \/ \E val \in Listed : CompareFails(val)
    \/ WriteFails \/ Crash

Spec == Init /\ [][Next]_vars

(* The ticker fires, the container restarts the process, and every call comes
   back. *)
FairSpec == Spec /\ WF_vars(Update)

-----------------------------------------------------------------------------
Shown(val) == {log[s].uri : s \in {t \in InForce : log[t].val = val}} \cap Accounts

IsOwn(e) == e.src = Did /\ e.cid = NoCid
Own(val) == {log[s].uri : s \in {t \in InForce : IsOwn(log[t]) /\ log[t].val = val}} \cap Accounts

(* When an update has done a label, whatever crashes, errors, imports and moves
   came before, every account that it found on the list shows the label, and
   of the others only those do that carry an entry of another source or about a
   version of the subject, which the server's own negation does not match. *)
UpdateIsExact ==
    pc = "label" /\ ~ Writing =>
        /\ list \subseteq Shown(label)
        /\ Own(label) \subseteq list

(* In between, and when an update breaks off, nothing moves the wrong way: an
   account on the list never loses the label, one that is not on it never
   gets it, and no entry is touched but the server's own of the label in work. *)
MovesTowardsTheList ==
    [][ pc # "down" =>
            /\ \A val \in Vals : Shown(val)' # Shown(val) =>
                  /\ val = label
                  /\ Shown(val)' \ Shown(val) \subseteq list
                  /\ (Shown(val) \ Shown(val)') \cap list = {}
            /\ \A s \in InForce : ~ IsOwn(log[s]) => s \in InForce' ]_log

(* The inductive invariant: while a label is in work, the accounts of the list
   show it but for those that are still to be added, and those that carry the
   server's own are on the list or still to be removed. *)
UpdateInv ==
    /\ IsLog(log)
    /\ members \in [Listed -> SUBSET Accounts]
    /\ lists \subseteq Listed
    /\ pc = "label" =>
        /\ label \in Listed /\ list \subseteq Accounts
        /\ toAdd \subseteq list /\ toRemove \subseteq Accounts \ list
        /\ list \ toAdd \subseteq Shown(label)
        /\ Own(label) \subseteq list \cup toRemove

(* A member of a list gets its label, unless it leaves the list or the
   configuration does not allow the label. *)
MembersGetTheLabel ==
    \A val \in Listed, a \in Accounts :
        a \in members[val] ~>
            a \in Shown(val) \/ a \notin members[val] \/ ~ Permitted(val)
=============================================================================
