---------------------------- MODULE StarterPack ----------------------------
(* The starter pack of the Top Chickens (starterpack.py): a list, its items and
   the pack, kept as records of the labeler's own repository, which has no key
   to find them by but their names.  A sync reads and creates them one request
   at a time; the first request that fails ends it, and the next cycle of the
   poller starts another.

   A request that fails may have had no effect, its effect without the answer,
   or (the client gave up after 30 seconds) its effect later.  Records are never
   removed, so the place of a record in its collection stands for its URI.    *)
EXTENDS Integers, FiniteSets, Sequences, SequencesExt

CONSTANTS
    Accounts,     \* accounts that may be crowned; DIDs are sorted
    Cap,          \* records that _list_records reads, 50 pages of 100
    MaxItems,     \* bound on list items
    MaxFailures   \* bound on requests that fail

ASSUME StarterPackAssumption ==
    /\ Accounts \subseteq Nat
    /\ IsFiniteSet(Accounts)
    /\ Cap \in Nat \ {0}
    /\ MaxItems \in Nat
    /\ MaxFailures \in Nat

VARIABLES
    alumni,       \* the accounts that the announcements name
    repo,         \* the records of each collection, oldest first
    pc,           \* the next request of the sync, "idle" or "done" between syncs
    arg,          \* alumni_dids
    listUri,      \* list_uri, 0 before it is known
    todo,         \* members that are still to be added
    late,         \* a createRecord that was given up and is still under way
    passed,       \* its collection has been listed since
    overtaken,    \* collections that got a record after they had been listed
    failures      \* requests that have failed

sync == <<pc, arg, listUri, todo>>
faults == <<late, passed, overtaken, failures>>
vars == <<alumni, repo, sync, faults>>

Collections == {"list", "item", "pack"}
NoRequest == [collection |-> "none"]

Init ==
    /\ alumni = {}
    /\ repo = [c \in Collections |-> <<>>]
    /\ pc = "idle" /\ arg = {} /\ listUri = 0 /\ todo = {}
    /\ late = NoRequest /\ passed = FALSE /\ overtaken = {} /\ failures = 0

-----------------------------------------------------------------------------
(* The announcements: accounts are crowned, and one may be deleted. *)
Crown(a) ==
    /\ a \notin alumni
    /\ alumni' = alumni \cup {a}
    /\ UNCHANGED <<repo, sync, faults>>

Forget(a) ==
    /\ a \in alumni
    /\ alumni' = alumni \ {a}
    /\ UNCHANGED <<repo, sync, faults>>

-----------------------------------------------------------------------------
(* _list_records: newest first, and no more than Cap. *)
ListRecords(c) == Reverse(repo[c])

Read(c) == {ListRecords(c)[i] : i \in DOMAIN ListRecords(c) \cap 1 .. Cap}

(* _find_by_name: the first, and so the newest; 0 when there is none. *)
Found(c) == Len(repo[c])

Listed(c) == passed' = (passed \/ late.collection = c)

(* Bug for Members: items of any list count. *)
MembersOfAnyList(list) == {item.subject : item \in Read("item")}
Members(list) == {item.subject : item \in {r \in Read("item") : r.list = list}}

(* Bugs for Missing: nobody is skipped; a pack that is there is taken for
   complete. *)
MissingAll(list) == arg
MissingAtFirst(list) == IF repo["pack"] = <<>> THEN arg \ Members(list) ELSE {}
Missing(list) == arg \ Members(list)

StartSync ==
    /\ pc \in {"idle", "done"}
    /\ alumni # {}
    /\ pc' = "find_list" /\ arg' = alumni /\ listUri' = 0 /\ todo' = {}
    /\ UNCHANGED <<alumni, repo, faults>>

FindList ==
    /\ pc = "find_list"
    /\ listUri' = Found("list")
    /\ pc' = IF Found("list") = 0 THEN "new_list" ELSE "members"
    /\ Listed("list")
    /\ UNCHANGED <<alumni, repo, arg, todo, late, overtaken, failures>>

ReadMembers ==
    /\ pc = "members"
    /\ todo' = Missing(listUri)
    /\ pc' = "add"
    /\ Listed("item")
    /\ UNCHANGED <<alumni, repo, arg, listUri, late, overtaken, failures>>

FindPack ==
    /\ pc = "add" /\ todo = {}
    /\ pc' = IF Found("pack") = 0 THEN "new_pack" ELSE "done"
    /\ Listed("pack")
    /\ UNCHANGED <<alumni, repo, arg, listUri, todo, late, overtaken, failures>>

-----------------------------------------------------------------------------
(* createRecord. *)
NextMember == CHOOSE m \in todo : \A n \in todo : m <= n
Room == Len(repo["item"]) < MaxItems

Request ==
    CASE pc = "new_list" -> [collection |-> "list", record |-> [name |-> "list"]]
      [] pc = "add" -> [collection |-> "item",
                        record |-> [list |-> listUri, subject |-> NextMember]]
      [] pc = "new_pack" -> [collection |-> "pack", record |-> [list |-> listUri]]

Creating == \/ pc \in {"new_list", "new_pack"}
            \/ pc = "add" /\ todo # {} /\ Room

Create(request) ==
    repo' = [repo EXCEPT ![request.collection] = Append(@, request.record)]

(* Bug for NewUri: list_uri is not taken from the answer. *)
NewUriForgotten == listUri
NewUri == Len(repo["list"]) + 1

CreateList ==
    /\ pc = "new_list"
    /\ Create(Request)
    /\ listUri' = NewUri
    /\ pc' = "members"
    /\ UNCHANGED <<alumni, arg, todo, faults>>

(* Bug for Rest: the loop returns after the first member. *)
RestNone == {}
Rest == todo \ {NextMember}

AddMember ==
    /\ pc = "add" /\ todo # {} /\ Room
    /\ Create(Request)
    /\ todo' = Rest
    /\ UNCHANGED <<alumni, pc, arg, listUri, faults>>

CreatePack ==
    /\ pc = "new_pack"
    /\ Create(Request)
    /\ pc' = "done"
    /\ UNCHANGED <<alumni, arg, listUri, todo, faults>>

-----------------------------------------------------------------------------
(* A request fails, or the process dies: the sync is over. *)
Abort ==
    /\ pc \notin {"idle", "done"}
    /\ failures < MaxFailures
    /\ failures' = failures + 1
    /\ pc' = "idle" /\ arg' = {} /\ listUri' = 0 /\ todo' = {}
    /\ UNCHANGED <<alumni, overtaken>>

Fail == Abort /\ UNCHANGED <<repo, late, passed>>

LoseAnswer == Creating /\ Abort /\ Create(Request) /\ UNCHANGED <<late, passed>>

GiveUp ==
    /\ Creating
    /\ late = NoRequest
    /\ Abort
    /\ late' = Request /\ passed' = FALSE
    /\ UNCHANGED repo

Land ==
    /\ late # NoRequest
    /\ Create(late)
    /\ overtaken' = IF passed THEN overtaken \cup {late.collection} ELSE overtaken
    /\ late' = NoRequest /\ passed' = FALSE
    /\ UNCHANGED <<alumni, sync, failures>>

SyncStep ==
    \/ StartSync
    \/ FindList \/ ReadMembers \/ FindPack
    \/ CreateList \/ AddMember \/ CreatePack

Next ==
    \/ \E a \in Accounts : Crown(a) \/ Forget(a)
    \/ SyncStep
    \/ Fail \/ LoseAnswer \/ GiveUp \/ Land

Spec == Init /\ [][Next]_vars

(* The poller calls sync in every cycle, and each request is answered or times
   out. *)
FairSpec == Spec /\ WF_vars(SyncStep)

-----------------------------------------------------------------------------
MembersInRepo(list) ==
    {repo["item"][i].subject : i \in {j \in DOMAIN repo["item"] : repo["item"][j].list = list}}

Lists == DOMAIN repo["list"]
Packs == DOMAIN repo["pack"]

TypeOK ==
    /\ alumni \subseteq Accounts
    /\ repo["list"] \in Seq([name : {"list"}])
    /\ repo["item"] \in Seq([list : Lists, subject : Accounts])
    /\ repo["pack"] \in Seq([list : Lists])
    /\ pc \in {"idle", "find_list", "new_list", "members", "add", "new_pack", "done"}
    /\ pc \in {"members", "add", "new_pack", "done"} => listUri \in Lists
    /\ todo \subseteq arg /\ arg \subseteq Accounts
    /\ late # NoRequest => late.collection \in Collections
    /\ passed \in BOOLEAN /\ (passed => late # NoRequest)
    /\ overtaken \subseteq Collections
    /\ failures \in 0 .. MaxFailures

(* However often a sync breaks off, and whether or not its last request took
   effect, the next one goes on where it stopped: one list, one pack, and every
   account in it once (starterpack.py:98, "Idempotent").  What breaks it is a
   createRecord that takes effect after a later sync has listed its collection,
   and more list items than _list_records reads. *)
OneOfEach ==
    /\ "list" \notin overtaken => Len(repo["list"]) <= 1
    /\ "pack" \notin overtaken => Len(repo["pack"]) <= 1
    /\ "item" \notin overtaken /\ Len(repo["item"]) <= Cap => IsInjective(repo["item"])

(* A sync that comes to its end has put every alumnus it was given in the list
   that the pack shows, however the syncs before it ended.  After a second list
   has appeared this fails for ever: sync takes the newest list, and never looks
   at which one the pack shows. *)
FinishedSyncIsComplete ==
    pc = "done" /\ "list" \notin overtaken =>
        \E p \in Packs : arg \subseteq MembersInRepo(repo["pack"][p].list)

(* The pack is not made before its list is complete, so nobody is shown a pack
   without some of those who were crowned when it was made; with two lists
   too, and if the request takes effect late. *)
PackComesLast == pc = "new_pack" => arg \subseteq MembersInRepo(listUri)

(* The inductive invariant.  A sync rests on what it saw when it listed a
   collection (Unseen: what it is about to create was not there) until it has
   created its records, and only a late createRecord can change that, which
   then has overtaken it. *)
Requests ==
    [collection : {"list"}, record : [name : {"list"}]]
        \cup [collection : {"item"}, record : [list : Lists, subject : Accounts]]
        \cup [collection : {"pack"}, record : [list : Lists]]

RestsOn(c) == CASE c = "list" -> pc = "new_list"
                [] c = "item" -> pc = "add"
                [] c = "pack" -> pc = "new_pack"

Unseen ==
    /\ "list" \notin overtaken /\ pc = "new_list" => repo["list"] = <<>>
    /\ "item" \notin overtaken /\ Len(repo["item"]) <= Cap /\ pc = "add" =>
          todo \cap MembersInRepo(listUri) = {}
    /\ "pack" \notin overtaken /\ pc = "new_pack" => repo["pack"] = <<>>

IsNew(request) ==
    IF request.collection = "item"
    THEN Len(repo["item"]) <= Cap =>
            request.record.subject \notin MembersInRepo(request.record.list)
    ELSE repo[request.collection] = <<>>

SyncInv ==
    /\ TypeOK
    /\ repo = [c \in Collections |-> repo[c]]
    /\ late \in {NoRequest} \cup Requests
    /\ \A c \in Collections : RestsOn(c) /\ late.collection = c => passed
    /\ Unseen
    /\ late # NoRequest /\ ~ passed /\ late.collection \notin overtaken => IsNew(late)
    /\ OneOfEach
    /\ pc = "add" => arg \ todo \subseteq MembersInRepo(listUri)
    /\ pc \in {"new_pack", "done"} => arg \subseteq MembersInRepo(listUri)
    /\ pc = "done" => Packs # {}

(* Whoever is crowned gets into the pack, though requests fail. *)
InPack(a) == \E p \in Packs : a \in MembersInRepo(repo["pack"][p].list)
AlumniReachPack ==
    \A a \in Accounts :
        a \in alumni ~> \/ InPack(a) \/ a \notin alumni
                        \/ "list" \in overtaken \/ ~ Room
=============================================================================
