-------------------------- MODULE StarterPack_proofs --------------------------
(* Theorems about the starter pack: for any accounts, any limit on what a
   listing reads, and any number of failed requests. *)
EXTENDS StarterPack, SeqNumbers_proofs, SequenceTheorems

-----------------------------------------------------------------------------
(* Facts about the records of the repository. *)

(* What a record at the end of a collection changes. *)
LEMMA AppendFacts ==
    ASSUME NEW S, NEW s \in Seq(S), NEW e \in S
    PROVE  /\ Append(s, e) \in Seq(S) /\ Len(Append(s, e)) = Len(s) + 1 /\ Len(s) \in Nat
           /\ DOMAIN s = 1 .. Len(s) /\ DOMAIN Append(s, e) = 1 .. Len(s) + 1
           /\ \A i \in 1 .. Len(s) : Append(s, e)[i] = s[i]
           /\ Append(s, e)[Len(s) + 1] = e
           /\ Append(s, e) # <<>>
OBVIOUS

(* The collections after a createRecord: one has a record more. *)
LEMMA CreateFacts ==
    ASSUME SyncInv, NEW r \in Requests, Create(r)
    PROVE  /\ repo' = [c \in Collections |-> repo'[c]]
           /\ \A c \in Collections \ {r.collection} : repo'[c] = repo[c]
           /\ r.collection \in Collections
           /\ repo'[r.collection] = Append(repo[r.collection], r.record)
           /\ repo'["list"] \in Seq([name : {"list"}])
           /\ repo'["item"] \in Seq([list : Lists', subject : Accounts])
           /\ repo'["pack"] \in Seq([list : Lists'])
           /\ Lists \subseteq Lists'
<1>0. /\ repo["list"] \in Seq([name : {"list"}])
      /\ repo["item"] \in Seq([list : Lists, subject : Accounts])
      /\ repo["pack"] \in Seq([list : Lists])
      /\ repo = [c \in Collections |-> repo[c]]
  BY DEF SyncInv, TypeOK
<1>1. r.collection \in Collections
  BY DEF Requests, Collections
<1>2. repo' = [repo EXCEPT ![r.collection] = Append(@, r.record)]
  BY DEF Create
<1>3. /\ repo' = [c \in Collections |-> repo'[c]]
      /\ \A c \in Collections \ {r.collection} : repo'[c] = repo[c]
      /\ repo'[r.collection] = Append(repo[r.collection], r.record)
  BY <1>0, <1>1, <1>2
<1>4. Collections = {"list", "item", "pack"}
  BY DEF Collections
<1>5. CASE r.collection = "list"
  <2>1. r.record \in [name : {"list"}]
    BY <1>5 DEF Requests
  <2>2. repo'["list"] = Append(repo["list"], r.record) /\ repo'["item"] = repo["item"]
        /\ repo'["pack"] = repo["pack"]
    BY <1>3, <1>4, <1>5
  <2>3. repo'["list"] \in Seq([name : {"list"}]) /\ Lists \subseteq Lists'
    BY <1>0, <2>1, <2>2, AppendFacts DEF Lists
  <2>4. repo["item"] \in Seq([list : Lists', subject : Accounts])
    <3> DEFINE A == [list : Lists, subject : Accounts]
               B == [list : Lists', subject : Accounts]
    <3>1. A \subseteq B
      BY <2>3
    <3>2. repo["item"] \in Seq(A)
      BY <1>0
    <3> HIDE DEF A, B
    <3>3. repo["item"] \in Seq(B)
      BY <3>1, <3>2, SeqMonotonic
    <3> QED
      BY <3>3 DEF B
  <2>5. repo["pack"] \in Seq([list : Lists'])
    <3> DEFINE A == [list : Lists]
               B == [list : Lists']
    <3>1. A \subseteq B
      BY <2>3
    <3>2. repo["pack"] \in Seq(A)
      BY <1>0
    <3> HIDE DEF A, B
    <3>3. repo["pack"] \in Seq(B)
      BY <3>1, <3>2, SeqMonotonic
    <3> QED
      BY <3>3 DEF B
  <2> QED
    BY <1>1, <1>3, <2>2, <2>3, <2>4, <2>5
<1>6. CASE r.collection = "item"
  <2>1. r.record \in [list : Lists, subject : Accounts]
    BY <1>6 DEF Requests
  <2>2. repo'["item"] = Append(repo["item"], r.record) /\ repo'["list"] = repo["list"]
        /\ repo'["pack"] = repo["pack"]
    BY <1>3, <1>4, <1>6
  <2>3. Lists' = Lists
    BY <2>2 DEF Lists
  <2> QED
    BY <1>0, <1>1, <1>3, <2>1, <2>2, <2>3, AppendFacts
<1>7. CASE r.collection = "pack"
  <2>1. r.record \in [list : Lists]
    BY <1>7 DEF Requests
  <2>2. repo'["pack"] = Append(repo["pack"], r.record) /\ repo'["list"] = repo["list"]
        /\ repo'["item"] = repo["item"]
    BY <1>3, <1>4, <1>7
  <2>3. Lists' = Lists
    BY <2>2 DEF Lists
  <2> QED
    BY <1>0, <1>1, <1>3, <2>1, <2>2, <2>3, AppendFacts
<1> QED
  BY <1>1, <1>4, <1>5, <1>6, <1>7

(* The members of the lists after a createRecord. *)
LEMMA CreateMembers ==
    ASSUME SyncInv, NEW r \in Requests, Create(r), NEW list, NEW m
    PROVE  m \in MembersInRepo(list)' <=>
              \/ m \in MembersInRepo(list)
              \/ r.collection = "item" /\ r.record.list = list /\ r.record.subject = m
<1>0. TypeOK
  BY DEF SyncInv
<1>1. CASE r.collection # "item"
  <2>1. repo'["item"] = repo["item"]
    BY <1>1, CreateFacts DEF Collections
  <2> QED
    BY <1>1, <2>1 DEF MembersInRepo
<1>2. CASE r.collection = "item"
  <2>1. r.record \in [list : Lists, subject : Accounts]
    BY <1>2 DEF Requests
  <2> DEFINE s == repo["item"]
             t == repo'["item"]
  <2>2. t = Append(s, r.record) /\ s \in Seq([list : Lists, subject : Accounts])
    BY <1>0, <1>2, CreateFacts DEF TypeOK
  <2>3. /\ Len(s) \in Nat /\ DOMAIN s = 1 .. Len(s) /\ DOMAIN t = 1 .. Len(s) + 1
        /\ \A i \in 1 .. Len(s) : t[i] = s[i]
        /\ t[Len(s) + 1] = r.record
    <3> HIDE DEF s, t
    <3> QED
      BY <2>1, <2>2, AppendFacts
  <2>4. /\ m \in MembersInRepo(list) <=>
              \E j \in DOMAIN s : s[j].list = list /\ s[j].subject = m
        /\ m \in MembersInRepo(list)' <=>
              \E j \in DOMAIN t : t[j].list = list /\ t[j].subject = m
    BY DEF MembersInRepo
  <2> HIDE DEF s, t
  <2>5. \A j \in DOMAIN t : j \in DOMAIN s \/ j = Len(s) + 1
    BY <2>3
  <2>6. \A j \in DOMAIN s : j \in DOMAIN t /\ t[j] = s[j]
    BY <2>3
  <2>7. Len(s) + 1 \in DOMAIN t
    BY <2>3
  <2> QED
    BY <1>2, <2>3, <2>4, <2>5, <2>6, <2>7
<1> QED
  BY <1>1, <1>2

LEMMA RequestsGrow ==
    ASSUME SyncInv, NEW r \in Requests, Create(r)
    PROVE  Requests \subseteq Requests'
<1>1. Lists \subseteq Lists'
  BY CreateFacts
<1> QED
  BY <1>1 DEF Requests

(* What _list_records and the sync make of the items: all members that a
   listing shows are there, and it shows all that are there up to its cap. *)
LEMMA MembersRead ==
    ASSUME TypeOK, NEW list
    PROVE  /\ Members(list) \subseteq MembersInRepo(list)
           /\ Len(repo["item"]) <= Cap => MembersInRepo(list) \subseteq Members(list)
<1> DEFINE s == repo["item"]
<1>1. s \in Seq([list : Lists, subject : Accounts]) /\ Cap \in Nat \ {0}
  BY StarterPackAssumption DEF TypeOK
<1>2. /\ Members(list) = {s[(Len(s) - i) + 1].subject :
            i \in {j \in 1 .. Len(s) \cap 1 .. Cap : s[(Len(s) - j) + 1].list = list}}
  <2>1. ListRecords("item") = [i \in 1 .. Len(s) |-> s[(Len(s) - i) + 1]]
    BY DEF ListRecords, Reverse
  <2>2. Read("item") = {s[(Len(s) - i) + 1] : i \in 1 .. Len(s) \cap 1 .. Cap}
    BY <2>1 DEF Read
  <2> QED
    BY <2>2 DEF Members
<1>3. MembersInRepo(list) = {s[i].subject : i \in {j \in 1 .. Len(s) : s[j].list = list}}
  BY <1>1 DEF MembersInRepo
<1>4. Len(s) \in Nat
  BY <1>1
<1> HIDE DEF s
<1>5. ASSUME NEW m \in Members(list) PROVE m \in MembersInRepo(list)
  <2>1. PICK i \in 1 .. Len(s) : s[(Len(s) - i) + 1].list = list /\ m = s[(Len(s) - i) + 1].subject
    BY <1>2, <1>5
  <2>2. (Len(s) - i) + 1 \in 1 .. Len(s)
    BY <1>4
  <2> QED
    BY <1>3, <2>1, <2>2
<1>6. ASSUME Len(s) <= Cap, NEW m \in MembersInRepo(list) PROVE m \in Members(list)
  <2>1. PICK j \in 1 .. Len(s) : s[j].list = list /\ m = s[j].subject
    BY <1>3, <1>6
  <2>2. PICK i \in 1 .. Len(s) : (Len(s) - i) + 1 = j
    <3>1. (Len(s) - j) + 1 \in 1 .. Len(s) /\ (Len(s) - ((Len(s) - j) + 1)) + 1 = j
      BY <1>4
    <3> QED
      BY <3>1
  <2>3. i \in 1 .. Cap
    BY <1>1, <1>4, <1>6
  <2> QED
    BY <1>2, <2>1, <2>2, <2>3
<1> QED
  BY <1>5, <1>6 DEF s

-----------------------------------------------------------------------------
(* What a sync asks for is not there, as far as it has looked: unless the
   collection has been overtaken, or has outgrown what a listing reads. *)
LEMMA RequestFacts ==
    ASSUME SyncInv, Creating
    PROVE  /\ Request \in Requests
           /\ RestsOn(Request.collection)
           /\ Request.collection \notin overtaken => IsNew(Request)
           /\ pc = "new_list" => Request.collection = "list"
           /\ pc = "add" => /\ Request = [collection |-> "item",
                                          record |-> [list |-> listUri, subject |-> NextMember]]
                            /\ NextMember \in todo
           /\ pc = "new_pack" => Request = [collection |-> "pack", record |-> [list |-> listUri]]
<1>0. TypeOK
  BY DEF SyncInv
<1>1. CASE pc = "new_list"
  <2>1. Request = [collection |-> "list", record |-> [name |-> "list"]]
    BY <1>1 DEF Request
  <2>2. "list" \notin overtaken => repo["list"] = <<>>
    BY <1>1 DEF SyncInv, Unseen
  <2> QED
    BY <1>1, <2>1, <2>2 DEF Requests, RestsOn, IsNew
<1>2. CASE pc = "new_pack"
  <2>1. Request = [collection |-> "pack", record |-> [list |-> listUri]]
    BY <1>2 DEF Request
  <2>2. "pack" \notin overtaken => repo["pack"] = <<>>
    BY <1>2 DEF SyncInv, Unseen
  <2>3. listUri \in Lists
    BY <1>0, <1>2 DEF TypeOK
  <2> QED
    BY <1>2, <2>1, <2>2, <2>3 DEF Requests, RestsOn, IsNew
<1>3. CASE pc = "add" /\ todo # {}
  <2>1. Request = [collection |-> "item", record |-> [list |-> listUri, subject |-> NextMember]]
    BY <1>3 DEF Request
  <2>2. NextMember \in todo
    <3>1. todo \in SUBSET Accounts /\ Accounts \in SUBSET Nat /\ IsFiniteSet(Accounts)
      BY <1>0, StarterPackAssumption DEF TypeOK
    <3>2. IsFiniteSet(todo)
      BY <3>1, FS_Subset
    <3>3. todo \in SUBSET Nat
      BY <3>1
    <3>4. \E n \in todo : \A m \in todo : n <= m
      BY <1>3, <3>2, <3>3, LeastExists
    <3> QED
      BY <3>4 DEF NextMember
  <2>3. "item" \notin overtaken /\ Len(repo["item"]) <= Cap => NextMember \notin MembersInRepo(listUri)
    BY <1>3, <2>2 DEF SyncInv, Unseen
  <2>4. listUri \in Lists /\ NextMember \in Accounts
    BY <1>0, <1>3, <2>2 DEF TypeOK
  <2>5. Request \in Requests
    BY <2>1, <2>4 DEF Requests
  <2> QED
    BY <1>3, <2>1, <2>2, <2>3, <2>5 DEF RestsOn, IsNew
<1> QED
  BY <1>1, <1>2, <1>3 DEF Creating

(* A createRecord of something new makes no second one. *)
LEMMA CreateKeepsOne ==
    ASSUME SyncInv, NEW r \in Requests, Create(r), overtaken \subseteq overtaken',
           r.collection \notin overtaken' => IsNew(r)
    PROVE  OneOfEach'
<1>0. TypeOK /\ OneOfEach
  BY DEF SyncInv
<1>1. /\ \A c \in Collections \ {r.collection} : repo'[c] = repo[c]
      /\ repo'[r.collection] = Append(repo[r.collection], r.record)
      /\ r.collection \in Collections
  BY CreateFacts
<1>2. ASSUME NEW c \in {"list", "pack"}, c \notin overtaken' PROVE Len(repo'[c]) <= 1
  <2>1. CASE c = r.collection
    <3>1. repo[c] = <<>>
      BY <1>2, <2>1 DEF IsNew
    <3>2. repo'[c] = Append(<<>>, r.record)
      BY <1>1, <2>1, <3>1
    <3>3. Len(repo'[c]) = 1
      BY <3>2
    <3> QED
      BY <3>3
  <2>2. CASE c # r.collection
    BY <1>0, <1>1, <1>2, <2>2 DEF OneOfEach, Collections
  <2> QED
    BY <2>1, <2>2
<1>3. ASSUME "item" \notin overtaken', Len(repo'["item"]) <= Cap PROVE IsInjective(repo'["item"])
  <2>1. CASE r.collection # "item"
    BY <1>0, <1>1, <1>3, <2>1 DEF OneOfEach, Collections
  <2>2. CASE r.collection = "item"
    <3> DEFINE s == repo["item"]
               t == repo'["item"]
    <3>1. s \in Seq([list : Lists, subject : Accounts])
          /\ r.record \in [list : Lists, subject : Accounts] /\ t = Append(s, r.record)
      BY <1>0, <1>1, <2>2 DEF TypeOK, Requests
    <3> HIDE DEF s, t
    <3>2. /\ Len(s) \in Nat /\ Len(t) = Len(s) + 1 /\ DOMAIN s = 1 .. Len(s)
          /\ DOMAIN t = 1 .. Len(s) + 1 /\ \A i \in 1 .. Len(s) : t[i] = s[i]
          /\ t[Len(s) + 1] = r.record
      BY <3>1, AppendFacts
    <3>3. Len(s) <= Cap
      BY <1>3, <3>2, StarterPackAssumption DEF t
    <3>4. r.record.subject \notin MembersInRepo(r.record.list)
      BY <1>3, <2>2, <3>3 DEF IsNew, s
    <3>5. \A i \in 1 .. Len(s) : s[i] # r.record
      BY <3>2, <3>4 DEF MembersInRepo, s
    <3>6. \A a, b \in DOMAIN s : s[a] = s[b] => a = b
      BY <1>0, <1>3, <3>3 DEF OneOfEach, IsInjective, s
    <3>7. \A a, b \in DOMAIN t : t[a] = t[b] => a = b
      BY <3>2, <3>5, <3>6
    <3> QED
      BY <3>7 DEF IsInjective, t
  <2> QED
    BY <2>1, <2>2
<1> QED
  BY <1>2, <1>3 DEF OneOfEach

(* A late createRecord stays new while records of other collections are made. *)
LEMMA LateStaysNew ==
    ASSUME SyncInv, NEW r \in Requests, Create(r), late' = late,
           late # NoRequest, late.collection # r.collection, IsNew(late)
    PROVE  IsNew(late)'
<1>1. late.collection \in Collections
  BY DEF SyncInv, TypeOK
<1>2. repo'[late.collection] = repo[late.collection]
  BY <1>1, CreateFacts
<1>3. CASE late.collection = "item"
  <2>1. MembersInRepo(late.record.list)' = MembersInRepo(late.record.list)
    BY <1>2, <1>3 DEF MembersInRepo
  <2> QED
    BY <1>2, <1>3, <2>1 DEF IsNew
<1>4. CASE late.collection # "item"
  BY <1>2, <1>4 DEF IsNew
<1> QED
  BY <1>3, <1>4

-----------------------------------------------------------------------------
(* The inductive invariant. *)

LEMMA SyncInit == Init => SyncInv
<1> SUFFICES ASSUME Init PROVE SyncInv
  OBVIOUS
<1>1. /\ repo["list"] = <<>> /\ repo["item"] = <<>> /\ repo["pack"] = <<>>
      /\ repo = [c \in Collections |-> repo[c]]
  BY DEF Init, Collections
<1>2. TypeOK
  <2>1. \A S : <<>> \in Seq(S)
    BY EmptySeq
  <2>2. passed \in BOOLEAN /\ ~ passed
    BY DEF Init
  <2>3. failures \in 0 .. MaxFailures
    BY StarterPackAssumption DEF Init
  <2>4. /\ repo["list"] \in Seq([name : {"list"}])
        /\ repo["item"] \in Seq([list : Lists, subject : Accounts])
        /\ repo["pack"] \in Seq([list : Lists])
    BY <1>1, <2>1
  <2> QED
    BY <2>2, <2>3, <2>4 DEF Init, TypeOK
<1>3. OneOfEach
  BY <1>1 DEF OneOfEach, IsInjective
<1>4. \A c \in Collections : ~ RestsOn(c)
  BY DEF Init, Collections, RestsOn
<1> QED
  BY <1>1, <1>2, <1>3, <1>4 DEF Init, SyncInv, Unseen

(* The parts of the invariant that only the records are about. *)
LEMMA RepoUnchanged ==
    ASSUME SyncInv, UNCHANGED <<repo, late, overtaken>>,
           passed' \in BOOLEAN, passed => passed'
    PROVE  /\ OneOfEach'
           /\ repo' = [c \in Collections |-> repo'[c]]
           /\ late' \in {NoRequest} \cup Requests'
           /\ late' # NoRequest /\ ~ passed' /\ late'.collection \notin overtaken' => IsNew(late)'
           /\ Lists' = Lists /\ Packs' = Packs
           /\ repo'["list"] \in Seq([name : {"list"}])
           /\ repo'["item"] \in Seq([list : Lists', subject : Accounts])
           /\ repo'["pack"] \in Seq([list : Lists'])
<1>1. Lists' = Lists /\ Packs' = Packs
  BY DEF Lists, Packs
<1>2. Requests' = Requests
  BY <1>1 DEF Requests
<1>3. OneOfEach' <=> OneOfEach
  BY DEF OneOfEach
<1>4. IsNew(late)' <=> IsNew(late)
  BY DEF IsNew, MembersInRepo
<1> QED
  BY <1>1, <1>2, <1>3, <1>4 DEF SyncInv, TypeOK

LEMMA AlumniKeep ==
    ASSUME SyncInv,
           (\E a \in Accounts : Crown(a) \/ Forget(a)) \/ UNCHANGED vars
    PROVE  SyncInv'
<1>1. UNCHANGED <<repo, sync, faults>> /\ alumni' \subseteq Accounts
  BY DEF SyncInv, TypeOK, Crown, Forget, vars
<1>2. UNCHANGED <<repo, late, overtaken, passed, pc, arg, listUri, todo, failures>>
  BY <1>1 DEF sync, faults
<1>3. passed \in BOOLEAN
  BY DEF SyncInv, TypeOK
<1>4. TypeOK'
  BY <1>1, <1>2, <1>3, RepoUnchanged DEF SyncInv, TypeOK
<1>5. MembersInRepo(listUri)' = MembersInRepo(listUri)
  BY <1>2 DEF MembersInRepo
<1>6. Unseen'
  BY <1>2, <1>5 DEF SyncInv, Unseen
<1>7. \A c \in Collections : RestsOn(c)' /\ late'.collection = c => passed'
  BY <1>2 DEF SyncInv, RestsOn
<1> QED
  BY <1>2, <1>3, <1>4, <1>5, <1>6, <1>7, RepoUnchanged DEF SyncInv

(* A sync that has listed a collection knows what is in it. *)
LEMMA ReadKeeps ==
    ASSUME SyncInv, StartSync \/ FindList \/ ReadMembers \/ FindPack
    PROVE  SyncInv'
<1>0. TypeOK /\ passed \in BOOLEAN
  BY DEF SyncInv, TypeOK
<1>1. CASE StartSync
  <2>1. /\ UNCHANGED <<alumni, repo, late, overtaken, passed, failures>>
        /\ pc' = "find_list" /\ arg' = alumni /\ todo' = {}
    BY <1>1 DEF StartSync, faults
  <2>2. TypeOK'
    BY <1>0, <2>1, RepoUnchanged DEF TypeOK
  <2>3. Unseen' /\ \A c \in Collections : ~ RestsOn(c)'
    BY <2>1 DEF Unseen, RestsOn, Collections
  <2> QED
    BY <1>0, <2>1, <2>2, <2>3, RepoUnchanged DEF SyncInv
<1>2. CASE FindList
  <2>1. /\ UNCHANGED <<alumni, repo, late, overtaken, failures, arg, todo>>
        /\ listUri' = Len(repo["list"])
        /\ pc' = IF Len(repo["list"]) = 0 THEN "new_list" ELSE "members"
        /\ passed' = (passed \/ late.collection = "list")
    BY <1>2 DEF FindList, Found, Listed
  <2>2. passed' \in BOOLEAN /\ (passed' => late # NoRequest)
    BY <1>0, <2>1 DEF NoRequest, TypeOK
  <2>3. Len(repo["list"]) \in Nat /\ Lists = 1 .. Len(repo["list"])
        /\ (Len(repo["list"]) = 0 => repo["list"] = <<>>)
    BY <1>0 DEF TypeOK, Lists
  <2>4. TypeOK'
    BY <1>0, <2>1, <2>2, <2>3, RepoUnchanged DEF TypeOK
  <2>5. Unseen'
    BY <2>1, <2>3 DEF Unseen
  <2>6. \A c \in Collections : RestsOn(c)' /\ late'.collection = c => passed'
    BY <2>1 DEF RestsOn, Collections
  <2> QED
    BY <2>1, <2>2, <2>4, <2>5, <2>6, RepoUnchanged DEF SyncInv
<1>3. CASE ReadMembers
  <2>1. /\ UNCHANGED <<alumni, repo, late, overtaken, failures, arg, listUri>>
        /\ pc = "members" /\ pc' = "add" /\ todo' = arg \ Members(listUri)
        /\ passed' = (passed \/ late.collection = "item")
    BY <1>3 DEF ReadMembers, Missing, Listed
  <2>2. passed' \in BOOLEAN /\ (passed' => late # NoRequest)
    BY <1>0, <2>1 DEF NoRequest, TypeOK
  <2>3. TypeOK'
    BY <1>0, <2>1, <2>2, RepoUnchanged DEF TypeOK
  <2>4. MembersInRepo(listUri)' = MembersInRepo(listUri)
    BY <2>1 DEF MembersInRepo
  <2>5. Unseen' /\ arg' \ todo' \subseteq MembersInRepo(listUri)'
    BY <1>0, <2>1, <2>4, MembersRead DEF Unseen
  <2>6. \A c \in Collections : RestsOn(c)' /\ late'.collection = c => passed'
    BY <2>1 DEF RestsOn, Collections
  <2> QED
    BY <2>1, <2>2, <2>3, <2>5, <2>6, RepoUnchanged DEF SyncInv
<1>4. CASE FindPack
  <2>1. /\ UNCHANGED <<alumni, repo, late, overtaken, failures, arg, listUri, todo>>
        /\ pc = "add" /\ todo = {}
        /\ pc' = IF Len(repo["pack"]) = 0 THEN "new_pack" ELSE "done"
        /\ passed' = (passed \/ late.collection = "pack")
    BY <1>4 DEF FindPack, Found, Listed
  <2>2. passed' \in BOOLEAN /\ (passed' => late # NoRequest)
    BY <1>0, <2>1 DEF NoRequest, TypeOK
  <2>3. /\ Len(repo["pack"]) \in Nat /\ Packs = 1 .. Len(repo["pack"])
        /\ (Len(repo["pack"]) = 0 => repo["pack"] = <<>>)
    BY <1>0 DEF TypeOK, Packs
  <2>4. TypeOK'
    BY <1>0, <2>1, <2>2, RepoUnchanged DEF TypeOK
  <2>5. MembersInRepo(listUri)' = MembersInRepo(listUri)
    BY <2>1 DEF MembersInRepo
  <2>6. arg' \subseteq MembersInRepo(listUri)'
    BY <2>1, <2>5 DEF SyncInv
  <2>7. pc' = "done" => Packs' # {}
    BY <2>1, <2>3, RepoUnchanged DEF Packs
  <2>8. Unseen'
    BY <2>1, <2>3 DEF Unseen
  <2>9. \A c \in Collections : RestsOn(c)' /\ late'.collection = c => passed'
    BY <2>1 DEF RestsOn, Collections
  <2> QED
    BY <2>1, <2>2, <2>4, <2>6, <2>7, <2>8, <2>9, RepoUnchanged DEF SyncInv
<1> QED
  BY <1>1, <1>2, <1>3, <1>4

(* The same after a createRecord of a sync. *)
LEMMA RepoCreated ==
    ASSUME SyncInv, Creating, Create(Request), UNCHANGED <<late, passed, overtaken>>
    PROVE  /\ OneOfEach'
           /\ late' \in {NoRequest} \cup Requests'
           /\ late' # NoRequest /\ ~ passed' /\ late'.collection \notin overtaken' => IsNew(late)'
<1>1. PICK r \in Requests : r = Request
  BY RequestFacts
<1>2. Create(r) /\ RestsOn(r.collection) /\ (r.collection \notin overtaken => IsNew(r))
  BY <1>1, RequestFacts
<1>3. OneOfEach'
  BY <1>2, CreateKeepsOne
<1>4. late' \in {NoRequest} \cup Requests'
  BY <1>2, RequestsGrow DEF SyncInv
<1>5. late # NoRequest /\ ~ passed => late.collection # r.collection
  <2>1. r.collection \in Collections
    BY <1>2, CreateFacts
  <2> QED
    BY <1>2, <2>1 DEF SyncInv
<1>6. late # NoRequest /\ ~ passed /\ late.collection \notin overtaken => IsNew(late)'
  BY <1>2, <1>5, LateStaysNew DEF SyncInv
<1> QED
  BY <1>3, <1>4, <1>6

LEMMA CreateKeeps ==
    ASSUME SyncInv, CreateList \/ AddMember \/ CreatePack
    PROVE  SyncInv'
<1>0. TypeOK /\ Creating /\ Create(Request)
      /\ UNCHANGED <<alumni, late, passed, overtaken, failures, arg>>
  BY DEF SyncInv, CreateList, AddMember, CreatePack, Creating, faults
<1>1. PICK r \in Requests : r = Request
  BY <1>0, RequestFacts
<1>2. /\ repo' = [c \in Collections |-> repo'[c]]
      /\ \A c \in Collections \ {r.collection} : repo'[c] = repo[c]
      /\ repo'[r.collection] = Append(repo[r.collection], r.record)
      /\ repo'["list"] \in Seq([name : {"list"}])
      /\ repo'["item"] \in Seq([list : Lists', subject : Accounts])
      /\ repo'["pack"] \in Seq([list : Lists'])
      /\ Lists \subseteq Lists'
  BY <1>0, <1>1, CreateFacts
<1>3. passed' \in BOOLEAN /\ (passed' => late' # NoRequest)
  BY <1>0 DEF TypeOK
<1>4. CASE CreateList
  <2>1. /\ pc = "new_list" /\ pc' = "members" /\ UNCHANGED todo
        /\ listUri' = Len(repo["list"]) + 1
    BY <1>4 DEF CreateList, NewUri
  <2>2. r.collection = "list" /\ r.record \in [name : {"list"}]
    BY <1>0, <1>1, <2>1, RequestFacts DEF Requests
  <2>3. listUri' \in Lists'
    <3>1. repo["list"] \in Seq([name : {"list"}])
      BY <1>0 DEF TypeOK
    <3>2. /\ DOMAIN Append(repo["list"], r.record) = 1 .. Len(repo["list"]) + 1
          /\ Len(repo["list"]) \in Nat
      BY <2>2, <3>1, AppendFacts
    <3> QED
      BY <1>2, <2>1, <2>2, <3>2 DEF Lists
  <2>4. TypeOK'
    BY <1>0, <1>2, <1>3, <2>1, <2>3 DEF TypeOK
  <2>5. Unseen' /\ \A c \in Collections : ~ RestsOn(c)'
    BY <2>1 DEF Unseen, RestsOn, Collections
  <2> QED
    BY <1>0, <1>2, <2>1, <2>4, <2>5, RepoCreated DEF SyncInv
<1>5. CASE AddMember
  <2>1. /\ pc = "add" /\ pc' = "add" /\ listUri' = listUri /\ todo' = todo \ {NextMember}
    BY <1>5 DEF AddMember, Rest
  <2>2. /\ r = [collection |-> "item", record |-> [list |-> listUri, subject |-> NextMember]]
        /\ NextMember \in todo
    BY <1>0, <1>1, <2>1, RequestFacts
  <2>3. TypeOK'
    BY <1>0, <1>2, <1>3, <2>1 DEF TypeOK
  <2>4. PICK u : u = listUri
    OBVIOUS
  <2>5. ASSUME NEW m
        PROVE  m \in MembersInRepo(listUri)' <=> m \in MembersInRepo(listUri) \/ m = NextMember
    <3>1. m \in MembersInRepo(u)' <=> m \in MembersInRepo(u) \/ m = NextMember
      BY <1>0, <1>1, <2>2, <2>4, CreateMembers
    <3>2. MembersInRepo(u) = MembersInRepo(listUri) /\ MembersInRepo(u)' = MembersInRepo(listUri)'
      BY <2>1, <2>4 DEF MembersInRepo
    <3> QED
      BY <3>1, <3>2
  <2>6. arg' \ todo' \subseteq MembersInRepo(listUri)'
    <3>1. arg \ todo \subseteq MembersInRepo(listUri)
      BY <2>1 DEF SyncInv
    <3> QED
      BY <1>0, <2>1, <2>5, <3>1
  <2>7. Unseen'
    <3>1. SUFFICES ASSUME "item" \notin overtaken, Len(repo'["item"]) <= Cap,
                          NEW m \in todo'
                   PROVE  m \notin MembersInRepo(listUri)'
      BY <1>0, <2>1 DEF Unseen
    <3>2. Len(repo["item"]) <= Cap
      <4>1. repo["item"] \in Seq([list : Lists, subject : Accounts])
            /\ r.record \in [list : Lists, subject : Accounts]
        BY <1>0, <2>2 DEF TypeOK, Requests
      <4>2. Len(repo'["item"]) = Len(repo["item"]) + 1 /\ Len(repo["item"]) \in Nat
        BY <1>2, <2>2, <4>1, AppendFacts
      <4> QED
        BY <3>1, <4>2, StarterPackAssumption
    <3>3. m \notin MembersInRepo(listUri) /\ m # NextMember
      BY <2>1, <3>1, <3>2 DEF SyncInv, Unseen
    <3> QED
      BY <2>5, <3>3
  <2>8. \A c \in Collections : RestsOn(c)' /\ late'.collection = c => passed'
    BY <1>0, <2>1 DEF SyncInv, RestsOn
  <2> QED
    BY <1>0, <1>2, <2>1, <2>3, <2>6, <2>7, <2>8, RepoCreated DEF SyncInv
<1>6. CASE CreatePack
  <2>1. /\ pc = "new_pack" /\ pc' = "done" /\ UNCHANGED <<listUri, todo>>
    BY <1>6 DEF CreatePack
  <2>2. r = [collection |-> "pack", record |-> [list |-> listUri]]
    BY <1>0, <1>1, <2>1, RequestFacts
  <2>3. TypeOK'
    BY <1>0, <1>2, <1>3, <2>1 DEF TypeOK
  <2>4. arg' \subseteq MembersInRepo(listUri)'
    <3>1. repo'["item"] = repo["item"]
      BY <1>2, <2>2 DEF Collections
    <3>2. arg \subseteq MembersInRepo(listUri)
      BY <2>1 DEF SyncInv
    <3> QED
      BY <1>0, <2>1, <3>1, <3>2 DEF MembersInRepo
  <2>5. Packs' # {}
    <3>1. repo["pack"] \in Seq([list : Lists]) /\ r.record \in [list : Lists]
      BY <1>0, <2>1, <2>2 DEF TypeOK
    <3>2. DOMAIN Append(repo["pack"], r.record) = 1 .. Len(repo["pack"]) + 1
          /\ Len(repo["pack"]) \in Nat
      BY <3>1, AppendFacts
    <3>3. 1 \in 1 .. Len(repo["pack"]) + 1
      BY <3>2
    <3> QED
      BY <1>2, <2>2, <3>2, <3>3 DEF Packs
  <2>6. Unseen' /\ \A c \in Collections : ~ RestsOn(c)'
    BY <2>1 DEF Unseen, RestsOn, Collections
  <2> QED
    BY <1>0, <1>2, <2>1, <2>3, <2>4, <2>5, <2>6, RepoCreated DEF SyncInv
<1> QED
  BY <1>4, <1>5, <1>6

(* A sync that is broken off, with or without its last request. *)
LEMMA AbortKeeps ==
    ASSUME SyncInv, Fail \/ LoseAnswer \/ GiveUp
    PROVE  SyncInv'
<1>0. /\ TypeOK /\ passed \in BOOLEAN
      /\ pc' = "idle" /\ arg' = {} /\ listUri' = 0 /\ todo' = {}
      /\ UNCHANGED <<alumni, overtaken>>
  BY DEF SyncInv, TypeOK, Fail, LoseAnswer, GiveUp, Abort
<1>1. failures' \in 0 .. MaxFailures
  BY StarterPackAssumption DEF SyncInv, TypeOK, Fail, LoseAnswer, GiveUp, Abort
<1>2. Unseen' /\ \A c \in Collections : ~ RestsOn(c)'
  BY <1>0 DEF Unseen, RestsOn, Collections
<1>3. CASE Fail
  <2>1. UNCHANGED <<repo, late, passed>>
    BY <1>3 DEF Fail
  <2>2. TypeOK'
    BY <1>0, <1>1, <2>1, RepoUnchanged DEF TypeOK
  <2> QED
    BY <1>0, <1>2, <2>1, <2>2, RepoUnchanged DEF SyncInv
<1>4. CASE LoseAnswer
  <2>1. Creating /\ Create(Request) /\ UNCHANGED <<late, passed>>
    BY <1>4 DEF LoseAnswer
  <2>2. /\ repo' = [c \in Collections |-> repo'[c]]
        /\ repo'["list"] \in Seq([name : {"list"}])
        /\ repo'["item"] \in Seq([list : Lists', subject : Accounts])
        /\ repo'["pack"] \in Seq([list : Lists'])
    <3>1. PICK r \in Requests : r = Request
      BY <2>1, RequestFacts
    <3> QED
      BY <2>1, <3>1, CreateFacts
  <2>3. TypeOK'
    BY <1>0, <1>1, <2>1, <2>2 DEF TypeOK
  <2> QED
    BY <1>0, <1>2, <2>1, <2>2, <2>3, RepoCreated DEF SyncInv
<1>5. CASE GiveUp
  <2>1. Creating /\ late = NoRequest /\ late' = Request /\ passed' = FALSE /\ UNCHANGED repo
    BY <1>5 DEF GiveUp
  <2>2. PICK r \in Requests : r = Request
    BY <2>1, RequestFacts
  <2>3. r.collection \in Collections /\ (r.collection \notin overtaken => IsNew(r))
    BY <2>1, <2>2, RequestFacts DEF Requests, Collections
  <2>4. Lists' = Lists /\ Requests' = Requests
    BY <2>1 DEF Lists, Requests
  <2>5. TypeOK'
    BY <1>0, <1>1, <2>1, <2>2, <2>3, <2>4 DEF TypeOK
  <2>6. IsNew(r) => IsNew(late)'
    BY <2>1, <2>2 DEF IsNew, MembersInRepo
  <2>7. OneOfEach'
    BY <1>0, <2>1 DEF SyncInv, OneOfEach
  <2> QED
    BY <1>0, <1>2, <2>1, <2>2, <2>3, <2>4, <2>5, <2>6, <2>7 DEF SyncInv
<1> QED
  BY <1>3, <1>4, <1>5

(* A late createRecord that nothing has listed for is still new; one that a sync
   may have missed overtakes its collection. *)
LEMMA LandKeeps ==
    ASSUME SyncInv, Land
    PROVE  SyncInv'
<1>0. /\ TypeOK /\ passed \in BOOLEAN /\ late \in Requests
      /\ UNCHANGED <<alumni, pc, arg, listUri, todo, failures>>
      /\ late' = NoRequest /\ passed' = FALSE /\ Create(late)
      /\ overtaken' = IF passed THEN overtaken \cup {late.collection} ELSE overtaken
  BY DEF SyncInv, TypeOK, Land, sync
<1>1. PICK r \in Requests : r = late
  BY <1>0
<1>2. /\ Create(r) /\ r.collection \in Collections
      /\ repo' = [c \in Collections |-> repo'[c]]
      /\ \A c \in Collections \ {r.collection} : repo'[c] = repo[c]
      /\ repo'[r.collection] = Append(repo[r.collection], r.record)
      /\ repo'["list"] \in Seq([name : {"list"}])
      /\ repo'["item"] \in Seq([list : Lists', subject : Accounts])
      /\ repo'["pack"] \in Seq([list : Lists'])
      /\ Lists \subseteq Lists'
  BY <1>0, <1>1, CreateFacts
<1>3. overtaken \subseteq overtaken' /\ overtaken' \subseteq Collections
  BY <1>0, <1>1, <1>2 DEF TypeOK
<1>4. OneOfEach'
  <2>1. late # NoRequest
    BY DEF Land
  <2>2. r.collection \notin overtaken' => IsNew(r)
    BY <1>0, <1>1, <2>1 DEF SyncInv
  <2> QED
    BY <1>2, <1>3, <2>2, CreateKeepsOne
<1>5. TypeOK'
  BY <1>0, <1>2, <1>3 DEF TypeOK
<1>6. MembersInRepo(listUri) \subseteq MembersInRepo(listUri)'
  <2>1. PICK u : u = listUri
    OBVIOUS
  <2>2. MembersInRepo(u) = MembersInRepo(listUri) /\ MembersInRepo(u)' = MembersInRepo(listUri)'
    BY <1>0, <2>1 DEF MembersInRepo
  <2>3. \A m : m \in MembersInRepo(u) => m \in MembersInRepo(u)'
    BY <1>2, CreateMembers
  <2> QED
    BY <2>2, <2>3
<1>7. Packs \subseteq Packs'
  <2>1. CASE r.collection = "pack"
    <3>1. repo["pack"] \in Seq([list : Lists]) /\ r.record \in [list : Lists]
      BY <1>0, <2>1 DEF TypeOK, Requests
    <3>2. /\ DOMAIN Append(repo["pack"], r.record) = 1 .. Len(repo["pack"]) + 1
          /\ Len(repo["pack"]) \in Nat /\ DOMAIN repo["pack"] = 1 .. Len(repo["pack"])
      BY <3>1, AppendFacts
    <3> QED
      BY <1>2, <2>1, <3>2 DEF Packs
  <2>2. CASE r.collection # "pack"
    BY <1>2, <2>2 DEF Packs, Collections
  <2> QED
    BY <2>1, <2>2
<1>8. ASSUME NEW c \in Collections, RestsOn(c), c \notin overtaken'
      PROVE  c \notin overtaken /\ repo'[c] = repo[c]
  <2>1. r.collection # c
    BY <1>0, <1>1, <1>8 DEF SyncInv
  <2> QED
    BY <1>2, <1>3, <1>8, <2>1
<1>9. Unseen'
  <2>1. "list" \notin overtaken' /\ pc' = "new_list" => repo'["list"] = <<>>
    BY <1>0, <1>8 DEF SyncInv, Unseen, RestsOn, Collections
  <2>2. "pack" \notin overtaken' /\ pc' = "new_pack" => repo'["pack"] = <<>>
    BY <1>0, <1>8 DEF SyncInv, Unseen, RestsOn, Collections
  <2>3. ASSUME "item" \notin overtaken', pc' = "add", Len(repo'["item"]) <= Cap
        PROVE  todo' \cap MembersInRepo(listUri)' = {}
    <3>1. "item" \notin overtaken /\ repo'["item"] = repo["item"]
      BY <1>0, <1>8, <2>3 DEF RestsOn, Collections
    <3>2. MembersInRepo(listUri)' = MembersInRepo(listUri)
      BY <1>0, <3>1 DEF MembersInRepo
    <3> QED
      BY <1>0, <2>3, <3>1, <3>2 DEF SyncInv, Unseen
  <2> QED
    BY <2>1, <2>2, <2>3 DEF Unseen
<1>10. \A c \in Collections : late'.collection # c
  BY <1>0 DEF NoRequest, Collections
<1> QED
  BY <1>0, <1>2, <1>4, <1>5, <1>6, <1>7, <1>9, <1>10 DEF SyncInv

LEMMA SyncNext == SyncInv /\ [Next]_vars => SyncInv'
BY AlumniKeep, ReadKeeps, CreateKeeps, AbortKeeps, LandKeeps DEF Next, SyncStep

LEMMA SyncAlways == Spec => []SyncInv
BY SyncInit, SyncNext, PTL DEF Spec

-----------------------------------------------------------------------------
(* The records and the variables of a sync keep their types; every item and
   every pack names a list that is there. *)
THEOREM TypeCorrect == Spec => []TypeOK
<1>1. SyncInv => TypeOK
  BY DEF SyncInv
<1> QED
  BY <1>1, SyncAlways, PTL

(* However syncs break off, there is one list, one pack, and nobody in a list
   twice, as long as no late createRecord has overtaken a listing and listings
   show all items ("Idempotent", starterpack.py:98). *)
THEOREM SyncsAreIdempotent == Spec => []OneOfEach
<1>1. SyncInv => OneOfEach
  BY DEF SyncInv
<1> QED
  BY <1>1, SyncAlways, PTL

(* A pack is only made for a list that is complete (sync of starterpack.py). *)
THEOREM PacksComeLast == Spec => []PackComesLast
<1>1. SyncInv => PackComesLast
  BY DEF SyncInv, PackComesLast
<1> QED
  BY <1>1, SyncAlways, PTL

(* A sync that comes to its end has put every alumnus in the list of a pack,
   unless there is a second list. *)
THEOREM FinishedSyncsAreComplete == Spec => []FinishedSyncIsComplete
<1>1. SyncInv => FinishedSyncIsComplete
  <2> SUFFICES ASSUME SyncInv, pc = "done", "list" \notin overtaken
               PROVE  \E p \in Packs : arg \subseteq MembersInRepo(repo["pack"][p].list)
    BY DEF FinishedSyncIsComplete
  <2>1. TypeOK /\ OneOfEach /\ arg \subseteq MembersInRepo(listUri) /\ Packs # {}
    BY DEF SyncInv
  <2>2. Len(repo["list"]) \in Nat /\ Lists = 1 .. Len(repo["list"]) /\ Len(repo["list"]) <= 1
    BY <2>1 DEF TypeOK, Lists, OneOfEach
  <2>3. listUri \in Lists
    BY <2>1 DEF TypeOK
  <2>4. ASSUME NEW p \in Packs PROVE repo["pack"][p].list \in Lists
    <3>1. repo["pack"] \in Seq([list : Lists]) /\ p \in 1 .. Len(repo["pack"])
      BY <2>1 DEF TypeOK, Packs
    <3>2. repo["pack"][p] \in [list : Lists]
      BY <3>1, ElementOfSeq
    <3> QED
      BY <3>2
  <2>5. \A p \in Packs : repo["pack"][p].list = listUri
    BY <2>2, <2>3, <2>4
  <2> QED
    BY <2>1, <2>5
<1> QED
  BY <1>1, SyncAlways, PTL
=============================================================================
