------------------------- MODULE EligibleSweep_proofs -------------------------
(* Theorems about the eligible-post sweep: for any posts and accounts, any time
   and any windows, what the poller keeps track of and what a sweep achieves. *)
EXTENDS EligibleSweep, TLAPS

LEMMA SweepInit == Init => SweepInv
<1> SUFFICES ASSUME Init PROVE SweepInv
  OBVIOUS
<1>1. now \in 0 .. MaxNow
  BY SweepAssumption DEF Init
<1>2. created \in [Posts -> {Never} \cup 0 .. now] /\ {crowned, known} \subseteq {Never}
  BY DEF Init
<1>3. cutoff \in Int /\ {clean, forgot} \subseteq BOOLEAN
  <2>1. cutoff \in Int
    BY DEF Init
  <2>2. clean \in BOOLEAN /\ forgot \in BOOLEAN
    BY DEF Init
  <2> QED
    BY <2>1, <2>2
<1>4. labels \cup file \cup previous \cup desired \cup failed \cup heal \cup seen
        \subseteq {p \in Posts : created[p] # Never}
  BY DEF Init
<1>5. {crowned, known} \subseteq {Never} \cup 0 .. now
  BY <1>2
<1>6. /\ pc = "idle" /\ todo = {} /\ flaky \subseteq Accounts
  BY DEF Init
<1>7. TypeOK
  BY <1>1, <1>2, <1>3, <1>4, <1>5, <1>6 DEF TypeOK
<1> QED
  BY <1>7 DEF Init, SweepInv, TracksLabels, CleanSoFar

(* What goes on between sweeps. *)
LEMMA WorldKeeps ==
    ASSUME SweepInv, World \/ LoseFile \/ ReadCrownings
    PROVE  SweepInv'
<1>0. TypeOK /\ pc = "idle" /\ todo = {} /\ MaxNow \in Nat
  BY SweepAssumption DEF SweepInv, TypeOK, World, LoseFile, ReadCrownings
<1>1. CASE World
  <2>1. UNCHANGED <<labels, file, known, pc, sweep, forgot>>
    BY <1>1 DEF World
  <2>2. CASE Tick
    <3>1. now' \in 0 .. MaxNow /\ now' = now + 1 /\ now \in Nat
      BY <1>0, <2>2 DEF Tick, TypeOK
    <3>2. UNCHANGED <<created, crowned>>
      BY <2>2 DEF Tick
    <3>3. 0 .. now \subseteq 0 .. now'
      BY <3>1
    <3>4. created' \in [Posts -> {Never} \cup 0 .. now']
      BY <1>0, <3>2, <3>3 DEF TypeOK
    <3> QED
      BY <1>0, <2>1, <3>1, <3>2, <3>3, <3>4
         DEF sweep, SweepInv, TypeOK, TracksLabels, CleanSoFar
  <2>3. CASE Crowning
    <3>1. now \in 0 .. now
      BY <1>0 DEF TypeOK
    <3> QED
      BY <1>0, <2>1, <2>3, <3>1
         DEF Crowning, sweep, SweepInv, TypeOK, TracksLabels, CleanSoFar
  <2>4. CASE Withdraw
    <3>1. crowned' \in {Never} \cup 0 .. now /\ UNCHANGED <<now, created>>
      BY <2>4 DEF Withdraw
    <3>2. TypeOK'
      BY <1>0, <2>1, <3>1 DEF sweep, TypeOK
    <3> QED
      BY <1>0, <2>1, <3>1, <3>2 DEF sweep, SweepInv, TracksLabels, CleanSoFar
  <2>5. CASE \E p \in Posts : CreatePost(p)
    <3>1. PICK p \in Posts : CreatePost(p)
      BY <2>5
    <3>2. now \in 0 .. now
      BY <1>0 DEF TypeOK
    <3>3. /\ created' \in [Posts -> {Never} \cup 0 .. now] /\ now' = now /\ crowned' = crowned
          /\ \A q \in Posts : created[q] # Never => created'[q] # Never
      BY <1>0, <3>1, <3>2 DEF CreatePost, TypeOK
    <3>4. {q \in Posts : created[q] # Never} \subseteq {q \in Posts : created'[q] # Never}
      BY <3>3
    <3>5. TypeOK'
      BY <1>0, <2>1, <3>3, <3>4 DEF sweep, TypeOK
    <3> QED
      BY <1>0, <2>1, <3>5 DEF sweep, SweepInv, TracksLabels, CleanSoFar
  <2> QED
    BY <1>1, <2>2, <2>3, <2>4, <2>5 DEF World
<1>2. CASE LoseFile
  BY <1>0, <1>2 DEF LoseFile, world, sweep, SweepInv, TypeOK, TracksLabels, CleanSoFar
<1>3. CASE ReadCrownings
  BY <1>0, <1>3 DEF ReadCrownings, world, sweep, SweepInv, TypeOK, TracksLabels, CleanSoFar
<1> QED
  BY <1>1, <1>2, <1>3

(* A sweep that starts knows of every label that the file names, and plans
   nothing against an account that it could not read. *)
LEMMA FetchKeeps ==
    ASSUME SweepInv,
           NEW under \in SUBSET Accounts, NEW unknown \in SUBSET Accounts,
           NEW unread \in SUBSET under, NEW hidden \in SUBSET Posts,
           under \cap unknown = {}, Fetch(under, unread, unknown, hidden)
    PROVE  SweepInv'
<1>0. TypeOK /\ pc = "idle" /\ now \in Int /\ known \in Int
      /\ {JudgeDelay, Lookback, HealWindow} \subseteq Nat
  BY SweepAssumption DEF SweepInv, TypeOK, Fetch, Never
<1>1. /\ UNCHANGED <<now, created, crowned, labels, file, known, forgot>>
      /\ pc' = "negate" /\ previous' = file /\ failed' = {} /\ cutoff' = EligibleCutoff
      /\ todo' = file \ desired' /\ flaky' = unknown \cup unread
      /\ clean' \in BOOLEAN
  BY DEF Fetch, world
<1>2. seen' \subseteq {p \in Posts : created[p] # Never /\ AuthorOf[p] \in under \ unread}
  BY DEF Fetch
<1>3. heal' \subseteq seen'
  BY DEF Fetch
<1>4. CarriedOver(unknown, unread) \subseteq desired'
      /\ desired' \subseteq seen' \cup CarriedOver(unknown, unread)
  BY DEF Fetch
<1>5. CarriedOver(unknown, unread) \subseteq file
  BY DEF CarriedOver
<1>6. cutoff' \in Int
  BY <1>0, <1>1 DEF EligibleCutoff, Later, Never
<1>7. seen' \cup heal' \cup desired' \subseteq {p \in Posts : created[p] # Never}
  BY <1>0, <1>2, <1>3, <1>4, <1>5 DEF TypeOK
<1>8. TypeOK'
  <2>1. flaky' \subseteq Accounts
    BY <1>1
  <2> QED
    BY <1>0, <1>1, <1>6, <1>7, <2>1 DEF TypeOK
<1>9. ~ forgot' => TracksLabels'
  <2>1. ~ forgot => labels \subseteq file
    BY <1>0 DEF SweepInv, TracksLabels
  <2> QED
    BY <1>1, <2>1 DEF TracksLabels
<1>10. CleanSoFar'
  BY <1>1 DEF CleanSoFar
<1>11. ASSUME NEW p \in Posts, AuthorOf[p] \in flaky'
       PROVE  p \notin heal' /\ (p \in previous' => p \in desired')
  <2>1. p \notin heal'
    BY <1>1, <1>2, <1>3, <1>11
  <2>2. p \in file => p \in CarriedOver(unknown, unread)
    BY <1>1, <1>11 DEF CarriedOver
  <2> QED
    BY <1>1, <1>4, <2>1, <2>2
<1> QED
  BY <1>8, <1>9, <1>10, <1>11 DEF SweepInv

(* The outcome of a POST. *)
LEMMA PostOutcome ==
    ASSUME NEW after, NEW ok \in BOOLEAN, Post(after, ok), clean \in BOOLEAN
    PROVE  /\ labels' = after \/ (labels' = labels /\ ~ ok)
           /\ clean' \in BOOLEAN /\ (clean' => clean /\ ok)
BY DEF Post

LEMMA NegateKeeps ==
    ASSUME SweepInv, NEW p \in Posts, NEW ok \in BOOLEAN, NegateLabel(p, ok)
    PROVE  SweepInv'
<1>0. /\ TypeOK /\ pc = "negate" /\ p \in todo /\ p \in previous /\ p \notin desired
      /\ todo \subseteq previous \ desired /\ clean \in BOOLEAN
  BY DEF SweepInv, TypeOK, NegateLabel
<1>1. /\ UNCHANGED <<now, created, crowned, file, known, pc, cutoff, previous, desired, heal,
                     flaky, seen, forgot>>
      /\ todo' = todo \ {p}
      /\ failed' = IF ok THEN failed ELSE failed \cup {p}
  BY DEF NegateLabel, world, FailedNegate
<1>2. /\ labels' = labels \ {p} \/ (labels' = labels /\ ~ ok)
      /\ clean' \in BOOLEAN /\ (clean' => clean /\ ok)
  BY <1>0, PostOutcome DEF NegateLabel
<1>3. TypeOK'
  BY <1>0, <1>1, <1>2 DEF TypeOK
<1>4. ~ forgot' => TracksLabels'
  <2>1. ~ forgot => labels \subseteq desired \cup failed \cup todo
    BY <1>0 DEF SweepInv, TracksLabels
  <2> QED
    BY <1>0, <1>1, <1>2, <2>1 DEF TracksLabels
<1>5. clean' => CleanSoFar'
  <2>1. clean => labels \cap (previous \ desired) \subseteq todo
    BY <1>0 DEF SweepInv, CleanSoFar
  <2> QED
    BY <1>0, <1>1, <1>2, <2>1 DEF CleanSoFar
<1> QED
  BY <1>1, <1>3, <1>4, <1>5 DEF SweepInv

LEMMA AssertKeeps ==
    ASSUME SweepInv, NEW p \in Posts, NEW ok \in BOOLEAN, AssertLabel(p, ok)
    PROVE  SweepInv'
<1>0. TypeOK /\ pc = "assert" /\ p \in todo /\ p \in desired /\ todo \subseteq desired
      /\ clean \in BOOLEAN
  BY DEF SweepInv, TypeOK, AssertLabel
<1>1. /\ UNCHANGED <<now, created, crowned, file, known, pc, cutoff, previous, desired, failed,
                     heal, flaky, seen, forgot>>
      /\ todo' = todo \ {p}
  BY DEF AssertLabel, world
<1>2. /\ labels' = labels \cup {p} \/ (labels' = labels /\ ~ ok)
      /\ clean' \in BOOLEAN /\ (clean' => clean /\ ok)
  BY <1>0, PostOutcome DEF AssertLabel
<1>3. TypeOK'
  BY <1>0, <1>1, <1>2 DEF TypeOK
<1>4. ~ forgot' => TracksLabels'
  <2>1. ~ forgot => labels \subseteq desired \cup failed
    BY <1>0 DEF SweepInv, TracksLabels
  <2> QED
    BY <1>0, <1>1, <1>2, <2>1 DEF TracksLabels
<1>5. clean' => CleanSoFar'
  <2>1. clean => labels \cap (previous \ desired) = {} /\ desired \ todo \subseteq labels
    BY <1>0 DEF SweepInv, CleanSoFar
  <2> QED
    BY <1>0, <1>1, <1>2, <2>1 DEF CleanSoFar
<1> QED
  BY <1>1, <1>3, <1>4, <1>5 DEF SweepInv

LEMMA HealKeeps ==
    ASSUME SweepInv, NEW p \in Posts, NEW ok \in BOOLEAN, Heal(p, ok)
    PROVE  SweepInv'
<1>0. /\ TypeOK /\ pc = "heal" /\ p \in todo /\ p \in heal /\ p \notin desired
      /\ todo \subseteq heal \ desired /\ clean \in BOOLEAN
  BY DEF SweepInv, TypeOK, Heal
<1>1. /\ UNCHANGED <<now, created, crowned, file, known, pc, cutoff, previous, desired, failed,
                     heal, flaky, seen, forgot>>
      /\ todo' = todo \ {p}
  BY DEF Heal, world
<1>2. /\ labels' = labels \ {p} \/ (labels' = labels /\ ~ ok)
      /\ clean' \in BOOLEAN /\ (clean' => clean /\ ok)
  BY <1>0, PostOutcome DEF Heal
<1>3. TypeOK'
  BY <1>0, <1>1, <1>2 DEF TypeOK
<1>4. ~ forgot' => TracksLabels'
  <2>1. ~ forgot => labels \subseteq desired \cup failed
    BY <1>0 DEF SweepInv, TracksLabels
  <2> QED
    BY <1>0, <1>1, <1>2, <2>1 DEF TracksLabels
<1>5. clean' => CleanSoFar'
  <2>1. clean => /\ labels \cap (previous \ desired) = {} /\ desired \subseteq labels
                 /\ labels \cap (heal \ desired) \subseteq todo
    BY <1>0 DEF SweepInv, CleanSoFar
  <2> QED
    BY <1>0, <1>1, <1>2, <2>1 DEF CleanSoFar
<1> QED
  BY <1>1, <1>3, <1>4, <1>5 DEF SweepInv

LEMMA StartLoopKeeps ==
    ASSUME SweepInv, StartAsserting \/ StartHealing
    PROVE  SweepInv'
<1>0. TypeOK
  BY DEF SweepInv
<1>1. CASE StartAsserting
  <2>1. TypeOK'
    BY <1>0, <1>1 DEF StartAsserting, AssertTodo, world, TypeOK
  <2> QED
    BY <1>1, <2>1 DEF StartAsserting, AssertTodo, world, SweepInv, TracksLabels, CleanSoFar
<1>2. CASE StartHealing
  <2>1. TypeOK'
    BY <1>0, <1>2 DEF StartHealing, HealTodo, world, TypeOK
  <2> QED
    BY <1>2, <2>1 DEF StartHealing, HealTodo, world, SweepInv, TracksLabels, CleanSoFar
<1> QED
  BY <1>1, <1>2

(* The end of a sweep, in any of the three ways. *)
LEMMA EndKeeps ==
    ASSUME SweepInv, Save \/ SaveFails \/ Crash
    PROVE  SweepInv'
<1>0. TypeOK
  BY DEF SweepInv
<1>1. /\ UNCHANGED <<now, created, crowned, labels>> /\ known' \in {known, Never}
      /\ file' = file \/ file' = desired \cup failed
      /\ forgot' = TRUE \/ (forgot' = forgot /\ Save)
      /\ EndSweep
  BY DEF Save, SaveFails, Crash, world
<1>2. TypeOK'
  <2>1. file' \subseteq {p \in Posts : created[p] # Never}
    BY <1>0, <1>1 DEF TypeOK
  <2>2. known' \in {Never} \cup 0 .. now
    BY <1>0, <1>1 DEF TypeOK
  <2>3. cutoff' \in Int /\ {clean', forgot'} \subseteq BOOLEAN
    <3>1. cutoff' \in Int
      BY <1>1 DEF EndSweep
    <3>2. clean' \in BOOLEAN /\ forgot \in BOOLEAN
      BY <1>0, <1>1 DEF EndSweep, TypeOK
    <3>3. forgot' \in BOOLEAN
      BY <1>1, <3>2
    <3> QED
      BY <3>1, <3>2, <3>3
  <2>4. /\ pc' = "idle" /\ todo' = {} /\ flaky' = {}
        /\ previous' = {} /\ desired' = {} /\ failed' = {} /\ heal' = {} /\ seen' = {}
    BY <1>1 DEF EndSweep
  <2>5. (labels \cup file \cup previous \cup desired \cup failed \cup heal \cup seen)'
          \subseteq {p \in Posts : created'[p] # Never}
    BY <1>0, <1>1, <2>1, <2>4 DEF TypeOK
  <2>6. /\ now' \in 0 .. MaxNow /\ created' \in [Posts -> {Never} \cup 0 .. now']
        /\ {crowned', known'} \subseteq {Never} \cup 0 .. now'
    BY <1>0, <1>1, <2>2 DEF TypeOK
  <2> QED
    BY <2>3, <2>4, <2>5, <2>6 DEF TypeOK
<1>3. ~ forgot' => TracksLabels'
  <2>1. SUFFICES ASSUME Save, ~ forgot PROVE TracksLabels'
    BY <1>1
  <2>2. labels \subseteq desired \cup failed
    BY <2>1 DEF Save, Done, SweepInv, TracksLabels
  <2> QED
    BY <1>1, <2>1, <2>2 DEF Save, EndSweep, TracksLabels
<1> QED
  BY <1>1, <1>2, <1>3 DEF EndSweep, SweepInv, CleanSoFar

LEMMA SweepNext == SweepInv /\ [Next]_vars => SweepInv'
<1> SUFFICES ASSUME SweepInv, [Next]_vars PROVE SweepInv'
  OBVIOUS
<1>1. CASE UNCHANGED vars
  BY <1>1 DEF vars, world, sweep, SweepInv, TypeOK, TracksLabels, CleanSoFar
<1>2. CASE \E under, unknown \in SUBSET Accounts, hidden \in SUBSET Posts :
              \E unread \in SUBSET under :
                  under \cap unknown = {} /\ Fetch(under, unread, unknown, hidden)
  BY <1>2, FetchKeeps
<1>3. CASE \E p \in Posts, ok \in BOOLEAN :
              NegateLabel(p, ok) \/ AssertLabel(p, ok) \/ Heal(p, ok)
  BY <1>3, NegateKeeps, AssertKeeps, HealKeeps
<1> QED
  BY <1>1, <1>2, <1>3, WorldKeeps, StartLoopKeeps, EndKeeps DEF Next

LEMMA SweepAlways == Spec => []SweepInv
BY SweepInit, SweepNext, PTL DEF Spec

-----------------------------------------------------------------------------
(* The variables of the sweep keep their types. *)
THEOREM TypeCorrect == Spec => []TypeOK
<1>1. SweepInv => TypeOK
  BY DEF SweepInv
<1> QED
  BY <1>1, SweepAlways, PTL

(* Without a crash, a lost file or a failed save, every label that is up is in
   the state file when a sweep has ended (eligible_sweep of poller.py). *)
THEOREM NoLabelIsStranded == Spec => []NothingStranded
<1>1. SweepInv => NothingStranded
  BY DEF SweepInv, TracksLabels, NothingStranded
<1> QED
  BY <1>1, SweepAlways, PTL

(* A sweep in which nothing fails leaves every post it knows of as the rules
   want it, whatever the sweeps before it left. *)
THEOREM CleanSweepsAreExact == Spec => []CleanSweepIsExact
<1>1. SweepInv => CleanSweepIsExact
  BY DEF SweepInv, CleanSoFar, CleanSweepIsExact, Done
<1> QED
  BY <1>1, SweepAlways, PTL

(* No step of a sweep takes a label from an account that it could not read. *)
THEOREM FlakyAccountsKeepLabels == Spec => FlakyAccountKeepsLabels
<1> DEFINE Kept == \A p \in labels \ labels' : AuthorOf[p] \notin flaky
<1>1. SweepInv /\ [Next]_vars => [Kept]_labels
  <2> SUFFICES ASSUME SweepInv, [Next]_vars, NEW p \in labels \ labels'
               PROVE  AuthorOf[p] \notin flaky
    OBVIOUS
  <2>1. PICK q \in Posts, ok \in BOOLEAN :
            NegateLabel(q, ok) \/ AssertLabel(q, ok) \/ Heal(q, ok)
    BY DEF Next, vars, World, LoseFile, ReadCrownings, Fetch, StartAsserting, StartHealing,
           Save, SaveFails, Crash
  <2>2. ~ AssertLabel(q, ok) /\ p = q
    BY <2>1 DEF NegateLabel, AssertLabel, Heal, Post
  <2>3. p \in heal \/ (p \in previous /\ p \notin desired)
    BY <2>1, <2>2 DEF NegateLabel, Heal, SweepInv, TypeOK
  <2> QED
    BY <2>2, <2>3 DEF SweepInv
<1> HIDE DEF Kept
<1>2. Spec => [][Kept]_labels
  BY <1>1, SweepAlways, PTL DEF Spec
<1> QED
  BY <1>2 DEF FlakyAccountKeepsLabels, Kept
=============================================================================
