---------------------------- MODULE QueryLabels ----------------------------
(* What the label server answers: queryLabels (server/query.go) and
   LabelEntries (server.go), both through dedupeAndNegateEntries
   (core_logic.go), on any table a writer, a migration or a clone may have
   left: with gaps, redundant entries and negations of nothing.  ListLabeler
   reads and writes this table.                                            *)
EXTENDS LabelLog, Sequences, SequencesExt

CONSTANT
    Wildcards     \* patterns that are no literal subject: "at://did/*", "foo"

ASSUME WildcardsAssumption == Wildcards \cap Uris = {}

VARIABLE log

(* A row appears: seq is new, but need not be the next. *)
Insert(seq, e) ==
    /\ seq \notin DOMAIN log
    /\ log' = WithRow(log, seq, e)

-----------------------------------------------------------------------------
KeyOf(e) == <<e.src, e.val, e.uri, e.cid>>

(* Bug for Decided: a negation does not hide what it negates. *)
DecidedByLabels(s, rows) == {KeyOf(log[t]) : t \in {u \in rows : u > s /\ ~ log[u].neg}}

(* The labels in the map "skip" when the loop, which goes from the newest row
   to the oldest, comes to the row s. *)
Decided(s, rows) == {KeyOf(log[t]) : t \in {u \in rows : u > s}}

Kept(rows) == {s \in rows : ~ log[s].neg /\ KeyOf(log[s]) \notin Decided(s, rows)}

(* ORDER BY seq *)
Place(s, rows) == Cardinality({t \in rows : t <= s})
Ordered(rows) == [i \in 1 .. Cardinality(rows) |-> CHOOSE s \in rows : Place(s, rows) = i]

DedupeAndNegateEntries(rows) == Reverse(Ordered(Kept(rows)))

Valid(patterns) == patterns # {} /\ patterns \cap Wildcards = {}

(* Bug for Selected: the query skips the negations. *)
SelectedPositive(patterns, sources) ==
    {s \in DOMAIN log : /\ log[s].uri \in patterns
                        /\ sources # {} => log[s].src \in sources
                        /\ ~ log[s].neg}

(* SELECT of the rows a query is about; no sources means every source. *)
Selected(patterns, sources) ==
    {s \in DOMAIN log : /\ log[s].uri \in patterns
                        /\ sources # {} => log[s].src \in sources}

Query(patterns, sources) ==
    IF Valid(patterns) THEN DedupeAndNegateEntries(Selected(patterns, sources))
    ELSE <<>>

LabelEntries(val) == DedupeAndNegateEntries({s \in DOMAIN log : log[s].val = val})

-----------------------------------------------------------------------------
(* The labels in force: the last entry of its label, and not a negation. *)
InForce == {s \in DOMAIN log : /\ ~ log[s].neg
                               /\ \A t \in DOMAIN log : SameKey(log[s], log[t]) => t <= s}

NewestFirst(answer) == \A i, j \in DOMAIN answer : i < j => answer[i] > answer[j]

(* A query is answered with the labels in force on the subjects and from the
   sources it names, each once and the newest first: selecting rows before
   negations are applied never brings back a negated label. *)
QueryServesLabelsInForce ==
    LET inForce == InForce IN
    \A patterns \in (SUBSET (Uris \cup Wildcards)) \ {{}}, sources \in SUBSET Srcs :
        LET answer == Query(patterns, sources) IN
        /\ NewestFirst(answer)
        /\ patterns \cap Wildcards = {} =>
             ToSet(answer) =
                {s \in inForce : log[s].uri \in patterns
                                 /\ (sources = {} \/ log[s].src \in sources)}
        /\ patterns \cap Wildcards # {} => answer = <<>>
=============================================================================
