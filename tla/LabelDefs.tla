----------------------------- MODULE LabelDefs -----------------------------
(* The label definitions: a label server that starts takes the values it allows
   from its configuration and publishes the same in the service record of its
   account (account/labeldefs.go).  Others may edit that record too.

   The repository swaps a record only for the CID that was read, and the CID is
   the hash of the record, so here the record stands for it.  The server has
   the record in a struct of indigo: the fields this does not know are in the
   record of the repository only.                                           *)
EXTENDS Integers

CONSTANTS
    Configs,      \* configurations: listed values, defined values, with a password or not
    Policies,     \* policies that others may publish
    Fields,       \* the other fields of bsky.LabelerService, createdAt among them
    Extras,       \* fields that bsky.LabelerService does not know
    NoRecord,     \* the record that is not there, and its (absent) CID
    MaxEdits      \* bound on edits of others

VARIABLES
    config,       \* the configuration of the process
    allowed,      \* Server.allowedLabels
    record,       \* app.bsky.labeler.service
    seen,         \* resp of UpdateLabelDefs
    step,         \* "down", "read", "put", "ready" (to listen)
    edits,        \* edits of others so far
    touched       \* others have edited the record since it was read

vars == <<config, allowed, record, seen, step, edits, touched>>

Records == [policies : Policies, fields : Fields, extras : SUBSET Extras]

Init ==
    /\ config \in Configs
    /\ allowed = {}
    /\ record \in {NoRecord} \cup Records
    /\ seen = NoRecord
    /\ step = "down"
    /\ edits = 0 /\ touched = FALSE

(* UpdateLabelValues: what is defined is also listed. *)
LabelValues(c) == c.values \cup c.definitions

(* Bug for PoliciesOf: the values are published as they are listed. *)
PoliciesAsListed(c) == [values |-> c.values, definitions |-> c.definitions]
PoliciesOf(c) == [values |-> LabelValues(c), definitions |-> c.definitions]

Publishes(c) == c.password /\ c.definitions # {}

-----------------------------------------------------------------------------
(* SetAllowedLabels; perhaps the configuration has changed since the last start. *)
SetAllowedLabels ==
    /\ step = "down"
    /\ config' \in Configs
    /\ allowed' = LabelValues(config')
    /\ step' = IF Publishes(config') THEN "read" ELSE "ready"
    /\ UNCHANGED <<record, seen, edits, touched>>

UpToDate == record # NoRecord /\ record.policies = PoliciesOf(config)

GetRecord ==
    /\ step = "read"
    /\ seen' = record
    /\ step' = IF UpToDate THEN "ready" ELSE "put"
    /\ touched' = FALSE
    /\ UNCHANGED <<config, allowed, record, edits>>

(* Bug for Swaps: the record is put without the CID. *)
SwapsAnything == TRUE
Swaps == record = seen

(* The struct of the record that was read, or a new one, is encoded again with
   the policies of the configuration: what the struct does not know is gone. *)
Put ==
    /\ Swaps
    /\ \E fields \in IF seen = NoRecord THEN Fields ELSE {seen.fields} :
          record' = [policies |-> PoliciesOf(config), fields |-> fields, extras |-> {}]

PutRecord ==
    /\ step = "put"
    /\ Put
    /\ step' = "ready"
    /\ UNCHANGED <<config, allowed, seen, edits, touched>>

(* The process ends: an error, with which the start is over, or a crash. *)
End == step' = "down" /\ allowed' = {} /\ seen' = NoRecord /\ UNCHANGED <<config, edits, touched>>

PutRefused == step = "put" /\ ~ Swaps /\ End /\ UNCHANGED record
PutUnanswered == step = "put" /\ Put /\ End
Stop == End /\ UNCHANGED record

Edit ==
    /\ edits < MaxEdits
    /\ edits' = edits + 1
    /\ record' \in Records \ {record}
    /\ touched' = TRUE
    /\ UNCHANGED <<config, allowed, seen, step>>

-----------------------------------------------------------------------------
(* A server that listens allows exactly the values that its account declares,
   however often the configuration changed and whatever starts broke off, as
   long as nobody else has edited the record since this start read it.  (A
   configuration without password or definitions publishes nothing.) *)
AllowedIsPublished ==
    step = "ready" /\ Publishes(config) /\ ~ touched =>
        record # NoRecord /\ record.policies.values = allowed

(* A start of the server overwrites only what it has read.  After an edit of
   whatever part (policies, known or unknown fields), it puts nothing unless
   the record is again as it was read; and then the known fields besides the
   policies are carried over.  (That it replaces policies it has read is its
   purpose; it also drops the unknown fields of a record that it replaces.) *)
UnreadEditsKept ==
    [][ edits' = edits => /\ touched => record = seen
                          /\ record # NoRecord => record'.fields = record.fields ]_record
=============================================================================
