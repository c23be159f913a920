------------------------------ MODULE Startup ------------------------------
(* The start of cmd/labeler as a whole: NewWithConfig, with the migration of an
   older database (Handover; its "serving" is that NewWithConfig has returned),
   then the allowed values and the label definitions (LabelDefs), and only then
   the listeners.  An error in any of them ends the process, and the container
   starts it again; so does a crash. *)
EXTENDS Handover

CONSTANTS
    Configs,      \* configurations: listed values, defined values, with a password or not
    Policies,     \* policies that others may publish
    Fields,       \* the other known fields of the service record
    Extras,       \* fields of it that the server does not know
    NoRecord,     \* the record that is not there
    MaxEdits      \* bound on edits of others

VARIABLES config, allowed, record, seen, step, edits, touched

D == INSTANCE LabelDefs

AllPolicies == Policies \cup {D!PoliciesOf(c) : c \in Configs}
AllRecords == [policies : AllPolicies, fields : Fields, extras : SUBSET Extras]

ASSUME StartupAssumption ==
    /\ Configs # {} /\ Fields # {}
    /\ NoRecord \notin AllRecords
    /\ MaxEdits \in Nat

database == <<given, db, pc, todo, failed, setvalDone>>
declaring == <<config, allowed, record, seen, step, edits, touched>>

StartupInit == Init /\ D!Init

(* NewWithConfig, and cmd/clone. *)
OpenDatabase ==
    /\ step = "down"
    /\ \/ StartServing \/ StartRefused \/ StartMigration
       \/ ImportBatch \/ EndImport \/ SetVal \/ SetValFails
       \/ Clone
    /\ UNCHANGED declaring

Declare ==
    /\ pc = "serving"
    /\ D!SetAllowedLabels \/ D!GetRecord \/ D!PutRecord
    /\ UNCHANGED database

DeclareFails == (D!PutRefused \/ D!PutUnanswered) /\ Crash

Listen ==
    /\ step = "ready"
    /\ AddLabel \/ AddLabelFails
    /\ UNCHANGED declaring

Die == Crash /\ D!Stop

EditRecord == D!Edit /\ UNCHANGED database

StartupNext ==
    \/ OpenDatabase
    \/ Declare \/ DeclareFails
    \/ Listen
    \/ Die
    \/ EditRecord

StartupSpec == StartupInit /\ [][StartupNext]_<<database, declaring>>

-----------------------------------------------------------------------------
(* What the label definitions rest on: a process that is past SetAllowedLabels
   allows the values of its configuration. *)
DeclaringInv ==
    /\ config \in Configs
    /\ {record, seen} \subseteq {NoRecord} \cup AllRecords
    /\ step \in {"down", "read", "put", "ready"}
    /\ step # "down" => allowed = D!LabelValues(config)
    /\ edits \in Nat /\ touched \in BOOLEAN
    /\ D!AllowedIsPublished

(* What a server that listens allows is what its account declares: whatever
   breaks off a start, and however the configuration changes from one start to
   the next (UpdateLabelValues, SetAllowedLabels, UpdateLabelDefs). *)
AllowedIsPublished == D!AllowedIsPublished

(* An edit of the service record that a start of the server has not read is
   never overwritten by it, in the policies, the fields it knows or any other:
   UpdateLabelDefs swaps the record it has read, or none where there was none.
   Of a record that it has read it keeps the known fields besides policies. *)
UnreadEditsKept == D!UnreadEditsKept
=============================================================================
