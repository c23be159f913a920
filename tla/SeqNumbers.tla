----------------------------- MODULE SeqNumbers -----------------------------
(* Sequence numbers: the primary key of the table "log", and the cursor of a
   subscriber. *)
EXTENDS Integers, FiniteSets

Seqs == Nat \ {0}

(* The greatest number of a set, 0 if there is none: what
   SELECT seq ORDER BY seq DESC LIMIT 1 leaves in a variable that was 0. *)
IsTop(top, S) == /\ top \in S \cup {0}
                 /\ \A s \in S : s <= top
Top(S) == CHOOSE top \in S \cup {0} : IsTop(top, S)
=============================================================================
