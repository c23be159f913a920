--------------------------- MODULE MCCrownMirror ---------------------------
(* Values for the constants of CrownMirror: crownings with a quoted post and
   without, with more likes and with fewer. *)
EXTENDS CrownMirror

MCWins == {[likes |-> 1, post |-> NoPost], [likes |-> 2, post |-> 1]}
=============================================================================
