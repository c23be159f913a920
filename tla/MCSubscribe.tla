----------------------------- MODULE MCSubscribe -----------------------------
(* Values for the constants of Subscribe.  The int64 of these runs has four
   bits: the cursors 8 .. 15 stand for those of 2^63 and more. *)
EXTENDS Subscribe, TLC

MCHalf == 8
MCAllCursors == 0 .. 2 * MCHalf - 1
MCFromStart == {0}
=============================================================================
