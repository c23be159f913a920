----------------------------- MODULE MCLabeler -----------------------------
(* Values for the constants of Labeler: one label asserted and negated, and a
   second one. *)
EXTENDS Labeler, TLC

CONSTANTS labeler, top, post, cid1, cid2, never

MCSrcs == {labeler}
MCVals == {top}
MCUris == {post}
MCCids == {cid1, cid2}
MCExps == {never}
MCHalf == 8

Post(cid, neg) ==
    [src |-> NoSrc, val |-> top, uri |-> post, cid |-> cid, exp |-> never, neg |-> neg]

MCRequests == { Post(cid1, FALSE), Post(cid1, TRUE), Post(cid2, FALSE) }
MCAllAllowed == {{}}
=============================================================================
