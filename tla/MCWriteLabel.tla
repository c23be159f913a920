---------------------------- MODULE MCWriteLabel ----------------------------
(* Values for the constants of WriteLabel: two labels that differ in one part
   of the key, one of them asserted, negated and asserted with an expiry. *)
EXTENDS WriteLabel, TLC

CONSTANTS labeler, top, eligible, post, cid1, cid2, never, soon

MCSrcs == {labeler}
MCVals == {top, eligible}
MCUris == {post}
MCCids == {cid1, cid2}
MCExps == {never, soon}

Post(val, cid, exp, neg) ==
    [src |-> NoSrc, val |-> val, uri |-> post, cid |-> cid, exp |-> exp, neg |-> neg]

(* One label through its whole life, and another version of the subject. *)
MCRequests == { Post(top, cid1, never, FALSE), Post(top, cid1, never, TRUE),
                Post(top, cid1, soon, FALSE), Post(top, cid2, never, FALSE) }

(* One label, asserted and negated, and another version of the subject. *)
MCFewRequests == { Post(top, cid1, never, FALSE), Post(top, cid1, never, TRUE),
                   Post(top, cid2, never, FALSE) }

MCAllAllowed == {{}}
MCAllOrOther == {{}, {eligible}}

Symmetry == Permutations(Writers)
=============================================================================
