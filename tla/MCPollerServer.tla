--------------------------- MODULE MCPollerServer ---------------------------
(* Values for the constants of PollerServer: two badges and two handlers. *)
EXTENDS PollerServer

CONSTANTS labeler, current, alumni, nocid, never

MCSrcs == {labeler}
MCVals == {current, alumni}
MCUris == {Account}
MCCids == {nocid}
MCExps == {never}
MCRequests == {Post(val, neg) : val \in MCVals, neg \in BOOLEAN}
MCAllAllowed == {{}}

ASSUME BadgesAssumption == PollerServerAssumption
=============================================================================
