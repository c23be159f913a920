--------------------------- MODULE MCListLabeler ---------------------------
(* Values for the constants of ListLabeler: two accounts and a post, a listed
   label and another, the server and another source. *)
EXTENDS ListLabeler

CONSTANTS labeler, imported, top, other, account1, account2, post, cid

MCSrcs == {labeler, imported}
MCVals == {top, other}
MCUris == {account1, account2, post}
MCAccounts == {account1, account2}
MCListed == {top}
MCAllowed == {{}, {other}}
MCCids == {NoCid, cid}
MCExps == {NoExp}

(* An entry of the list's label, and what differs from it in one component. *)
Base == [src |-> labeler, val |-> top, uri |-> account1, cid |-> NoCid,
         exp |-> NoExp, neg |-> FALSE]
MCImports == { Base, [Base EXCEPT !.neg = TRUE], [Base EXCEPT !.src = imported],
               [Base EXCEPT !.val = other], [Base EXCEPT !.uri = post],
               [Base EXCEPT !.uri = account2], [Base EXCEPT !.cid = cid] }
=============================================================================
