-------------------------- MODULE MCEligibleSweep --------------------------
(* Values for the constants of EligibleSweep: one unit of time is 12 hours. *)
EXTENDS EligibleSweep, TLC

CONSTANTS post1, post2, account1, account2

MCAuthorOf == (post1 :> account1) @@ (post2 :> account2)
MCAuthorOfOne == post1 :> account1
=============================================================================
