------------------------ MODULE MCHousekeepingChain ------------------------
(* Small instances of HousekeepingChain.  Six rows never run out: at most   *)
(* two chains, their successors and what one crash and one break leave.     *)
EXTENDS HousekeepingChain
=============================================================================
