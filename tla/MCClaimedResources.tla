------------------------- MODULE MCClaimedResources -------------------------
(* ClaimedResources on a small instance.                                   *)
EXTENDS ClaimedResources
=============================================================================
