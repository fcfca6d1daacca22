-------------------------- MODULE MCProviderAccess --------------------------
(* ProviderAccess on a small instance.                                     *)
EXTENDS ProviderAccess
=============================================================================
