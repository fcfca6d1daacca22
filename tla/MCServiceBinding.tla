-------------------------- MODULE MCServiceBinding --------------------------
(* ServiceBinding on a small instance.                                     *)
EXTENDS ServiceBinding
=============================================================================
