------------------------------- MODULE MCBind -------------------------------
(* Bind on a small instance.                                               *)
EXTENDS Bind
=============================================================================
