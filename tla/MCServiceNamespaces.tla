------------------------ MODULE MCServiceNamespaces ------------------------
(* ServiceNamespaces on a small instance.                                  *)
EXTENDS ServiceNamespaces
=============================================================================
