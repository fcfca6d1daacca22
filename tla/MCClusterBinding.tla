-------------------------- MODULE MCClusterBinding --------------------------
(* ClusterBinding on a small instance.                                     *)
EXTENDS ClusterBinding
=============================================================================
