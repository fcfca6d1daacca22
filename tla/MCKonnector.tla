----------------------------- MODULE MCKonnector -----------------------------
(* Konnector on small instances.                                           *)
EXTENDS Konnector

CONSTANTS b1, b2, s1, s2

\* Each binding has a secret of its own.
MCOwn == [b \in {b1, b2} |-> IF b = b1 THEN s1 ELSE s2]
=============================================================================
