---------------------------- MODULE MCObjectSync ----------------------------
(* ObjectSync on small instances.                                          *)
EXTENDS ObjectSync

\* The user alternates between two values of the fields, so that the third write
\* restores the first one.
MCContent(n) == [f \in FieldNames |-> n % 2]
=============================================================================
