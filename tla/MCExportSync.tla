---------------------------- MODULE MCExportSync ----------------------------
(* ExportSync on small instances.                                          *)
EXTENDS ExportSync

CONSTANTS e1

\* No name is the beginning of another.
MCDistinct == [e \in Exports |-> {}]

\* No export is named like a schema.
MCNoEponyms == [s \in Schemas |-> {}]
=============================================================================
