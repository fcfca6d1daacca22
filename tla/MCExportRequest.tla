--------------------------- MODULE MCExportRequest ---------------------------
(* ExportRequest on a small instance.                                      *)
EXTENDS ExportRequest
CONSTANTS r1, r2, c1, c2

\* Two resources of one scope, or of two: the others follow by exchanging the two
\* resources, or the two scopes.
Alike == [r \in Resources |-> c1]
OneOrTwoScopes == {Alike, [Alike EXCEPT ![r2] = c2]}

OneScopeOnly == {Alike}
=============================================================================
