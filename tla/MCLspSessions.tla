--------------------------- MODULE MCLspSessions ---------------------------
(* Small instances of LspSessions for TLC. *)
EXTENDS LspSessions, TLC

CONSTANTS s1, s2, v1, i1

\* Every session from one visitor and one address: a page that is opened again
\* while its earlier session still ends.
OneVisitor == [s \in Sessions |-> v1]
OneIp == [s \in Sessions |-> i1]

=============================================================================
