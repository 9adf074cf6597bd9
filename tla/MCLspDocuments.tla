--------------------------- MODULE MCLspDocuments ---------------------------
(* LspDocuments for TLC: a header and a translation unit. *)
EXTENDS LspDocuments

=============================================================================
