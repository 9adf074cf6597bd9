----------------------------- MODULE MCLspClient -----------------------------
(* LspClient for TLC: two sessions at a time, and two names in two spellings. *)
EXTENDS LspClient

CONSTANTS l1, l2

FourNames == {"main.c", "Main.c", "util.c", "Util.c"}

LowerOfFour ==
    [name \in FourNames |->
        CASE name = "Main.c" -> "main.c" [] name = "Util.c" -> "util.c" [] OTHER -> name]

=============================================================================
