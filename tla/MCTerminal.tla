----------------------------- MODULE MCTerminal -----------------------------
(* A report with a character on either side of its end of line. *)
EXTENDS Terminal

PanicReport == <<"P", "Q", "\n", "R">>
=============================================================================
