----------------------------- MODULE MCInitCalls -----------------------------
(* Up to two functions in a section, in either order. *)
EXTENDS InitCalls

CONSTANTS f, g

UpToTwo == {<<>>, <<f>>, <<f, g>>, <<g, f>>}
=============================================================================
