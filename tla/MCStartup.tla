----------------------------- MODULE MCStartup -----------------------------
(* Three consoles, two of them of index 0, and a function of another kind. *)
EXTENDS Startup

CONSTANTS a, b, c, timer_init

Indices == (a :> 0) @@ (b :> 0) @@ (c :> 1)

(* Alone in a section, two of one index in either order, or unlike pairs.  *)
Sections ==
    {<<>>} \cup {<<f>> : f \in {a, b, c, timer_init}}
    \cup {<<a, b>>, <<b, a>>, <<timer_init, a>>, <<timer_init, b>>, <<c, timer_init>>}

(* The two consoles of index 0 can be told apart by nothing.               *)
Alike == Permutations({a, b})
=============================================================================
