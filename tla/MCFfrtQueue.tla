----------------------------- MODULE MCFfrtQueue -----------------------------
(* An instance of FfrtQueue for TLC. *)
EXTENDS FfrtQueue, TLC

CONSTANTS h1, h2, h3, r1, r2, e1, e2

\* Two handlers share a queue.
TwoRunners == (h1 :> r1) @@ (h2 :> r1) @@ (h3 :> r2)

\* 2 is the end of 12 and of -2.
MCParams == {2, -2}

\* Behind a bar, the longest ends in the first, and in one character, which fits the dot.
MCNames == {<<>>, <<".">>, <<"|", "|">>}

Symmetry == Permutations({h1, h2}) \union Permutations({e1, e2})
=============================================================================
