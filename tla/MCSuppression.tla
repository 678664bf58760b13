--------------------------- MODULE MCSuppression ---------------------------
(* Instances of Suppression for TLC.                                        *)
EXTENDS Suppression, TLC

CONSTANTS a, b, c, o1, work, home

\* a and b are claims of one scope, c of another.
TwoScopes == [x \in Claims |-> IF x = c THEN home ELSE work]
OneScope  == [x \in Claims |-> work]
\* One observation supports every claim of `work`.
Shared    == [x \in Claims |-> IF ScopeOf[x] = work THEN Obs ELSE {}]

Permuted  == Permutations(Claims)
=============================================================================
