--------------------------- MODULE MCCompileQueue ---------------------------
(* Instances of CompileQueue for TLC.                                       *)
EXTENDS CompileQueue, TLC

CONSTANTS o1, o2, o3, o4, f, g, work, home, none

All == {o1, o2, o3, o4}
\* o1 and o2 state the same fact of one scope, o3 another fact of another, and
\* o4 is too short to state anything.
FactsOf == (o1 :> f) @@ (o2 :> f) @@ (o3 :> g) @@ (o4 :> none)
PlacesOf == (o1 :> work) @@ (o2 :> work) @@ (o3 :> home) @@ (o4 :> work)

\* A host whose processes die, and one with users, failures and restores.
Crashing == [does |-> {"dies", "rebuilds"}, obs |-> {o1, o2, o3}, deaths |-> 2]
Busy     == [does |-> {"edits", "fails", "restores"}, obs |-> {o1, o4}, deaths |-> 0]
AsDeployed == {Crashing, Busy}

\* The index of a dead process is kept.
KeepsIndex == {[does |-> {"dies"}, obs |-> {o1, o2}, deaths |-> 1]}
\* Two observations of one scope are compiled while it is erased.
Erases     == {[does |-> {"overlaps"}, obs |-> {o1, o2}, deaths |-> 0]}
\* Claims of two observations of one fact are edited.
Edits      == {[does |-> {"edits"}, obs |-> {o1, o2}, deaths |-> 0]}
\* Extraction fails in a batch that dies.
DiesFailed == {[does |-> {"dies", "fails"}, obs |-> {o1, o2}, deaths |-> 1]}
=============================================================================
