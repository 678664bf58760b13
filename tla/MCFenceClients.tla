--------------------------- MODULE MCFenceClients ---------------------------
(* Two processes, two operations, epochs 1 to 3: handoffs in both           *)
(* directions, with the other process holding an older epoch or none.       *)
EXTENDS FenceClients, TLC

CONSTANTS p1, p2, o1, o2

MCProcs == {p1, p2}
MCOps   == {o1, o2}

\* Processes and operations are interchangeable.
Symmetry == Permutations(MCProcs) \cup Permutations(MCOps)
=============================================================================
