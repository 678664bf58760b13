------------------------------ MODULE AtomicOps ------------------------------
(***************************************************************************)
(* What the commit protocol promises a client: an operation id takes       *)
(* effect at most once, for one request, in one step, and wholly.  Nothing *)
(* of it counts before that step and nothing changes after it.             *)
(***************************************************************************)
EXTENDS Naturals

CONSTANTS
    Ops,        \* operation ids
    Requests,   \* what a client may ask under an id
    Parts       \* request -> the artifacts that make up its effect

VARIABLE effect \* operation id -> {} or the one effect it had

\* A whole effect: every part once, one commit signal.
Whole(r) == [req |-> r, parts |-> {[slot |-> s, copy |-> 1] : s \in Parts[r]},
             signals |-> 1]

Init == effect = [o \in Ops |-> {}]

Commit(o, r) ==
    /\ effect[o] = {}
    /\ effect' = [effect EXCEPT ![o] = {Whole(r)}]

Next == \E o \in Ops, r \in Requests : Commit(o, r)

Spec == Init /\ [][Next]_effect
=============================================================================
