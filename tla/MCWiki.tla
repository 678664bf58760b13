------------------------------- MODULE MCWiki -------------------------------
(* Instances of Wiki for TLC.                                              *)
EXTENDS Wiki, TLC

CONSTANTS c1, c2, c3, e1, e2

\* Two claims about one entity and one about another.
ThreeClaims == {c1, c2, c3}
TwoEntities == {e1, e2}
SubjectOf == (c1 :> e1) @@ (c2 :> e1) @@ (c3 :> e2)

\* Claims change in every way and are searched; one is endorsed while pages
\* are compiled, cited elsewhere, and their claims revised and forgotten.
Searching == [verbs |-> {"drain", "revive", "revise", "resolve", "repick",
                          "correct", "consolidate"},
              ver |-> 3, compiles |-> 1, crashes |-> 1]
Endorsing == [verbs |-> {"cite", "endorse", "revise"},
              ver |-> 2, compiles |-> 2, crashes |-> 1]
BothUses == {Searching, Endorsing}
=============================================================================
