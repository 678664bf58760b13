---------------------------- MODULE MCAdmission ----------------------------
(* Instances of Admission for TLC.                                          *)
EXTENDS Admission

CONSTANTS ann, anyone, owner, crm, desk, none, i1, i2, i3, note

OneClient == {ann}
TwoScopes == {crm, desk}
\* The second item is refused, the third is on the next page.
TwoPages  == <<<<i1, i2>>, <<i3>>>>

Form(a, S, t, q, s) == [actor |-> a, scopes |-> S, trusted |-> t, quarantine |-> q, system |-> s]

\* Trusted in one scope, held back in the other; everyone's, to services.
Forms == {Form(ann, {desk}, TRUE, FALSE, FALSE), Form(ann, {crm}, FALSE, TRUE, FALSE),
          Form(anyone, {crm, desk}, FALSE, FALSE, TRUE)}

People    == [from |-> "people", changes |-> 3]
Connector == [from |-> "connector", changes |-> 2]
Both      == {People, Connector}
=============================================================================
