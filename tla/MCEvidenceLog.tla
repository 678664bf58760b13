--------------------------- MODULE MCEvidenceLog ---------------------------
(* Instances of EvidenceLog for TLC.                                        *)
EXTENDS EvidenceLog

CONSTANTS a, b, c, none, me, other, work, home, pod, src, k1, k2

Two   == {a, b}
Three == {a, b, c}

\* c, of another scope, arrives quarantined.
OneScope  == [p \in Payloads |-> work]
TwoScopes == [p \in Payloads |-> IF p = c THEN home ELSE work]
JustC     == {c} \cap Payloads
JustA     == {a}
Nobody    == {}

NoSources  == [p \in Payloads |-> none]
SameSource == [p \in Payloads |-> IF p = c THEN none ELSE src]
NoKeys     == [p \in Payloads |-> none]
TwoKeys    == [p \in Payloads |-> CASE p = a -> k1 [] p = b -> k2 [] OTHER -> none]

Unforgettable == [p \in Payloads |-> {}]
AnyMode       == [p \in Payloads |-> {"tombstone", "redaction"}]
\* Quarantined evidence is tombstoned, the rest in either mode.
ReviewedModes == [p \in Payloads |->
    IF p \in Held THEN {"tombstone"} ELSE {"tombstone", "redaction"}]

\* Two exported lines of another writer, numbered n and n + 1 there.
Exported(n, id) == [id |-> id, type |-> "observation", status |-> "accepted",
                    scope |-> other, target |-> none, source |-> none, key |-> none,
                    writer |-> other, seq |-> n, prev |-> 100 + n - 1, hash |-> 100 + n]
Package(n)  == <<Exported(n, other), Exported(n + 1, src)>>
NoPackage   == {}
HighPackage == {Package(9)}
LowPackage  == {Package(1)}

\* The instance is one the theorems of EvidenceLogProofs speak of.
ASSUME InstanceAssumption == SourcesApart /\ ExportsApart /\ ExportsHigh /\ HeldNotRedacted
=============================================================================
