----------------------------- MODULE MCOpsCommit -----------------------------
(* Instances of OpsCommit for TLC.                                          *)
EXTENDS OpsCommit, TLC

CONSTANTS p1, p2, o1, o2

OneProc  == {p1}
TwoProcs == {p1, p2}
OneOp    == {o1}
TwoOps   == {o1, o2}

\* A request of every kind.
AllKinds == [obs |-> "observe", rev |-> "revise", viv |-> "revive",
             fgt |-> "forget", scp |-> "forget.scope", end |-> "endorse"]
AllRequests == DOMAIN AllKinds

\* Two different observations; a single one, retried; a single forget, retried.
TwoObserves == [obs |-> "observe", obs2 |-> "observe"]
TwoObserveRequests == DOMAIN TwoObserves
Observes == [obs |-> "observe"]
ObserveRequests == DOMAIN Observes
Forgets == [fgt |-> "forget"]
ForgetRequests == DOMAIN Forgets

\* As core.ts wires them: only observe() passes mutationFence().
WiredAsDeployed == {"observe"}
=============================================================================
