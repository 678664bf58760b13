----------------------- MODULE ScopeLifecycleProofs -----------------------
(***************************************************************************)
(* What ScopeLifecycle promises for any observations, requests and length  *)
(* of the log.                                                             *)
(***************************************************************************)
EXTENDS ScopeLifecycle, FiniteSetTheorems, WellFoundedInduction, TLAPS

-----------------------------------------------------------------------------
(* Types.                                                                  *)

States == {"none", "active", "forgotten"}
Mark   == [op : ForgetOps, reason : Reasons, seq : 1..MaxSeq]
Entry  == [op : ForgetOps, kind : {"forget.scope"}, of : ForgetOps]
            \cup [op : ReleaseOps, kind : {"hold.release"}, of : ForgetOps \cup {Nobody}]
            \cup [op : SweepOps, kind : {"retention.expire"}, of : SweepOps]

PackageType ==
    /\ pkg.line \in [Obs -> 0..MaxSeq] /\ pkg.buried \subseteq Obs
    /\ pkg.marks \subseteq Mark /\ pkg.claim \in [Obs -> States]
    /\ pkg.entries \subseteq {e \in Entry : e.kind = "forget.scope"}

TypeOK ==
    /\ line \in [Obs -> 0..MaxSeq] /\ buried \subseteq Obs /\ marks \subseteq Mark
    /\ last \in 0..MaxSeq
    /\ claim \in [Obs -> States] /\ row \in [Obs -> States] /\ shown \subseteq Obs
    /\ hold \in [op : ForgetOps \cup {Nobody}, by : ReleaseOps \cup {Nobody}]
    /\ granted \in BOOLEAN /\ entry \in BOOLEAN
    /\ intents \subseteq Mark /\ entries \subseteq Entry
    /\ pkg # NoPackage => PackageType
    /\ receipt \in BOOLEAN /\ up \in BOOLEAN

\* Whether the first k writes of a FORGET.SCOPE include w.
Done(reason, k, w) == \E i \in 1..k : Writes(reason)[i] = w

\* The marker of an erasure is written after everything it stands for.
LEMMA MarkerIsLate ==
    ASSUME NEW k \in 1..8, Done("erasure", k, "marker")
    PROVE  /\ Done("erasure", k, "rows") /\ Done("erasure", k, "records")
           /\ Done("erasure", k, "derived") /\ Done("erasure", k, "config")
<1> DEFINE W == <<"intent", "rows", "records", "derived", "config", "marker", "entry", "done">>
<1>1. Writes("erasure") = W
  BY DEF Writes
<1>2. PICK i \in 1..k : W[i] = "marker"
  BY <1>1 DEF Done
<1>3. W[1] # "marker" /\ W[2] # "marker" /\ W[3] # "marker" /\ W[4] # "marker" /\ W[5] # "marker"
  OBVIOUS
<1>4. i \notin 1..5
  BY <1>2, <1>3
<1>5. 2 \in 1..k /\ 3 \in 1..k /\ 4 \in 1..k /\ 5 \in 1..k
  BY <1>2, <1>4
<1> QED
  BY <1>1, <1>5 DEF Done

\* What a FORGET.SCOPE writes, with the order of its writes left aside.
LEMMA ForgetEffect ==
    ASSUME NEW op, NEW reason, NEW k, ForgetScope(op, reason, k)
    PROVE  /\ up /\ last < MaxSeq /\ Admissible(op, reason)
           /\ claim' = IF Done(reason, k, "records") THEN Purged(reason, claim) ELSE claim
           /\ row' = IF Done(reason, k, "rows") THEN Purged(reason, row) ELSE row
           /\ shown' = IF Done(reason, k, "derived") /\ reason = "erasure" THEN {} ELSE shown
           /\ granted' = (granted /\ ~Done(reason, k, "config"))
           /\ entry' = (entry /\ ~(Done(reason, k, "config") /\ reason = "erasure"))
           /\ hold' = IF Done(reason, k, "config") /\ reason = "offboarding"
                      THEN [op |-> op, by |-> Nobody] ELSE hold
           /\ marks' = IF Done(reason, k, "marker") THEN marks \cup {Prepares(op, reason)} ELSE marks
           /\ last' = IF Done(reason, k, "marker") THEN last + 1 ELSE last
           /\ entries' = IF Done(reason, k, "entry")
                         THEN entries \cup {[op |-> op, kind |-> "forget.scope", of |-> op]}
                         ELSE entries
           /\ intents' = IF Done(reason, k, "done") THEN intents \ {Prepares(op, reason)}
                         ELSE intents \cup {Prepares(op, reason)}
           /\ up' = Done(reason, k, "done")
           /\ UNCHANGED <<line, buried, pkg, receipt>>
BY Zenon DEF ForgetScope, Done, transport

\* The highest of a number and a bounded set is one of them and bounds both.
LEMMA HighestBounds ==
    ASSUME NEW n \in 0..MaxSeq, NEW S \in SUBSET (0..MaxSeq)
    PROVE  /\ Highest(n, S) \in 0..MaxSeq
           /\ \A x \in S : x <= Highest(n, S)
<1> USE ScopeLifecycleAssumption
<1>1. CASE \A x \in S : x <= n
  BY <1>1 DEF Highest
<1>2. CASE ~\A x \in S : x <= n
  <2> DEFINE T == {MaxSeq - x : x \in S}
  <2>1. T \subseteq Nat /\ T # {}
    BY <1>2
  <2>2. PICK t \in T : \A u \in T : ~(<<u, t>> \in OpToRel(<, Nat))
    <3> HIDE DEF T
    <3> QED
      BY <2>1, NatLessThanWellFounded, WFMin
  <2>3. \A u \in T : ~(u < t)
    BY <2>1, <2>2 DEF OpToRel
  <2>4. PICK x \in S : t = MaxSeq - x
    OBVIOUS
  <2>5. \A y \in S : y <= x
    <3> TAKE y \in S
    <3>1. MaxSeq - y \in T
      OBVIOUS
    <3> QED
      BY <3>1, <2>3, <2>4
  <2> DEFINE h == CHOOSE x1 \in S : \A y \in S : y <= x1
  <2>6. Highest(n, S) = h
    BY <1>2 DEF Highest
  <2>7. h \in S /\ \A y \in S : y <= h
    BY <2>5
  <2> QED
    BY <2>6, <2>7
<1> QED
  BY <1>1, <1>2

\* Purging leaves every claim in one of its states.
LEMMA PurgedType ==
    ASSUME NEW f \in [Obs -> States], NEW reason
    PROVE  Purged(reason, f) \in [Obs -> States]
BY DEF Purged, States

\* The state at the start is well typed.
LEMMA InitType == Init => TypeOK
<1> SUFFICES ASSUME Init PROVE TypeOK
  OBVIOUS
<1>1. ~(pkg # NoPackage)
  BY DEF Init
<1>2. claim \in [Obs -> States] /\ row \in [Obs -> States] /\ line \in [Obs -> 0..MaxSeq]
      /\ last \in 0..MaxSeq
  BY ScopeLifecycleAssumption DEF Init, States
<1>3. hold \in [op : ForgetOps \cup {Nobody}, by : ReleaseOps \cup {Nobody}]
  BY DEF Init, NoHold
<1> QED
  BY <1>1, <1>2, <1>3 DEF Init, TypeOK

\* Every handler, cut at any of its writes, keeps all files well typed.
LEMMA StepType == TypeOK /\ [Next]_vars => TypeOK'
<1> SUFFICES ASSUME TypeOK, [Next]_vars PROVE TypeOK'
  OBVIOUS
<1> USE ScopeLifecycleAssumption
<1>p. ASSUME UNCHANGED pkg PROVE (pkg # NoPackage => PackageType)'
  BY <1>p DEF TypeOK, PackageType
<1>1. ASSUME NEW o \in Obs, Observe(o) PROVE TypeOK'
  <2>1. last + 1 \in 0..MaxSeq
    BY <1>1 DEF Observe, TypeOK
  <2>2. line' \in [Obs -> 0..MaxSeq]
    BY <1>1, <2>1 DEF Observe, TypeOK
  <2> QED
    BY <1>1, <1>p, <2>1, <2>2 DEF Observe, TypeOK, derived, config, ops, transport
<1>2. ASSUME NEW o \in Obs, Compile(o) \/ Revive(o) PROVE TypeOK'
  <2>1. claim' \in [Obs -> States] /\ row' \in [Obs -> States] /\ shown' \subseteq Obs
    BY <1>2 DEF Compile, Revive, TypeOK, States
  <2> QED
    BY <1>2, <1>p, <2>1 DEF Compile, Revive, TypeOK, evidence, config, ops, transport
<1>3. CASE ObserveElsewhere
  <2>1. last' \in 0..MaxSeq
    BY <1>3 DEF ObserveElsewhere, TypeOK
  <2> QED
    BY <1>3, <1>p, <2>1 DEF ObserveElsewhere, TypeOK, derived, config, ops, transport
<1>4. ASSUME NEW op \in ForgetOps, NEW reason \in Reasons, NEW k \in 1..8, ForgetScope(op, reason, k)
      PROVE  TypeOK'
  <2>1. Prepares(op, reason) \in Mark /\ last' \in 0..MaxSeq
    BY <1>4, ForgetEffect DEF Prepares, Mark, TypeOK
  <2>2. marks' \subseteq Mark /\ intents' \subseteq Mark
    BY <1>4, <2>1, ForgetEffect DEF TypeOK
  <2>3. claim' \in [Obs -> States] /\ row' \in [Obs -> States] /\ shown' \subseteq Obs
    BY <1>4, ForgetEffect, PurgedType DEF TypeOK
  <2>4. entries' \subseteq Entry
    <3>1. [op |-> op, kind |-> "forget.scope", of |-> op] \in Entry
      BY DEF Entry
    <3> QED
      BY <3>1, <1>4, ForgetEffect DEF TypeOK
  <2>5. hold' \in [op : ForgetOps \cup {Nobody}, by : ReleaseOps \cup {Nobody}]
    BY <1>4, ForgetEffect DEF TypeOK, Nobody
  <2>6. up' \in BOOLEAN /\ granted' \in BOOLEAN /\ entry' \in BOOLEAN
    BY Zenon, <1>4, ForgetEffect DEF TypeOK, Done
  <2>7. UNCHANGED <<line, buried, pkg, receipt>>
    BY <1>4, ForgetEffect
  <2> QED
    BY <1>p, <2>1, <2>2, <2>3, <2>4, <2>5, <2>6, <2>7 DEF TypeOK
<1>5. ASSUME NEW op \in ReleaseOps, HoldReleaseReplayed(op) PROVE TypeOK'
  BY <1>5, <1>p DEF HoldReleaseReplayed, Lifted, TypeOK, Nobody, evidence, derived, ops, transport
<1>6. ASSUME NEW op \in ReleaseOps, NEW k \in 1..2, HoldRelease(op, k) PROVE TypeOK'
  <2>1. hold' \in [op : ForgetOps \cup {Nobody}, by : ReleaseOps \cup {Nobody}]
    BY <1>6 DEF HoldRelease, Lifted, TypeOK, Nobody
  <2>2. Released(op, hold.op) \in Entry
    BY DEF Released, Entry, TypeOK
  <2> QED
    BY <1>6, <1>p, <2>1, <2>2 DEF HoldRelease, TypeOK, evidence, derived, transport
<1>7. CASE ConfigReverted
  BY <1>7, <1>p DEF ConfigReverted, TypeOK, Nobody, evidence, derived, ops, transport
<1>8. ASSUME NEW op \in SweepOps, NEW X \in SUBSET Obs, NEW D \in SUBSET Obs, ExpireRetention(op, X, D)
      PROVE  TypeOK'
  <2>1. Cardinality(D) \in Nat
    BY FS_Subset, FS_CardinalityType
  <2>2. last' \in 0..MaxSeq
    BY <1>8, <2>1 DEF ExpireRetention, TypeOK
  <2>3. claim' \in [Obs -> States] /\ row' \in [Obs -> States]
    BY <1>8 DEF ExpireRetention, TypeOK, States
  <2>4. [op |-> op, kind |-> "retention.expire", of |-> op] \in Entry
    BY DEF Entry
  <2>5. up' \in BOOLEAN
    BY <1>8 DEF ExpireRetention
  <2> QED
    BY <1>8, <1>p, <2>2, <2>3, <2>4, <2>5 DEF ExpireRetention, Tombstoned, TypeOK, config, transport
<1>9. CASE ExportScope
  <2> DEFINE erased == \E m \in marks : m.reason = "erasure"
  <2>1. CASE erased
    BY <1>9, <2>1 DEF ExportScope, TypeOK, PackageType, States, evidence, derived, config, ops
  <2>2. CASE ~erased
    BY <1>9, <2>2 DEF ExportScope, ScopeMarkers, TypeOK, PackageType, evidence, derived, config, ops
  <2> QED
    BY <2>1, <2>2
<1>10. CASE NewBrain
  BY <1>10, <1>p DEF NewBrain, TypeOK, States, NoHold, Nobody, transport
<1>11. CASE Open
  <2>1. claim' \in [Obs -> States]
    BY <1>11 DEF Open, TypeOK, States
  <2>2. row' \in [Obs -> States] /\ shown' \subseteq Obs
    BY <1>11, <2>1 DEF Open, TypeOK
  <2>3. \A x \in Finalised : [op |-> x.op, kind |-> "forget.scope", of |-> x.op] \in Entry
    BY DEF Finalised, Entry, TypeOK, Mark
  <2>4. entries' \subseteq Entry /\ intents' \subseteq Mark
    BY <1>11, <2>3 DEF Open, Recovered, TypeOK
  <2> QED
    BY <1>11, <1>p, <2>1, <2>2, <2>4 DEF Open, TypeOK, evidence, config, transport
<1>12. ASSUME NEW k \in 0..4, RestoreScope(k) PROVE TypeOK'
  <2>1. PackageType
    BY <1>12 DEF RestoreScope, TypeOK
  <2>2. line' \in [Obs -> 0..MaxSeq] /\ buried' \subseteq Obs /\ marks' \subseteq Mark
        /\ claim' \in [Obs -> States] /\ entries' \subseteq Entry
    BY <1>12, <2>1 DEF RestoreScope, TypeOK, PackageType
  <2> DEFINE S == {line'[o] : o \in Obs} \cup {m.seq : m \in marks'}
  <2>3. S \in SUBSET (0..MaxSeq)
    BY <2>2 DEF Mark
  <2>4. last' \in 0..MaxSeq
    BY <1>12, <2>3, HighestBounds DEF RestoreScope, TypeOK
  <2>5. row' \in [Obs -> States] /\ shown' \subseteq Obs /\ up' \in BOOLEAN
    BY <1>12, <2>2 DEF RestoreScope, TypeOK
  <2> QED
    BY <1>12, <1>p, <2>2, <2>4, <2>5 DEF RestoreScope, TypeOK, config
<1>13. CASE UNCHANGED vars
  BY <1>13, <1>p DEF vars, TypeOK, evidence, derived, config, ops, transport
<1> QED
  BY <1>1, <1>2, <1>3, <1>4, <1>5, <1>6, <1>7, <1>8, <1>9, <1>10, <1>11, <1>12, <1>13 DEF Next

-----------------------------------------------------------------------------
(* Erasure leaves no ghost.                                                *)

\* No evidence line is numbered above the last sequence.
SeqInv ==
    /\ \A o \in Obs : line[o] <= last
    /\ \A m \in marks : m.seq <= last

\* A package carries no marker of an erasure, and its evidence has the status
\* it had when it was packed, unless nothing was packed.
PackageInv ==
    pkg # NoPackage =>
        /\ \A m \in pkg.marks : m.reason # "erasure"
        /\ \/ \A o \in Obs : pkg.line[o] = 0
           \/ \A o \in Obs : pkg.was[o] = StatusIn(pkg.line, pkg.buried, pkg.marks, o)

\* Once the marker of an erasure stands the scope is retired, and whatever was
\* observed in it is older than the marker.
GhostInv ==
    \A m \in marks : m.reason = "erasure" =>
        /\ ~entry /\ shown = {}
        /\ \A o \in Obs : claim[o] = "none" /\ row[o] = "none" /\ line[o] < m.seq

\* An evidence line older than an erasure is not accepted.
LEMMA ErasedNotAccepted ==
    ASSUME TypeOK, GhostInv, NEW m \in marks, m.reason = "erasure", NEW o \in Obs
    PROVE  Status(o) # "accepted"
<1>1. line[o] < m.seq
  BY DEF GhostInv
<1>2. CASE line[o] = 0
  BY <1>2 DEF Status, StatusIn
<1>3. CASE line[o] # 0
  <2>1. \E x \in marks : x.reason = "erasure" /\ x.seq > line[o]
    BY <1>1 DEF TypeOK, Mark
  <2> QED
    BY <1>3, <2>1 DEF Status, StatusIn
<1> QED
  BY <1>2, <1>3

\* The last sequence stays the highest, also after a restore.
LEMMA StepSeq == TypeOK /\ TypeOK' /\ SeqInv /\ [Next]_vars => SeqInv'
<1> SUFFICES ASSUME TypeOK, TypeOK', SeqInv, [Next]_vars PROVE SeqInv'
  OBVIOUS
<1> USE ScopeLifecycleAssumption
<1>0. \A o \in Obs : line[o] \in Nat /\ line'[o] \in Nat
  BY DEF TypeOK
<1>m. last \in Nat /\ last' \in Nat /\ (\A m \in marks : m.seq \in Nat) /\ (\A m \in marks' : m.seq \in Nat)
  BY DEF TypeOK, Mark
<1>g. ASSUME UNCHANGED <<line, marks>>, last' >= last PROVE SeqInv'
  BY <1>g, <1>0, <1>m DEF SeqInv
<1>1. ASSUME NEW o \in Obs, Observe(o) PROVE SeqInv'
  BY <1>1, <1>0, <1>m DEF Observe, SeqInv, TypeOK
<1>2. ASSUME NEW o \in Obs, Compile(o) \/ Revive(o) PROVE SeqInv'
  BY <1>2, <1>g, <1>m DEF Compile, Revive, evidence
<1>3. CASE ObserveElsewhere
  BY <1>3, <1>g, <1>m DEF ObserveElsewhere
<1>4. ASSUME NEW op \in ForgetOps, NEW reason \in Reasons, NEW k \in 1..8, ForgetScope(op, reason, k)
      PROVE  SeqInv'
  <2>1. CASE Done(reason, k, "marker")
    <3>1. last' = last + 1 /\ marks' = marks \cup {Prepares(op, reason)} /\ line' = line
      BY <1>4, <2>1, ForgetEffect
    <3> QED
      BY <3>1, <1>0, <1>m DEF SeqInv, Prepares
  <2>2. CASE ~Done(reason, k, "marker")
    BY <1>4, <2>2, <1>g, <1>m, ForgetEffect
  <2> QED
    BY <2>1, <2>2
<1>5. ASSUME NEW op \in ReleaseOps, HoldReleaseReplayed(op) PROVE SeqInv'
  BY <1>5, <1>g, <1>m DEF HoldReleaseReplayed, evidence
<1>6. ASSUME NEW op \in ReleaseOps, NEW k \in 1..2, HoldRelease(op, k) PROVE SeqInv'
  BY <1>6, <1>g, <1>m DEF HoldRelease, evidence
<1>7. CASE ConfigReverted
  BY <1>7, <1>g, <1>m DEF ConfigReverted, evidence
<1>8. ASSUME NEW op \in SweepOps, NEW X \in SUBSET Obs, NEW D \in SUBSET Obs, ExpireRetention(op, X, D)
      PROVE  SeqInv'
  <2>1. Cardinality(D) \in Nat
    BY FS_Subset, FS_CardinalityType
  <2> QED
    BY <1>8, <1>g, <1>m, <2>1 DEF ExpireRetention
<1>9. CASE ExportScope
  BY <1>9, <1>g, <1>m DEF ExportScope, evidence
<1>10. CASE NewBrain
  BY <1>10 DEF NewBrain, SeqInv
<1>11. CASE Open
  BY <1>11, <1>g, <1>m DEF Open, evidence
<1>12. ASSUME NEW k \in 0..4, RestoreScope(k) PROVE SeqInv'
  <2> DEFINE S == {line'[o] : o \in Obs} \cup {m.seq : m \in marks'}
  <2>1. S \in SUBSET (0..MaxSeq)
    BY DEF TypeOK, Mark
  <2>2. last' = Highest(last, S) /\ last \in 0..MaxSeq
    BY <1>12 DEF RestoreScope, TypeOK
  <2>3. \A x \in S : x <= last'
    BY <2>1, <2>2, HighestBounds
  <2> QED
    BY <2>3 DEF SeqInv
<1>13. CASE UNCHANGED vars
  BY <1>13, <1>g, <1>m DEF vars, evidence
<1> QED
  BY <1>1, <1>2, <1>3, <1>4, <1>5, <1>6, <1>7, <1>8, <1>9, <1>10, <1>11, <1>12, <1>13 DEF Next

\* Only an export writes the package.
LEMMA StepPackage == TypeOK /\ PackageInv /\ [Next]_vars => PackageInv'
<1> SUFFICES ASSUME TypeOK, PackageInv, [Next]_vars PROVE PackageInv'
  OBVIOUS
<1>1. CASE ExportScope
  <2> DEFINE erased == \E m \in marks : m.reason = "erasure"
  <2>1. CASE erased
    <3>1. pkg'.marks = {} /\ \A o \in Obs : pkg'.line[o] = 0
      BY <1>1, <2>1 DEF ExportScope
    <3> QED
      BY <3>1 DEF PackageInv
  <2>2. CASE ~erased
    <3>1. /\ pkg'.marks = marks /\ pkg'.line = line /\ pkg'.buried = buried
          /\ pkg'.was = [o \in Obs |-> Status(o)]
      BY <1>1, <2>2 DEF ExportScope, ScopeMarkers
    <3>2. \A o \in Obs : pkg'.was[o] = StatusIn(pkg'.line, pkg'.buried, pkg'.marks, o)
      BY <3>1 DEF Status
    <3>3. \A m \in pkg'.marks : m.reason # "erasure"
      BY <3>1, <2>2
    <3> QED
      BY <3>2, <3>3 DEF PackageInv
  <2> QED
    BY <2>1, <2>2
<1>2. CASE pkg' = pkg
  BY <1>2 DEF PackageInv
<1>3. ASSUME NEW op \in ForgetOps, NEW reason \in Reasons, NEW k \in 1..8, ForgetScope(op, reason, k)
      PROVE  pkg' = pkg
  BY <1>3, ForgetEffect
<1>4. ~ExportScope => pkg' = pkg
  BY <1>3 DEF Next, vars, Observe, Compile, Revive, ObserveElsewhere, HoldReleaseReplayed, HoldRelease,
     ConfigReverted, ExpireRetention, NewBrain, Open, RestoreScope, transport
<1> QED
  BY <1>1, <1>2, <1>4

\* After the marker of an erasure nothing writes to the scope; and a marker
\* that arrives in a package is none of an erasure.
LEMMA StepGhost ==
    ASSUME TypeOK, TypeOK', SeqInv, PackageInv, GhostInv, [Next]_vars
    PROVE  GhostInv'
<1> USE ScopeLifecycleAssumption
<1> SUFFICES ASSUME NEW m \in marks', m.reason = "erasure"
             PROVE  /\ ~entry' /\ shown' = {}
                    /\ \A o \in Obs : claim'[o] = "none" /\ row'[o] = "none" /\ line'[o] < m.seq
  BY DEF GhostInv
<1> DEFINE G == /\ ~entry /\ shown = {}
                /\ \A o \in Obs : claim[o] = "none" /\ row[o] = "none" /\ line[o] < m.seq
           H == /\ ~entry' /\ shown' = {}
                /\ \A o \in Obs : claim'[o] = "none" /\ row'[o] = "none" /\ line'[o] < m.seq
<1>g. m \in marks => G
  BY DEF GhostInv
<1>1. ASSUME NEW o \in Obs, Observe(o) PROVE H
  BY <1>1, <1>g DEF Observe
<1>2. ASSUME NEW o \in Obs, Compile(o) PROVE H
  <2>1. m \in marks
    BY <1>2 DEF Compile, evidence
  <2> QED
    BY <1>2, <2>1, ErasedNotAccepted DEF Compile
<1>3. ASSUME NEW o \in Obs, Revive(o) PROVE H
  <2>1. m \in marks
    BY <1>3 DEF Revive, evidence
  <2> QED
    BY <1>3, <2>1, <1>g DEF Revive
<1>4. CASE ObserveElsewhere
  BY <1>4, <1>g DEF ObserveElsewhere, derived, config
<1>5. ASSUME NEW op \in ForgetOps, NEW reason \in Reasons, NEW k \in 1..8, ForgetScope(op, reason, k)
      PROVE  H
  <2>1. CASE m \in marks
    <3>1. \A o \in Obs : Purged(reason, claim)[o] = "none" /\ Purged(reason, row)[o] = "none"
      BY <2>1, <1>g DEF Purged
    <3>2. \A o \in Obs : claim'[o] = "none" /\ row'[o] = "none"
      BY <1>5, <2>1, <3>1, <1>g, ForgetEffect
    <3>3. ~entry' /\ shown' = {} /\ line' = line
      BY <1>5, <2>1, <1>g, ForgetEffect
    <3> QED
      BY <2>1, <1>g, <3>2, <3>3
  <2>2. CASE m \notin marks
    <3>1. Done(reason, k, "marker") /\ m = Prepares(op, reason)
      BY <1>5, <2>2, ForgetEffect
    <3>2. reason = "erasure" /\ m.seq = last + 1
      BY <3>1 DEF Prepares
    <3>3. /\ Done(reason, k, "rows") /\ Done(reason, k, "records")
          /\ Done(reason, k, "derived") /\ Done(reason, k, "config")
      BY <3>1, <3>2, MarkerIsLate
    <3>4. /\ claim' = Purged(reason, claim) /\ row' = Purged(reason, row)
          /\ shown' = {} /\ ~entry' /\ line' = line
      BY <1>5, <3>2, <3>3, ForgetEffect
    <3>5. \A o \in Obs : claim'[o] = "none" /\ row'[o] = "none"
      BY <3>2, <3>4 DEF Purged
    <3>6. \A o \in Obs : line'[o] < m.seq
      BY <3>2, <3>4 DEF SeqInv, TypeOK
    <3> QED
      BY <3>4, <3>5, <3>6
  <2> QED
    BY <2>1, <2>2
<1>6. ASSUME NEW op \in ReleaseOps, HoldReleaseReplayed(op) PROVE H
  BY <1>6, <1>g DEF HoldReleaseReplayed, evidence, derived
<1>7. ASSUME NEW op \in ReleaseOps, NEW k \in 1..2, HoldRelease(op, k) PROVE H
  BY <1>7, <1>g DEF HoldRelease, evidence, derived
<1>8. CASE ConfigReverted
  BY <1>8, <1>g DEF ConfigReverted, evidence, derived
<1>9. ASSUME NEW op \in SweepOps, NEW X \in SUBSET Obs, NEW D \in SUBSET Obs, ExpireRetention(op, X, D)
      PROVE  H
  <2>1. m \in marks
    BY <1>9 DEF ExpireRetention
  <2>2. \A o \in Obs : claim'[o] = "none" /\ row'[o] = "none"
    BY <1>9, <2>1, <1>g DEF ExpireRetention
  <2> QED
    BY <1>9, <2>1, <2>2, <1>g DEF ExpireRetention, config
<1>10. CASE ExportScope
  BY <1>10, <1>g DEF ExportScope, evidence, derived, config
<1>11. CASE NewBrain
  BY <1>11 DEF NewBrain
<1>12. CASE Open
  <2>1. m \in marks
    BY <1>12 DEF Open, evidence
  <2>2. \A o \in Obs : claim'[o] = "none"
    BY <1>12, <2>1, <1>g DEF Open
  <2>3. \A o \in Obs : row'[o] = "none"
    BY <1>12, <2>1, <1>g DEF Open
  <2>4. shown' = {}
    BY <1>12, <2>3 DEF Open
  <2> QED
    BY <1>12, <2>1, <2>2, <2>3, <2>4, <1>g DEF Open, evidence, config
<1>13. ASSUME NEW k \in 0..4, RestoreScope(k) PROVE FALSE
  <2>1. marks = {}
    BY <1>13 DEF RestoreScope, SeqInv, TypeOK, Mark
  <2> QED
    BY <1>13, <2>1 DEF RestoreScope, PackageInv
<1>14. CASE UNCHANGED vars
  BY <1>14, <1>g DEF vars, evidence, derived, config
<1> HIDE DEF G
<1> QED
  BY <1>1, <1>2, <1>3, <1>4, <1>5, <1>6, <1>7, <1>8, <1>9, <1>10, <1>11, <1>12, <1>13, <1>14 DEF Next

\* The inductive invariant.
LifecycleInv == TypeOK /\ SeqInv /\ PackageInv /\ GhostInv

\* It holds in every reachable state.
LEMMA LifecycleInvariance == Spec => []LifecycleInv
<1>1. Init => LifecycleInv
  <2> SUFFICES ASSUME Init PROVE LifecycleInv
    OBVIOUS
  <2>1. marks = {} /\ pkg = NoPackage /\ last = 0 /\ \A o \in Obs : line[o] = 0
    BY DEF Init
  <2> QED
    BY <2>1, InitType DEF LifecycleInv, SeqInv, PackageInv, GhostInv
<1>2. LifecycleInv /\ [Next]_vars => LifecycleInv'
  BY StepType, StepSeq, StepPackage, StepGhost DEF LifecycleInv
<1> QED
  BY <1>1, <1>2, PTL DEF Spec

\* Every file keeps its type, whatever the handlers were cut at.
THEOREM TypeCorrect == Spec => []TypeOK
<1>1. LifecycleInv => TypeOK
  BY DEF LifecycleInv
<1> QED
  BY <1>1, LifecycleInvariance, PTL

\* Once the marker of an erasure stands, no record, row, search row or page of
\* the scope is left (forget_scope.ts, the order of writes), and nothing that
\* may run later, a restore cut at any write included, brings one back.
THEOREM ErasureLeavesNoGhost == Spec => []NoGhost
<1>1. LifecycleInv => NoGhost
  BY DEF LifecycleInv, GhostInv, NoGhost
<1> QED
  BY <1>1, LifecycleInvariance, PTL

-----------------------------------------------------------------------------
(* The legal hold.                                                         *)

\* A release has one entry, which names the hold it lifted: the one that reads
\* released by it.
ReleaseInv ==
    /\ \A e, f \in entries : e.op = f.op /\ e.op \in ReleaseOps => e = f
    /\ hold.by # Nobody => \A e \in entries : e.op = hold.by => e.of = hold.op

\* Each verb writes the entries of its own requests.
LEMMA EntryKinds ==
    ASSUME NEW e \in Entry
    PROVE  /\ e.op \in ReleaseOps <=> e.kind = "hold.release"
           /\ e.op \in ForgetOps <=> e.kind = "forget.scope"
           /\ e.op \in SweepOps <=> e.kind = "retention.expire"
           /\ e.op # Nobody
BY ScopeLifecycleAssumption DEF Entry, Nobody

\* Only a release adds an entry of a release or sets who lifted the hold.
LEMMA StepRelease == TypeOK /\ TypeOK' /\ ReleaseInv /\ [Next]_vars => ReleaseInv'
<1> SUFFICES ASSUME TypeOK, TypeOK', ReleaseInv, [Next]_vars PROVE ReleaseInv'
  OBVIOUS
<1> USE ScopeLifecycleAssumption
<1>k. ASSUME \A e \in entries' \ entries : e.op \notin ReleaseOps,
             hold' = hold \/ hold'.by = Nobody
      PROVE  ReleaseInv'
  <2>1. \A e, f \in entries' : e.op = f.op /\ e.op \in ReleaseOps => e = f
    BY <1>k DEF ReleaseInv
  <2>2. ASSUME hold'.by # Nobody, NEW e \in entries', e.op = hold'.by PROVE e.of = hold'.op
    BY <1>k, <2>2 DEF ReleaseInv, TypeOK
  <2> QED
    BY <2>1, <2>2 DEF ReleaseInv
<1>1. ASSUME NEW o \in Obs, Observe(o) \/ Compile(o) \/ Revive(o) PROVE ReleaseInv'
  BY <1>1, <1>k DEF Observe, Compile, Revive, ops, config
<1>2. CASE ObserveElsewhere \/ ConfigReverted \/ ExportScope
  BY <1>2, <1>k DEF ObserveElsewhere, ConfigReverted, ExportScope, ops, config, TypeOK
<1>3. ASSUME NEW op \in ForgetOps, NEW reason \in Reasons, NEW k \in 1..8, ForgetScope(op, reason, k)
      PROVE  ReleaseInv'
  <2>1. \A e \in entries' \ entries : e.op = op
    BY <1>3, ForgetEffect
  <2>2. hold' = hold \/ hold'.by = Nobody
    BY <1>3, ForgetEffect
  <2> QED
    BY <1>k, <2>1, <2>2
<1>4. ASSUME NEW op \in ReleaseOps, HoldReleaseReplayed(op) PROVE ReleaseInv'
  <2>1. PICK e \in entries : e.op = op /\ Converges(op, e) /\ hold' = Lifted(op)
    BY <1>4 DEF HoldReleaseReplayed
  <2>2. entries' = entries /\ hold'.by = op /\ hold'.op = e.of
    BY <1>4, <2>1 DEF HoldReleaseReplayed, ops, Lifted, Converges, TypeOK
  <2> QED
    BY <2>1, <2>2 DEF ReleaseInv
<1>5. ASSUME NEW op \in ReleaseOps, NEW k \in 1..2, HoldRelease(op, k) PROVE ReleaseInv'
  <2>1. \A e \in entries : e.op # op
    BY <1>5 DEF HoldRelease, Committed
  <2>2. hold'.by = op /\ hold'.op = hold.op
    BY <1>5 DEF HoldRelease, Lifted, TypeOK
  <2>3. \A e \in entries' \ entries : e.op = op /\ e.of = hold.op /\ e = Released(op, hold.op)
    BY <1>5 DEF HoldRelease, Released
  <2> QED
    BY <2>1, <2>2, <2>3 DEF ReleaseInv
<1>6. ASSUME NEW op \in SweepOps, NEW X \in SUBSET Obs, NEW D \in SUBSET Obs, ExpireRetention(op, X, D)
      PROVE  ReleaseInv'
  <2>1. \A e \in entries' \ entries : e.op = op
    BY <1>6 DEF ExpireRetention
  <2> QED
    BY <1>6, <1>k, <2>1 DEF ExpireRetention, config
<1>7. CASE NewBrain
  BY <1>7 DEF NewBrain, ReleaseInv, NoHold
<1>8. CASE Open
  <2>1. \A e \in entries' \ entries : \E x \in intents : e.op = x.op
    BY <1>8 DEF Open, Recovered, Finalised
  <2>2. \A x \in intents : x.op \in ForgetOps
    BY DEF TypeOK, Mark
  <2> QED
    BY <1>8, <1>k, <2>1, <2>2 DEF Open, config
<1>9. ASSUME NEW k \in 0..4, RestoreScope(k) PROVE ReleaseInv'
  <2>1. \A e \in pkg.entries : e \in Entry /\ e.kind = "forget.scope"
    BY <1>9 DEF RestoreScope, TypeOK, PackageType
  <2>2. \A e \in entries' \ entries : e.op \notin ReleaseOps
    BY <1>9, <2>1, EntryKinds DEF RestoreScope
  <2> QED
    BY <1>9, <1>k, <2>2 DEF RestoreScope, config
<1>10. CASE UNCHANGED vars
  BY <1>10, <1>k DEF vars, ops, config
<1> QED
  BY <1>1, <1>2, <1>3, <1>4, <1>5, <1>6, <1>7, <1>8, <1>9, <1>10 DEF Next

\* A hold that reads released was released by an act on that very hold
\* (hold_release.ts, convergeReleasedHold): a replay after the config was
\* reverted and another offboarding opened a hold does not lift that one.
THEOREM ReleasesNameTheirHold == Spec => []ReleaseNamesItsHold
<1>1. Init => ReleaseInv
  BY DEF Init, ReleaseInv, NoHold
<1>2. TypeOK /\ ReleaseInv => ReleaseNamesItsHold
  <2> SUFFICES ASSUME TypeOK, ReleaseInv, hold # NoHold, ~Held, NEW e \in entries, e.op = hold.by
               PROVE  e.kind = "hold.release" /\ e.of = hold.op
    BY DEF ReleaseNamesItsHold
  <2>1. hold.by # Nobody /\ hold.by \in ReleaseOps
    BY DEF Held, TypeOK
  <2> QED
    BY <2>1, EntryKinds DEF ReleaseInv, TypeOK
<1> QED
  BY <1>1, <1>2, StepRelease, TypeCorrect, PTL DEF Spec

\* While a hold is open no step but a release ends it, and none removes a
\* record, erases, or buries accepted evidence (forget_scope.ts and
\* retention.ts, isScopeHeld; hold_release.ts): a retried erasure, a sweep and a
\* restore cut at any write included.
THEOREM HoldKeeps == Spec => HeldKept
<1> DEFINE R == \E op \in ReleaseOps :
                   HoldReleaseReplayed(op) \/ \E k \in 1..2 : HoldRelease(op, k)
           K == /\ \A o \in Obs : claim[o] # "none" => claim'[o] # "none"
                /\ Accepted \cap buried' = {}
                /\ \A m \in marks' \ marks : m.reason = "offboarding"
                /\ hold'.by # Nobody => R
<1>1. ASSUME LifecycleInv, [Next]_vars, Held, ~NewBrain PROVE K
  <2> USE <1>1 DEF LifecycleInv
  <2>a. Accepted \cap buried = {}
    BY DEF Accepted, Status, StatusIn
  <2>h. hold.by = Nobody
    BY DEF Held
  <2>1. ASSUME NEW o \in Obs, Observe(o) PROVE K
    BY <2>1, <2>a, <2>h DEF Observe, derived, config
  <2>2. ASSUME NEW o \in Obs, Compile(o) \/ Revive(o) PROVE K
    <3>1. \A p \in Obs : claim'[p] = claim[p] \/ claim'[p] = "active"
      BY <2>2 DEF Compile, Revive, TypeOK
    <3> QED
      BY <2>2, <3>1, <2>a, <2>h DEF Compile, Revive, evidence, config
  <2>3. CASE ObserveElsewhere
    BY <2>3, <2>a, <2>h DEF ObserveElsewhere, derived, config
  <2>4. ASSUME NEW op \in ForgetOps, NEW reason \in Reasons, NEW k \in 1..8, ForgetScope(op, reason, k)
        PROVE  K
    <3>1. reason = "offboarding"
      BY <2>4, ForgetEffect DEF Admissible, Allowed, Reasons
    <3>2. \A o \in Obs : claim[o] # "none" => Purged(reason, claim)[o] # "none"
      BY <3>1 DEF Purged
    <3>3. \A o \in Obs : claim[o] # "none" => claim'[o] # "none"
      BY <2>4, <3>2, ForgetEffect
    <3>4. \A m \in marks' \ marks : m.reason = "offboarding"
      BY <2>4, <3>1, ForgetEffect DEF Prepares
    <3>5. hold'.by = Nobody /\ buried' = buried
      BY <2>4, <2>h, ForgetEffect
    <3> QED
      BY <3>3, <3>4, <3>5, <2>a
  <2>5. ASSUME NEW op \in ReleaseOps, HoldReleaseReplayed(op) PROVE K
    BY <2>5, <2>a DEF HoldReleaseReplayed, evidence, derived
  <2>6. ASSUME NEW op \in ReleaseOps, NEW k \in 1..2, HoldRelease(op, k) PROVE K
    BY <2>6, <2>a DEF HoldRelease, evidence, derived
  <2>7. CASE ConfigReverted
    BY <2>7 DEF ConfigReverted
  <2>8. ASSUME NEW op \in SweepOps, NEW X \in SUBSET Obs, NEW D \in SUBSET Obs, ExpireRetention(op, X, D)
        PROVE  K
    <3>1. D = {} /\ buried' = buried
      BY <2>8 DEF ExpireRetention, Elapsed, Tombstoned
    <3>2. \A o \in Obs : claim'[o] = claim[o]
      BY <2>8, <3>1 DEF ExpireRetention
    <3> QED
      BY <2>8, <2>a, <2>h, <3>1, <3>2 DEF ExpireRetention, config
  <2>9. CASE ExportScope
    BY <2>9, <2>a, <2>h DEF ExportScope, evidence, derived, config
  <2>10. CASE Open
    <3>1. \A o \in Obs : claim'[o] = claim[o] \/ claim'[o] = "forgotten"
      BY <2>10 DEF Open
    <3> QED
      BY <2>10, <2>a, <2>h, <3>1 DEF Open, evidence, config
  <2>11. ASSUME NEW k \in 0..4, RestoreScope(k) PROVE K
    <3>1. Accepted = {} /\ \A o \in Obs : claim[o] = "none"
      BY <2>11 DEF RestoreScope, Accepted, Status, StatusIn
    <3>2. \A m \in pkg.marks : m.reason = "offboarding"
      BY <2>11 DEF RestoreScope, PackageInv, TypeOK, PackageType, Mark, Reasons
    <3>3. \A m \in marks' \ marks : m.reason = "offboarding"
      BY <2>11, <3>2 DEF RestoreScope
    <3>4. hold'.by = Nobody
      BY <2>11, <2>h DEF RestoreScope, config
    <3> QED
      BY <3>1, <3>3, <3>4
  <2>12. CASE UNCHANGED vars
    BY <2>12, <2>a, <2>h DEF vars, evidence, derived, config
  <2> HIDE DEF K
  <2> QED
    BY <2>1, <2>2, <2>3, <2>4, <2>5, <2>6, <2>7, <2>8, <2>9, <2>10, <2>11, <2>12 DEF Next
<1>2. LifecycleInv /\ [Next]_vars => [Held /\ ~NewBrain => K]_vars
  BY <1>1
<1> QED
  BY <1>2, LifecycleInvariance, PTL DEF Spec, HeldKept

-----------------------------------------------------------------------------
(* Restore.                                                                *)

\* The status of an observation depends on its own line.
LEMMA StatusOfLine ==
    ASSUME NEW l, NEW p, NEW b, NEW m, NEW o, l[o] = p[o]
    PROVE  StatusIn(l, b, m, o) = StatusIn(p, b, m, o)
BY DEF StatusIn

\* Tombstones and markers only withdraw.
LEMMA StatusOnlyFalls ==
    ASSUME NEW l, NEW b, NEW m, NEW o, NEW c, b \subseteq c, NEW n, m \subseteq n,
           StatusIn(l, b, m, o) # "accepted"
    PROVE  StatusIn(l, c, n, o) # "accepted"
<1>1. CASE l[o] = 0
  BY <1>1 DEF StatusIn
<1>2. CASE l[o] # 0
  <2>1. o \in b \/ \E x \in m : x.seq > l[o]
    BY <1>2 DEF StatusIn
  <2>2. o \in c \/ \E x \in n : x.seq > l[o]
    BY <2>1
  <2> QED
    BY <1>2, <2>2 DEF StatusIn
<1> QED
  BY <1>1, <1>2

\* What was withdrawn when a package was written is withdrawn where it is
\* restored, and stays so (export_scope.ts, the markers of the scope;
\* restore_scope.ts), when the restore runs to its end: a restore that is cut
\* after the observations and before the markers leaves them accepted.
THEOREM NothingResurrected == ASSUME RestoreMayCrash = FALSE PROVE Spec => []NoResurrection
<1> DEFINE I == NoResurrection /\ (receipt => pkg # NoPackage)
<1>1. Init => I
  BY DEF Init, NoResurrection
<1>2. ASSUME LifecycleInv, I, [Next]_vars PROVE I'
  <2> USE <1>2 DEF LifecycleInv
  <2> DEFINE W == {o \in Obs : pkg.was[o] \notin {"none", "accepted"}}
  <2>g. ASSUME UNCHANGED <<pkg, receipt>>, buried \subseteq buried', marks \subseteq marks',
               \A o \in W : receipt => line'[o] = line[o]
        PROVE  I'
    <3> SUFFICES ASSUME receipt, NEW o \in W PROVE Status(o)' # "accepted"
      BY <2>g DEF NoResurrection
    <3>1. StatusIn(line, buried, marks, o) # "accepted"
      BY DEF NoResurrection, Status
    <3>2. StatusIn(line', buried, marks, o) # "accepted"
      BY <2>g, <3>1, StatusOfLine
    <3>3. StatusIn(line', buried', marks', o) # "accepted"
      BY <2>g, <3>2, StatusOnlyFalls
    <3> QED
      BY <3>3 DEF Status
  <2>1. ASSUME NEW o \in Obs, Observe(o) PROVE I'
    <3>1. \A p \in W : receipt => line'[p] = line[p]
      BY <2>1 DEF Observe, TypeOK
    <3> QED
      BY <2>1, <2>g, <3>1 DEF Observe, transport
  <2>2. ASSUME NEW o \in Obs, Compile(o) \/ Revive(o) PROVE I'
    BY <2>2, <2>g DEF Compile, Revive, evidence, transport
  <2>3. CASE ObserveElsewhere \/ ConfigReverted
    BY <2>3, <2>g DEF ObserveElsewhere, ConfigReverted, evidence, transport
  <2>4. ASSUME NEW op \in ForgetOps, NEW reason \in Reasons, NEW k \in 1..8, ForgetScope(op, reason, k)
        PROVE  I'
    <3>1. marks \subseteq marks' /\ UNCHANGED <<line, buried, pkg, receipt>>
      BY <2>4, ForgetEffect
    <3> QED
      BY <2>g, <3>1
  <2>5. ASSUME NEW op \in ReleaseOps, HoldReleaseReplayed(op) \/ \E k \in 1..2 : HoldRelease(op, k) PROVE I'
    BY <2>5, <2>g DEF HoldReleaseReplayed, HoldRelease, evidence, transport
  <2>6. ASSUME NEW op \in SweepOps, NEW X \in SUBSET Obs, NEW D \in SUBSET Obs, ExpireRetention(op, X, D)
        PROVE  I'
    BY <2>6, <2>g DEF ExpireRetention, Tombstoned, transport
  <2>7. CASE ExportScope
    <3>1. ~receipt /\ ~receipt'
      BY <2>7 DEF ExportScope, TypeOK
    <3> QED
      BY <3>1 DEF NoResurrection
  <2>8. CASE NewBrain
    <3>1. ~receipt'
      BY <2>8 DEF NewBrain, transport, TypeOK
    <3> QED
      BY <3>1 DEF NoResurrection
  <2>9. CASE Open
    BY <2>9, <2>g DEF Open, evidence, transport
  <2>10. CASE RestoreScope(4)
    <3>1. marks = {}
      BY <2>10, ScopeLifecycleAssumption DEF RestoreScope, SeqInv, TypeOK, Mark
    <3>2. /\ line' = pkg.line /\ buried' = pkg.buried /\ marks' = pkg.marks
          /\ pkg' = pkg /\ pkg # NoPackage
      BY <2>10, <3>1 DEF RestoreScope
    <3>3. ASSUME NEW o \in W PROVE Status(o)' # "accepted"
      <4>1. CASE line'[o] = 0
        BY <4>1 DEF Status, StatusIn
      <4>2. CASE line'[o] # 0
        <5>1. pkg.was[o] = StatusIn(pkg.line, pkg.buried, pkg.marks, o)
          BY <3>2, <4>2 DEF PackageInv
        <5> QED
          BY <3>2, <5>1 DEF Status
      <4> QED
        BY <4>1, <4>2
    <3> QED
      BY <3>2, <3>3 DEF NoResurrection
  <2>11. CASE UNCHANGED vars
    BY <2>11, <2>g DEF vars, evidence, transport
  <2> HIDE DEF I
  <2> QED
    BY <2>1, <2>2, <2>3, <2>4, <2>5, <2>6, <2>7, <2>8, <2>9, <2>10, <2>11 DEF Next
<1> QED
  BY <1>1, <1>2, LifecycleInvariance, PTL DEF Spec
=============================================================================
