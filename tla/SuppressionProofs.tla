------------------------- MODULE SuppressionProofs -------------------------
(***************************************************************************)
(* What Suppression promises for any claims, observations, scopes and      *)
(* number of relations, under what the module's constants allow users.     *)
(***************************************************************************)
EXTENDS Suppression, TLAPS

-----------------------------------------------------------------------------
(* Types.                                                                  *)

\* The rows of one record are rows of the table.
LEMMA EdgesOfType ==
    ASSUME NEW c \in Claims, NEW r \in Record
    PROVE  EdgesOf(c, r) \subseteq Edge
BY DEF EdgesOf, Record, Relation, Edge

\* A record that is purged has its type.
LEMMA AbsentType == Absent \in Record
BY DEF Absent, Record

\* The search for an edge is a condition, and syncing keeps rows and table
\* well typed.
LEMMA SyncType ==
    ASSUME TypeOK, NEW C \in SUBSET Claims, NEW recs \in [Claims -> Record], Sync(C, recs)
    PROVE  row' \in [Claims -> Record] /\ adj' \subseteq Edge
<1>1. row' \in [Claims -> Record]
  BY DEF Sync, TypeOK
<1>2. \A c \in C : EdgesOf(c, recs[c]) \subseteq Edge
  BY EdgesOfType
<1> QED
  BY <1>1, <1>2 DEF Sync, Refreshed, TypeOK

\* Withdrawing evidence keeps the records well typed.
LEMMA WithoutEvidenceType ==
    ASSUME NEW F \in [Claims -> Record], NEW O \in SUBSET Obs
    PROVE  WithoutEvidence(O, F) \in [Claims -> Record]
BY DEF WithoutEvidence, Impacted, Record

\* The records the brain starts with are well typed.
LEMMA MintedType == Minted \in [Claims -> Record]
BY SuppressionAssumption DEF Minted, Record

\* A relation that is admitted gives a well-typed record.
LEMMA AddRelationType ==
    ASSUME TypeOK, NEW c \in Claims, NEW t \in Claims, drawn < MaxRelations
    PROVE  AddRelation(c, t) \in [Claims -> Record] /\ drawn + 1 \in 0..MaxRelations
<1>1. drawn + 1 \in RelIds /\ drawn + 1 \in 0..MaxRelations
  BY SuppressionAssumption DEF TypeOK, RelIds
<1>2. [id |-> drawn + 1, to |-> t] \in Relation
  BY <1>1 DEF Relation
<1> QED
  BY <1>1, <1>2 DEF TypeOK, AddRelation, Record

\* The state at the start is well typed.
LEMMA InitType == Init => TypeOK
BY MintedType, SuppressionAssumption DEF Init, TypeOK, NoPackage

\* Every verb, sweep, restore and open keeps records, rows and table well typed.
LEMMA StepType == TypeOK /\ [Next]_vars => TypeOK'
<1> SUFFICES ASSUME TypeOK, [Next]_vars PROVE TypeOK'
  OBVIOUS
<1>1. ASSUME NEW c \in Claims, NEW t \in Claims, Revise(c, t) PROVE TypeOK'
  <2>1. rec' \in [Claims -> Record] /\ drawn' \in 0..MaxRelations
    BY <1>1, AddRelationType DEF Revise
  <2>2. row' \in [Claims -> Record] /\ adj' \subseteq Edge
    BY <1>1, <2>1, SyncType DEF Revise
  <2> QED
    BY <1>1, <2>1, <2>2 DEF Revise, TypeOK
<1>2. ASSUME NEW c \in Claims, NEW t \in Claims, ReviseDies(c, t) PROVE TypeOK'
  <2>1. rec' \in [Claims -> Record] /\ drawn' \in 0..MaxRelations
    BY <1>2, AddRelationType DEF ReviseDies
  <2> QED
    BY <1>2, <2>1 DEF ReviseDies, TypeOK
<1>3. ASSUME NEW c \in Claims, NEW i \in RelIds, InvalidateRelation(c, i) PROVE TypeOK'
  <2>1. rec' \in [Claims -> Record]
    <3>1. rec \in [Claims -> Record] /\ rec' = [rec EXCEPT ![c].rels = Invalidated(@, {i})]
      BY <1>3 DEF InvalidateRelation, TypeOK
    <3>2. Invalidated(rec[c].rels, {i}) \in SUBSET Relation
      BY <3>1 DEF Invalidated, Record
    <3> QED
      BY <3>1, <3>2 DEF Record
  <2>2. row' \in [Claims -> Record] /\ adj' \subseteq Edge
    BY <1>3, <2>1, SyncType DEF InvalidateRelation
  <2> QED
    BY <1>3, <2>1, <2>2 DEF InvalidateRelation, TypeOK
<1>4. ASSUME NEW c \in Claims, Forget(c) PROVE TypeOK'
  <2>1. rec' \in [Claims -> Record]
    BY <1>4 DEF Forget, TypeOK, Record
  <2>2. row' \in [Claims -> Record] /\ adj' \subseteq Edge
    BY <1>4, <2>1, SyncType DEF Forget
  <2> QED
    BY <1>4, <2>1, <2>2 DEF Forget, TypeOK
<1>5. ASSUME NEW c \in Claims, Revive(c) PROVE TypeOK'
  <2> DEFINE I == RevalidateOnRevive(c)
  <2> HIDE DEF I
  <2>1. rec' \in [Claims -> Record]
    <3> DEFINE mid == [rec EXCEPT ![c].state = "active"]
    <3>1. mid \in [Claims -> Record]
      BY DEF TypeOK, Record
    <3>2. rec' = [mid EXCEPT ![c].rels = Invalidated(@, I)]
      BY <1>5 DEF Revive, I
    <3> HIDE DEF mid
    <3> QED
      BY <3>1, <3>2 DEF Invalidated, Record
  <2>2. row' \in [Claims -> Record] /\ adj' \subseteq Edge
    BY <1>5, <2>1, SyncType DEF Revive
  <2> QED
    BY <1>5, <2>1, <2>2 DEF Revive, TypeOK
<1>6. ASSUME NEW o \in Obs, ForgetObservation(o) PROVE TypeOK'
  <2>1. row' \in [Claims -> Record]
    BY <1>6, WithoutEvidenceType DEF ForgetObservation, TypeOK
  <2>2. rec' \in [Claims -> Record]
    BY <1>6, <2>1 DEF ForgetObservation, TypeOK
  <2> QED
    BY <1>6, <2>1, <2>2 DEF ForgetObservation, TypeOK
<1>7. ASSUME NEW o \in Obs, ForgetObservationDies(o) PROVE TypeOK'
  BY <1>7 DEF ForgetObservationDies, TypeOK
<1>8. ASSUME NEW s \in Scopes, ExportScope(s) PROVE TypeOK'
  <2> DEFINE x == [claims |-> [c \in Members(s) |-> rec[c]], obs |-> [o \in ObsOf(s) |-> obs[o]]]
  <2>1. x.claims \in [Members(s) -> Record]
    BY DEF Members, TypeOK
  <2>2. x.obs \in [ObsOf(s) -> {"accepted", "gone", "none"}]
    BY SuppressionAssumption DEF ObsOf, TypeOK
  <2>3. pkg' = [pkg EXCEPT ![s] = x]
    BY <1>8 DEF ExportScope
  <2> HIDE DEF x
  <2>4. DOMAIN pkg' = Scopes /\ \A t \in Scopes : pkg'[t] = IF t = s THEN x ELSE pkg[t]
    BY <2>3 DEF TypeOK
  <2> QED
    BY <1>8, <2>1, <2>2, <2>4 DEF ExportScope, TypeOK
<1>9. ASSUME NEW s \in Scopes, EraseScope(s) PROVE TypeOK'
  BY <1>9, AbsentType DEF EraseScope, PurgedRecords, TypeOK
<1>10. ASSUME NEW s \in Scopes, RestoreScope(s) PROVE TypeOK'
  <2>1. rec' \in [Claims -> Record]
    BY <1>10 DEF RestoreScope, TypeOK, Members
  <2>2. row' \in [Claims -> Record] /\ adj' \subseteq Edge
    BY <1>10, <2>1, SyncType DEF RestoreScope
  <2>3. obs' \in [Obs -> {"accepted", "gone", "none"}]
    BY <1>10 DEF RestoreScope, TypeOK
  <2> QED
    BY <1>10, <2>1, <2>2, <2>3 DEF RestoreScope, TypeOK
<1>11. ASSUME Open PROVE TypeOK'
  <2> DEFINE present == {c \in Claims : rec[c].state # "none"}
             synced  == [c \in Claims |-> IF c \in present THEN rec[c] ELSE row[c]]
  <2>1. synced \in [Claims -> Record]
    BY DEF TypeOK
  <2>2. row' \in [Claims -> Record]
    BY <1>11, <2>1, WithoutEvidenceType DEF Open, TypeOK
  <2>3. rec' \in [Claims -> Record]
    BY <1>11, <2>2 DEF Open, TypeOK
  <2>4. adj' \subseteq Edge
    <3>1. \A c \in present : EdgesOf(c, rec[c]) \subseteq Edge
      BY EdgesOfType DEF TypeOK
    <3> QED
      BY <1>11, <3>1 DEF Open, Refreshed, TypeOK
  <2> QED
    BY <1>11, <2>2, <2>3, <2>4 DEF Open, TypeOK
<1>12. ASSUME NewBrain PROVE TypeOK'
  BY <1>12, AbsentType DEF NewBrain, TypeOK
<1>13. CASE UNCHANGED vars
  BY <1>13 DEF vars, TypeOK
<1> QED
  BY <1>1, <1>2, <1>3, <1>4, <1>5, <1>6, <1>7, <1>8, <1>9, <1>10, <1>11, <1>12, <1>13 DEF Next

-----------------------------------------------------------------------------
(* Rows and relation table follow the records.                             *)

\* The table A is what the records F stand for.
FollowsIn(A, F) ==
    \A c \in Claims, i \in RelIds, t \in Claims :
        [from |-> c, id |-> i, to |-> t] \in A <=> [id |-> i, to |-> t] \in F[c].rels

\* A row of a record's edges is a relation of that record.
LEMMA EdgeRow ==
    ASSUME NEW c \in Claims, NEW i \in RelIds, NEW t \in Claims,
           NEW d \in Claims, NEW r \in Record
    PROVE  [from |-> c, id |-> i, to |-> t] \in EdgesOf(d, r) <=>
               (c = d /\ [id |-> i, to |-> t] \in r.rels)
<1>1. \A x \in r.rels : x = [id |-> x.id, to |-> x.to]
  BY DEF Record, Relation
<1>2. ASSUME [from |-> c, id |-> i, to |-> t] \in EdgesOf(d, r)
      PROVE  c = d /\ [id |-> i, to |-> t] \in r.rels
  <2>1. PICK x \in r.rels : [from |-> c, id |-> i, to |-> t] = [from |-> d, id |-> x.id, to |-> x.to]
    BY <1>2 DEF EdgesOf
  <2>2. c = d /\ i = x.id /\ t = x.to
    BY <2>1
  <2> QED
    BY <1>1, <2>2
<1>3. ASSUME [id |-> i, to |-> t] \in r.rels PROVE [from |-> c, id |-> i, to |-> t] \in EdgesOf(c, r)
  BY <1>3 DEF EdgesOf
<1> QED
  BY <1>2, <1>3

\* A set of rows is the derived table exactly when it follows row by row.
LEMMA Follows ==
    ASSUME NEW A \in SUBSET Edge, NEW F \in [Claims -> Record]
    PROVE  FollowsIn(A, F) <=> A = UNION {EdgesOf(c, F[c]) : c \in Claims}
<1> DEFINE D == UNION {EdgesOf(c, F[c]) : c \in Claims}
<1>1. ASSUME NEW c \in Claims, NEW i \in RelIds, NEW t \in Claims
      PROVE  [from |-> c, id |-> i, to |-> t] \in D <=> [id |-> i, to |-> t] \in F[c].rels
  BY EdgeRow
<1>2. D \subseteq Edge
  BY EdgesOfType
<1> HIDE DEF D
<1>3. \A e \in Edge : \E c \in Claims, i \in RelIds, t \in Claims :
                          e = [from |-> c, id |-> i, to |-> t]
  BY DEF Edge
<1>4. ASSUME FollowsIn(A, F) PROVE A = D
  <2>1. ASSUME NEW e \in Edge PROVE e \in A <=> e \in D
    <3>1. PICK c \in Claims, i \in RelIds, t \in Claims : e = [from |-> c, id |-> i, to |-> t]
      BY <1>3
    <3> QED
      BY <1>1, <1>4, <3>1 DEF FollowsIn
  <2> QED
    BY <1>2, <2>1
<1>5. ASSUME A = D PROVE FollowsIn(A, F)
  BY <1>1, <1>5 DEF FollowsIn
<1> QED
  BY <1>4, <1>5 DEF D

\* refreshAdjacency() replaces the rows of C and keeps the others.
LEMMA RefreshedRows ==
    ASSUME NEW C \in SUBSET Claims, NEW F \in [Claims -> Record],
           NEW c \in Claims, NEW i \in RelIds, NEW t \in Claims
    PROVE  [from |-> c, id |-> i, to |-> t] \in Refreshed(C, F) <=>
               IF c \in C THEN [id |-> i, to |-> t] \in F[c].rels
               ELSE [from |-> c, id |-> i, to |-> t] \in adj
<1> DEFINE e == [from |-> c, id |-> i, to |-> t]
<1>1. e.from = c
  OBVIOUS
<1>2. \A d \in C : e \in EdgesOf(d, F[d]) <=> (c = d /\ [id |-> i, to |-> t] \in F[d].rels)
  BY EdgeRow
<1> HIDE DEF e
<1> QED
  BY <1>1, <1>2 DEF Refreshed, e

\* syncFromJsonlVersion() of every claim whose record changed leaves rows and
\* table as the new records have them.
LEMMA SyncFollows ==
    ASSUME TypeOK, NEW C \in SUBSET Claims, NEW F \in [Claims -> Record], Sync(C, F),
           row = rec, FollowsIn(adj, rec), \A d \in Claims \ C : F[d] = rec[d]
    PROVE  row' = F /\ FollowsIn(adj', F)
<1>1. row' = F
  BY DEF Sync, TypeOK
<1>2. FollowsIn(adj', F)
  BY RefreshedRows DEF Sync, FollowsIn
<1> QED
  BY <1>1, <1>2

-----------------------------------------------------------------------------
(* The store of a brain whose users relate claims of one scope only.       *)

Recorded(F, c)    == F[c].state # "none"
Within(F, c)      == \A x \in F[c].rels : ScopeOf[x.to] = ScopeOf[c]

\* A claim without a record has nothing else either.
AbsentInv ==
    /\ \A c \in Claims : ~Recorded(rec, c) => rec[c] = Absent /\ row[c] = Absent
    /\ \A c \in Claims, i \in RelIds, t \in Claims :
          [from |-> c, id |-> i, to |-> t] \in adj => Recorded(rec, c)

\* Relations stay within their scope.
ScopeInv == \A c \in Claims : Within(rec, c)

\* The live process agrees with the records; no withdrawal is outstanding.
LiveInv == up => row = rec /\ FollowsIn(adj, rec) /\ pend = {}

\* The same of what lies in packages.
PackageInv ==
    \A s \in Scopes : pkg[s] # NoPackage => \A c \in Members(s) :
        /\ ~Recorded(pkg[s].claims, c) => pkg[s].claims[c] = Absent
        /\ Within(pkg[s].claims, c)

StoreInv == TypeOK /\ AbsentInv /\ ScopeInv /\ LiveInv /\ PackageInv

\* A table that follows the records has no rows of absent claims.
LEMMA NoRowsOfAbsent ==
    ASSUME NEW A, NEW F, FollowsIn(A, F),
           \A c \in Claims : ~Recorded(F, c) => F[c] = Absent
    PROVE  \A c \in Claims, i \in RelIds, t \in Claims :
              [from |-> c, id |-> i, to |-> t] \in A => Recorded(F, c)
<1>1. Absent.rels = {}
  BY DEF Absent
<1>2. ASSUME NEW c \in Claims, NEW i \in RelIds, NEW t \in Claims,
             [from |-> c, id |-> i, to |-> t] \in A, ~Recorded(F, c)
      PROVE  FALSE
  <2>1. [id |-> i, to |-> t] \in F[c].rels
    BY <1>2 DEF FollowsIn
  <2>2. F[c] = Absent
    BY <1>2
  <2> QED
    BY <1>1, <2>1, <2>2
<1> QED
  BY <1>2 DEF Recorded

\* Where rows and table were synced with the records, only these matter.
LEMMA Synced ==
    ASSUME row' = rec', FollowsIn(adj', rec'), pend' = {},
           \A c \in Claims : /\ ~Recorded(rec', c) => rec'[c] = Absent
                             /\ Within(rec', c)
    PROVE  AbsentInv' /\ ScopeInv' /\ LiveInv'
<1>1. AbsentInv'
  BY NoRowsOfAbsent DEF AbsentInv
<1> QED
  BY <1>1 DEF ScopeInv, LiveInv

\* The relations of a record after each way of changing it.
LEMMA RevivedRecord ==
    ASSUME TypeOK, NEW c \in Claims, Revive(c)
    PROVE  \A d \in Claims :
              /\ rec'[d].state = IF d = c THEN "active" ELSE rec[d].state
              /\ rec'[d].rels = IF d = c THEN Invalidated(rec[c].rels, RevalidateOnRevive(c))
                                ELSE rec[d].rels
              /\ rec'[d].ev = rec[d].ev
              /\ d # c => rec'[d] = rec[d]
<1> DEFINE I   == RevalidateOnRevive(c)
           mid == [rec EXCEPT ![c].state = "active"]
<1>1. rec' = [mid EXCEPT ![c].rels = Invalidated(@, I)]
  BY DEF Revive
<1> HIDE DEF I
<1>2. mid \in [Claims -> Record]
  BY DEF TypeOK, Record
<1>3. \A d \in Claims : /\ mid[d].state = IF d = c THEN "active" ELSE rec[d].state
                        /\ mid[d].rels = rec[d].rels /\ mid[d].ev = rec[d].ev
                        /\ d # c => mid[d] = rec[d]
  BY DEF TypeOK, Record
<1> HIDE DEF mid
<1> QED
  BY <1>1, <1>2, <1>3 DEF Record, I

\* Withdrawing evidence takes it from the active claims it supports, and no relation.
LEMMA WithoutEvidenceFacts ==
    ASSUME NEW F \in [Claims -> Record], NEW O \in SUBSET Obs
    PROVE  \A c \in Claims :
              /\ WithoutEvidence(O, F)[c].rels = F[c].rels
              /\ c \notin Impacted(O, F) => WithoutEvidence(O, F)[c] = F[c]
              /\ c \in Impacted(O, F) =>
                     F[c].state = "active" /\ WithoutEvidence(O, F)[c].state \in {"active", "forgotten"}
              /\ WithoutEvidence(O, F)[c].ev = IF c \in Impacted(O, F) THEN F[c].ev \ O ELSE F[c].ev
BY DEF WithoutEvidence, Impacted, Record

\* Each verb and each open keep the store whole.
LEMMA StepStore ==
    ASSUME CrossScope = FALSE, StoreInv, [Next]_vars
    PROVE  StoreInv'
<1> USE DEF StoreInv
<1>0. TypeOK'
  BY StepType
<1>p. ASSUME UNCHANGED pkg PROVE PackageInv'
  BY <1>p DEF PackageInv
<1>1. ASSUME NEW c \in Claims, NEW t \in Claims, Revise(c, t) PROVE StoreInv'
  <2>1. up /\ ScopeOf[c] = ScopeOf[t] /\ Recorded(rec, c)
    BY <1>1 DEF Revise, Admits, Recorded
  <2>2. \A d \in Claims : /\ rec'[d].rels = IF d = c THEN rec[d].rels \cup {[id |-> drawn + 1, to |-> t]}
                                            ELSE rec[d].rels
                          /\ rec'[d].state = rec[d].state /\ (d # c => rec'[d] = rec[d])
    BY <1>1 DEF Revise, AddRelation, TypeOK, Record
  <2>3. row' = rec' /\ FollowsIn(adj', rec')
    <3>1. Sync({c}, rec') /\ rec' \in [Claims -> Record] /\ row = rec /\ FollowsIn(adj, rec)
      BY <1>0, <1>1, <2>2, <2>1 DEF Revise, LiveInv, TypeOK
    <3>2. \A d \in Claims \ {c} : rec'[d] = rec[d]
      BY <2>1, <2>2
    <3> QED
      BY <3>1, <3>2, SyncFollows
  <2>4. \A d \in Claims : ~Recorded(rec', d) => rec'[d] = Absent
    BY <2>1, <2>2 DEF AbsentInv, Recorded
  <2>5. \A d \in Claims : Within(rec', d)
    <3>1. ASSUME NEW d \in Claims, NEW x \in rec'[d].rels PROVE ScopeOf[x.to] = ScopeOf[d]
      <4>1. CASE x \in rec[d].rels
        BY <4>1 DEF ScopeInv, Within
      <4>2. CASE d = c /\ x = [id |-> drawn + 1, to |-> t]
        BY <2>1, <4>2
      <4> QED
        BY <2>2, <4>1, <4>2
    <3> QED
      BY <3>1 DEF ScopeInv, Within
  <2> QED
    BY <1>0, <1>p, <1>1, <2>1, <2>3, <2>4, <2>5, Synced DEF Revise, LiveInv
<1>2. ASSUME NEW c \in Claims, NEW t \in Claims, ReviseDies(c, t) PROVE StoreInv'
  <2>1. up /\ ScopeOf[c] = ScopeOf[t] /\ Recorded(rec, c)
    BY <1>2 DEF ReviseDies, Admits, Recorded
  <2>2. \A d \in Claims : /\ rec'[d].rels = IF d = c THEN rec[d].rels \cup {[id |-> drawn + 1, to |-> t]}
                                            ELSE rec[d].rels
                          /\ rec'[d].state = rec[d].state /\ (d # c => rec'[d] = rec[d])
    BY <1>2 DEF ReviseDies, AddRelation, TypeOK, Record
  <2>3. AbsentInv'
    BY <1>2, <2>1, <2>2 DEF ReviseDies, AbsentInv, Recorded
  <2>4. ScopeInv'
    <3>1. ASSUME NEW d \in Claims, NEW x \in rec'[d].rels PROVE ScopeOf[x.to] = ScopeOf[d]
      <4>1. CASE x \in rec[d].rels
        BY <4>1 DEF ScopeInv, Within
      <4>2. CASE d = c /\ x = [id |-> drawn + 1, to |-> t]
        BY <2>1, <4>2
      <4> QED
        BY <2>2, <4>1, <4>2
    <3> QED
      BY <3>1 DEF ScopeInv, Within
  <2> QED
    BY <1>0, <1>p, <1>2, <2>3, <2>4 DEF ReviseDies, LiveInv
<1>3. ASSUME NEW c \in Claims, NEW i \in RelIds, InvalidateRelation(c, i) PROVE StoreInv'
  <2>1. \A d \in Claims : /\ rec'[d].rels \subseteq rec[d].rels
                          /\ rec'[d].state = rec[d].state /\ (d # c => rec'[d] = rec[d])
    BY <1>3 DEF InvalidateRelation, Invalidated, TypeOK, Record
  <2>2. up /\ Recorded(rec, c)
    BY <1>3 DEF InvalidateRelation, Recorded
  <2>3. row' = rec' /\ FollowsIn(adj', rec')
    <3>1. Sync({c}, rec') /\ rec' \in [Claims -> Record] /\ row = rec /\ FollowsIn(adj, rec)
      BY <1>0, <1>3, <2>2, <2>1 DEF InvalidateRelation, LiveInv, TypeOK
    <3>2. \A d \in Claims \ {c} : rec'[d] = rec[d]
      BY <2>1, <2>2
    <3> QED
      BY <3>1, <3>2, SyncFollows
  <2>4. \A d \in Claims : ~Recorded(rec', d) => rec'[d] = Absent
    BY <2>1, <2>2 DEF AbsentInv, Recorded
  <2>5. \A d \in Claims : Within(rec', d)
    BY <2>1 DEF ScopeInv, Within
  <2> QED
    BY <1>0, <1>p, <1>3, <2>2, <2>3, <2>4, <2>5, Synced DEF InvalidateRelation, LiveInv
<1>4. ASSUME NEW c \in Claims, Forget(c) PROVE StoreInv'
  <2>1. \A d \in Claims : /\ rec'[d].rels = rec[d].rels
                          /\ rec'[d].state = IF d = c THEN "forgotten" ELSE rec[d].state
                          /\ (d # c => rec'[d] = rec[d])
    BY <1>4 DEF Forget, TypeOK, Record
  <2>2. up
    BY <1>4 DEF Forget
  <2>3. row' = rec' /\ FollowsIn(adj', rec')
    <3>1. Sync({c}, rec') /\ rec' \in [Claims -> Record] /\ row = rec /\ FollowsIn(adj, rec)
      BY <1>0, <1>4, <2>2, <2>1 DEF Forget, LiveInv, TypeOK
    <3>2. \A d \in Claims \ {c} : rec'[d] = rec[d]
      BY <2>1, <2>2
    <3> QED
      BY <3>1, <3>2, SyncFollows
  <2>4. \A d \in Claims : ~Recorded(rec', d) => rec'[d] = Absent
    BY <2>1, <2>2 DEF AbsentInv, Recorded
  <2>5. \A d \in Claims : Within(rec', d)
    BY <2>1 DEF ScopeInv, Within
  <2> QED
    BY <1>0, <1>p, <1>4, <2>2, <2>3, <2>4, <2>5, Synced DEF Forget, LiveInv
<1>5. ASSUME NEW c \in Claims, Revive(c) PROVE StoreInv'
  <2>1. \A d \in Claims : /\ rec'[d].rels \subseteq rec[d].rels
                          /\ rec'[d].state = IF d = c THEN "active" ELSE rec[d].state
                          /\ (d # c => rec'[d] = rec[d])
    BY <1>5, RevivedRecord DEF Invalidated
  <2>2. up
    BY <1>5 DEF Revive
  <2>3. row' = rec' /\ FollowsIn(adj', rec')
    <3>1. Sync({c}, rec') /\ rec' \in [Claims -> Record] /\ row = rec /\ FollowsIn(adj, rec)
      BY <1>0, <1>5, <2>2, <2>1 DEF Revive, LiveInv, TypeOK
    <3>2. \A d \in Claims \ {c} : rec'[d] = rec[d]
      BY <2>1, <2>2
    <3> QED
      BY <3>1, <3>2, SyncFollows
  <2>4. \A d \in Claims : ~Recorded(rec', d) => rec'[d] = Absent
    BY <2>1, <2>2 DEF AbsentInv, Recorded
  <2>5. \A d \in Claims : Within(rec', d)
    BY <2>1 DEF ScopeInv, Within
  <2> QED
    BY <1>0, <1>p, <1>5, <2>2, <2>3, <2>4, <2>5, Synced DEF Revive, LiveInv
<1>6. ASSUME NEW o \in Obs, ForgetObservation(o) PROVE StoreInv'
  <2>1. up /\ row = rec /\ FollowsIn(adj, rec) /\ pend' = {}
    BY <1>6 DEF ForgetObservation, LiveInv
  <2>2. row' = WithoutEvidence({o}, row) /\ adj' = adj
    BY <1>6 DEF ForgetObservation
  <2>3. \A d \in Claims : /\ row'[d].rels = row[d].rels
                          /\ d \notin Impacted({o}, row) => row'[d] = row[d]
                          /\ d \in Impacted({o}, row) => row'[d].state \in {"active", "forgotten"}
    <3>1. row \in [Claims -> Record] /\ {o} \in SUBSET Obs
      BY DEF TypeOK
    <3> QED
      BY <2>2, <3>1, WithoutEvidenceFacts
  <2>4. row' = rec'
    BY <1>0, <1>6, <2>1, <2>3 DEF ForgetObservation, TypeOK
  <2>5. FollowsIn(adj', rec')
    BY <2>1, <2>2, <2>3, <2>4 DEF FollowsIn
  <2>6. \A d \in Claims : ~Recorded(rec', d) => rec'[d] = Absent
    BY <2>1, <2>3, <2>4 DEF AbsentInv, Recorded
  <2>7. \A d \in Claims : Within(rec', d)
    BY <2>1, <2>3, <2>4 DEF ScopeInv, Within
  <2> QED
    BY <1>0, <1>p, <1>6, <2>1, <2>4, <2>5, <2>6, <2>7, Synced DEF ForgetObservation
<1>7. ASSUME NEW o \in Obs, ForgetObservationDies(o) PROVE StoreInv'
  BY <1>0, <1>p, <1>7 DEF ForgetObservationDies, AbsentInv, ScopeInv, LiveInv
<1>8. ASSUME NEW s \in Scopes, ExportScope(s) PROVE StoreInv'
  <2> DEFINE x == [claims |-> [c \in Members(s) |-> rec[c]], obs |-> [o \in ObsOf(s) |-> obs[o]]]
  <2>1. pkg' = [pkg EXCEPT ![s] = x]
    BY <1>8 DEF ExportScope
  <2>2. \A c \in Members(s) : x.claims[c] = rec[c] /\ c \in Claims
    BY DEF Members
  <2> HIDE DEF x
  <2>3. \A t \in Scopes : pkg'[t] = IF t = s THEN x ELSE pkg[t]
    BY <2>1 DEF TypeOK
  <2>4. \A c \in Members(s) : (~Recorded(x.claims, c) => x.claims[c] = Absent) /\ Within(x.claims, c)
    BY <2>2 DEF AbsentInv, ScopeInv, Recorded, Within
  <2>5. PackageInv'
    BY <2>3, <2>4 DEF PackageInv
  <2>6. AbsentInv' /\ ScopeInv' /\ LiveInv'
    BY <1>8 DEF ExportScope, AbsentInv, ScopeInv, LiveInv
  <2> QED
    BY <1>0, <2>5, <2>6
<1>9. ASSUME NEW s \in Scopes, EraseScope(s) PROVE StoreInv'
  <2>1. up /\ row = rec /\ FollowsIn(adj, rec) /\ pend' = {}
    BY <1>9 DEF EraseScope, LiveInv
  <2>2. row' = rec' /\ \A d \in Claims : rec'[d] = IF d \in Members(s) THEN Absent ELSE rec[d]
    BY <1>9, <2>1 DEF EraseScope, PurgedRecords
  <2>3. ASSUME NEW c \in Claims, NEW i \in RelIds, NEW t \in Claims
        PROVE  [from |-> c, id |-> i, to |-> t] \in adj' <=> [id |-> i, to |-> t] \in rec'[c].rels
    <3> DEFINE e == [from |-> c, id |-> i, to |-> t]
    <3>1. e \in adj' <=> /\ e \in adj
                         /\ ~(c \in Members(s) /\ row[c].state # "none")
                         /\ ~(t \in Members(s) /\ row[t].state # "none")
      BY <1>9 DEF EraseScope
    <3>2. e \in adj <=> [id |-> i, to |-> t] \in rec[c].rels
      BY <2>1 DEF FollowsIn
    <3>3. e \in adj => Recorded(rec, c) /\ ScopeOf[t] = ScopeOf[c]
      BY <3>2 DEF AbsentInv, ScopeInv, Within
    <3> HIDE DEF e
    <3>4. CASE c \in Members(s)
      BY <2>1, <2>2, <3>1, <3>3, <3>4 DEF Recorded, Absent, e
    <3>5. CASE c \notin Members(s)
      BY <2>1, <2>2, <3>1, <3>2, <3>3, <3>5 DEF Members, e
    <3> QED
      BY <3>4, <3>5
  <2>4. FollowsIn(adj', rec')
    BY <2>3 DEF FollowsIn
  <2>5. \A d \in Claims : (~Recorded(rec', d) => rec'[d] = Absent) /\ Within(rec', d)
    BY <2>2 DEF AbsentInv, ScopeInv, Recorded, Within, Absent
  <2> QED
    BY <1>0, <1>p, <1>9, <2>1, <2>2, <2>4, <2>5, Synced DEF EraseScope
<1>10. ASSUME NEW s \in Scopes, RestoreScope(s) PROVE StoreInv'
  <2> DEFINE present == {c \in Claims : rec'[c].state # "none"}
  <2>1. up /\ row = rec /\ FollowsIn(adj, rec) /\ pend' = {} /\ pkg[s] # NoPackage
    BY <1>10 DEF RestoreScope, LiveInv
  <2>2. \A d \in Claims : rec'[d] = IF d \in Members(s) THEN pkg[s].claims[d] ELSE rec[d]
    BY <1>10 DEF RestoreScope
  <2>3. \A d \in Members(s) : rec[d] = Absent
    BY <1>10 DEF RestoreScope, AbsentInv, Recorded, Members
  <2>4. \A d \in Claims : (~Recorded(rec', d) => rec'[d] = Absent) /\ Within(rec', d)
    BY <2>1, <2>2 DEF AbsentInv, ScopeInv, PackageInv, Recorded, Within
  <2>5. \A d \in Claims \ present : rec'[d] = rec[d]
    BY <2>2, <2>3, <2>4 DEF Recorded
  <2>6. Sync(present, rec')
    BY <1>10 DEF RestoreScope
  <2> HIDE DEF present
  <2>7. row' = rec' /\ FollowsIn(adj', rec')
    <3>1. present \in SUBSET Claims /\ rec' \in [Claims -> Record]
      BY <1>0 DEF present, TypeOK
    <3> QED
      BY <2>1, <2>5, <2>6, <3>1, SyncFollows
  <2> QED
    BY <1>0, <1>p, <1>10, <2>1, <2>4, <2>7, Synced DEF RestoreScope
<1>11. ASSUME Open PROVE StoreInv'
  <2> DEFINE present == {c \in Claims : rec[c].state # "none"}
             synced  == [c \in Claims |-> IF c \in present THEN rec[c] ELSE row[c]]
  <2>1. synced = rec
    BY DEF AbsentInv, Recorded, TypeOK
  <2>2. /\ row' = WithoutEvidence(pend, rec)
        /\ rec' = [c \in Claims |-> IF c \in Impacted(pend, rec) THEN row'[c] ELSE rec[c]]
        /\ adj' = Refreshed(present, rec) /\ pend' = {} /\ pkg' = pkg
    BY <1>11, <2>1 DEF Open
  <2>3. \A d \in Claims : /\ row'[d].rels = rec[d].rels
                          /\ d \notin Impacted(pend, rec) => row'[d] = rec[d]
                          /\ d \in Impacted(pend, rec) => row'[d].state \in {"active", "forgotten"}
    <3>1. rec \in [Claims -> Record] /\ pend \in SUBSET Obs
      BY DEF TypeOK
    <3> QED
      BY <2>2, <3>1, WithoutEvidenceFacts
  <2>4. row' = rec'
    BY <1>0, <2>2, <2>3 DEF TypeOK
  <2>5. \A d \in Claims : (~Recorded(rec', d) => rec'[d] = Absent) /\ Within(rec', d)
    BY <2>3, <2>4 DEF AbsentInv, ScopeInv, Recorded, Within
  <2>6. ASSUME NEW c \in Claims, NEW i \in RelIds, NEW t \in Claims
        PROVE  [from |-> c, id |-> i, to |-> t] \in adj' <=> [id |-> i, to |-> t] \in rec'[c].rels
    <3>1. [from |-> c, id |-> i, to |-> t] \in adj' <=>
              IF c \in present THEN [id |-> i, to |-> t] \in rec[c].rels
              ELSE [from |-> c, id |-> i, to |-> t] \in adj
      <4>1. present \in SUBSET Claims /\ rec \in [Claims -> Record] /\ adj' = Refreshed(present, rec)
        BY <2>2 DEF TypeOK
      <4> HIDE DEF present
      <4> QED
        BY <4>1, RefreshedRows
    <3>2. c \notin present => ~([from |-> c, id |-> i, to |-> t] \in adj) /\ rec[c].rels = {}
      BY DEF AbsentInv, Recorded, Absent
    <3> QED
      BY <2>3, <2>4, <3>1, <3>2
  <2>7. FollowsIn(adj', rec')
    BY <2>6 DEF FollowsIn
  <2> QED
    BY <1>0, <1>p, <2>2, <2>4, <2>5, <2>7, Synced
<1>12. ASSUME NewBrain PROVE StoreInv'
  <2>1. row' = rec' /\ adj' = {} /\ pend' = {} /\ \A c \in Claims : rec'[c] = Absent
    BY <1>12 DEF NewBrain
  <2>2. FollowsIn(adj', rec')
    BY <2>1 DEF FollowsIn, Absent
  <2>3. \A d \in Claims : (~Recorded(rec', d) => rec'[d] = Absent) /\ Within(rec', d)
    BY <2>1 DEF Within, Absent
  <2> QED
    BY <1>0, <1>p, <1>12, <2>1, <2>2, <2>3, Synced DEF NewBrain
<1>13. CASE UNCHANGED vars
  BY <1>0, <1>p, <1>13 DEF vars, AbsentInv, ScopeInv, LiveInv
<1> QED
  BY <1>1, <1>2, <1>3, <1>4, <1>5, <1>6, <1>7, <1>8, <1>9, <1>10, <1>11, <1>12, <1>13 DEF Next

\* At the start no record has a relation and the table is empty.
LEMMA InitStore == Init => StoreInv
<1> SUFFICES ASSUME Init PROVE StoreInv
  OBVIOUS
<1>1. rec = Minted /\ row = rec /\ adj = {} /\ pend = {} /\ \A s \in Scopes : pkg[s] = NoPackage
  BY DEF Init
<1>2. \A c \in Claims : rec[c].rels = {} /\ rec[c].state = "active"
  BY <1>1 DEF Minted
<1> QED
  BY <1>1, <1>2, InitType
  DEF StoreInv, AbsentInv, ScopeInv, LiveInv, PackageInv, Recorded, Within, FollowsIn

\* The live process answers as a reopened one would, whatever died, was erased
\* or restored before (effective_current.ts, store.ts `refreshAdjacency`), where
\* users relate claims of one scope only.  With relations across scopes
\* purgeByScope() takes rows of the table whose records stay.
THEOREM Reopened == ASSUME CrossScope = FALSE PROVE Spec => []LiveEqualsReopened
<1>1. StoreInv => LiveEqualsReopened
  BY Follows DEF StoreInv, LiveInv, LiveEqualsReopened, TypeOK
<1>2. StoreInv /\ [Next]_vars => StoreInv'
  BY StepStore
<1> QED
  BY <1>1, <1>2, InitStore, PTL DEF Spec

-----------------------------------------------------------------------------
(* No cycles.                                                              *)

\* The relations of the records F among the claims of C have no cycle: every
\* group has a member that no member of the group supersedes or corrects.
AcyclicIn(F, C) ==
    \A S \in SUBSET C : S # {} =>
        \E d \in S : \A c \in S : \A x \in F[c].rels : x.to # d

\* Fewer relations have no more cycles.
LEMMA FewerRelations ==
    ASSUME NEW F, NEW G, NEW C, AcyclicIn(F, C), \A c \in C : G[c].rels \subseteq F[c].rels
    PROVE  AcyclicIn(G, C)
<1> SUFFICES ASSUME NEW S \in SUBSET C, S # {}
             PROVE  \E d \in S : \A c \in S : \A x \in G[c].rels : x.to # d
  BY DEF AcyclicIn
<1>1. PICK d \in S : \A c \in S : \A x \in F[c].rels : x.to # d
  BY DEF AcyclicIn
<1>2. \A c \in S : \A x \in G[c].rels : x \in F[c].rels
  OBVIOUS
<1> QED
  BY <1>1, <1>2

\* checkAcyclicity(): an edge from outside a set of claims that is closed under
\* the edges, into that set, closes no cycle.
LEMMA EdgeIntoClosed ==
    ASSUME NEW F, NEW G, AcyclicIn(F, Claims), NEW a \in Claims,
           NEW V \in SUBSET Claims, a \notin V,
           \A c \in V : \A x \in F[c].rels : x.to \in V,
           \A c \in Claims : c # a => G[c].rels = F[c].rels,
           \A x \in G[a].rels : x \in F[a].rels \/ x.to \in V
    PROVE  AcyclicIn(G, Claims)
<1> SUFFICES ASSUME NEW S \in SUBSET Claims, S # {}
             PROVE  \E d \in S : \A c \in S : \A x \in G[c].rels : x.to # d
  BY DEF AcyclicIn
<1>1. CASE S \subseteq V
  <2>1. PICK d \in S : \A c \in S : \A x \in F[c].rels : x.to # d
    BY DEF AcyclicIn
  <2>2. \A c \in S : G[c].rels = F[c].rels
    BY <1>1
  <2> QED
    BY <2>1, <2>2
<1>2. CASE ~(S \subseteq V)
  <2>1. S \ V \in SUBSET Claims /\ S \ V # {}
    BY <1>2
  <2>2. PICK d \in S \ V : \A c \in S \ V : \A x \in F[c].rels : x.to # d
    BY <2>1 DEF AcyclicIn
  <2>3. ASSUME NEW c \in S, NEW x \in G[c].rels PROVE x.to # d
    <3>1. CASE c \in V
      BY <2>2, <3>1
    <3>2. CASE c \notin V /\ c # a
      BY <2>2, <3>2
    <3>3. CASE c = a
      BY <2>2, <3>3
    <3> QED
      BY <3>1, <3>2, <3>3
  <2> QED
    BY <2>2, <2>3
<1> QED
  BY <1>1, <1>2

\* Records that relate only claims of M to claims of M, beside others that
\* relate none of them, have a cycle only if either part has one.
LEMMA TwoParts ==
    ASSUME NEW F, NEW G, NEW H, NEW M \in SUBSET Claims,
           AcyclicIn(F, Claims), AcyclicIn(G, M),
           \A c \in M : H[c].rels = G[c].rels,
           \A c \in Claims \ M : /\ H[c].rels = F[c].rels
                                 /\ \A x \in F[c].rels : x.to \notin M
    PROVE  AcyclicIn(H, Claims)
<1> SUFFICES ASSUME NEW S \in SUBSET Claims, S # {}
             PROVE  \E d \in S : \A c \in S : \A x \in H[c].rels : x.to # d
  BY DEF AcyclicIn
<1>1. CASE S \cap M = {}
  <2>1. PICK d \in S : \A c \in S : \A x \in F[c].rels : x.to # d
    BY DEF AcyclicIn
  <2>2. \A c \in S : H[c].rels = F[c].rels
    BY <1>1
  <2> QED
    BY <2>1, <2>2
<1>2. CASE S \cap M # {}
  <2>1. PICK d \in S \cap M : \A c \in S \cap M : \A x \in G[c].rels : x.to # d
    BY <1>2 DEF AcyclicIn
  <2>2. ASSUME NEW c \in S, NEW x \in H[c].rels PROVE x.to # d
    <3>1. CASE c \in M
      BY <2>1, <3>1
    <3>2. CASE c \notin M
      BY <2>1, <3>2
    <3> QED
      BY <3>1, <3>2
  <2> QED
    BY <2>1, <2>2
<1> QED
  BY <1>1, <1>2

AcyclicInv ==
    /\ AcyclicIn(rec, Claims)
    /\ \A s \in Scopes : pkg[s] # NoPackage => AcyclicIn(pkg[s].claims, Members(s))

\* A relation REVISE admits, with the check, closes no cycle.
LEMMA AdmittedAcyclic ==
    ASSUME StoreInv, AcyclicInv, CheckedRevise = TRUE, up,
           NEW c \in Claims, NEW t \in Claims, Admits(c, t), rec' = AddRelation(c, t)
    PROVE  AcyclicIn(rec', Claims)
<1>1. PICK V \in SUBSET Claims : /\ t \in V /\ c \notin V
                                 /\ \A e \in adj : e.from \in V => e.to \in V
  BY DEF Admits, CheckAcyclicity
<1>2. ASSUME NEW d \in V, NEW x \in rec[d].rels PROVE x.to \in V
  <2>1. PICK i \in RelIds, u \in Claims : x = [id |-> i, to |-> u]
    BY DEF StoreInv, TypeOK, Record, Relation
  <2>2. [from |-> d, id |-> i, to |-> u] \in adj
    BY <2>1 DEF StoreInv, LiveInv, FollowsIn
  <2>3. u \in V
    BY <1>1, <2>2
  <2> QED
    BY <2>1, <2>3
<1>3. \A d \in Claims : rec'[d].rels = IF d = c THEN rec[d].rels \cup {[id |-> drawn + 1, to |-> t]}
                                       ELSE rec[d].rels
  BY DEF AddRelation, StoreInv, TypeOK, Record
<1>4. ASSUME NEW x \in rec'[c].rels PROVE x \in rec[c].rels \/ x.to \in V
  <2>1. x \in rec[c].rels \/ x = [id |-> drawn + 1, to |-> t]
    BY <1>3
  <2> QED
    BY <1>1, <2>1
<1>5. AcyclicIn(rec, Claims)
  BY DEF AcyclicInv
<1> QED
  BY <1>1, <1>2, <1>3, <1>4, <1>5, EdgeIntoClosed

\* Every step keeps the suppressing relations without a cycle.
LEMMA StepAcyclic ==
    ASSUME CheckedRevise = TRUE, StoreInv, AcyclicInv, [Next]_vars, TypeOK'
    PROVE  AcyclicInv'
<1> USE DEF StoreInv
<1>p. ASSUME UNCHANGED pkg, AcyclicIn(rec', Claims) PROVE AcyclicInv'
  BY <1>p DEF AcyclicInv
<1>f. ASSUME UNCHANGED pkg, \A c \in Claims : rec'[c].rels \subseteq rec[c].rels PROVE AcyclicInv'
  BY <1>p, <1>f, FewerRelations DEF AcyclicInv
<1>1. ASSUME NEW c \in Claims, NEW t \in Claims, Revise(c, t) PROVE AcyclicInv'
  BY <1>p, <1>1, AdmittedAcyclic DEF Revise
<1>2. ASSUME NEW c \in Claims, NEW t \in Claims, ReviseDies(c, t) PROVE AcyclicInv'
  BY <1>p, <1>2, AdmittedAcyclic DEF ReviseDies
<1>3. ASSUME NEW c \in Claims, NEW i \in RelIds, InvalidateRelation(c, i) PROVE AcyclicInv'
  <2>1. \A d \in Claims : rec'[d].rels \subseteq rec[d].rels
    BY <1>3 DEF InvalidateRelation, Invalidated, TypeOK, Record
  <2> QED
    BY <1>f, <1>3, <2>1 DEF InvalidateRelation
<1>4. ASSUME NEW c \in Claims, Forget(c) PROVE AcyclicInv'
  <2>1. \A d \in Claims : rec'[d].rels \subseteq rec[d].rels
    BY <1>4 DEF Forget, TypeOK, Record
  <2> QED
    BY <1>f, <1>4, <2>1 DEF Forget
<1>5. ASSUME NEW c \in Claims, Revive(c) PROVE AcyclicInv'
  <2>1. \A d \in Claims : rec'[d].rels \subseteq rec[d].rels
    BY <1>5, RevivedRecord DEF Invalidated
  <2> QED
    BY <1>f, <1>5, <2>1 DEF Revive
<1>6. ASSUME NEW o \in Obs, ForgetObservation(o) PROVE AcyclicInv'
  <2>1. row = rec /\ row \in [Claims -> Record] /\ {o} \in SUBSET Obs
    BY <1>6 DEF ForgetObservation, LiveInv, TypeOK
  <2>2. row' = WithoutEvidence({o}, row)
        /\ rec' = [c \in Claims |-> IF c \in Impacted({o}, row) THEN row'[c] ELSE rec[c]]
    BY <1>6 DEF ForgetObservation
  <2>3. \A d \in Claims : row'[d].rels = row[d].rels
    <3>1. row \in [Claims -> Record] /\ {o} \in SUBSET Obs
      BY <2>1
    <3> QED
      BY <2>2, <3>1, WithoutEvidenceFacts
  <2>4. \A d \in Claims : rec'[d].rels \subseteq rec[d].rels
    BY <2>1, <2>2, <2>3
  <2> QED
    BY <1>f, <1>6, <2>4 DEF ForgetObservation
<1>7. ASSUME NEW o \in Obs, ForgetObservationDies(o) PROVE AcyclicInv'
  BY <1>f, <1>7 DEF ForgetObservationDies
<1>8. ASSUME NEW s \in Scopes, ExportScope(s) PROVE AcyclicInv'
  <2> DEFINE x == [claims |-> [c \in Members(s) |-> rec[c]], obs |-> [o \in ObsOf(s) |-> obs[o]]]
  <2>1. pkg' = [pkg EXCEPT ![s] = x] /\ rec' = rec
    BY <1>8 DEF ExportScope
  <2>2. \A c \in Members(s) : x.claims[c] = rec[c] /\ c \in Claims
    BY DEF Members
  <2> HIDE DEF x
  <2>3. \A t \in Scopes : pkg'[t] = IF t = s THEN x ELSE pkg[t]
    BY <2>1 DEF TypeOK
  <2>4. AcyclicIn(x.claims, Members(s))
    <3>1. AcyclicIn(rec, Members(s))
      BY <2>2 DEF AcyclicInv, AcyclicIn
    <3> QED
      BY <2>2, <3>1, FewerRelations
  <2> QED
    BY <2>1, <2>3, <2>4 DEF AcyclicInv
<1>9. ASSUME NEW s \in Scopes, EraseScope(s) PROVE AcyclicInv'
  <2>1. \A d \in Claims : rec'[d].rels \subseteq rec[d].rels
    BY <1>9 DEF EraseScope, PurgedRecords, Absent
  <2> QED
    BY <1>f, <1>9, <2>1 DEF EraseScope
<1>10. ASSUME NEW s \in Scopes, RestoreScope(s) PROVE AcyclicInv'
  <2>1. /\ pkg[s] # NoPackage /\ pkg' = pkg
        /\ \A d \in Claims : rec'[d] = IF d \in Members(s) THEN pkg[s].claims[d] ELSE rec[d]
    BY <1>10 DEF RestoreScope
  <2>2. Members(s) \in SUBSET Claims /\ AcyclicIn(rec, Claims) /\ AcyclicIn(pkg[s].claims, Members(s))
    BY <2>1 DEF Members, AcyclicInv
  <2>3. \A c \in Claims \ Members(s) : \A x \in rec[c].rels : x.to \notin Members(s)
    BY DEF ScopeInv, Within, Members
  <2>4. AcyclicIn(rec', Claims)
    <3>1. \A c \in Members(s) : rec'[c].rels = pkg[s].claims[c].rels
      BY <2>1, <2>2
    <3>2. \A c \in Claims \ Members(s) : rec'[c].rels = rec[c].rels
      BY <2>1
    <3> QED
      BY <2>2, <2>3, <3>1, <3>2, TwoParts
  <2> QED
    BY <1>p, <2>1, <2>4
<1>11. ASSUME Open PROVE AcyclicInv'
  <2> DEFINE present == {c \in Claims : rec[c].state # "none"}
             synced  == [c \in Claims |-> IF c \in present THEN rec[c] ELSE row[c]]
  <2>1. synced = rec
    BY DEF AbsentInv, Recorded, TypeOK
  <2>2. /\ row' = WithoutEvidence(pend, rec) /\ pkg' = pkg
        /\ rec' = [c \in Claims |-> IF c \in Impacted(pend, rec) THEN row'[c] ELSE rec[c]]
    BY <1>11, <2>1 DEF Open
  <2>3. rec \in [Claims -> Record] /\ pend \in SUBSET Obs
    BY DEF TypeOK
  <2>4. \A d \in Claims : row'[d].rels = rec[d].rels
    BY <2>2, <2>3, WithoutEvidenceFacts
  <2>5. \A d \in Claims : rec'[d].rels \subseteq rec[d].rels
    BY <2>2, <2>4
  <2> QED
    BY <1>f, <2>2, <2>5
<1>12. ASSUME NewBrain PROVE AcyclicInv'
  <2>1. pkg' = pkg /\ \A c \in Claims : rec'[c] = Absent
    BY <1>12 DEF NewBrain
  <2>2. \A d \in Claims : rec'[d].rels \subseteq rec[d].rels
    BY <2>1 DEF Absent
  <2> QED
    BY <1>f, <2>1, <2>2
<1>13. CASE UNCHANGED vars
  BY <1>f, <1>13 DEF vars
<1> QED
  BY <1>1, <1>2, <1>3, <1>4, <1>5, <1>6, <1>7, <1>8, <1>9, <1>10, <1>11, <1>12, <1>13 DEF Next

\* No relation, no cycle.
LEMMA InitAcyclic == Init => AcyclicInv
<1> SUFFICES ASSUME Init PROVE AcyclicInv
  OBVIOUS
<1>1. \A c \in Claims : rec[c].rels = {}
  BY DEF Init, Minted
<1>2. \A s \in Scopes : pkg[s] = NoPackage
  BY DEF Init
<1> QED
  BY <1>1, <1>2 DEF AcyclicInv, AcyclicIn

\* Where REVISE is given the database to check with, and users relate claims of
\* one scope only, what was admitted never has a cycle: not by a REVIVE, a crash
\* between the record and its sync, an erasure or a restore into another brain
\* (effective_current.ts `checkAcyclicity`, `revalidateOnRevive`).
THEOREM Acyclic ==
    ASSUME CheckedRevise = TRUE, CrossScope = FALSE PROVE Spec => []SuppressionAcyclic
<1>1. AcyclicInv => SuppressionAcyclic
  BY DEF AcyclicInv, AcyclicIn, SuppressionAcyclic, LiveEdge
<1>2. StoreInv /\ AcyclicInv /\ [Next]_vars => (StoreInv /\ AcyclicInv)'
  BY StepStore, StepAcyclic DEF StoreInv
<1>3. Init => StoreInv /\ AcyclicInv
  BY InitStore, InitAcyclic
<1> QED
  BY <1>1, <1>2, <1>3, PTL DEF Spec

-----------------------------------------------------------------------------
(* Nothing retained is lost from sight.                                    *)

\* The evidence of a live claim stands: it is accepted, of no standing here, or
\* its withdrawal is still to be replayed.  ev never grows.
EvidenceInv ==
    /\ \A c \in Claims : rec[c].ev \subseteq EvidenceOf[c]
    /\ \A c \in Claims : rec[c].state = "active" =>
          \A o \in rec[c].ev : obs[o] \in {"accepted", "none"} \/ o \in pend
    /\ \A s \in Scopes : pkg[s] # NoPackage => \A c \in Members(s) :
          /\ pkg[s].claims[c].ev \subseteq EvidenceOf[c]
          /\ pkg[s].claims[c].state = "active" =>
                \A o \in pkg[s].claims[c].ev : pkg[s].obs[o] \in {"accepted", "none"}

\* Evidence belongs to the scope of its claim, and to no other.
LEMMA EvidenceScope ==
    ASSUME NEW c \in Claims, NEW o \in EvidenceOf[c], NEW s \in Scopes
    PROVE  o \in ObsOf(s) <=> c \in Members(s)
<1>1. o \in ObsOf(ScopeOf[c]) /\ ScopeOf[c] \in Scopes
  BY SuppressionAssumption DEF ObsOf
<1>2. s # ScopeOf[c] => o \notin ObsOf(s)
  BY <1>1, SuppressionAssumption
<1> QED
  BY <1>1, <1>2 DEF Members

\* Only a record's own verb makes it active again, and its evidence is fixed.
LEMMA StepEvidence ==
    ASSUME ReviveStale = FALSE, StoreInv, EvidenceInv, [Next]_vars, TypeOK'
    PROVE  EvidenceInv'
<1> USE DEF StoreInv
<1> DEFINE Stands(F, O, W, c) == /\ F[c].ev \subseteq EvidenceOf[c]
                                 /\ F[c].state = "active" =>
                                       \A o \in F[c].ev : O[o] \in {"accepted", "none"} \/ o \in W
<1>p. ASSUME UNCHANGED pkg, \A c \in Claims : Stands(rec', obs', pend', c) PROVE EvidenceInv'
  BY <1>p DEF EvidenceInv
<1>o. \A c \in Claims : Stands(rec, obs, pend, c)
  BY DEF EvidenceInv
\* Records that change nothing of standing.
<1>s. ASSUME UNCHANGED <<pkg, obs, pend>>,
             \A c \in Claims : /\ rec'[c].ev = rec[c].ev
                               /\ rec'[c].state = "active" => rec[c].state = "active"
      PROVE  EvidenceInv'
  BY <1>p, <1>o, <1>s
<1>1. ASSUME NEW c \in Claims, NEW t \in Claims, Revise(c, t) PROVE EvidenceInv'
  <2>1. \A d \in Claims : rec'[d].ev = rec[d].ev /\ rec'[d].state = rec[d].state
    BY <1>1 DEF Revise, AddRelation, TypeOK, Record
  <2> QED
    BY <1>s, <1>1, <2>1 DEF Revise
<1>2. ASSUME NEW c \in Claims, NEW t \in Claims, ReviseDies(c, t) PROVE EvidenceInv'
  <2>1. \A d \in Claims : rec'[d].ev = rec[d].ev /\ rec'[d].state = rec[d].state
    BY <1>2 DEF ReviseDies, AddRelation, TypeOK, Record
  <2> QED
    BY <1>s, <1>2, <2>1 DEF ReviseDies
<1>3. ASSUME NEW c \in Claims, NEW i \in RelIds, InvalidateRelation(c, i) PROVE EvidenceInv'
  <2>1. \A d \in Claims : rec'[d].ev = rec[d].ev /\ rec'[d].state = rec[d].state
    BY <1>3 DEF InvalidateRelation, TypeOK, Record
  <2> QED
    BY <1>s, <1>3, <2>1 DEF InvalidateRelation
<1>4. ASSUME NEW c \in Claims, Forget(c) PROVE EvidenceInv'
  <2>1. \A d \in Claims : /\ rec'[d].ev = rec[d].ev
                          /\ rec'[d].state = "active" => rec[d].state = "active"
    BY <1>4 DEF Forget, TypeOK, Record
  <2> QED
    BY <1>s, <1>4, <2>1 DEF Forget
<1>5. ASSUME NEW c \in Claims, Revive(c) PROVE EvidenceInv'
  <2>1. \A o \in rec[c].ev : obs[o] = "accepted"
    BY <1>5 DEF Revive
  <2>2. \A d \in Claims : /\ rec'[d].ev = rec[d].ev
                          /\ rec'[d].state = IF d = c THEN "active" ELSE rec[d].state
    BY <1>5, RevivedRecord
  <2>3. UNCHANGED <<pkg, obs, pend>>
    BY <1>5 DEF Revive
  <2>4. ASSUME NEW d \in Claims PROVE Stands(rec', obs', pend', d)
    BY <1>o, <2>1, <2>2, <2>3
  <2> QED
    BY <1>p, <2>3, <2>4
<1>6. ASSUME NEW o \in Obs, ForgetObservation(o) PROVE EvidenceInv'
  <2>1. row = rec
    BY <1>6 DEF ForgetObservation, LiveInv
  <2>2. /\ row' = WithoutEvidence({o}, row) /\ pkg' = pkg /\ pend' = pend
        /\ rec' = [c \in Claims |-> IF c \in Impacted({o}, row) THEN row'[c] ELSE rec[c]]
        /\ obs' = [obs EXCEPT ![o] = "gone"]
    BY <1>6 DEF ForgetObservation
  <2>3. \A d \in Claims : row'[d].ev = IF d \in Impacted({o}, row) THEN row[d].ev \ {o} ELSE row[d].ev
    <3>1. row \in [Claims -> Record] /\ {o} \in SUBSET Obs
      BY DEF TypeOK
    <3> QED
      BY <2>2, <3>1, WithoutEvidenceFacts
  <2>4. \A q \in Obs : q # o => obs'[q] = obs[q]
    BY <2>2 DEF TypeOK
  <2>5. ASSUME NEW d \in Claims PROVE Stands(rec', obs', pend', d)
    <3>1. rec[d].ev \subseteq Obs
      BY DEF TypeOK, Record
    <3>2. CASE d \in Impacted({o}, row)
      <4>1. rec[d].state = "active" /\ rec'[d].ev = rec[d].ev \ {o}
        BY <2>1, <2>2, <2>3, <3>2 DEF Impacted
      <4> QED
        BY <1>o, <2>2, <2>4, <3>1, <4>1
    <3>3. CASE d \notin Impacted({o}, row)
      <4>1. rec'[d] = rec[d] /\ (rec[d].state = "active" => o \notin rec[d].ev)
        BY <2>1, <2>2, <3>3 DEF Impacted
      <4> QED
        BY <1>o, <2>2, <2>4, <3>1, <4>1
    <3> QED
      BY <3>2, <3>3
  <2> QED
    BY <1>p, <2>2, <2>5
<1>7. ASSUME NEW o \in Obs, ForgetObservationDies(o) PROVE EvidenceInv'
  <2>1. rec' = rec /\ pkg' = pkg /\ pend' = pend \cup {o} /\ obs' = [obs EXCEPT ![o] = "gone"]
    BY <1>7 DEF ForgetObservationDies
  <2>2. \A q \in Obs : q # o => obs'[q] = obs[q]
    BY <2>1 DEF TypeOK
  <2>3. ASSUME NEW d \in Claims PROVE Stands(rec', obs', pend', d)
    <3>1. rec[d].ev \subseteq Obs
      BY DEF TypeOK, Record
    <3> QED
      BY <1>o, <2>1, <2>2, <3>1
  <2> QED
    BY <1>p, <2>1, <2>3
<1>8. ASSUME NEW s \in Scopes, ExportScope(s) PROVE EvidenceInv'
  <2> DEFINE x == [claims |-> [c \in Members(s) |-> rec[c]], obs |-> [o \in ObsOf(s) |-> obs[o]]]
  <2>1. pkg' = [pkg EXCEPT ![s] = x] /\ UNCHANGED <<rec, obs, pend>> /\ pend = {}
    BY <1>8 DEF ExportScope, LiveInv
  <2>2. \A c \in Members(s) : x.claims[c] = rec[c] /\ c \in Claims
    BY DEF Members
  <2>3. \A o \in ObsOf(s) : x.obs[o] = obs[o]
    OBVIOUS
  <2> HIDE DEF x
  <2>4. \A t \in Scopes : pkg'[t] = IF t = s THEN x ELSE pkg[t]
    BY <2>1 DEF TypeOK
  <2>5. ASSUME NEW c \in Members(s), x.claims[c].state = "active", NEW o \in x.claims[c].ev
        PROVE  x.obs[o] \in {"accepted", "none"}
    <3>1. c \in Claims /\ o \in EvidenceOf[c] /\ obs[o] \in {"accepted", "none"}
      BY <1>o, <2>1, <2>2, <2>5
    <3>2. o \in ObsOf(s)
      BY <2>5, <3>1, EvidenceScope
    <3> QED
      BY <2>3, <3>1, <3>2
  <2>6. \A c \in Members(s) : x.claims[c].ev \subseteq EvidenceOf[c]
    BY <1>o, <2>2
  <2> QED
    BY <2>1, <2>4, <2>5, <2>6 DEF EvidenceInv
<1>9. ASSUME NEW s \in Scopes, EraseScope(s) PROVE EvidenceInv'
  <2>1. /\ \A d \in Claims : rec'[d] = IF d \in Members(s) THEN Absent ELSE rec[d]
        /\ \A q \in Obs : q \notin ObsOf(s) => obs'[q] = obs[q]
        /\ UNCHANGED <<pend, pkg>>
    BY <1>9 DEF EraseScope, PurgedRecords
  <2>2. ASSUME NEW d \in Claims PROVE Stands(rec', obs', pend', d)
    <3>1. CASE d \in Members(s)
      BY <2>1, <3>1 DEF Absent
    <3>2. CASE d \notin Members(s)
      <4>1. rec'[d] = rec[d] /\ rec[d].ev \subseteq Obs /\ rec[d].ev \subseteq EvidenceOf[d]
        BY <1>o, <2>1, <3>2 DEF TypeOK, Record
      <4>2. \A q \in rec[d].ev : q \notin ObsOf(s)
        BY <3>2, <4>1, EvidenceScope
      <4> QED
        BY <1>o, <2>1, <4>1, <4>2
    <3> QED
      BY <3>1, <3>2
  <2> QED
    BY <1>p, <2>1, <2>2
<1>10. ASSUME NEW s \in Scopes, RestoreScope(s) PROVE EvidenceInv'
  <2>1. /\ \A d \in Claims : rec'[d] = IF d \in Members(s) THEN pkg[s].claims[d] ELSE rec[d]
        /\ \A q \in Obs : obs'[q] = IF q \in ObsOf(s) THEN pkg[s].obs[q] ELSE obs[q]
        /\ UNCHANGED <<pend, pkg>> /\ pkg[s] # NoPackage
    BY <1>10 DEF RestoreScope
  <2>2. ASSUME NEW d \in Claims PROVE Stands(rec', obs', pend', d)
    <3>1. CASE d \in Members(s)
      <4>1. rec'[d] = pkg[s].claims[d] /\ rec'[d].ev \subseteq Obs
        BY <2>1, <3>1 DEF TypeOK, Record
      <4>2. rec'[d].ev \subseteq EvidenceOf[d]
        BY <2>1, <3>1, <4>1 DEF EvidenceInv
      <4>3. \A q \in rec'[d].ev : obs'[q] = pkg[s].obs[q]
        BY <2>1, <3>1, <4>1, <4>2, EvidenceScope
      <4> QED
        BY <2>1, <3>1, <4>1, <4>2, <4>3 DEF EvidenceInv
    <3>2. CASE d \notin Members(s)
      <4>1. rec'[d] = rec[d] /\ rec[d].ev \subseteq Obs /\ rec[d].ev \subseteq EvidenceOf[d]
        BY <1>o, <2>1, <3>2 DEF TypeOK, Record
      <4>2. \A q \in rec[d].ev : q \notin ObsOf(s)
        BY <3>2, <4>1, EvidenceScope
      <4> QED
        BY <1>o, <2>1, <4>1, <4>2
    <3> QED
      BY <3>1, <3>2
  <2> QED
    BY <1>p, <2>1, <2>2
<1>11. ASSUME Open PROVE EvidenceInv'
  <2> DEFINE present == {c \in Claims : rec[c].state # "none"}
             synced  == [c \in Claims |-> IF c \in present THEN rec[c] ELSE row[c]]
  <2>1. synced = rec
    BY DEF AbsentInv, Recorded, TypeOK
  <2>2. /\ row' = WithoutEvidence(pend, rec) /\ pkg' = pkg /\ obs' = obs
        /\ rec' = [c \in Claims |-> IF c \in Impacted(pend, rec) THEN row'[c] ELSE rec[c]]
    BY <1>11, <2>1 DEF Open
  <2>3. rec \in [Claims -> Record] /\ pend \in SUBSET Obs
    BY DEF TypeOK
  <2>4. \A d \in Claims : row'[d].ev = IF d \in Impacted(pend, rec) THEN rec[d].ev \ pend ELSE rec[d].ev
    BY <2>2, <2>3, WithoutEvidenceFacts
  <2>5. ASSUME NEW d \in Claims PROVE Stands(rec', obs', pend', d)
    <3>1. CASE d \in Impacted(pend, rec)
      BY <1>o, <2>2, <2>4, <3>1 DEF Impacted
    <3>2. CASE d \notin Impacted(pend, rec)
      BY <1>o, <2>2, <3>2 DEF Impacted
    <3> QED
      BY <3>1, <3>2
  <2> QED
    BY <1>p, <2>2, <2>5
<1>12. ASSUME NewBrain PROVE EvidenceInv'
  BY <1>p, <1>12 DEF NewBrain, Absent
<1>13. CASE UNCHANGED vars
  BY <1>p, <1>o, <1>13 DEF vars
<1> QED
  BY <1>1, <1>2, <1>3, <1>4, <1>5, <1>6, <1>7, <1>8, <1>9, <1>10, <1>11, <1>12, <1>13 DEF Next

\* No relation suppresses anything at the start.
LEMMA InitEvidence == Init => EvidenceInv
<1> SUFFICES ASSUME Init PROVE EvidenceInv
  OBVIOUS
<1>1. \A c \in Claims : rec[c].ev = EvidenceOf[c] /\ EvidenceOf[c] \subseteq Obs
  BY SuppressionAssumption DEF Init, Minted
<1>2. \A s \in Scopes : pkg[s] = NoPackage
  BY DEF Init
<1>3. \A o \in Obs : obs[o] = "accepted"
  BY DEF Init
<1> QED
  BY <1>1, <1>2, <1>3 DEF EvidenceInv

\* Where moreover users revive a claim only while its evidence stands, a
\* retained claim is current or a chain of live edges leads up to one that is:
\* no group of claims hides itself, whatever is forgotten, withdrawn, restored
\* or interrupted (effective_current.ts `isEffectiveCurrent`).
THEOREM NoneHidden ==
    ASSUME CheckedRevise = TRUE, CrossScope = FALSE, ReviveStale = FALSE
    PROVE  Spec => []NoneHiddenTogether
<1> DEFINE Inv == StoreInv /\ AcyclicInv /\ EvidenceInv
<1>1. Inv => NoneHiddenTogether
  <2> SUFFICES ASSUME Inv, up, NEW S \in SUBSET {c \in Claims : row[c].state = "active"},
                      S # {}, \A c \in S : Suppressors(c) \subseteq S
               PROVE  \E c \in S : IsEffectiveCurrent(c)
    BY DEF NoneHiddenTogether
  <2>1. row = rec /\ FollowsIn(adj, rec) /\ pend = {}
    BY DEF StoreInv, LiveInv
  <2>2. PICK d \in S : \A c \in S : \A x \in rec[c].rels : x.to # d
    BY DEF AcyclicInv, AcyclicIn
  <2>3. Suppressors(d) = {}
    <3> SUFFICES ASSUME NEW e \in adj, e.to = d, e.from \in S PROVE FALSE
      BY DEF Suppressors
    <3>1. PICK c \in Claims, i \in RelIds, t \in Claims : e = [from |-> c, id |-> i, to |-> t]
      BY DEF StoreInv, TypeOK, Edge
    <3>2. c \in S /\ t = d
      BY <3>1
    <3>3. [id |-> i, to |-> t] \in rec[c].rels
      BY <2>1, <3>1 DEF FollowsIn
    <3>4. [id |-> i, to |-> t].to # d
      BY <2>2, <3>2, <3>3
    <3> QED
      BY <3>2, <3>4
  <2>4. row[d].state = "active" /\ \A o \in row[d].ev : obs[o] \in {"accepted", "none"}
    BY <2>1 DEF EvidenceInv
  <2> QED
    BY <2>3, <2>4 DEF IsEffectiveCurrent
<1>2. Inv /\ [Next]_vars => Inv'
  BY StepStore, StepAcyclic, StepEvidence DEF StoreInv
<1>3. Init => Inv
  BY InitStore, InitAcyclic, InitEvidence
<1> QED
  BY <1>1, <1>2, <1>3, PTL DEF Spec

=============================================================================
