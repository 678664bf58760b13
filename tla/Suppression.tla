---------------------------- MODULE Suppression ----------------------------
(***************************************************************************)
(* Which claims are current (src/src/layer1/effective_current.ts): a user  *)
(* admits `supersedes` and `corrects` edges with REVISE, an edge hides its *)
(* target while its source is not forgotten, and a claim whose evidence    *)
(* was withdrawn is hidden too.                                            *)
(*                                                                         *)
(* An edge lives twice: in the claim's latest version record (canonical)   *)
(* and in the table `claim_relations` of the claim store, which the cycle  *)
(* check reads.  Rows and table follow the records when a verb syncs them, *)
(* when the brain is opened and when a package is restored.  The history   *)
(* of a claim is reduced to its latest record: FORGET and the retraction   *)
(* of evidence carry relations and evidence over, so the last active       *)
(* version REVIVE reads has the same ones.  Claims are not demoted here.   *)
(* Only live relations are kept: an invalidated one stays in the record    *)
(* for audit, and every reader passes over it.                             *)
(***************************************************************************)
EXTENDS Integers, FiniteSets

CONSTANTS
    Claims,
    Obs,
    Scopes,
    ScopeOf,        \* claim -> scope
    EvidenceOf,     \* claim -> observations of its scope it was derived from
    MaxRelations,   \* bound on the relations admitted
    CheckedRevise,  \* whether REVISE is called with the database to check
    CrossScope,     \* whether users relate claims of two scopes
    ReviveStale     \* whether users revive a claim some evidence of which was withdrawn

ObsOf(s) == UNION {EvidenceOf[c] : c \in {d \in Claims : ScopeOf[d] = s}}

ASSUME SuppressionAssumption ==
    /\ ScopeOf \in [Claims -> Scopes]
    /\ EvidenceOf \in [Claims -> SUBSET Obs]
    /\ MaxRelations \in Nat
    /\ {CheckedRevise, CrossScope, ReviveStale} \subseteq BOOLEAN
    /\ \A s, t \in Scopes : s # t => ObsOf(s) \cap ObsOf(t) = {}

RelIds   == 1..MaxRelations
Relation == [id : RelIds, to : Claims]
Edge     == [from : Claims, id : RelIds, to : Claims]
Record   == [state : {"none", "active", "forgotten"}, rels : SUBSET Relation, ev : SUBSET Obs]
Absent   == [state |-> "none", rels |-> {}, ev |-> {}]

VARIABLES
    rec,        \* claims/*.jsonl: the latest version of each claim
    row,        \* table `claims`
    adj,        \* table `claim_relations`
    obs,        \* effective status of each observation
    pend,       \* withdrawn observations whose event was not replayed yet
    drawn,      \* relation ids drawn so far
    pkg,        \* exports/: the package of a scope, or its absence
    receipts,   \* imports/: scopes whose package was restored
    up          \* whether a process has the brain open

vars == <<rec, row, adj, obs, pend, drawn, pkg, receipts, up>>

NoPackage == [claims |-> <<>>, obs |-> <<>>]
Members(s) == {c \in Claims : ScopeOf[c] = s}

TypeOK ==
    /\ rec \in [Claims -> Record] /\ row \in [Claims -> Record]
    /\ adj \subseteq Edge
    /\ obs \in [Obs -> {"accepted", "gone", "none"}]
    /\ pend \subseteq Obs /\ drawn \in 0..MaxRelations
    /\ DOMAIN pkg = Scopes
    /\ \A s \in Scopes : pkg[s] = NoPackage \/
          /\ pkg[s].claims \in [Members(s) -> Record]
          /\ pkg[s].obs \in [ObsOf(s) -> {"accepted", "gone", "none"}]
    /\ receipts \subseteq Scopes /\ up \in BOOLEAN

-----------------------------------------------------------------------------
(* The derived tables.                                                      *)

EdgesOf(c, r) == {[from |-> c, id |-> x.id, to |-> x.to] : x \in r.rels}

\* Mutant: the rows of the version before stay.
RefreshedAdded(C, recs) == adj \cup UNION {EdgesOf(c, recs[c]) : c \in C}

\* refreshAdjacency(): the rows of the claims of C are replaced.
Refreshed(C, recs) ==
    {e \in adj : e.from \notin C} \cup UNION {EdgesOf(c, recs[c]) : c \in C}

\* syncFromJsonlVersion() for the claims of C: row and relations follow the record.
Sync(C, recs) ==
    /\ row' = [c \in Claims |-> IF c \in C THEN recs[c] ELSE row[c]]
    /\ adj' = Refreshed(C, recs)

\* Mutant: the search passes over claims that are forgotten.
CheckAcyclicityActive(src, tgt) ==
    \E V \in SUBSET Claims :
        /\ tgt \in V /\ src \notin V
        /\ \A e \in adj : e.from \in V /\ row[e.from].state = "active" => e.to \in V

\* checkAcyclicity(): a search along live edges from the target does not meet
\* the source.  V is what the search visits: it contains the target and is
\* closed under live edges.
CheckAcyclicity(src, tgt) ==
    \E V \in SUBSET Claims :
        /\ tgt \in V /\ src \notin V
        /\ \A e \in adj : e.from \in V => e.to \in V

\* Mutant: a claim left without evidence is not retracted.
WithoutEvidenceKept(O, rows) == rows

\* removeEvidenceFromClaims() for the observations of O, in the store's rows
\* and, through insertClaim(), in the records.
Impacted(O, rows) == {c \in Claims : rows[c].state = "active" /\ rows[c].ev \cap O # {}}
WithoutEvidence(O, rows) ==
    [c \in Claims |->
        IF c \in Impacted(O, rows)
        THEN [rows[c] EXCEPT !.ev = @ \ O,
                             !.state = IF rows[c].ev \subseteq O THEN "forgotten" ELSE @]
        ELSE rows[c]]

-----------------------------------------------------------------------------
(* REVISE.                                                                  *)

Admits(c, t) ==
    /\ CrossScope \/ ScopeOf[c] = ScopeOf[t]
    /\ CheckedRevise => CheckAcyclicity(c, t)

AddRelation(c, t) ==
    [rec EXCEPT ![c].rels = @ \cup {[id |-> drawn + 1, to |-> t]}]

\* The target's existence is not looked up.
Revise(c, t) ==
    /\ up /\ rec[c].state = "active" /\ drawn < MaxRelations
    /\ Admits(c, t)
    /\ rec' = AddRelation(c, t)
    /\ drawn' = drawn + 1
    /\ Sync({c}, rec')
    /\ UNCHANGED <<obs, pend, pkg, receipts, up>>

\* The process dies after the version record is appended, before the sync.
ReviseDies(c, t) ==
    /\ up /\ rec[c].state = "active" /\ drawn < MaxRelations
    /\ Admits(c, t)
    /\ rec' = AddRelation(c, t)
    /\ drawn' = drawn + 1
    /\ up' = FALSE
    /\ UNCHANGED <<row, adj, obs, pend, pkg, receipts>>

Invalidated(rels, I) == {x \in rels : x.id \notin I}

InvalidateRelation(c, i) ==
    /\ up /\ rec[c].state = "active"
    /\ \E x \in rec[c].rels : x.id = i
    /\ rec' = [rec EXCEPT ![c].rels = Invalidated(@, {i})]
    /\ Sync({c}, rec')
    /\ UNCHANGED <<obs, pend, drawn, pkg, receipts, up>>

-----------------------------------------------------------------------------
(* FORGET and REVIVE of a claim, FORGET of an observation.                  *)

Forget(c) ==
    /\ up /\ row[c].state # "none" /\ rec[c].state = "active"
    /\ rec' = [rec EXCEPT ![c].state = "forgotten"]
    /\ Sync({c}, rec')
    /\ UNCHANGED <<obs, pend, drawn, pkg, receipts, up>>

\* revalidateOnRevive(): the live edges of a revived claim are checked again.
RevalidateOnRevive(c) ==
    {e.id : e \in {d \in adj : d.from = c /\ ~CheckAcyclicity(c, d.to)}}

Revive(c) ==
    /\ up /\ rec[c].state = "forgotten"
    /\ ReviveStale \/ \A o \in rec[c].ev : obs[o] = "accepted"
    /\ rec' = [rec EXCEPT ![c].state = "active",
                          ![c].rels = Invalidated(@, RevalidateOnRevive(c))]
    /\ Sync({c}, rec')
    /\ UNCHANGED <<obs, pend, drawn, pkg, receipts, up>>

\* handleForget() of an observation with the catch-up of the claim store.
ForgetObservation(o) ==
    /\ up /\ obs[o] = "accepted"
    /\ obs' = [obs EXCEPT ![o] = "gone"]
    /\ row' = WithoutEvidence({o}, row)
    /\ rec' = [c \in Claims |-> IF c \in Impacted({o}, row) THEN row'[c] ELSE rec[c]]
    /\ UNCHANGED <<adj, pend, drawn, pkg, receipts, up>>

\* The process dies between the evidence log and the catch-up.
ForgetObservationDies(o) ==
    /\ up /\ obs[o] = "accepted"
    /\ obs' = [obs EXCEPT ![o] = "gone"]
    /\ pend' = pend \cup {o}
    /\ up' = FALSE
    /\ UNCHANGED <<rec, row, adj, drawn, pkg, receipts>>

-----------------------------------------------------------------------------
(* The life of a scope.                                                     *)

ExportScope(s) ==
    /\ up /\ pkg[s] = NoPackage
    /\ \E c \in Members(s) : rec[c].state # "none"
    /\ pkg' = [pkg EXCEPT ![s] = [claims |-> [c \in Members(s) |-> rec[c]],
                                  obs    |-> [o \in ObsOf(s) |-> obs[o]]]]
    /\ UNCHANGED <<rec, row, adj, obs, pend, drawn, receipts, up>>

\* purgeClaimVersionsByScope(): the scope's version records leave the log.
PurgedRecords(s) == [c \in Claims |-> IF c \in Members(s) THEN Absent ELSE rec[c]]

\* FORGET.SCOPE{erasure}: the records, then purgeByScope() and its edges.  The
\* evidence lines stay; their observations lose their standing.
EraseScope(s) ==
    /\ up /\ \E c \in Members(s) : rec[c].state # "none"
    /\ rec' = PurgedRecords(s)
    /\ row' = [c \in Claims |-> IF c \in Members(s) THEN Absent ELSE row[c]]
    /\ adj' = {e \in adj : {e.from, e.to} \cap {c \in Members(s) : row[c].state # "none"} = {}}
    /\ obs' = [o \in Obs |-> IF o \in ObsOf(s) /\ obs[o] # "none" THEN "gone" ELSE obs[o]]
    /\ UNCHANGED <<pend, drawn, pkg, receipts, up>>

\* The host provisions an empty brain; the packages are files it keeps.
NewBrain ==
    /\ \E s \in Scopes : pkg[s] # NoPackage
    /\ rec' = [c \in Claims |-> Absent] /\ row' = rec'
    /\ adj' = {} /\ obs' = [o \in Obs |-> "none"] /\ pend' = {} /\ receipts' = {}
    /\ up' = TRUE
    /\ UNCHANGED <<drawn, pkg>>

\* handleRestoreScope() with setDataDir(): every claim is synced again.
RestoreScope(s) ==
    /\ up /\ pkg[s] # NoPackage /\ s \notin receipts
    /\ \A c \in Members(s) : rec[c].state = "none"
    /\ \A o \in ObsOf(s) : obs[o] = "none"
    /\ rec' = [c \in Claims |-> IF c \in Members(s) THEN pkg[s].claims[c] ELSE rec[c]]
    /\ obs' = [o \in Obs |-> IF o \in ObsOf(s) THEN pkg[s].obs[o] ELSE obs[o]]
    /\ receipts' = receipts \cup {s}
    /\ Sync({c \in Claims : rec'[c].state # "none"}, rec')
    /\ UNCHANGED <<pend, drawn, pkg, up>>

\* SmartwareCore.open(): setDataDir() syncs every claim, then replayCatchUp().
Open ==
    /\ ~up
    /\ LET present == {c \in Claims : rec[c].state # "none"}
           synced  == [c \in Claims |-> IF c \in present THEN rec[c] ELSE row[c]]
       IN  /\ row' = WithoutEvidence(pend, synced)
           /\ rec' = [c \in Claims |-> IF c \in Impacted(pend, synced) THEN row'[c] ELSE rec[c]]
           /\ adj' = Refreshed(present, rec)
    /\ pend' = {}
    /\ up' = TRUE
    /\ UNCHANGED <<obs, drawn, pkg, receipts>>

-----------------------------------------------------------------------------
Minted == [c \in Claims |-> [state |-> "active", rels |-> {}, ev |-> EvidenceOf[c]]]

Init ==
    /\ rec = Minted /\ row = Minted /\ adj = {}
    /\ obs = [o \in Obs |-> "accepted"] /\ pend = {} /\ drawn = 0
    /\ pkg = [s \in Scopes |-> NoPackage] /\ receipts = {}
    /\ up = TRUE

Next ==
    \/ \E c, t \in Claims : Revise(c, t) \/ ReviseDies(c, t)
    \/ \E c \in Claims, i \in RelIds : InvalidateRelation(c, i)
    \/ \E c \in Claims : Forget(c) \/ Revive(c)
    \/ \E o \in Obs : ForgetObservation(o) \/ ForgetObservationDies(o)
    \/ \E s \in Scopes : ExportScope(s) \/ EraseScope(s) \/ RestoreScope(s)
    \/ Open \/ NewBrain

Spec == Init /\ [][Next]_vars

-----------------------------------------------------------------------------
(* What readers are shown.                                                  *)

Suppressors(c) == {e.from : e \in {d \in adj : d.to = c /\ row[d.from].state = "active"}}

\* isEffectiveCurrent()
IsEffectiveCurrent(c) ==
    LET matched == {o \in row[c].ev : obs[o] # "none"}
    IN  /\ row[c].state = "active"
        /\ matched # {} => \E o \in matched : obs[o] = "accepted"
        /\ Suppressors(c) = {}

LiveEdge(c, d) == \E x \in rec[c].rels : x.to = d

\* Every group of claims has a member no member of the group supersedes or
\* corrects: the admitted edges, those of forgotten sources included (REVIVE
\* brings them back), have no cycle.  docs/spec, "Acyclic": a pair that
\* supersede each other would hide both from default truth.
SuppressionAcyclic ==
    \A S \in SUBSET Claims : S # {} => \E d \in S : \A c \in S : ~LiveEdge(c, d)

\* A retained claim is never lost from sight: it is current, or a chain of live
\* edges leads up to a claim that is.  S is any set of retained claims that
\* contains all suppressors of its members.
NoneHiddenTogether ==
    up => \A S \in SUBSET {c \in Claims : row[c].state = "active"} :
              S # {} /\ (\A c \in S : Suppressors(c) \subseteq S)
                  => \E c \in S : IsEffectiveCurrent(c)

\* The live process answers as a reopened one would: rows and relation table
\* are what setDataDir() would derive from the records now.
LiveEqualsReopened ==
    up => /\ row = rec
          /\ adj = UNION {EdgesOf(c, rec[c]) : c \in Claims}

=============================================================================
