-------------------------- MODULE ScopeLifecycle --------------------------
(***************************************************************************)
(* The life of one client scope: FORGET.SCOPE in both lanes, the legal     *)
(* hold the offboarding lane opens, HOLD.RELEASE, the retention sweep,     *)
(* EXPORT.SCOPE and RESTORE.SCOPE into another brain                       *)
(* (src/src/protocol/{forget_scope,hold_release,retention,export_scope,    *)
(* restore_scope}.ts).                                                     *)
(*                                                                         *)
(* Each handler writes several files one after the other; a crash point k  *)
(* says how many of its writes were made before the process died.  One     *)
(* claim is derived from each observation and named by it.  The effective  *)
(* status of an observation is a function of the evidence lines, as the    *)
(* module EvidenceLog establishes.  An operation id is used for one verb.  *)
(***************************************************************************)
EXTENDS Integers, FiniteSets, Sequences

CONSTANTS
    Obs,                \* observations of the scope
    ForgetOps,          \* operation ids of FORGET.SCOPE requests
    ReleaseOps,         \* of HOLD.RELEASE requests
    SweepOps,           \* of retention sweeps
    MaxSeq,             \* bound on evidence sequences
    RestoreMayCrash     \* whether a process may die within RESTORE.SCOPE

ASSUME ScopeLifecycleAssumption ==
    /\ MaxSeq \in Nat /\ IsFiniteSet(Obs)
    /\ RestoreMayCrash \in BOOLEAN
    /\ ForgetOps \cap ReleaseOps = {} /\ (ForgetOps \cup ReleaseOps) \cap SweepOps = {}
    /\ 0 \notin ForgetOps \cup ReleaseOps \cup SweepOps

Nobody  == 0
Reasons == {"erasure", "offboarding"}

VARIABLES
    line,       \* evidence: sequence of each observation, 0 when absent
    buried,     \* evidence: observations with a tombstone of their own
    marks,      \* evidence: FORGET.SCOPE audit markers
    last,       \* highest evidence sequence
    claim,      \* claims/*.jsonl: latest state of each observation's claim
    row,        \* table `claims`
    shown,      \* derived surfaces: search rows, wiki pages, vectors
    hold,       \* config.holds of the scope, or NoHold
    granted,    \* whether a grant references the scope
    entry,      \* whether the scope is registered in the config
    intents,    \* ops/: prepared FORGET.SCOPE requests
    entries,    \* ops/: committed entries
    pkg,        \* exports/: the package, or NoPackage
    receipt,    \* imports/: whether the package has a receipt
    up

evidence  == <<line, buried, marks, last>>
derived   == <<claim, row, shown>>
config    == <<hold, granted, entry>>
ops       == <<intents, entries>>
transport == <<pkg, receipt>>
vars      == <<evidence, derived, config, ops, transport, up>>

NoHold    == [op |-> Nobody, by |-> Nobody]
NoPackage == [line |-> <<>>]

\* Effective status of an observation under the markers and tombstones given.
StatusIn(l, b, m, o) ==
    CASE l[o] = 0 -> "none"
      [] l[o] # 0 /\ \E x \in m : x.reason = "erasure" /\ x.seq > l[o] -> "erased"
      [] OTHER -> IF o \in b \/ \E x \in m : x.seq > l[o] THEN "tombstoned" ELSE "accepted"
Status(o)  == StatusIn(line, buried, marks, o)
Accepted   == {o \in Obs : Status(o) = "accepted"}

\* isScopeHeld()
Held       == hold # NoHold /\ hold.by = Nobody
Pending    == {x.op : x \in intents}
Committed(op) == \E e \in entries : e.op = op
Marked(op) == \E m \in marks : m.op = op

-----------------------------------------------------------------------------
(* What lives in the scope.                                                *)

\* handleObserve() with an id not drawn before; a scope without entry is retired
\* and no client writes to it.
Observe(o) ==
    /\ up /\ entry /\ line[o] = 0 /\ last < MaxSeq
    /\ pkg # NoPackage => pkg.was[o] = "none"
    /\ line' = [line EXCEPT ![o] = last + 1] /\ last' = last + 1
    /\ UNCHANGED <<buried, marks, derived, config, ops, transport, up>>

\* A line of another scope.
ObserveElsewhere ==
    /\ up /\ last < MaxSeq
    /\ last' = last + 1
    /\ UNCHANGED <<line, buried, marks, derived, config, ops, transport, up>>

\* The compile worker derives the claim of an observation.
Compile(o) ==
    /\ up /\ Status(o) = "accepted" /\ claim[o] = "none"
    /\ claim' = [claim EXCEPT ![o] = "active"] /\ row' = [row EXCEPT ![o] = "active"]
    /\ shown' = shown \cup {o}
    /\ UNCHANGED <<evidence, config, ops, transport, up>>

Revive(o) ==
    /\ up /\ claim[o] = "forgotten"
    /\ claim' = [claim EXCEPT ![o] = "active"] /\ row' = [row EXCEPT ![o] = "active"]
    /\ shown' = shown \cup {o}
    /\ UNCHANGED <<evidence, config, ops, transport, up>>

-----------------------------------------------------------------------------
(* FORGET.SCOPE.                                                           *)

\* Mutant: the audit marker is written before the purge.
WritesMarkerFirst(reason) ==
    IF reason = "erasure"
    THEN <<"intent", "marker", "rows", "records", "derived", "config", "entry", "done">>
    ELSE <<"intent", "marker", "records", "rows", "derived", "config", "entry", "done">>

\* The order of the handler's writes in each lane.
Writes(reason) ==
    IF reason = "erasure"
    THEN <<"intent", "rows", "records", "derived", "config", "marker", "entry", "done">>
    ELSE <<"intent", "records", "rows", "derived", "config", "marker", "entry", "done">>

Prepares(op, reason) == [op |-> op, reason |-> reason, seq |-> last + 1]

\* Mutant: the hold is not consulted for a request that was prepared.
AllowedIfPrepared(op, reason) == reason = "erasure" => ~Held \/ op \in Pending

\* The legal hold refuses erasure, a retry of a prepared one included.
Allowed(op, reason) == reason = "erasure" => ~Held

\* A retry re-reads the last sequence and is refused when the marker it would
\* write is no longer the one that was prepared.
Admissible(op, reason) ==
    /\ ~Committed(op)
    /\ \A x \in intents : x.op = op => x = Prepares(op, reason)
    /\ Allowed(op, reason)

Purged(reason, f) ==
    [o \in Obs |-> IF reason = "erasure" THEN "none"
                   ELSE IF claim[o] = "active" THEN "forgotten" ELSE f[o]]

\* handleForgetScope(): the first k writes; with k < 8 the process dies.
ForgetScope(op, reason, k) ==
    LET Done(w) == \E i \in 1..k : Writes(reason)[i] = w
        this    == Prepares(op, reason)
    IN  /\ up /\ last < MaxSeq
        /\ ~Marked(op)
        /\ Admissible(op, reason)
        /\ claim' = IF Done("records") THEN Purged(reason, claim) ELSE claim
        /\ row' = IF Done("rows") THEN Purged(reason, row) ELSE row
        /\ shown' = IF Done("derived") /\ reason = "erasure" THEN {} ELSE shown
        /\ granted' = (granted /\ ~Done("config"))
        /\ entry' = (entry /\ ~(Done("config") /\ reason = "erasure"))
        /\ hold' = IF Done("config") /\ reason = "offboarding"
                   THEN [op |-> op, by |-> Nobody] ELSE hold
        /\ marks' = IF Done("marker") THEN marks \cup {this} ELSE marks
        /\ last' = IF Done("marker") THEN last + 1 ELSE last
        /\ entries' = IF Done("entry")
                      THEN entries \cup {[op |-> op, kind |-> "forget.scope", of |-> op]}
                      ELSE entries
        /\ intents' = IF Done("done") THEN intents \ {this} ELSE intents \cup {this}
        /\ up' = Done("done")
        /\ UNCHANGED <<line, buried, transport>>

\* runRecovery(): an intent whose exact marker is in the log is finalised.
Finalised == {x \in intents : Marked(x.op)}
Recovered ==
    /\ entries' = entries \cup {[op |-> x.op, kind |-> "forget.scope", of |-> x.op] : x \in Finalised}
    /\ intents' = intents \ Finalised

-----------------------------------------------------------------------------
(* The legal hold.                                                         *)

\* Mutant: a replay lifts whatever hold is open.
ConvergesAny(op, e) == Held

\* convergeReleasedHold(): a replayed release lifts the hold it names again.
Converges(op, e) == Held /\ hold.op = e.of

Lifted(op) == [hold EXCEPT !.by = op]
Released(op, h) == [op |-> op, kind |-> "hold.release", of |-> h]

\* handleHoldRelease() of a committed request.
HoldReleaseReplayed(op) ==
    /\ up
    /\ \E e \in entries : /\ e.op = op /\ e.kind = "hold.release"
                          /\ Converges(op, e)
                          /\ hold' = Lifted(op)
    /\ UNCHANGED <<evidence, derived, granted, entry, ops, transport, up>>

\* The release: the config, then the entry; with k = 1 the process dies between.
\* A retry finds its own id in the config and writes the entry.
HoldRelease(op, k) ==
    /\ up /\ ~Committed(op)
    /\ \/ Held /\ hold' = Lifted(op)
       \/ ~Held /\ hold.by = op /\ k = 2 /\ UNCHANGED hold
    /\ entries' = IF k = 2 THEN entries \cup {Released(op, hold.op)} ELSE entries
    /\ up' = (k = 2)
    /\ UNCHANGED <<evidence, derived, granted, entry, intents, transport>>

\* A config write is lost or the file edited by hand: the hold reads open again.
ConfigReverted ==
    /\ hold # NoHold /\ ~Held
    /\ hold' = [hold EXCEPT !.by = Nobody]
    /\ UNCHANGED <<evidence, derived, granted, entry, ops, transport, up>>

-----------------------------------------------------------------------------
(* The retention sweep.                                                    *)

\* The observations a sweep tombstones when those of X have elapsed.
Elapsed(X) == IF Held THEN {} ELSE X \cap Accepted

\* buildTombstoneMutation(): a tombstone of its own for each elapsed observation.
Tombstoned(D) == buried \cup D

\* handleExpireRetention(): some of the tombstones, each with the retraction of
\* its claim; a sweep that wrote all of them also commits its entry.
ExpireRetention(op, X, D) ==
    LET complete == D = Elapsed(X)
    IN  /\ up /\ ~Committed(op)
        /\ D \subseteq Elapsed(X) /\ last + Cardinality(D) <= MaxSeq
        /\ buried' = Tombstoned(D) /\ last' = last + Cardinality(D)
        /\ claim' = [o \in Obs |-> IF o \in D /\ claim[o] = "active" THEN "forgotten" ELSE claim[o]]
        /\ row' = [o \in Obs |-> IF o \in D /\ claim[o] = "active" THEN "forgotten" ELSE row[o]]
        /\ entries' = IF complete
                      THEN entries \cup {[op |-> op, kind |-> "retention.expire", of |-> op]}
                      ELSE entries
        /\ up' = complete
        /\ UNCHANGED <<line, marks, shown, config, intents, transport>>

-----------------------------------------------------------------------------
(* EXPORT.SCOPE and RESTORE.SCOPE.                                         *)

\* Mutant: only the records of the scope itself are packed.
ScopeMarkersNone == {}

\* Markers live in the pod's own scope; those of this scope travel with it.
ScopeMarkers == marks

\* handleExportScope(): an erased scope is exported empty, with a certificate.
ExportScope ==
    LET erased == \E m \in marks : m.reason = "erasure"
    IN  /\ up /\ pkg = NoPackage /\ (Accepted # {} \/ marks # {})
        /\ pkg' = IF erased
                  THEN [line |-> [o \in Obs |-> 0], buried |-> {}, marks |-> {},
                        claim |-> [o \in Obs |-> "none"], entries |-> {}, certificate |-> TRUE,
                        was |-> [o \in Obs |-> Status(o)]]
                  ELSE [line |-> line, buried |-> buried, marks |-> ScopeMarkers,
                        claim |-> claim, entries |-> {e \in entries : e.kind = "forget.scope"},
                        certificate |-> FALSE, was |-> [o \in Obs |-> Status(o)]]
        /\ UNCHANGED <<evidence, derived, config, ops, receipt, up>>

\* The host provisions another brain and carries the package over.
NewBrain ==
    /\ pkg # NoPackage /\ ~receipt
    /\ line' = [o \in Obs |-> 0] /\ buried' = {} /\ marks' = {} /\ last' = 0
    /\ claim' = [o \in Obs |-> "none"] /\ row' = claim' /\ shown' = {}
    /\ hold' = NoHold /\ granted' = TRUE /\ entry' = TRUE
    /\ intents' = {} /\ entries' = {}
    /\ up' = TRUE
    /\ UNCHANGED transport

Highest(n, S) == IF \A x \in S : x <= n THEN n ELSE CHOOSE x \in S : \A y \in S : y <= x

\* handleRestoreScope(): the receipt, the observations in file order with the
\* markers at their end, the claims, the operations; then the indices catch up.
\* The host restores into a brain without evidence (EvidenceLog has the others).
RestoreScope(k) ==
    /\ up /\ pkg # NoPackage /\ ~receipt /\ last = 0
    /\ \A o \in Obs : line[o] = 0 /\ claim[o] = "none"
    /\ receipt' = TRUE
    /\ line' = IF k >= 1 THEN pkg.line ELSE line
    /\ buried' = IF k >= 1 THEN pkg.buried ELSE buried
    /\ marks' = IF k >= 2 THEN marks \cup pkg.marks ELSE marks
    /\ claim' = IF k >= 3 THEN pkg.claim ELSE claim
    /\ entries' = IF k >= 4 THEN entries \cup pkg.entries ELSE entries
    /\ last' = Highest(last, {line'[o] : o \in Obs} \cup {m.seq : m \in marks'})
    /\ row' = IF k = 4 THEN claim' ELSE row
    /\ shown' = IF k = 4 THEN {o \in Obs : claim'[o] = "active"} ELSE shown
    /\ up' = (k = 4)
    /\ UNCHANGED <<config, intents, pkg>>

\* SmartwareCore.open(): recovery, rows from records, and the catch-up that
\* retracts the claims of tombstoned observations unless a request is pending.
Open ==
    /\ ~up
    /\ Recovered
    /\ LET withdrawn == IF intents = Finalised
                        THEN {o \in buried : claim[o] = "active"} ELSE {}
       IN  claim' = [o \in Obs |-> IF o \in withdrawn THEN "forgotten" ELSE claim[o]]
    /\ row' = [o \in Obs |-> IF claim[o] = "none" THEN row[o] ELSE claim'[o]]
    /\ shown' = {o \in Obs : row'[o] = "active"}
    /\ up' = TRUE
    /\ UNCHANGED <<evidence, config, transport>>

-----------------------------------------------------------------------------
Init ==
    /\ line = [o \in Obs |-> 0] /\ buried = {} /\ marks = {} /\ last = 0
    /\ claim = [o \in Obs |-> "none"] /\ row = claim /\ shown = {}
    /\ hold = NoHold /\ granted = TRUE /\ entry = TRUE
    /\ intents = {} /\ entries = {}
    /\ pkg = NoPackage /\ receipt = FALSE /\ up = TRUE

Next ==
    \/ \E o \in Obs : Observe(o) \/ Compile(o) \/ Revive(o)
    \/ ObserveElsewhere
    \/ \E op \in ForgetOps, reason \in Reasons, k \in 1..8 : ForgetScope(op, reason, k)
    \/ \E op \in ReleaseOps : HoldReleaseReplayed(op)
    \/ \E op \in ReleaseOps, k \in 1..2 : HoldRelease(op, k)
    \/ ConfigReverted
    \/ \E op \in SweepOps, X \in SUBSET Obs, D \in SUBSET Obs : ExpireRetention(op, X, D)
    \/ ExportScope \/ NewBrain \/ Open
    \/ \E k \in IF RestoreMayCrash THEN 0..4 ELSE {4} : RestoreScope(k)

Spec == Init /\ [][Next]_vars

-----------------------------------------------------------------------------
\* While a hold is open nothing it preserves is lost: no record of a claim is
\* removed, no observation is erased or expires, and it ends by a release only
\* (ADR-0009; a host that provisions another brain starts a life of its own).
HeldKept ==
    [][Held /\ ~NewBrain =>
          /\ \A o \in Obs : claim[o] # "none" => claim'[o] # "none"
          /\ Accepted \cap buried' = {}
          /\ \A m \in marks' \ marks : m.reason = "offboarding"
          /\ hold'.by # Nobody => \E op \in ReleaseOps :
                HoldReleaseReplayed(op) \/ \E k \in 1..2 : HoldRelease(op, k)]_vars

\* No ghost of an erasure: once its marker stands, or the entry that commits
\* it, no record, row, search row or page of the scope is left.
NoGhost ==
    \A m \in marks : m.reason = "erasure" =>
        /\ shown = {}
        /\ \A o \in Obs : claim[o] = "none" /\ row[o] = "none"

\* A hold that reads released was released by an act on that very hold: the
\* committed entry of the release names the offboarding that opened it.
ReleaseNamesItsHold ==
    hold # NoHold /\ ~Held =>
        \A e \in entries : e.op = hold.by => e.kind = "hold.release" /\ e.of = hold.op

\* What was withdrawn when a package was written is withdrawn where it is
\* restored: offboarded or expired evidence never comes back as accepted.
NoResurrection ==
    receipt => \A o \in Obs : pkg.was[o] \notin {"none", "accepted"} => Status(o) # "accepted"

\* An interrupted FORGET.SCOPE can be completed by retrying it.
InterruptedCompletes ==
    up => \A x \in intents : Admissible(x.op, x.reason)

=============================================================================
