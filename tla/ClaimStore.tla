----------------------------- MODULE ClaimStore -----------------------------
(***************************************************************************)
(* The claims of one subject, predicate and scope: admission, duplicate    *)
(* resolution, demotion and release, correction, consolidation, FORGET and *)
(* REVIVE (src/src/layer1/{store,conflicts,corroboration,replay}.ts and    *)
(* the handlers of src/src/protocol that write versions).                  *)
(*                                                                         *)
(* A claim lives twice: in its version records (canonical; the model keeps *)
(* the latest one and the last active one, all a handler ever reads) and   *)
(* as a row of table `claims`.  Some writers derive the record from the    *)
(* row (insertClaim), the others the row from the record                   *)
(* (syncFromJsonlVersion); corrections and tombstones reach both by the    *)
(* replay of the evidence log.  Relations are the subject of Suppression,  *)
(* and confidence, entities and wording are left out.                      *)
(***************************************************************************)
EXTENDS Integers, FiniteSets, Sequences

CONSTANTS
    MaxClaims,      \* bound on claims
    MaxEvents,      \* bound on corrections and tombstones in the evidence log
    Obs,            \* observations claims cite
    Values,         \* values of the fact
    Froms,          \* event-valid starts, ordered
    MergeDemoted,   \* whether users merge a claim into one that is not live, or into itself
    CorrectForgotten, \* whether users correct a forgotten claim
    Overlap         \* whether a verb may run while a catch-up has yielded

ASSUME ClaimStoreAssumption ==
    /\ MaxClaims \in Nat /\ MaxEvents \in Nat /\ Froms \subseteq Nat
    /\ {MergeDemoted, CorrectForgotten, Overlap} \subseteq BOOLEAN

Ids      == 1..MaxClaims
Nobody   == 0
Blank    == "blank"         \* content of a row whose record is forgotten
Redacted == "redacted"
Warrant  == 0               \* the correction a corrected claim cites
Live     == {"active", "contested"}
Reasons  == {"changed", "wrong", "extraction_error", "duplicate"}

NoRow    == [status |-> "none", by |-> Nobody, ev |-> {}, val |-> Blank, from |-> 0, open |-> TRUE]
NoRecord == [state |-> "none", by |-> Nobody, ev |-> {}, val |-> Blank, from |-> 0, open |-> TRUE]

VARIABLES
    row,        \* table `claims`: status, superseding claim, evidence, value, window
    rec,        \* claims/*.jsonl: latest version, with its state
    act,        \* claims/*.jsonl: last active version
    log,        \* evidence: corrections and tombstones
    cursor,     \* last replayed sequence
    late,       \* events a catch-up that yielded still holds, <<after, last>>
    up

store == <<row, rec, act>>
vars  == <<row, rec, act, log, cursor, late, up>>
Idle  == <<0, 0>>

-----------------------------------------------------------------------------
(* The two directions between rows and records.  A store value is the      *)
(* triple of row, rec and act.                                             *)

S(r, v, a) == [row |-> r, rec |-> v, act |-> a]

\* Mutant: the record keeps the state the claim was read with.
RecordOfStale(r, prior) ==
    [state |-> IF prior.state = "none" THEN "active" ELSE prior.state,
     by    |-> IF r.status = "superseded" THEN r.by ELSE Nobody,
     ev    |-> r.ev, val |-> r.val, from |-> r.from, open |-> r.open]

\* The record insertClaim() appends for a row: the state is projected from the
\* status, a demotion rides along, a forgotten record has no content.
RecordOf(r, prior) ==
    [state |-> IF r.status = "retracted" THEN "forgotten" ELSE "active",
     by    |-> IF r.status = "superseded" THEN r.by ELSE Nobody,
     ev    |-> r.ev,
     val   |-> IF r.status = "retracted" THEN Blank ELSE r.val,
     from  |-> r.from, open |-> r.open]

\* insertClaim() of the rows r, claim -> row, one after the other: a row is
\* written for its own claim alone, so in no particular order.
InsertClaims(s, r) ==
    LET v(c) == RecordOf(r[c], s.rec[c])
    IN  S([c \in Ids |-> IF c \in DOMAIN r THEN r[c] ELSE s.row[c]],
          [c \in Ids |-> IF c \in DOMAIN r THEN v(c) ELSE s.rec[c]],
          [c \in Ids |-> IF c \in DOMAIN r /\ v(c).state = "active" THEN v(c) ELSE s.act[c]])

InsertClaim(s, c, r) == InsertClaims(s, [d \in {c} |-> r])

\* Mutant: the derivation passes over the demotion.
ClaimVersionValsPlain(existing, v) ==
    [status |-> IF v.state = "active" THEN "active" ELSE "retracted",
     by |-> Nobody, ev |-> v.ev, val |-> v.val, from |-> v.from, open |-> v.open]

\* claimVersionVals(): a forgotten record has no content and no semantics, so
\* its event-valid window is the one of the row it replaces.
ClaimVersionVals(existing, v) ==
    LET by == IF v.state = "active" THEN v.by ELSE Nobody
        kept == v.state = "forgotten" /\ existing.status # "none"
    IN  [status |-> IF v.state = "forgotten" THEN "retracted"
                    ELSE IF by # Nobody THEN "superseded" ELSE "active",
         by |-> by, ev |-> v.ev, val |-> v.val,
         from |-> IF kept THEN existing.from ELSE v.from,
         open |-> IF kept THEN existing.open ELSE v.open]

\* appendClaimVersion() and syncFromJsonlVersion() of the versions v, claim ->
\* version.
SyncVersions(s, v) ==
    S([c \in Ids |-> IF c \in DOMAIN v THEN ClaimVersionVals(s.row[c], v[c]) ELSE s.row[c]],
      [c \in Ids |-> IF c \in DOMAIN v THEN v[c] ELSE s.rec[c]],
      [c \in Ids |-> IF c \in DOMAIN v /\ v[c].state = "active" THEN v[c] ELSE s.act[c]])

SyncVersion(s, c, v) == SyncVersions(s, [d \in {c} |-> v])

\* updateClaimStatus() of the claims D that have a row.
UpdateStatuses(s, D, status, by, closes) ==
    InsertClaims(s, [c \in {d \in D : s.row[d].status # "none"} |->
        [s.row[c] EXCEPT !.status = status, !.by = by, !.open = @ /\ ~closes]])

UpdateClaimStatus(s, c, status, by, closes) == UpdateStatuses(s, {c}, status, by, closes)

Current    == S(row, rec, act)
Becomes(s) == row' = s.row /\ rec' = s.rec /\ act' = s.act
Fresh      == {c \in Ids : row[c].status = "none" /\ rec[c].state = "none"
                           /\ \A i \in DOMAIN log : log[i].id # c}

-----------------------------------------------------------------------------
(* Admission: conflicts.ts and corroboration.ts.                           *)

Minted(o, v, f) == [status |-> "active", by |-> Nobody, ev |-> {o}, val |-> v, from |-> f, open |-> TRUE]
SameKey(f)      == {c \in Ids : row[c].status \in Live /\ row[c].from = f}
Agreeing(v, f)  == {c \in SameKey(f) : row[c].val = v}
Earlier(f)      == {c \in Ids : row[c].status = "active" /\ row[c].from < f}

\* addCorroborationEvidence()
AddEvidence(s, c, E) == InsertClaim(s, c, [s.row[c] EXCEPT !.ev = @ \cup E])

\* markContested() of c and every claim of D: c is inserted first.
MarkContested(s, c, D) ==
    InsertClaims(s, [d \in D \cup {c} |-> [s.row[d] EXCEPT !.status = "contested"]])

CanWrite == up /\ (Overlap \/ late = Idle)

\* admitClaim() after detectConflict(): restated, disagreed with, replaced or new.
Admit(c, o, v, f) ==
    /\ CanWrite /\ c \in Fresh
    /\ \/ \E d \in Agreeing(v, f) : Becomes(AddEvidence(Current, d, {o}))
       \/ /\ Agreeing(v, f) = {} /\ SameKey(f) # {}
          /\ Becomes(MarkContested(InsertClaim(Current, c, Minted(o, v, f)), c, SameKey(f)))
       \/ /\ SameKey(f) = {}
          /\ \E d \in Earlier(f) :
                Becomes(UpdateClaimStatus(InsertClaim(Current, c, Minted(o, v, f)),
                                          d, "superseded", c, TRUE))
       \/ /\ SameKey(f) = {} /\ Earlier(f) = {}
          /\ Becomes(InsertClaim(Current, c, Minted(o, v, f)))
    /\ UNCHANGED <<log, cursor, late, up>>

\* findActiveFactMatches(): live undisputed claims of a value, window still open.
FactMatches(v) == {c \in Ids : row[c].status = "active" /\ row[c].open /\ row[c].val = v}

\* resolveFactMatches(): the smallest id survives with the evidence of all; the
\* evidence is written before the first demotion.
ResolveFactMatches(v, E) ==
    LET M        == FactMatches(v)
        survivor == CHOOSE c \in M : \A d \in M : c <= d
        kept     == AddEvidence(Current, survivor, E \cup UNION {row[c].ev : c \in M})
    IN  /\ CanWrite /\ M # {}
        /\ Cardinality(M) > 1 \/ E # {}
        /\ Becomes(UpdateStatuses(kept, M \ {survivor}, "superseded", survivor, FALSE))
        /\ UNCHANGED <<log, cursor, late, up>>

-----------------------------------------------------------------------------
(* Replay of the evidence log: replay.ts.                                  *)

\* removeEvidenceFromClaims(): reads rows that are active, writes the reduced
\* claim, and then a retraction if nothing is left.
RemoveEvidence(s, o) ==
    LET impacted == {c \in Ids : s.row[c].status = "active" /\ o \in s.row[c].ev}
        reduced == InsertClaims(s, [c \in impacted |-> [s.row[c] EXCEPT !.ev = @ \ {o}]])
    IN  UpdateStatuses(reduced, {c \in impacted : reduced.row[c].ev = {}}, "retracted", Nobody, FALSE)

\* buildCorrectedClaim(): the corrected claim keeps the original's evidence and
\* start, cites the correction too, and its window is open.
BuildCorrected(original, e) ==
    [original EXCEPT !.status = "active", !.by = Nobody, !.open = TRUE, !.val = e.val,
                     !.ev = @ \cup {Warrant}]

HandleDuplicate(s, e) ==
    IF s.row[e.into].status = "none" THEN s
    ELSE UpdateClaimStatus(AddEvidence(s, e.into, s.row[e.target].ev),
                           e.target, "superseded", e.into, FALSE)

\* handleCorrection(): four reasons, each with its own end for the original.
HandleCorrection(s, e) ==
    LET original == s.row[e.target]
        With(t)  == InsertClaim(t, e.id, BuildCorrected(original, e))
    IN  CASE original.status = "none" -> s
          [] e.reason = "duplicate" /\ original.status # "none" -> HandleDuplicate(s, e)
          [] e.reason = "changed" /\ original.status # "none" ->
                With(UpdateClaimStatus(s, e.target, "superseded", e.id, TRUE))
          [] e.reason \in {"wrong", "extraction_error"} /\ original.status # "none" ->
                With(UpdateClaimStatus(s, e.target, "retracted", Nobody, e.reason = "wrong"))

\* handleRetraction() of a claim: a claim already retracted is passed over.
HandleRetraction(s, e) ==
    CASE e.kind = "observation" -> RemoveEvidence(s, e.target)
      [] e.kind = "redaction" ->
            IF s.row[e.target].status = "none" THEN s
            ELSE InsertClaim(s, e.target, [s.row[e.target] EXCEPT !.val = Redacted])
      [] e.kind = "tombstone" ->
            IF s.row[e.target].status = "retracted" THEN s
            ELSE UpdateClaimStatus(s, e.target, "retracted", Nobody, FALSE)

ProcessEvent(s, e) ==
    IF e.kind = "correction" THEN HandleCorrection(s, e) ELSE HandleRetraction(s, e)

\* replayCatchUp() over the events after a up to b.
CatchUp(s, events, a, b) ==
    LET applied[k \in a .. b] ==
            IF k = a THEN s ELSE ProcessEvent(applied[k - 1], events[k])
    IN  applied[b]

\* The end of a handler that appended event e and awaits the catch-up, with s
\* its own writes.  The catch-up reads the events and may yield before it has
\* applied them; one started while another has yielded runs through.
Replays(s, e) ==
    /\ log' = Append(log, e)
    /\ IF late = Idle
       THEN /\ Becomes(s)
            /\ late' = <<cursor, Len(log')>> /\ UNCHANGED cursor
       ELSE /\ Becomes(CatchUp(s, log', cursor, Len(log')))
            /\ cursor' = Len(log') /\ UNCHANGED late
    /\ UNCHANGED up

\* A catch-up that yielded goes on with the events it had read.
CatchUpResumes ==
    /\ up /\ late # Idle
    /\ Becomes(CatchUp(Current, log, late[1], late[2]))
    /\ cursor' = IF late[2] > cursor THEN late[2] ELSE cursor
    /\ late' = Idle
    /\ UNCHANGED <<log, up>>

\* The process dies with some events applied and the cursor not written.
CatchUpDies ==
    /\ up /\ late # Idle
    /\ \E k \in late[1]..late[2] : Becomes(CatchUp(Current, log, late[1], k))
    /\ up' = FALSE /\ late' = Idle
    /\ UNCHANGED <<log, cursor>>

-----------------------------------------------------------------------------
(* The verbs.                                                              *)

Room == Len(log) < MaxEvents
Tombstone(k, t) == [kind |-> k, target |-> t, id |-> 0]

\* handleForget() of a claim: the forgotten version carries the demotion.
Forget(c, mode) ==
    /\ CanWrite /\ Room /\ row[c].status # "none"
    /\ Replays(IF rec[c].state = "active"
               THEN SyncVersion(Current, c, [rec[c] EXCEPT !.state = "forgotten", !.val = Blank])
               ELSE Current, Tombstone(mode, c))

\* The process dies after the event of a FORGET without an operation id, before
\* the forgotten version.
ForgetDies(c) ==
    /\ CanWrite /\ Room /\ row[c].status # "none"
    /\ log' = Append(log, Tombstone("tombstone", c))
    /\ up' = FALSE /\ late' = Idle
    /\ UNCHANGED <<store, cursor>>

ForgetObservation(o) ==
    /\ CanWrite /\ Room
    /\ \A i \in DOMAIN log : log[i].kind = "observation" => log[i].target # o
    /\ Replays(Current, Tombstone("observation", o))

\* Mutant: the demotion is not carried onto the revived version.
RevivedPlain(c) == [act[c] EXCEPT !.by = Nobody]

\* handleRevive(): the last active version, its demotion carried over.
Revived(c) == act[c]

Revive(c) ==
    /\ CanWrite /\ rec[c].state = "forgotten" /\ act[c].state = "active"
    /\ Becomes(SyncVersion(Current, c, Revived(c)))
    /\ UNCHANGED <<log, cursor, late, up>>

\* handleReviseSpec() with add_derived_from: latest version, demotion carried.
Revise(c, o) ==
    /\ CanWrite /\ rec[c].state = "active" /\ o \notin rec[c].ev
    /\ Becomes(SyncVersion(Current, c, [rec[c] EXCEPT !.ev = @ \cup {o}]))
    /\ UNCHANGED <<log, cursor, late, up>>

\* The process dies between the appended version and its sync.
ReviseDies(c, o) ==
    /\ CanWrite /\ rec[c].state = "active" /\ o \notin rec[c].ev
    /\ rec' = [rec EXCEPT ![c].ev = @ \cup {o}]
    /\ act' = [act EXCEPT ![c] = rec'[c]]
    /\ up' = FALSE /\ late' = Idle
    /\ UNCHANGED <<row, log, cursor>>

\* Mutant: the released version keeps the pointer it was demoted with.
ReleasedKept(c) == rec[c]
Released(c)     == [rec[c] EXCEPT !.by = Nobody]

\* repickSurvivor(): the demoted claim is released and every active copy of its
\* fact demoted to it, in one append.
Repick(c) ==
    LET M == FactMatches(row[c].val)
    IN  /\ CanWrite /\ rec[c].state = "active" /\ rec[c].by # Nobody
        /\ row[c].status # "none" /\ c \notin M
        /\ \A d \in M : rec[d].state = "active"
        /\ Becomes(SyncVersions(Current, [d \in M \cup {c} |->
                       IF d = c THEN Released(c) ELSE [rec[d] EXCEPT !.by = c]]))
        /\ UNCHANGED <<log, cursor, late, up>>

\* handleCorrect(): no check of the original's status.
Correct(c, reason, into, v, id) ==
    /\ CanWrite /\ Room /\ row[c].status # "none"
    /\ CorrectForgotten \/ row[c].status # "retracted"
    /\ IF reason = "duplicate"
       THEN /\ row[into].status # "none"
            /\ MergeDemoted \/ (into # c /\ row[into].status \in Live)
            /\ id = 0 /\ v = Blank
       ELSE /\ into = c /\ id \in Fresh
    /\ Replays(Current, [kind |-> "correction", target |-> c, reason |-> reason,
                         into |-> into, val |-> v, id |-> id])

\* handleConsolidate(): the summary first, then one tombstone per input; the
\* first n are written when the process dies, all of them otherwise.
Consolidated(c, inputs, v, f) ==
    SyncVersion(Current, c,
        [state |-> "active", by |-> Nobody, val |-> v, from |-> f, open |-> TRUE,
         ev |-> inputs \cup UNION {rec[d].ev : d \in inputs}])

Tombstoned(s, D) ==
    SyncVersions(s, [d \in D |-> [s.rec[d] EXCEPT !.state = "forgotten", !.val = Blank]])

Consolidate(c, inputs, v, f) ==
    /\ CanWrite /\ c \in Fresh /\ Cardinality(inputs) >= 2
    /\ \A d \in inputs : rec[d].state = "active"
    /\ Becomes(Tombstoned(Consolidated(c, inputs, v, f), inputs))
    /\ UNCHANGED <<log, cursor, late, up>>

ConsolidateDies(c, inputs, v, f) ==
    /\ CanWrite /\ c \in Fresh /\ Cardinality(inputs) >= 2
    /\ \A d \in inputs : rec[d].state = "active"
    /\ \E D \in SUBSET inputs :
          D # inputs /\ Becomes(Tombstoned(Consolidated(c, inputs, v, f), D))
    /\ up' = FALSE /\ late' = Idle
    /\ UNCHANGED <<log, cursor>>

\* setDataDir() syncs every claim that has records, then replayCatchUp().
Open ==
    /\ ~up
    /\ LET synced == [c \in Ids |-> IF rec[c].state = "none" THEN row[c]
                                    ELSE ClaimVersionVals(row[c], rec[c])]
       IN  Becomes(CatchUp(S(synced, rec, act), log, cursor, Len(log)))
    /\ cursor' = Len(log) /\ up' = TRUE
    /\ UNCHANGED <<log, late>>

Close ==
    /\ up /\ late = Idle
    /\ up' = FALSE
    /\ UNCHANGED <<store, log, cursor, late>>

-----------------------------------------------------------------------------
Init ==
    /\ row = [c \in Ids |-> NoRow] /\ rec = [c \in Ids |-> NoRecord]
    /\ act = [c \in Ids |-> NoRecord]
    /\ log = <<>> /\ cursor = 0 /\ late = Idle /\ up = TRUE

Next ==
    \/ \E c \in Ids, o \in Obs, v \in Values, f \in Froms : Admit(c, o, v, f)
    \/ \E v \in Values, E \in {{}} \cup {{o} : o \in Obs} : ResolveFactMatches(v, E)
    \/ \E c \in Ids, mode \in {"tombstone", "redaction"} : Forget(c, mode)
    \/ \E c \in Ids : ForgetDies(c) \/ Revive(c) \/ Repick(c)
    \/ \E o \in Obs : ForgetObservation(o)
    \/ \E c \in Ids, o \in Obs : Revise(c, o) \/ ReviseDies(c, o)
    \/ \E c, into \in Ids, reason \in Reasons, v \in Values \cup {Blank}, id \in {0} \cup Ids :
          Correct(c, reason, into, v, id)
    \/ \E c \in Ids, inputs \in SUBSET Ids, v \in Values, f \in Froms :
          Consolidate(c, inputs, v, f) \/ ConsolidateDies(c, inputs, v, f)
    \/ CatchUpResumes \/ CatchUpDies \/ Open \/ Close

Spec == Init /\ [][Next]_vars

-----------------------------------------------------------------------------
\* A demoted claim returns to recall only when the user re-picks it: not by a
\* sync, a reopen, a replay, a REVISE or a REVIVE (ADR-0003).
DemotionSticks ==
    [][\A c \in Ids : act[c].by # Nobody /\ row'[c].status \in Live => Repick(c)]_vars

\* A forgotten claim is readable again only by REVIVE: no reopen, replay,
\* correction of another claim or duplicate resolution brings it back.
ForgottenStays ==
    [][\A c \in Ids : row[c].status = "retracted" /\ row'[c].status # "retracted" => Revive(c)]_vars

\* Rows are rebuild-equivalent: but for the mark of a disagreement, a live
\* process has the row a reopened one would derive from the record.
RowFollowsRecord ==
    up => \A c \in Ids :
        /\ rec[c].state = "none" <=> row[c].status = "none"
        /\ rec[c].state # "none" =>
              LET derived == ClaimVersionVals(row[c], rec[c])
              IN  /\ row[c].ev = rec[c].ev
                  /\ row[c].by = derived.by
                  /\ \/ row[c].status = derived.status
                     \/ row[c].status = "contested" /\ derived.status = "active"

\* Demotions lead somewhere: no group of claims is demoted in favour of one
\* another, so what a chain of superseded_by ends in is not itself demoted.
SupersessionEnds ==
    \A D \in SUBSET Ids : D # {} => \E c \in D : act[c].by \notin D

\* Two live claims that give one window different values are both contested.
DisagreementStands ==
    up => \A c, d \in Ids :
        /\ row[c].status \in Live /\ row[d].status \in Live
        /\ row[c].from = row[d].from /\ row[c].val # row[d].val
        => row[c].status = "contested"

=============================================================================
