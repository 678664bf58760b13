---------------------------- MODULE CompileQueue ----------------------------
(***************************************************************************)
(* The durable compile queue (src/src/compile_queue): OBSERVE enqueues,    *)
(* a background worker claims a batch of jobs, derives claim versions from *)
(* each observation, and commits them, their receipts and the job states   *)
(* in that order.  Three derived stores take part: the job ledger, the     *)
(* fingerprint index that tells a new fact from a known one, and the       *)
(* freshness label of each observation in the raw search window.  Opening  *)
(* a brain reconciles them with the canonical logs.                        *)
(*                                                                         *)
(* An observation states one fact or none.  A fact has one classification, *)
(* so the fingerprint and the fact identity rule agree on it.              *)
(***************************************************************************)
EXTENDS Integers, Sequences, FiniteSets, FiniteSetsExt

CONSTANTS
    Obs,            \* observations the client will make
    FactOf,         \* observation -> the fact it states (with its scope), or None
    ScopeOf,        \* observation -> scope
    None,
    Limit,          \* jobs claimed per batch
    MaxClaims,      \* bound on the claims minted
    MaxRetries,     \* bound on the times the host retries a failed job
    Hosts           \* the ways of running a brain that are explored

Conditions ==
    {"dies",        \* the process may die while a batch is in flight
     "rebuilds",    \* the fingerprint index is deleted before an open
     "overlaps",    \* users forget and erase while a batch awaits
     "edits",       \* users forget and revise claims
     "fails",       \* extraction may throw
     "restores"}    \* packages of other scopes are restored

Scopes == {ScopeOf[o] : o \in Obs}
Facts  == {FactOf[o] : o \in Obs} \ {None}

ASSUME CompileAssumption ==
    /\ Limit \in Nat \ {0} /\ MaxClaims \in Nat /\ MaxRetries \in Nat
    /\ None \notin Obs \cup {"resolved", "failed"}
    /\ Hosts \subseteq [does : SUBSET Conditions, obs : SUBSET Obs, deaths : Nat]
    /\ \A o, p \in Obs : FactOf[o] = FactOf[p] /\ FactOf[o] # None => ScopeOf[o] = ScopeOf[p]

VARIABLES
    status,     \* Layer 0: "absent", "accepted" or "terminal"
    jobs,       \* compile_jobs: observation -> status, "none" without a row
    fresh,      \* observation_meta: observation -> label, "gone" without a row
    fp,         \* claim_state: one record per claim
    claims,     \* claims/<month>.jsonl: lines, numbered by the append that wrote them
    receipts,   \* reflect.auto entries of the operations log
    batch,      \* the batch in flight, or None
    erased,     \* scopes whose erasure was answered
    minted,     \* claim ids used
    up, deaths,
    host        \* how this brain is run: what happens to it, what it observes

vars == <<status, jobs, fresh, fp, claims, receipts, batch, erased, minted, up, deaths, host>>

Records == [claim : 1 .. MaxClaims, fact : Facts, version : Nat,
            state : {"active", "forgotten"}, owner : {"agent", "user"},
            from : SUBSET Obs, by : Obs \cup {None}]
Lines    == [at : Nat, rec : Records]
Receipts == [obs : Obs, outcome : {"resolved", "failed"}]
Batches  == [all : SUBSET Obs, todo : SUBSET Obs, cur : Obs \cup {None}, failed : SUBSET Obs,
             recs : SUBSET Records, ops : Seq(Receipts)]

ASSUME NoBatchAssumption == None \notin Batches

TypeOK ==
    /\ status \in [Obs -> {"absent", "accepted", "terminal"}]
    /\ jobs \in [Obs -> {"none", "pending", "running", "done", "failed"}]
    /\ fresh \in [Obs -> {"gone", "unverified", "EXTRACTED", "FAILED"}]
    /\ \A r \in fp : r \in Records
    /\ \A x \in claims : x \in Lines
    /\ receipts \in Seq(Receipts)
    /\ batch # None =>
        /\ batch \in Batches
        /\ batch.todo \subseteq batch.all /\ batch.failed \subseteq batch.all
        /\ batch.cur \in batch.all \cup {None}
    /\ erased \subseteq Scopes /\ minted \in 0 .. MaxClaims /\ up \in BOOLEAN
    /\ deaths \in 0 .. host.deaths
    /\ host \in Hosts

Init ==
    /\ status = [o \in Obs |-> "absent"]
    /\ jobs = [o \in Obs |-> "none"] /\ fresh = [o \in Obs |-> "gone"]
    /\ fp = {} /\ claims = {} /\ receipts = <<>>
    /\ batch = None /\ erased = {} /\ minted = 0
    /\ up = FALSE /\ deaths = 0
    /\ host \in Hosts

Does(c) == c \in host.does

-----------------------------------------------------------------------------
(* The canonical claim files and the fingerprint index.                    *)

\* appendClaimVersions(): the lines of one append, behind all others.
Appended(R) ==
    LET n == 1 + Max({0} \cup {x.at : x \in claims})
    IN  claims \cup {[at |-> n, rec |-> r] : r \in R}

\* readLatestVersion() of every claim: of equal versions the first wins.
Latest(C) ==
    {x \in C : \A y \in C : y.rec.claim = x.rec.claim =>
        y.rec.version < x.rec.version \/ (y.rec.version = x.rec.version /\ x.at <= y.at)}

\* upsertVersion(): only a newer version of a claim replaces its row.
Upsert(I, r) ==
    IF \E q \in I : q.claim = r.claim /\ q.version >= r.version THEN I
    ELSE {q \in I : q.claim # r.claim} \cup {r}

\* catchUp(): every version of the month files that changed, so that the latest
\* line of a claim replaces an older row.
CatchUp(I, C) ==
    {r \in I : \A x \in C : x.rec.claim = r.claim => x.rec.version <= r.version}
    \cup {x.rec : x \in {y \in Latest(C) :
                            \A r \in I : r.claim = y.rec.claim => r.version < y.rec.version}}

\* activeByFingerprint(): rows by version, then claim id; the first active one.
ActiveByFingerprint(f) ==
    LET found == {r \in fp : r.fact = f /\ r.state = "active"}
    IN  {r \in found : \A q \in found :
            q.version < r.version \/ (q.version = r.version /\ q.claim >= r.claim)}

-----------------------------------------------------------------------------
(* Opening a brain.                                                        *)

\* The last receipt of an observation: "resolved", "failed" or None.
LastReceipt(o, x) ==
    \E i \in DOMAIN receipts :
        /\ receipts[i].obs = o
        /\ \A j \in i .. Len(receipts) : receipts[j].obs = o => receipts[j].outcome = x

Outcome(o) ==
    IF LastReceipt(o, "resolved") THEN "resolved"
    ELSE IF LastReceipt(o, "failed") THEN "failed" ELSE None

\* A mutant of Reconciled: jobs a dead process was running are not reset.
ReconciledNoReset(o) ==
    IF status[o] # "accepted" THEN jobs[o]
    ELSE IF Outcome(o) = "resolved" THEN "done"
    ELSE IF Outcome(o) = "failed" THEN "failed"
    ELSE IF jobs[o] = "none" THEN "pending" ELSE jobs[o]

\* syncCompileQueue(): resetStale(), then receipts, then seeding.
Reconciled(o) ==
    LET stale == IF jobs[o] = "running" THEN "pending" ELSE jobs[o]
    IN  IF status[o] # "accepted" THEN stale
        ELSE IF Outcome(o) = "resolved" THEN "done"
        ELSE IF Outcome(o) = "failed" THEN "failed"
        ELSE IF stale = "none" THEN "pending" ELSE stale

\* A mutant of Relabelled: the labels of the receipts are not applied again.
RelabelledUnverified(o) ==
    IF status[o] # "accepted" THEN "gone" ELSE "unverified"

\* syncObservationsFromEvidence() wipes the window, syncCompileQueue() labels it.
Relabelled(o) ==
    IF status[o] # "accepted" THEN "gone"
    ELSE IF Outcome(o) = "resolved" THEN "EXTRACTED"
    ELSE IF Outcome(o) = "failed" THEN "FAILED" ELSE "unverified"

Open ==
    /\ ~up
    /\ jobs'  = [o \in Obs |-> Reconciled(o)]
    /\ fresh' = [o \in Obs |-> Relabelled(o)]
    /\ fp' = CatchUp(IF Does("rebuilds") THEN {} ELSE fp, claims)
    /\ up' = TRUE
    /\ UNCHANGED <<host, status, claims, receipts, batch, erased, minted, deaths>>

\* close() between two batches.
Close ==
    /\ up /\ batch = None
    /\ up' = FALSE
    /\ UNCHANGED <<host, status, jobs, fresh, fp, claims, receipts, batch, erased, minted, deaths>>

\* The process dies, and with it the batch in memory.
Die ==
    /\ batch = None \/ Does("dies")
    /\ deaths < host.deaths /\ deaths' = deaths + 1
    /\ up' = FALSE /\ batch' = None

DieInBatch ==
    /\ up /\ batch # None
    /\ Die
    /\ UNCHANGED <<host, status, jobs, fresh, fp, claims, receipts, erased, minted>>

\* The ledger is derived: a host may delete it between two opens.
WipeQueue ==
    /\ ~up /\ \E o \in Obs : jobs[o] # "none"
    /\ jobs' = [o \in Obs |-> "none"]
    /\ UNCHANGED <<host, status, fresh, fp, claims, receipts, batch, erased, minted, up, deaths>>

-----------------------------------------------------------------------------
(* The verbs that feed and empty the queue.                                *)

Observe(o) ==
    /\ up /\ o \in host.obs /\ status[o] = "absent" /\ ScopeOf[o] \notin erased
    /\ status' = [status EXCEPT ![o] = "accepted"]
    /\ \/ /\ fresh' = [fresh EXCEPT ![o] = "unverified"]
          /\ jobs' = [jobs EXCEPT ![o] = "pending"]
          /\ UNCHANGED <<batch, up, deaths>>
       \/ /\ Die
          /\ UNCHANGED <<fresh, jobs>>
    /\ UNCHANGED <<host, fp, claims, receipts, erased, minted>>

\* FORGET of an observation takes it from the raw window, not from the queue.
Forget(o) ==
    /\ up /\ (batch = None \/ Does("overlaps")) /\ status[o] = "accepted"
    /\ status' = [status EXCEPT ![o] = "terminal"]
    /\ fresh' = [fresh EXCEPT ![o] = "gone"]
    /\ UNCHANGED <<host, jobs, fp, claims, receipts, batch, erased, minted, up, deaths>>

\* A mutant of Erase: the canonical versions are kept.
EraseUnpurged(s) ==
    LET inScope(r) == \E o \in Obs : FactOf[o] = r.fact /\ ScopeOf[o] = s
        known == {x.rec.claim : x \in {y \in Latest(claims) : inScope(y.rec)}}
        gone  == {o \in Obs : ScopeOf[o] = s /\ status[o] # "absent"}
    IN  /\ up /\ (batch = None \/ Does("overlaps")) /\ s \notin erased /\ gone # {}
        /\ fp' = {r \in fp : r.claim \notin known}
        /\ jobs' = [o \in Obs |-> IF o \in gone THEN "none" ELSE jobs[o]]
        /\ fresh' = [o \in Obs |-> IF o \in gone THEN "gone" ELSE fresh[o]]
        /\ status' = [o \in Obs |-> IF o \in gone THEN "terminal" ELSE status[o]]
        /\ erased' = erased \cup {s}
        /\ UNCHANGED <<host, claims, receipts, batch, minted, up, deaths>>

\* FORGET.SCOPE for erasure: the scope's versions, index rows, jobs and window
\* rows are purged, and the marker makes its evidence terminal.
Erase(s) ==
    LET inScope(r) == \E o \in Obs : FactOf[o] = r.fact /\ ScopeOf[o] = s
        known == {x.rec.claim : x \in {y \in Latest(claims) : inScope(y.rec)}}
        gone  == {o \in Obs : ScopeOf[o] = s /\ status[o] # "absent"}
    IN  /\ up /\ (batch = None \/ Does("overlaps")) /\ s \notin erased /\ gone # {}
        /\ claims' = {x \in claims : ~inScope(x.rec)}
        /\ fp' = {r \in fp : r.claim \notin known}
        /\ jobs' = [o \in Obs |-> IF o \in gone THEN "none" ELSE jobs[o]]
        /\ fresh' = [o \in Obs |-> IF o \in gone THEN "gone" ELSE fresh[o]]
        /\ status' = [o \in Obs |-> IF o \in gone THEN "terminal" ELSE status[o]]
        /\ erased' = erased \cup {s}
        /\ UNCHANGED <<host, receipts, batch, minted, up, deaths>>

\* A user's verb appends a version to a claim of the agent's; the worker's
\* fingerprint index is not told.
Editable(c) ==
    {x.rec : x \in {y \in Latest(claims) :
        y.rec.claim = c /\ y.rec.state = "active" /\ y.rec.owner = "agent"}}

UserEdits == up /\ Does("edits") /\ (batch = None \/ Does("overlaps"))

ForgetClaim(c) ==
    /\ UserEdits
    /\ \E r \in Editable(c) :
        claims' = Appended({[r EXCEPT !.version = @ + 1, !.state = "forgotten", !.by = None]})
    /\ UNCHANGED <<host, status, jobs, fresh, fp, receipts, batch, erased, minted, up, deaths>>

\* REVISE that adjudicates: the claim is the user's from now on.
ReviseClaim(c) ==
    /\ UserEdits
    /\ \E r \in Editable(c) :
        claims' = Appended({[r EXCEPT !.version = @ + 1, !.owner = "user", !.by = None]})
    /\ UNCHANGED <<host, status, jobs, fresh, fp, receipts, batch, erased, minted, up, deaths>>

\* enqueue(.., {retry: true})
Retry(o) ==
    /\ up /\ jobs[o] = "failed" /\ MaxRetries # 0
    /\ Cardinality({i \in DOMAIN receipts : receipts[i] = [obs |-> o, outcome |-> "failed"]})
            <= MaxRetries
    /\ jobs' = [jobs EXCEPT ![o] = "pending"]
    /\ UNCHANGED <<host, status, fresh, fp, claims, receipts, batch, erased, minted, up, deaths>>

\* restoreScope() rebuilds the raw window of every scope.
RestoreResync ==
    /\ up /\ Does("restores")
    /\ fresh' = [o \in Obs |-> IF status[o] = "accepted" THEN "unverified" ELSE "gone"]
    /\ UNCHANGED <<host, status, jobs, fp, claims, receipts, batch, erased, minted, up, deaths>>

-----------------------------------------------------------------------------
(* runCompileBatch().                                                      *)

ClaimBatch ==
    LET pending == {o \in Obs : jobs[o] = "pending"}
    IN  /\ up /\ batch = None /\ pending # {}
        /\ \E S \in SUBSET pending :
            /\ Cardinality(S) = (IF Cardinality(pending) < Limit THEN Cardinality(pending) ELSE Limit)
            /\ jobs' = [o \in Obs |-> IF o \in S THEN "running" ELSE jobs[o]]
            /\ batch' = [all |-> S, todo |-> S, cur |-> None, failed |-> {},
                         recs |-> {}, ops |-> <<>>]
        /\ UNCHANGED <<host, status, fresh, fp, claims, receipts, erased, minted, up, deaths>>

\* complete() and fail() are updates: without a row they change nothing.
Marked(J, S, s) == [o \in Obs |-> IF o \in S /\ J[o] # "none" THEN s ELSE J[o]]
Labelled(S, l)  == [o \in Obs |-> IF o \in S /\ fresh[o] # "gone" THEN l ELSE fresh[o]]

\* The effective status, read before the await.
Compilable(o) == status[o] = "accepted"

SkipOne(o) ==
    /\ up /\ batch # None /\ batch.cur = None /\ o \in batch.todo /\ ~Compilable(o)
    /\ jobs' = Marked(jobs, {o}, "done")
    /\ batch' = [batch EXCEPT !.todo = @ \ {o}]
    /\ UNCHANGED <<host, status, fresh, fp, claims, receipts, erased, minted, up, deaths>>

StartOne(o) ==
    /\ up /\ batch # None /\ batch.cur = None /\ o \in batch.todo /\ Compilable(o)
    /\ batch' = [batch EXCEPT !.todo = @ \ {o}, !.cur = o]
    /\ UNCHANGED <<host, status, jobs, fresh, fp, claims, receipts, erased, minted, up, deaths>>

Minted(o) == [claim |-> minted + 1, fact |-> FactOf[o], version |-> 1, state |-> "active",
              owner |-> "agent", from |-> {o}, by |-> o]

\* A mutant of Produced: the exact same fact is always new.
ProducedAlwaysNew(o) == IF FactOf[o] = None THEN {} ELSE {Minted(o)}

\* produceObservationClaims(): a new claim, a new version of a known one, or
\* nothing for a claim that is the user's or has the observation already.
Produced(o) ==
    LET old == ActiveByFingerprint(FactOf[o])
    IN  IF FactOf[o] = None THEN {}
        ELSE IF old = {} THEN {Minted(o)}
        ELSE {[r EXCEPT !.version = @ + 1, !.from = @ \cup {o}, !.by = o] :
                r \in {q \in old : q.owner # "user" /\ o \notin q.from}}

\* After the await the index is read and written at once; records and receipt
\* wait for the commit.
FinishOne ==
    /\ up /\ batch # None /\ batch.cur # None
    /\ LET o == batch.cur
           new == Produced(o)
       IN  /\ minted + Cardinality({r \in new : r.claim > minted}) <= MaxClaims
           /\ minted' = minted + Cardinality({r \in new : r.claim > minted})
           /\ \/ new = {} /\ UNCHANGED fp
              \/ \E r \in new : fp' = Upsert(fp, r)
           /\ batch' = [batch EXCEPT !.cur = None, !.recs = @ \cup new,
                            !.ops = Append(@, [obs |-> o, outcome |-> "resolved"])]
    /\ UNCHANGED <<host, status, jobs, fresh, claims, receipts, erased, up, deaths>>

\* A mutant of FailOne: the marker is left out of the batch's receipts.
FailOneUnmarked ==
    /\ up /\ Does("fails") /\ batch # None /\ batch.cur # None
    /\ jobs' = Marked(jobs, {batch.cur}, "failed")
    /\ fresh' = Labelled({batch.cur}, "FAILED")
    /\ batch' = [batch EXCEPT !.cur = None, !.failed = @ \cup {batch.cur}]
    /\ UNCHANGED <<host, status, fp, claims, receipts, erased, minted, up, deaths>>

FailOne ==
    /\ up /\ Does("fails") /\ batch # None /\ batch.cur # None
    /\ jobs' = Marked(jobs, {batch.cur}, "failed")
    /\ fresh' = Labelled({batch.cur}, "FAILED")
    /\ batch' = [batch EXCEPT !.cur = None, !.failed = @ \cup {batch.cur},
                     !.ops = Append(@, [obs |-> batch.cur, outcome |-> "failed"])]
    /\ UNCHANGED <<host, status, fp, claims, receipts, erased, minted, up, deaths>>

\* Claim versions, then receipts, then job states, then labels.
Commit ==
    LET done == batch.all \ batch.failed
    IN  /\ up /\ batch # None /\ batch.todo = {} /\ batch.cur = None
        /\ claims' = Appended(batch.recs)
        /\ receipts' = receipts \o batch.ops
        /\ jobs' = Marked(jobs, done, "done")
        /\ fresh' = Labelled(done, "EXTRACTED")
        /\ batch' = None
        /\ UNCHANGED <<host, status, fp, erased, minted, up, deaths>>

\* A mutant of CommitDies: receipts are written before the claim versions.
CommitDiesSwapped(n) ==
    /\ up /\ batch # None /\ batch.todo = {} /\ batch.cur = None
    /\ receipts' = receipts \o batch.ops
    /\ claims' = IF n >= 2 THEN Appended(batch.recs) ELSE claims
    /\ jobs' = IF n >= 3 THEN Marked(jobs, batch.all \ batch.failed, "done") ELSE jobs
    /\ Die
    /\ UNCHANGED <<host, status, fresh, fp, erased, minted>>

\* The same, dying after the n-th of the four writes.
CommitDies(n) ==
    LET done == batch.all \ batch.failed
    IN  /\ up /\ batch # None /\ batch.todo = {} /\ batch.cur = None
        /\ claims' = Appended(batch.recs)
        /\ receipts' = IF n >= 2 THEN receipts \o batch.ops ELSE receipts
        /\ jobs' = IF n >= 3 THEN Marked(jobs, done, "done") ELSE jobs
        /\ Die
        /\ UNCHANGED <<host, status, fresh, fp, erased, minted>>

Next ==
    \/ Open \/ Close \/ DieInBatch \/ WipeQueue \/ RestoreResync
    \/ \E o \in Obs : Observe(o) \/ Forget(o) \/ Retry(o) \/ SkipOne(o) \/ StartOne(o)
    \/ \E s \in Scopes : Erase(s)
    \/ \E c \in 1 .. MaxClaims : ForgetClaim(c) \/ ReviseClaim(c)
    \/ ClaimBatch \/ FinishOne \/ FailOne \/ Commit
    \/ \E n \in 1 .. 3 : CommitDies(n)

Spec == Init /\ [][Next]_vars

\* A closed brain is opened again, a batch in flight runs to its end unless the
\* process dies, and now and then a process stays up until the timer of
\* startCompileWorker() fires.
FairSpec ==
    /\ Spec
    /\ WF_vars(Open) /\ SF_vars(ClaimBatch) /\ WF_vars(FinishOne) /\ WF_vars(Commit)
    /\ \A o \in Obs : WF_vars(SkipOne(o)) /\ WF_vars(StartOne(o))

-----------------------------------------------------------------------------
(* What the queue promises.                                                *)

\* A fact is never lost: an observation whose job is done is evidence of a
\* committed claim, or the claim is the user's, however often the process
\* died between production, commit and completion.
NothingLost ==
    \A o \in Obs :
        status[o] = "accepted" /\ jobs[o] = "done" /\ FactOf[o] # None =>
            \E x \in claims :
                x.rec.fact = FactOf[o] /\ (o \in x.rec.from \/ x.rec.owner = "user")

\* Compiling again after a crash is idempotent: one active claim per fact.
OneClaimPerFact ==
    \A x, y \in {z \in Latest(claims) : z.rec.state = "active"} :
        x.rec.fact = y.rec.fact => x.rec.claim = y.rec.claim

\* No version number of a claim is given twice in the canonical log, although
\* the worker numbers them from its own index.
VersionsLinear ==
    \A x, y \in claims :
        x.rec.claim = y.rec.claim /\ x.rec.version = y.rec.version => x = y

\* Nothing of an erased scope is on the canonical surface once the erasure was
\* answered: the worker must not write it back.
ErasedGone ==
    \A x \in claims, o \in Obs : FactOf[o] = x.rec.fact => ScopeOf[o] \notin erased

\* The state-based freshness contract: between batches the label of every live
\* observation is the one its job's state stands for.
FreshnessContract ==
    up /\ batch = None /\ ~Does("restores") => \A o \in Obs : status[o] = "accepted" =>
        fresh[o] = CASE jobs[o] = "done"   -> "EXTRACTED"
                     [] jobs[o] = "failed" -> "FAILED"
                     [] OTHER -> "unverified"

\* A failed job has its marker in the operations log: a deleted ledger is
\* regenerated with the same outcomes.
FailureMirrored ==
    batch = None => \A o \in Obs : jobs[o] = "failed" =>
        \E i \in DOMAIN receipts : receipts[i] = [obs |-> o, outcome |-> "failed"]

\* Every live observation is resolved in the end, whatever died in between.
EventuallyResolved ==
    \A o \in Obs : status[o] = "accepted" ~>
        (status[o] # "accepted" \/ jobs[o] \in {"done", "failed"})
=============================================================================
