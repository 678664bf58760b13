------------------------------ MODULE OpsCommit ------------------------------
(***************************************************************************)
(* The crash-consistent commit of canonical mutations, the recovery that   *)
(* finishes what a dead process left, and the storage-level fence across   *)
(* a handoff of ownership.                                                 *)
(*                                                                         *)
(* A mutation carrying an operation id persists an intent, writes its      *)
(* artifacts (L0 evidence lines, L1 claim versions, an L2 page) in a fixed *)
(* order, passes the commit gate, appends its entry to the operations log  *)
(* and removes the intent.  The handlers (src/src/protocol/observe.ts,     *)
(* revise.ts, forget.ts, forget_scope.ts, endorse.ts) repeat that shape;   *)
(* what differs between them is in the tables of the first section.        *)
(* Recovery (src/src/ops_log/recovery.ts) runs at open over all surfaces,  *)
(* and inside a handler that finds a prepared intent of its own, over the  *)
(* surfaces that handler passes.                                           *)
(*                                                                         *)
(* Every read or write of a shared file, and every database transaction,   *)
(* is a step of its own; a process may crash, or be paused, between any    *)
(* two.  One mutation runs at a time in one process; concurrent mutations  *)
(* are those of different processes.                                       *)
(***************************************************************************)
EXTENDS Fence, FiniteSets

CONSTANTS
    Procs,          \* processes that open the brain
    Requests,       \* what a client may ask under an operation id (payload hashes)
    KindOf,         \* the protocol operation of each request
    Wired,          \* the kinds whose handler core.ts gives mutationFence()
    ClaimAt,        \* where in a mutation the host may call claimFence()
    Tokenless,      \* whether a process may be opened without a fencing token
    MaxPrep,        \* bound on the preparations of one request
    MaxCrash,       \* bound on crashes
    MaxFail         \* bound on I/O failures that abort a handler

Kinds == {"observe", "revise", "revive", "forget", "forget.scope", "endorse"}
Slots == {"l0", "l1", "l2"}

ASSUME CommitAssumption ==
    /\ KindOf \in [Requests -> Kinds]
    /\ Wired \subseteq Kinds
    /\ ClaimAt \subseteq {"idle", "write", "gate"}
    /\ Tokenless \in BOOLEAN
    /\ Ops # {} /\ Requests # {}
    /\ MaxPrep \in Nat \ {0} /\ MaxCrash \in Nat /\ MaxFail \in Nat

-----------------------------------------------------------------------------
(* What distinguishes the handlers.                                        *)

\* The expected canonical set of a kind (docs/atomicity.md names it; the
\* handlers compute it).
Expected(k) ==
    CASE k \in {"observe", "forget.scope"} -> {"l0"}
      [] k \in {"revise", "revive"}        -> {"l1"}
      [] k = "forget"                      -> {"l0", "l1"}
      [] k = "endorse"                     -> {"l1", "l2"}

\* Artifacts are written in this order.
Rank(s) == CASE s = "l0" -> 0 [] s = "l1" -> 1 [] s = "l2" -> 2

\* The surfaces a handler passes to runRecovery when it retries.
RetrySurfaces(k) ==
    CASE k = "observe"                      -> {"l0"}
      [] k \in {"revise", "revive"}         -> {"l1"}
      [] k \in {"forget", "forget.scope"}   -> {"l0", "l1"}
      [] k = "endorse"                      -> {"l1", "l2"}

\* A retry of these refuses as soon as an artifact of its own is on disk ...
RefusesOnArtifact == {"observe", "revise", "revive", "forget.scope"}
\* ... and a retry of these writes only what is missing.
WritesMissing == {"forget", "endorse"}

\* One preparation of a request: its timestamp, sequence numbers and hashes.
\* Two preparations of one request differ; artifacts and entries are exact
\* for the preparation that made them.
Preps   == [req : Requests, n : 1 .. MaxPrep]
Intents == [op : Ops, prep : Preps, stamp : Tokens]
\* A line on a canonical surface; copy tells identical lines apart.
Lines   == [op : Ops, slot : Slots, prep : Preps, copy : Nat]
Entries == [op : Ops, prep : Preps, stamp : Tokens, copy : Nat]

-----------------------------------------------------------------------------
VARIABLES
    intents,    \* operations/intents/<operation_id>.json
    art,        \* lines with an operation id on L0, L1 and L2
    log,        \* operations/<day>.jsonl
    pc,         \* where each process is
    token,      \* its fencing token (the host's, kept across restarts)
    task,       \* the mutation it is serving
    scan,       \* the recovery it is running
    issued,     \* the last epoch the ownership arbiter issued
    crashes, fails

diskVars == <<intents, art, log>>
procVars == <<pc, token, task, scan>>
envVars  == <<issued, crashes, fails>>
vars     == <<highWater, commits, intents, art, log, pc, token, task, scan,
              issued, crashes, fails>>

PCs == {"down", "idle", "check", "lookup", "recheck", "prepare", "write",
        "gate", "append", "remove",
        "scanLog", "scanArt", "scanIntents", "dispose", "authorize",
        "project", "discard"}

\* left: artifacts still to be written; held: the preparation found in the
\* intent on a retry ({} when there is none).
Tasks == [op : Ops, req : Requests, prep : Preps,
          left : SUBSET Slots, held : SUBSET Preps]

\* runRecovery's locals.  opening: called from open() rather than a handler;
\* todo: the intents still to be disposed of; cur: the one being finalised.
Scans == [opening : BOOLEAN, fenced : BOOLEAN, surfaces : SUBSET Slots,
          log : SUBSET Entries, art : SUBSET Lines, mark : Tokens,
          todo : SUBSET Intents, cur : SUBSET Intents,
          pending : SUBSET Ops, manual : SUBSET Ops, stale : SUBSET Ops,
          done : SUBSET Ops]

TypeOK ==
    /\ FenceTypeOK
    /\ intents \subseteq Intents
    /\ art \subseteq Lines
    /\ log \subseteq Entries
    /\ pc \in [Procs -> PCs]
    /\ token \in [Procs -> Tokens]
    /\ task \in [Procs -> Tasks]
    /\ scan \in [Procs -> Scans]
    /\ issued \in Tokens
    /\ crashes \in Nat
    /\ fails \in Nat

NoScan == [opening |-> FALSE, fenced |-> FALSE, surfaces |-> {},
           log |-> {}, art |-> {}, mark |-> 0, todo |-> {}, cur |-> {},
           pending |-> {}, manual |-> {}, stale |-> {}, done |-> {}]

NoTask == [op |-> CHOOSE o \in Ops : TRUE,
           req |-> CHOOSE r \in Requests : TRUE,
           prep |-> CHOOSE x \in Preps : TRUE,
           left |-> {}, held |-> {}]

Init ==
    /\ FenceInit
    /\ intents = {} /\ art = {} /\ log = {}
    /\ pc = [p \in Procs |-> "down"]
    /\ token = [p \in Procs |-> NoToken]
    /\ task = [p \in Procs |-> NoTask]
    /\ scan = [p \in Procs |-> NoScan]
    /\ issued = 0 /\ crashes = 0 /\ fails = 0

-----------------------------------------------------------------------------
(* The files.                                                              *)

Of(S, o)        == {x \in S : x.op = o}
Slot(S, o, s)   == {l \in S : l.op = o /\ l.slot = s}
Holds(S, o, s, x) == \E l \in S : l.op = o /\ l.slot = s /\ l.prep = x

\* persistOperationIntent(..., true): synced temporary file and rename.
Persisted(o, x, t) ==
    (intents \ Of(intents, o)) \cup {[op |-> o, prep |-> x, stamp |-> t]}

\* removeOperationIntent(): whatever the file holds by now.
RemoveIntent(o) == intents' = intents \ Of(intents, o)

\* appendObservation / appendClaimVersion(s) / writeFileAtomic of the page.
AppendLine(o, s, x) ==
    art' = art \cup {[op |-> o, slot |-> s, prep |-> x,
                      copy |-> Cardinality(Slot(art, o, s)) + 1]}

\* appendOpLogEntries()
AppendEntry(o, x, t) ==
    log' = log \cup {[op |-> o, prep |-> x, stamp |-> t,
                      copy |-> Cardinality(Of(log, o)) + 1]}

Goto(p, l) == pc' = [pc EXCEPT ![p] = l]

\* The handler returns or throws: the process is free for the next request.
Return(p) ==
    /\ Goto(p, "idle")
    /\ task' = [task EXCEPT ![p] = NoTask]
    /\ scan' = [scan EXCEPT ![p] = NoScan]

-----------------------------------------------------------------------------
(* Opening a brain, taking it over, losing the process.                    *)

\* open(): claim first -- a stale owner fails fast and writes nothing -- then
\* recovery over every surface with mutationFence().
BeginOpenScan(p) ==
    /\ Goto(p, "scanLog")
    /\ scan' = [scan EXCEPT ![p] = [NoScan EXCEPT !.opening = TRUE,
                                    !.fenced = TRUE, !.surfaces = Slots]]

\* The arbiter gives the process the next epoch.
OpenNewTerm(p) ==
    /\ pc[p] = "down"
    /\ issued < MaxEpoch
    /\ issued' = issued + 1
    /\ Claim(issued + 1)
    /\ token' = [token EXCEPT ![p] = issued + 1]
    /\ BeginOpenScan(p)
    /\ UNCHANGED <<intents, art, log, task, crashes, fails>>

\* A restart within the term it holds; refused when the mark moved on.
OpenSameTerm(p) ==
    /\ pc[p] = "down"
    /\ token[p] # NoToken
    /\ Claim(token[p])
    /\ BeginOpenScan(p)
    /\ UNCHANGED <<intents, art, log, token, task, issued, crashes, fails>>

\* A host that never adopted an arbiter.
OpenTokenless(p) ==
    /\ pc[p] = "down"
    /\ Tokenless
    /\ token[p] = NoToken
    /\ BeginOpenScan(p)
    /\ UNCHANGED <<highWater, commits, intents, art, log, token, task,
                   issued, crashes, fails>>

\* claimFence(): takeover without reopen; synchronous, so it may also fall
\* into an await of a mutation (afterIntent, afterObservation).
ClaimFence(p) ==
    /\ pc[p] \in ClaimAt
    /\ issued < MaxEpoch
    /\ issued' = issued + 1
    /\ Claim(issued + 1)
    /\ token' = [token EXCEPT ![p] = issued + 1]
    /\ UNCHANGED <<intents, art, log, pc, task, scan, crashes, fails>>

Crash(p) ==
    /\ pc[p] # "down"
    /\ crashes < MaxCrash
    /\ crashes' = crashes + 1
    /\ Goto(p, "down")
    /\ task' = [task EXCEPT ![p] = NoTask]
    /\ scan' = [scan EXCEPT ![p] = NoScan]
    /\ UNCHANGED <<highWater, commits, intents, art, log, token, issued, fails>>

\* A write throws (no space, a hook, a replay): the handler is abandoned where
\* it stands and the process serves on.
Fail(p) ==
    /\ pc[p] \in {"write", "gate", "append", "remove"}
    /\ fails < MaxFail
    /\ fails' = fails + 1
    /\ Return(p)
    /\ UNCHANGED <<highWater, commits, intents, art, log, token, issued, crashes>>

-----------------------------------------------------------------------------
(* A mutation, step by step.                                               *)

\* fenceGuard(op).  A token here was claimed, so it is at most the mark and
\* guard() accepts exactly the mark itself (FenceClients has the refusals).
Begin(p, o, r) ==
    /\ pc[p] = "idle"
    /\ GuardAccepts(token[p])
    /\ task' = [task EXCEPT ![p] = [NoTask EXCEPT !.op = o, !.req = r]]
    /\ Goto(p, "check")
    /\ UNCHANGED <<highWater, commits, intents, art, log, token, scan, envVars>>

\* committedResult(): an entry under this id replays the result or, for
\* another payload, throws `conflict`; either way the handler is over.
Check(p) ==
    /\ pc[p] = "check"
    /\ IF Of(log, task[p].op) # {}
       THEN Return(p)
       ELSE Goto(p, "lookup") /\ UNCHANGED <<task, scan>>
    /\ UNCHANGED <<highWater, commits, intents, art, log, token, envVars>>

\* readOperationIntent(): none -- prepare afresh; of another payload or
\* operation -- `conflict`; its own -- recover first, over the handler's
\* surfaces and with the fence the handler was given.
LookupNone(p) ==
    /\ pc[p] = "lookup"
    /\ Of(intents, task[p].op) = {}
    /\ Goto(p, "prepare")
    /\ UNCHANGED <<highWater, commits, intents, art, log, token, task, scan, envVars>>

LookupOther(p) ==
    /\ pc[p] = "lookup"
    /\ \E i \in Of(intents, task[p].op) : i.prep.req # task[p].req
    /\ Return(p)
    /\ UNCHANGED <<highWater, commits, intents, art, log, token, envVars>>

LookupOwn(p) ==
    /\ pc[p] = "lookup"
    /\ \E i \in Of(intents, task[p].op) :
        /\ i.prep.req = task[p].req
        /\ task' = [task EXCEPT ![p].held = {i.prep}]
    /\ scan' = [scan EXCEPT ![p] =
                    [NoScan EXCEPT !.fenced = KindOf[task[p].req] \in Wired,
                                   !.surfaces = RetrySurfaces(KindOf[task[p].req])]]
    /\ Goto(p, "scanLog")
    /\ UNCHANGED <<highWater, commits, intents, art, log, token, envVars>>

\* requiresManualReview: what the scan classified so, and every operation with
\* a visible artifact that is neither committed, pending nor stale-rejected.
NeedsReview(sc, o) ==
    \/ o \in sc.manual
    \/ /\ Of(sc.art, o) # {}
       /\ Of(sc.log, o) = {}
       /\ o \notin (sc.done \cup sc.pending \cup sc.stale)

\* A mutant of CanResume: a pending operation is never resumed.
CanResumeNever(p) == FALSE

\* After the retry's recovery: replay what it committed; refuse when the
\* artifacts on disk cannot be this preparation's; else go on.
CanResume(p) ==
    LET o == task[p].op
        k == KindOf[task[p].req]
    IN  \/ /\ k \in RefusesOnArtifact
           /\ \A s \in RetrySurfaces(k) : Slot(art, o, s) = {}
        \/ /\ k \in WritesMissing
           /\ ~NeedsReview(scan[p], o)
           /\ \A s \in Expected(k) : \A l \in Slot(art, o, s) : l.prep \in task[p].held
           /\ k = "forget" => Slot(art, o, "l1") = {}

Recheck(p) ==
    /\ pc[p] = "recheck"
    /\ IF Of(log, task[p].op) # {} \/ ~CanResume(p)
       THEN Return(p)
       ELSE /\ Goto(p, "prepare")
            /\ scan' = [scan EXCEPT ![p] = NoScan]
            /\ UNCHANGED task
    /\ UNCHANGED <<highWater, commits, intents, art, log, token, envVars>>

\* On a retry everything but OBSERVE recomputes the prepared artifacts with the
\* intent's timestamp and compares hashes: when the state they were computed
\* from has moved on, the retry ends in `conflict`.
Outdated(p) ==
    /\ pc[p] = "prepare"
    /\ task[p].held # {}
    /\ KindOf[task[p].req] # "observe"
    /\ Return(p)
    /\ UNCHANGED <<highWater, commits, intents, art, log, token, envVars>>

\* OBSERVE names its observation by the payload hash, which the operation id is
\* not part of: one already in the index, under whichever id, makes the call a
\* `duplicate`, and the handler returns without touching an intent.
AlreadyObserved(p) ==
    /\ KindOf[task[p].req] = "observe"
    /\ \E l \in art : l.slot = "l0" /\ l.prep.req = task[p].req

Duplicate(p) ==
    /\ pc[p] = "prepare"
    /\ AlreadyObserved(p)
    /\ Return(p)
    /\ UNCHANGED <<highWater, commits, intents, art, log, token, envVars>>

UsedPreps(o) ==
    {l.prep : l \in Of(art, o)} \cup {e.prep : e \in Of(log, o)}
        \cup {i.prep : i \in Of(intents, o)}
        \cup {task[q].prep : q \in {x \in Procs : task[x].op = o /\ pc[x] \in
                {"write", "gate", "append", "remove"}}}

\* The preparation the handler makes: the held one again, except for OBSERVE,
\* whose timestamp, sequence and previous hash are always read anew.
Prepared(p) ==
    LET o == task[p].op
        r == task[p].req
        Fresh(n) == [req |-> r, n |-> n] \notin UsedPreps(o)
    IN  IF KindOf[r] # "observe" /\ task[p].held # {}
        THEN task[p].held
        ELSE {[req |-> r, n |-> m] : m \in
                {n \in 1 .. MaxPrep : Fresh(n) /\ \A j \in 1 .. (n - 1) : ~Fresh(j)}}

\* What a retry still has to write.
Missing(p) ==
    {s \in Expected(KindOf[task[p].req]) :
        \A x \in task[p].held : ~Holds(art, task[p].op, s, x)}

Stamp(p) == IF KindOf[task[p].req] \in Wired THEN token[p] ELSE NoToken

\* A mutant of Prepare: the artifacts are written without an intent.
PrepareUnlogged(p) ==
    /\ pc[p] = "prepare"
    /\ ~AlreadyObserved(p)
    /\ \E x \in Prepared(p) :
        task' = [task EXCEPT ![p].prep = x, ![p].left = Missing(p), ![p].held = {}]
    /\ Goto(p, "write")
    /\ UNCHANGED <<highWater, commits, intents, art, log, token, scan, envVars>>

\* persistOperationIntent() replaces an intent of the same payload and throws
\* on any other.
Prepare(p) ==
    /\ pc[p] = "prepare"
    /\ ~AlreadyObserved(p)
    /\ \A i \in Of(intents, task[p].op) : i.prep.req = task[p].req
    /\ \E x \in Prepared(p) :
        /\ intents' = Persisted(task[p].op, x, Stamp(p))
        /\ task' = [task EXCEPT ![p].prep = x, ![p].left = Missing(p), ![p].held = {}]
    /\ Goto(p, "write")
    /\ UNCHANGED <<highWater, commits, art, log, token, scan, envVars>>

PrepareRefused(p) ==
    /\ pc[p] = "prepare"
    /\ \E i \in Of(intents, task[p].op) : i.prep.req # task[p].req
    /\ Return(p)
    /\ UNCHANGED <<highWater, commits, intents, art, log, token, envVars>>

\* The next missing artifact, in the kind's order.
Write(p) ==
    /\ pc[p] = "write"
    /\ \E s \in task[p].left :
        /\ \A z \in task[p].left : Rank(s) <= Rank(z)
        /\ AppendLine(task[p].op, s, task[p].prep)
        /\ task' = [task EXCEPT ![p].left = @ \ {s}]
    /\ UNCHANGED <<highWater, commits, intents, log, pc, token, scan, envVars>>

\* A mutant of Written: the commit does not wait for the artifacts.
WrittenEarly(p) ==
    /\ pc[p] = "write"
    /\ Goto(p, "gate")
    /\ UNCHANGED <<highWater, commits, intents, art, log, token, task, scan, envVars>>

Written(p) ==
    /\ pc[p] = "write"
    /\ task[p].left = {}
    /\ Goto(p, "gate")
    /\ UNCHANGED <<highWater, commits, intents, art, log, token, task, scan, envVars>>

\* A mutant of Gate: the commit signal is not gated.
GateOpen(p) ==
    /\ pc[p] = "gate"
    /\ Goto(p, "append")
    /\ UNCHANGED <<highWater, commits, intents, art, log, token, task, scan, envVars>>

\* appendCommittedOpLogEntry(): the gate, when the handler has a fence ...
Gate(p) ==
    /\ pc[p] = "gate"
    /\ IF KindOf[task[p].req] \in Wired
       THEN GuardCommit(task[p].op, token[p])
       ELSE UNCHANGED fenceVars
    /\ Goto(p, "append")
    /\ UNCHANGED <<intents, art, log, token, task, scan, envVars>>

GateRefused(p) ==
    /\ pc[p] = "gate"
    /\ KindOf[task[p].req] \in Wired
    /\ GuardCommitRefused(token[p])
    /\ Return(p)
    /\ UNCHANGED <<highWater, commits, intents, art, log, token, envVars>>

\* ... then the durable commit signal ...
Append(p) ==
    /\ pc[p] = "append"
    /\ AppendEntry(task[p].op, task[p].prep, Stamp(p))
    /\ Goto(p, "remove")
    /\ UNCHANGED <<highWater, commits, intents, art, token, task, scan, envVars>>

\* ... and the intent goes last.
Remove(p) ==
    /\ pc[p] = "remove"
    /\ RemoveIntent(task[p].op)
    /\ Return(p)
    /\ UNCHANGED <<highWater, commits, art, log, token, envVars>>

-----------------------------------------------------------------------------
(* runRecovery.                                                            *)

SetScan(p, sc) == scan' = [scan EXCEPT ![p] = sc]

\* It reads the log, then the surfaces it was given, then the mark and all
\* intents, and works on what it read.
ScanLog(p) ==
    /\ pc[p] = "scanLog"
    /\ SetScan(p, [scan[p] EXCEPT !.log = log])
    /\ Goto(p, "scanArt")
    /\ UNCHANGED <<highWater, commits, intents, art, log, token, task, envVars>>

ScanArt(p) ==
    /\ pc[p] = "scanArt"
    /\ SetScan(p, [scan[p] EXCEPT !.art = {l \in art : l.slot \in scan[p].surfaces}])
    /\ Goto(p, "scanIntents")
    /\ UNCHANGED <<highWater, commits, intents, art, log, token, task, envVars>>

ScanIntents(p) ==
    /\ pc[p] = "scanIntents"
    /\ SetScan(p, [scan[p] EXCEPT !.mark = IF scan[p].fenced THEN highWater ELSE 0,
                                  !.todo = intents])
    /\ Goto(p, "dispose")
    /\ UNCHANGED <<highWater, commits, intents, art, log, token, task, envVars>>

\* staleReason(): uncommitted artifacts prepared under an epoch behind the
\* mark, or under no epoch on a fenced brain, and never authorised.
IsStale(sc, i) ==
    /\ Of(sc.log, i.op) = {}
    /\ Of(sc.art, i.op) # {}
    /\ sc.fenced
    /\ ~Authorized(i.op)
    /\ i.stamp < sc.mark

\* The entry of this intent: OBSERVE compares payload and observation id (a
\* hash of the payload), the others a hash of the artifact too.
EntryMatches(i, e) ==
    IF KindOf[i.prep.req] = "observe"
    THEN e.prep.req = i.prep.req
    ELSE e.prep = i.prep

\* A mutant of Exact: one expected artifact is taken for the whole set.
ExactAny(sc, i) ==
    \E s \in Expected(KindOf[i.prep.req]) :
        /\ Cardinality(Slot(sc.art, i.op, s)) = 1
        /\ Holds(sc.art, i.op, s, i.prep)

\* Every expected artifact visible, once and exact.
Exact(sc, i) ==
    \A s \in Expected(KindOf[i.prep.req]) :
        /\ Cardinality(Slot(sc.art, i.op, s)) = 1
        /\ Holds(sc.art, i.op, s, i.prep)

\* A visible artifact that is not the prepared one, or is there twice.
Torn(sc, i) ==
    \E s \in Expected(KindOf[i.prep.req]) :
        \/ Cardinality(Slot(sc.art, i.op, s)) > 1
        \/ \E l \in Slot(sc.art, i.op, s) : l.prep # i.prep

\* An intent whose entry was read is only cleaned up.
CommitProven(sc, i) ==
    /\ \E e \in Of(sc.log, i.op) : EntryMatches(i, e)
    /\ KindOf[i.prep.req] = "observe" \/ Exact(sc, i)

Disposition(sc, i) ==
    IF IsStale(sc, i) THEN "stale"
    ELSE IF Of(sc.log, i.op) # {}
         THEN IF CommitProven(sc, i) THEN "remove" ELSE "manual"
    ELSE IF Torn(sc, i) THEN "manual"
    ELSE IF Exact(sc, i) THEN "finalize" ELSE "pending"

Dispose(p, i) ==
    /\ pc[p] = "dispose"
    /\ i \in scan[p].todo
    /\ LET d    == Disposition(scan[p], i)
           next == [scan[p] EXCEPT !.todo = @ \ {i}]
       IN  \/ /\ d = "stale"
              /\ SetScan(p, [next EXCEPT !.stale = @ \cup {i.op}])
              /\ UNCHANGED <<intents, pc>>
           \/ /\ d = "manual"
              /\ SetScan(p, [next EXCEPT !.manual = @ \cup {i.op}])
              /\ UNCHANGED <<intents, pc>>
           \/ /\ d = "pending"
              /\ SetScan(p, [next EXCEPT !.pending = @ \cup {i.op}])
              /\ UNCHANGED <<intents, pc>>
           \/ /\ d = "remove"
              /\ SetScan(p, next)
              /\ RemoveIntent(i.op)
              /\ UNCHANGED pc
           \/ /\ d = "finalize"
              /\ SetScan(p, [next EXCEPT !.cur = {i}])
              /\ Goto(p, "authorize")
              /\ UNCHANGED intents
    /\ UNCHANGED <<highWater, commits, art, log, token, task, envVars>>

\* finalizeRecovered(): a set already authorised, and any set of a caller
\* without a fence, is projected; a stamped one is authorised at its epoch; an
\* unstamped one passes when the mark READ AT THE START was 0.
Authorize(p) ==
    /\ pc[p] = "authorize"
    /\ \E i \in scan[p].cur :
        \/ /\ ~scan[p].fenced \/ Authorized(i.op)
           /\ Goto(p, "project")
           /\ UNCHANGED <<fenceVars, scan>>
        \/ /\ scan[p].fenced /\ ~Authorized(i.op)
           /\ i.stamp # NoToken
           /\ AuthorizeAtEpoch(i.op, i.stamp)
           /\ Goto(p, "project")
           /\ UNCHANGED scan
        \/ /\ scan[p].fenced /\ ~Authorized(i.op)
           /\ i.stamp = NoToken
           /\ scan[p].mark = 0
           /\ Goto(p, "project")
           /\ UNCHANGED <<fenceVars, scan>>
        \/ /\ scan[p].fenced /\ ~Authorized(i.op)
           /\ IF i.stamp = NoToken THEN scan[p].mark # 0 ELSE AuthorizeRefused(i.stamp)
           /\ SetScan(p, [scan[p] EXCEPT !.cur = {}, !.stale = @ \cup {i.op}])
           /\ Goto(p, "dispose")
           /\ UNCHANGED fenceVars
    /\ UNCHANGED <<intents, art, log, token, task, envVars>>

Project(p) ==
    /\ pc[p] = "project"
    /\ \E i \in scan[p].cur : AppendEntry(i.op, i.prep, i.stamp)
    /\ Goto(p, "discard")
    /\ UNCHANGED <<highWater, commits, intents, art, token, task, scan, envVars>>

Discard(p) ==
    /\ pc[p] = "discard"
    /\ \E i \in scan[p].cur :
        /\ RemoveIntent(i.op)
        /\ SetScan(p, [scan[p] EXCEPT !.cur = {}, !.done = @ \cup {i.op}])
    /\ Goto(p, "dispose")
    /\ UNCHANGED <<highWater, commits, art, log, token, task, envVars>>

\* A mutant of ScanDone: a process with pending operations does not serve.
ScanDoneStrict(p) ==
    /\ pc[p] = "dispose"
    /\ scan[p].todo = {} /\ scan[p].pending = {}
    /\ IF scan[p].opening
       THEN Goto(p, "idle") /\ SetScan(p, NoScan)
       ELSE Goto(p, "recheck") /\ UNCHANGED scan
    /\ UNCHANGED <<highWater, commits, intents, art, log, token, task, envVars>>

\* The report: open() goes on to serve, a handler to its second look.
ScanDone(p) ==
    /\ pc[p] = "dispose"
    /\ scan[p].todo = {}
    /\ IF scan[p].opening
       THEN Goto(p, "idle") /\ SetScan(p, NoScan)
       ELSE Goto(p, "recheck") /\ UNCHANGED scan
    /\ UNCHANGED <<highWater, commits, intents, art, log, token, task, envVars>>

-----------------------------------------------------------------------------
Mutation(p) ==
    \/ Check(p) \/ LookupNone(p) \/ LookupOther(p) \/ LookupOwn(p)
    \/ Recheck(p) \/ Outdated(p) \/ Duplicate(p)
    \/ Prepare(p) \/ PrepareRefused(p) \/ Write(p) \/ Written(p)
    \/ Gate(p) \/ GateRefused(p) \/ Append(p) \/ Remove(p)

Recovery(p) ==
    \/ ScanLog(p) \/ ScanArt(p) \/ ScanIntents(p)
    \/ \E i \in scan[p].todo : Dispose(p, i)
    \/ Authorize(p) \/ Project(p) \/ Discard(p) \/ ScanDone(p)

Open(p) == OpenNewTerm(p) \/ OpenSameTerm(p) \/ OpenTokenless(p)

Next ==
    \E p \in Procs :
        \/ Open(p) \/ ClaimFence(p) \/ Crash(p) \/ Fail(p)
        \/ \E o \in Ops, r \in Requests : Begin(p, o, r)
        \/ Mutation(p)
        \/ Recovery(p)

Spec == Init /\ [][Next]_vars

\* A process that can go on does, a dead one is reopened, and a client without
\* an answer retries its operation id with the same payload.
Fairness ==
    \A p \in Procs :
        /\ WF_vars(Mutation(p)) /\ WF_vars(Recovery(p)) /\ WF_vars(Open(p))
        /\ \A o \in Ops, r \in Requests : SF_vars(Begin(p, o, r))

FairSpec == Spec /\ Fairness

-----------------------------------------------------------------------------
(* What makes the commit protocol correct.                                 *)

\* Two entries of one operation id never record different requests: an id
\* reused for another payload or operation is refused, also when the two
\* requests meet in different processes.
OneRequestPerOperation ==
    \A e, f \in log : e.op = f.op => e.prep.req = f.prep.req

\* A commit signal is never ahead of its artifacts: every entry's complete
\* expected set, of exactly its preparation, is on disk.
CommitComplete ==
    \A e \in log : \A s \in Expected(KindOf[e.prep.req]) :
        Holds(art, e.op, s, e.prep)

\* A committed operation left its expected set and nothing else: no second
\* line, no line of an abandoned preparation.
CommitExact ==
    \A e \in log : \A s \in Slots :
        {l.prep : l \in Slot(art, e.op, s)} =
            (IF s \in Expected(KindOf[e.prep.req]) THEN {e.prep} ELSE {})
        /\ Cardinality(Slot(art, e.op, s)) <= 1

\* Every uncommitted artifact resolves through the intent that describes it:
\* the intent is written first and removed last.
IntentCoversArtifacts ==
    \A l \in art : Of(log, l.op) = {} => Of(intents, l.op) # {}

\* On a brain whose writers all hold epochs, a commit signal exists only for an
\* operation whose commit was authorised at the gate.
EntriesAuthorised == \A e \in log : Authorized(e.op)

\* The authorisation itself is only ever recorded while its epoch is the
\* high-water mark, and never changed: no epoch behind the mark commits, not
\* by resuming, not by recovery's finalisation.
NoStaleCommit ==
    [][\A o \in Ops : commits'[o] # commits[o]
            => commits[o] = 0 /\ commits'[o] = highWater']_vars

\* A writer goes on to its commit signal only while its token is the mark: a
\* process resumed after a handoff is refused at the gate, for every mutation
\* that carries an intent.
GateCurrent ==
    [][\A p \in Procs : pc[p] = "gate" /\ pc'[p] = "append"
            => token[p] = highWater]_vars

\* The epoch a mutation is committed under is the epoch that prepared it: the
\* gate's row for a writer names the stamp of the writer's own intent.
CommittedAsPrepared ==
    [][\A p \in Procs : pc[p] = "gate" /\ pc'[p] = "append"
            => \A i \in Of(intents, task[p].op) : i.prep = task[p].prep
                    => i.stamp = commits'[task[p].op]]_vars

\* A commit that was authorised while its epoch was current is never lost: as
\* long as its signal is missing, a recovery that starts now would project it.
AuthorisedRecoverable ==
    \A o \in Ops :
        (Authorized(o) /\ Of(log, o) = {}) =>
            \E i \in Of(intents, o) :
                Exact([NoScan EXCEPT !.fenced = TRUE, !.art = art], i)

\* Recovery never finalises an unstamped set on a fenced brain: its epoch is
\* unknown, so it fails closed.
UnstampedRejected ==
    [][\A p \in Procs : (pc[p] = "authorize" /\ pc'[p] = "project" /\ scan[p].fenced)
            => \A i \in scan[p].cur :
                    i.stamp = NoToken /\ ~Authorized(i.op) => highWater = 0]_vars

\* The effect of an operation as its readers see it: nothing without a commit
\* signal, else the signals and the artifacts that carry the id.
EffectOf(o) ==
    {[req     |-> e.prep.req,
      parts   |-> {[slot |-> l.slot, copy |-> l.copy] : l \in Of(art, o)},
      signals |-> Cardinality(Of(log, o))] : e \in Of(log, o)}

Atomic == INSTANCE AtomicOps WITH
    Parts  <- [r \in Requests |-> Expected(KindOf[r])],
    effect <- [o \in Ops |-> EffectOf(o)]

\* Crashes, failed writes, retries and recovery notwithstanding, the protocol
\* of a single process implements the atomic operation.
AtomicCommit == Atomic!Spec

\* A prepared OBSERVE is committed in the end: the process comes back, its
\* recovery finishes what is complete, and the client's retry the rest.
PreparedObserveCommits ==
    \A o \in Ops : Of(intents, o) # {} ~> Of(log, o) # {}

\* Opening ends: recovery disposes of every intent and the process serves.
OpenServes == \A p \in Procs : pc[p] = "down" ~> pc[p] = "idle"
=============================================================================
