---------------------------- MODULE EvidenceLog ----------------------------
(***************************************************************************)
(* Layer 0: the append-only evidence log and the index derived from it     *)
(* (src/src/layer0/index.ts, log.ts, integrity.ts), with the verbs that    *)
(* write evidence: OBSERVE, FORGET of an observation, QUARANTINE.REVIEW,   *)
(* FORGET.SCOPE and RESTORE.SCOPE.                                         *)
(*                                                                         *)
(* A line of the log is hash-chained to the previous line of its writer    *)
(* and numbered; both are taken from the INDEX, not from the log.  The     *)
(* index is caught up at open from the lines above `last_sequence`, which  *)
(* live writes do not move: every open replays what the process wrote      *)
(* since the last one.                                                     *)
(*                                                                         *)
(* A hash is the serial number of the prepared line: equal hashes, equal   *)
(* lines.  0 stands for `null`.                                            *)
(***************************************************************************)
EXTENDS Integers, Sequences, FiniteSets, FiniteSetsExt

CONSTANTS
    Payloads,       \* observations a client may make; the id is the payload's hash
    ScopeOf,        \* payload -> scope
    SourceOf,       \* payload -> (app, source_id), or None
    KeyOf,          \* payload -> (actor, idempotency_key), or None
    Held,           \* payloads an untrusted actor sends: they arrive quarantined
    None,
    Pod,            \* the scope audit markers live in
    ForgetModes,    \* payload -> modes a user may forget it with
    ScopeVerbs,     \* reasons FORGET.SCOPE may be called with
    Packages,       \* exported scopes: sequences of lines of another writer
    Me,             \* config.writer_id
    Overlap,        \* whether the host calls a verb while another awaits
    Resumed,        \* whether a retired scope may be written to again
    RestorePending, \* whether a package may be restored while a FORGET is unfinished
    MaxLines        \* bound on the lines this writer prepares

Scopes     == {ScopeOf[p] : p \in Payloads}
EventTypes == {"tombstone", "redaction", "approve", "reject", "offboarding", "erasure"}
Terminal   == {"tombstoned", "redacted", "rejected", "erased"}
Statuses   == {"accepted", "quarantined"} \cup Terminal

ASSUME EvidenceAssumption ==
    /\ MaxLines \in Nat
    /\ {Overlap, Resumed, RestorePending} \subseteq BOOLEAN
    /\ Held \subseteq Payloads
    /\ Payloads \cap (1 .. MaxLines) = {}
    /\ Pod \notin Scopes
    /\ ScopeVerbs \subseteq {"offboarding", "erasure"}
    /\ \A p \in Payloads : ForgetModes[p] \subseteq {"tombstone", "redaction"}

VARIABLES
    log,        \* evidence/<day>.jsonl, in the order readAll() yields
    rows,       \* table `observations`
    lastSeq,    \* replay_state.last_sequence
    up,         \* whether a process has the brain open
    held,       \* the OBSERVEs that await after their intent: prepared lines
    intents,    \* FORGET intents whose handler died before the audit line
    forgotten,  \* history: ids a FORGET or FORGET.SCOPE was answered for
    receipts,   \* imports/<export_id>.json: packages with a receipt
    made        \* lines prepared so far

vars == <<log, rows, lastSeq, up, held, intents, forgotten, receipts, made>>

Ids   == Payloads \cup (1 .. MaxLines)
Lines == [id : Ids, type : {"observation"} \cup EventTypes, status : Statuses,
          scope : Scopes \cup {Pod}, target : Payloads \cup Scopes \cup {None},
          source : {SourceOf[p] : p \in Payloads} \cup {None},
          key : {KeyOf[p] : p \in Payloads} \cup {None},
          writer : {Me}, seq : Nat, prev : 0 .. MaxLines, hash : 1 .. MaxLines]

TypeOK ==
    /\ \A i \in DOMAIN log : log[i].writer = Me => log[i] \in Lines
    /\ \A r \in rows : r.status \in Statuses /\ \E i \in DOMAIN log : log[i].id = r.id
    /\ lastSeq \in Nat /\ up \in BOOLEAN
    /\ held \subseteq Lines /\ intents \subseteq Lines
    /\ receipts \subseteq Packages
    /\ made \in 0 .. MaxLines

Init ==
    /\ log = <<>> /\ rows = {} /\ lastSeq = 0
    /\ up = FALSE /\ held = {} /\ intents = {} /\ forgotten = {}
    /\ receipts = {} /\ made = 0

-----------------------------------------------------------------------------
(* The index.                                                              *)

RowOf(l) == [id |-> l.id, status |-> l.status, scope |-> l.scope, source |-> l.source,
             key |-> l.key, writer |-> l.writer, seq |-> l.seq, hash |-> l.hash]

\* The primary key, (app, source_id, scope) and (actor, idempotency key) are unique.
Clashes(r, l) ==
    \/ r.id = l.id
    \/ l.source # None /\ r.source = l.source /\ r.scope = l.scope
    \/ l.key # None /\ r.key = l.key

\* insertOrSkip(): INSERT OR IGNORE.
InsertOrSkip(R, l) ==
    IF \E r \in R : Clashes(r, l) THEN R ELSE R \cup {RowOf(l)}

\* A mutant of Transition: a quarantined observation cannot be tombstoned.
TransitionNoTombstone(s, e) ==
    CASE s = "accepted" /\ e = "tombstone"  -> "tombstoned"
      [] s = "accepted" /\ e = "redaction"  -> "redacted"
      [] s = "quarantined" /\ e = "approve" -> "accepted"
      [] s = "quarantined" /\ e = "reject"  -> "rejected"
      [] OTHER -> s

\* TERMINAL_STATES and TRANSITIONS.
Transition(s, e) ==
    CASE s = "accepted" /\ e = "tombstone"     -> "tombstoned"
      [] s = "accepted" /\ e = "redaction"     -> "redacted"
      [] s = "quarantined" /\ e = "approve"    -> "accepted"
      [] s = "quarantined" /\ e = "reject"     -> "rejected"
      [] s = "quarantined" /\ e = "tombstone"  -> "tombstoned"
      [] OTHER -> s

\* The bulk updates of a scope marker.
ScopeTransition(s, e) ==
    IF e = "erasure" THEN "erased"
    ELSE IF s \in {"accepted", "quarantined"} THEN "tombstoned" ELSE s

\* applyMutationEvent()
ApplyMutationEvent(R, l) ==
    CASE l.type \in {"offboarding", "erasure"} ->
            {IF r.scope = l.target THEN [r EXCEPT !.status = ScopeTransition(@, l.type)]
             ELSE r : r \in R}
      [] l.type \in {"tombstone", "redaction", "approve", "reject"} ->
            {IF r.id = l.target THEN [r EXCEPT !.status = Transition(@, l.type)]
             ELSE r : r \in R}
      [] OTHER -> R

Indexed(R, l) == ApplyMutationEvent(InsertOrSkip(R, l), l)

\* catchUp(): every line above the last replayed sequence, in log order.
Replayed(R, L, n) ==
    LET after[i \in 0 .. Len(L)] ==
            IF i = 0 THEN R
            ELSE IF L[i].seq <= n THEN after[i - 1] ELSE Indexed(after[i - 1], L[i])
    IN  after[Len(L)]

HighestSeq(L, n) == Max({n} \cup {L[i].seq : i \in DOMAIN L})

\* The index a wiped brain derives from the log.
Rebuilt(L) == Replayed({}, L, 0)

\* A mutant of CatchUp: old lines are inserted, but their events not applied.
CatchUpNoEvents(L) ==
    /\ LET after[i \in 0 .. Len(L)] ==
               IF i = 0 THEN rows
               ELSE IF L[i].seq <= lastSeq THEN after[i - 1] ELSE InsertOrSkip(after[i - 1], L[i])
       IN  rows' = after[Len(L)]
    /\ lastSeq' = HighestSeq(L, lastSeq)

CatchUp(L) ==
    /\ rows' = Replayed(rows, L, lastSeq)
    /\ lastSeq' = HighestSeq(L, lastSeq)

\* getLastSequence()
LastSequence == Max({0} \cup {r.seq : r \in rows})

\* A mutant of LatestHashes: the writer is not asked for.
LatestHashesAnyWriter ==
    IF rows = {} THEN {0}
    ELSE {r.hash : r \in {x \in rows : \A y \in rows : y.seq <= x.seq}}

\* getLatestHashForWriter(): equal sequences come in no particular order.
LatestHashes ==
    LET mine == {r \in rows : r.writer = Me}
    IN  IF mine = {} THEN {0}
        ELSE {r.hash : r \in {x \in mine : \A y \in mine : y.seq <= x.seq}}

-----------------------------------------------------------------------------
(* Writing evidence.                                                       *)

Quiet == Overlap \/ held = {}

\* seq and prevHash from the index, then assignIntegrity().
Prepared(h, id, type, status, scope, target, source, key) ==
    [id |-> id, type |-> type, status |-> status, scope |-> scope, target |-> target,
     source |-> source, key |-> key, writer |-> Me,
     seq |-> LastSequence + 1, prev |-> h, hash |-> made + 1]

\* An audit line of a verb: named by a hash of everything in it.
Event(h, type, scope, target) ==
    Prepared(h, made + 1, type, "accepted", scope, target, None, None)

\* appendObservation(), insertOrSkip(), applyMutationEvent(); the process may
\* die after any of them.
Write(l) ==
    /\ log' = Append(log, l)
    /\ \/ rows' = Indexed(rows, l) /\ up' = TRUE
       \/ rows' = InsertOrSkip(rows, l) /\ up' = FALSE
       \/ rows' = rows /\ up' = FALSE
    /\ held' = IF up' THEN held \ {l} ELSE {}
    /\ UNCHANGED lastSeq

Answered(S) == forgotten' = IF up' THEN forgotten \cup S ELSE forgotten

Retired(s) ==
    \E i \in DOMAIN log : log[i].type \in {"offboarding", "erasure"} /\ log[i].target = s

\* handleObserve() gets past its duplicate checks: the idempotency key, for a
\* call without one the source item, and the payload hash.
Admits(p) ==
    /\ Resumed \/ ~Retired(ScopeOf[p])
    /\ \A r \in rows :
        /\ r.id # p
        /\ KeyOf[p] # None => r.key # KeyOf[p]
        /\ KeyOf[p] = None /\ SourceOf[p] # None =>
                ~(r.source = SourceOf[p] /\ r.scope = ScopeOf[p])

Observation(p, h) ==
    Prepared(h, p, "observation", IF p \in Held THEN "quarantined" ELSE "accepted",
             ScopeOf[p], None, SourceOf[p], KeyOf[p])

\* OBSERVE without an operation id: nothing is awaited before the append.
Observe(p) ==
    /\ up /\ Quiet /\ made < MaxLines /\ Admits(p)
    /\ made' = made + 1
    /\ \E h \in LatestHashes : Write(Observation(p, h))
    /\ UNCHANGED <<intents, forgotten, receipts>>

\* With an operation id the intent is persisted and its hook awaited between
\* the reads of the index and the append.
ObservePrepare(p) ==
    /\ up /\ Quiet /\ made < MaxLines /\ Admits(p)
    /\ made' = made + 1
    /\ \E h \in LatestHashes : held' = held \cup {Observation(p, h)}
    /\ UNCHANGED <<log, rows, lastSeq, up, intents, forgotten, receipts>>

ObserveAppend(l) ==
    /\ up /\ l \in held
    /\ Write(l)
    /\ UNCHANGED <<intents, forgotten, receipts, made>>

\* FORGET of an observation that is not in a terminal state.
Forget(p, mode) ==
    /\ up /\ Quiet /\ made < MaxLines
    /\ \E r \in rows : r.id = p /\ r.status \notin Terminal
    /\ made' = made + 1
    /\ \E h \in LatestHashes : Write(Event(h, mode, ScopeOf[p], p))
    /\ Answered({p})
    /\ UNCHANGED <<intents, receipts>>

\* The same, dying between the intent and the audit line.
ForgetDies(p, mode) ==
    /\ up /\ Quiet /\ made < MaxLines
    /\ \E r \in rows : r.id = p /\ r.status \notin Terminal
    /\ made' = made + 1
    /\ \E h \in LatestHashes : intents' = intents \cup {Event(h, mode, ScopeOf[p], p)}
    /\ up' = FALSE /\ held' = {}
    /\ UNCHANGED <<log, rows, lastSeq, forgotten, receipts>>

\* The retry takes time, id and sequence from the intent and the previous hash
\* from the index; when the audit line's hash then differs it throws `conflict`.
ForgetRetry(l) ==
    /\ up /\ Quiet /\ l \in intents
    /\ l.prev \in LatestHashes
    /\ Write(l)
    /\ intents' = intents \ {l}
    /\ Answered({l.target})
    /\ UNCHANGED <<receipts, made>>

\* QUARANTINE.REVIEW
Review(p, action) ==
    /\ up /\ Quiet /\ made < MaxLines
    /\ \E r \in rows : r.id = p /\ r.status = "quarantined"
    /\ made' = made + 1
    /\ \E h \in LatestHashes : Write(Event(h, action, ScopeOf[p], p))
    /\ UNCHANGED <<intents, forgotten, receipts>>

\* FORGET.SCOPE: the marker, which lives in the pod's own scope.
ForgetScope(s, reason) ==
    /\ up /\ Quiet /\ made < MaxLines
    /\ made' = made + 1
    /\ \E h \in LatestHashes : Write(Event(h, reason, Pod, s))
    /\ Answered({r.id : r \in {x \in rows : x.scope = s}})
    /\ UNCHANGED <<intents, receipts>>

\* RESTORE.SCOPE into an empty scope: the lines keep their sequence and their
\* writer and go to the files of the days they were observed on.
RestoreScope(k) ==
    /\ up /\ Quiet /\ k \notin receipts /\ (RestorePending \/ intents = {})
    /\ \A i \in DOMAIN log, j \in DOMAIN k : log[i].scope # k[j].scope
    /\ receipts' = receipts \cup {k}
    /\ log' = k \o log
    /\ CatchUp(log')
    /\ UNCHANGED <<up, held, intents, forgotten, made>>

\* The same, dying after the receipt and before the last line.
RestoreDies(k) ==
    /\ up /\ Quiet /\ k \notin receipts /\ (RestorePending \/ intents = {})
    /\ \A i \in DOMAIN log, j \in DOMAIN k : log[i].scope # k[j].scope
    /\ receipts' = receipts \cup {k}
    /\ \E n \in 0 .. Len(k) : log' = SubSeq(k, 1, n) \o log
    /\ up' = FALSE /\ held' = {}
    /\ UNCHANGED <<rows, lastSeq, intents, forgotten, made>>

\* SmartwareCore.open() and the end of a process, orderly or not.
Open ==
    /\ ~up
    /\ CatchUp(log)
    /\ up' = TRUE
    /\ UNCHANGED <<log, held, intents, forgotten, receipts, made>>

Stop ==
    /\ up
    /\ up' = FALSE /\ held' = {}
    /\ UNCHANGED <<log, rows, lastSeq, intents, forgotten, receipts, made>>

\* The index is derived: a host may delete it and open again.
Wipe ==
    /\ ~up /\ rows # {}
    /\ rows' = {} /\ lastSeq' = 0
    /\ UNCHANGED <<log, up, held, intents, forgotten, receipts, made>>

Next ==
    \/ Open \/ Stop \/ Wipe
    \/ \E p \in Payloads : Observe(p) \/ ObservePrepare(p)
    \/ \E p \in Payloads : \E mode \in ForgetModes[p] : Forget(p, mode) \/ ForgetDies(p, mode)
    \/ \E p \in Payloads, action \in {"approve", "reject"} : Review(p, action)
    \/ \E s \in Scopes, reason \in ScopeVerbs : ForgetScope(s, reason)
    \/ \E k \in Packages : RestoreScope(k) \/ RestoreDies(k)
    \/ \E l \in held : ObserveAppend(l)
    \/ \E l \in intents : ForgetRetry(l)

Spec == Init /\ [][Next]_vars

-----------------------------------------------------------------------------
(* What callers and packages are taken to be like, beside the flags.       *)

\* No client sends an item of a source again under an idempotency key.
SourcesApart ==
    \A p, q \in Payloads : p # q /\ KeyOf[p] # None /\ SourceOf[p] # None =>
        ~(SourceOf[q] = SourceOf[p] /\ ScopeOf[q] = ScopeOf[p])

Exports == UNION {{k[j] : j \in DOMAIN k} : k \in Packages}

\* Packages hold lines of other writers, no two of one identity, and none of
\* the identity of a payload.
ExportsApart ==
    /\ \A k \in Packages : k \in Seq(Exports)
    /\ \A x \in Exports :
        /\ x.writer # Me /\ x.id \notin Ids /\ x.seq \in Nat /\ x.status \in Statuses
        /\ \A p \in Payloads :
            /\ SourceOf[p] # None => ~(x.source = SourceOf[p] /\ x.scope = ScopeOf[p])
            /\ KeyOf[p] # None => x.key # KeyOf[p]
    /\ \A ka, kb \in Packages : \A i \in DOMAIN ka, j \in DOMAIN kb :
        ka # kb \/ i # j => ~Clashes(ka[i], kb[j])

\* There is one package, of observations of a scope of its own, numbered above
\* every line of this writer.
ExportsHigh ==
    /\ \A ka, kb \in Packages : ka = kb
    /\ \A x \in Exports :
        x.type = "observation" /\ x.seq > MaxLines /\ x.scope \notin Scopes \cup {Pod}

\* Nobody redacts evidence that arrives quarantined.
HeldNotRedacted == \A p \in Held : "redaction" \notin ForgetModes[p]

-----------------------------------------------------------------------------
(* What Layer 0 promises.                                                  *)

\* verifyChain() holds for this writer: each line names the hash of the line
\* before it, although handlers take that hash from the index, and although
\* processes die between the append and the insert.
ChainLinear ==
    \A i \in DOMAIN log : log[i].writer = Me =>
        LET before == {j \in 1 .. i - 1 : log[j].writer = Me}
        IN  log[i].prev = IF before = {} THEN 0 ELSE log[Max(before)].hash

\* The live index says of every observation what an index rebuilt from the log
\* says: live updates and the replay at open agree with a rebuild from nothing.
RebuildEquivalent == up => rows = Rebuilt(log)

\* Evidence a FORGET or FORGET.SCOPE was answered for is never served again:
\* no later review, restart, rebuild or restore makes it accepted.
NeverServedAgain ==
    \A r \in rows : r.id \in forgotten /\ up => r.status # "accepted"
=============================================================================
