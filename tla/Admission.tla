----------------------------- MODULE Admission -----------------------------
(***************************************************************************)
(* How evidence is admitted: grants and registered sources (config.json),  *)
(* sessions that freeze an actor's policy, the trust decision of OBSERVE,  *)
(* the owner's review of what it held back, and ingestion, which admits a  *)
(* connector's page item by item and then files a receipt that moves the   *)
(* stream's cursor.                                                        *)
(*                                                                         *)
(* handleIngest() awaits after every item, so calls overlap; each call     *)
(* works with the configuration it read when it started.  One source, one  *)
(* stream; scopes are compared as ids, patterns being expanded beforehand. *)
(***************************************************************************)
EXTENDS Integers, Sequences, FiniteSets

CONSTANTS
    Owner, Clients, Anyone,     \* actors, and the wildcard of a grant
    Scopes, Stream,             \* scopes, and the one the source is synced into
    GrantForms,                 \* the grants the owner may give
    Pages,                      \* page number -> items, as the connector reads them
    Poison,                     \* items OBSERVE refuses (a secret, no content)
    Notes,                      \* what actors observe themselves
    Calls, Ops,                 \* ingest() calls in flight, operation ids
    Declared,                   \* trust levels a client declares
    MaxGrants, MaxNotes,        \* bounds on grants given and on notes observed
    Traffic,                    \* who writes, and a bound on the policy changes meanwhile
    Overlap,                    \* whether the policy changes while a call is in flight
    None

Actors == Clients \cup {Owner}
Items  == UNION {{Pages[p][i] : i \in DOMAIN Pages[p]} : p \in DOMAIN Pages}
Levels == {"verified", "user_facing", "background_agent", "untrusted"}

ASSUME AdmissionAssumption ==
    /\ Owner \notin Clients /\ Anyone \notin Actors /\ Stream \in Scopes
    /\ GrantForms \subseteq [actor : Clients \cup {Anyone}, scopes : SUBSET Scopes,
                             trusted : BOOLEAN, quarantine : BOOLEAN, system : BOOLEAN]
    /\ Pages \in Seq(Seq(Items)) /\ Notes \cap Items = {} /\ Declared \subseteq Levels
    /\ Poison \subseteq Items /\ MaxGrants \in Nat /\ MaxNotes \in Nat
    /\ Traffic \subseteq [from : {"people", "connector"}, changes : Nat]
    /\ Overlap \in BOOLEAN

VARIABLES
    config,     \* config.json: grants, the source's entry, the retention setting
    registry,   \* agents/registry.md: the rows of the grants it lists
    session,    \* the session row, or None
    log,        \* observations with their effective status
    calls,      \* ingest() calls in flight
    ledger,     \* ingestion_batches, in rowid order
    changes,    \* policy changes so far
    up,
    traffic     \* the traffic explored

vars == <<config, registry, session, log, calls, ledger, changes, up, traffic>>

-----------------------------------------------------------------------------
(* Grants and trust.                                                       *)

\* getActiveGrants(): neither revoked nor past expires_at, by position.
ActiveGrants(cfg) == {i \in DOMAIN cfg.grants : cfg.grants[i].status = "active"}

\* The grants given to the actor by name.
OwnGrants(cfg, a) == {i \in ActiveGrants(cfg) : cfg.grants[i].form.actor = a}
First(S) == CHOOSE i \in S : \A j \in S : i <= j

\* getGrantForActor()
GrantForActor(cfg, a) ==
    IF OwnGrants(cfg, a) = {} THEN None ELSE cfg.grants[First(OwnGrants(cfg, a))].form

Elements(s) == {s[i] : i \in DOMAIN s}

\* A mutant of AuthorizingGrants: the actor's first grant decides for every scope.
AuthorizingFirst(cfg, a, s) == {GrantForActor(cfg, a)} \ {None}

\* Whether the i-th grant covers the actor and the scope.
Covers(cfg, i, a, s) == cfg.grants[i].form.actor \in {a, Anyone} /\ s \in cfg.grants[i].form.scopes

\* getAuthorizingGrants()
AuthorizingGrants(cfg, a, s) ==
    {cfg.grants[i].form : i \in {j \in ActiveGrants(cfg) : Covers(cfg, j, a, s)}}

\* requireGrant(): the owner bypasses it.
HasGrant(cfg, a, s) == a = Owner \/ \E i \in ActiveGrants(cfg) : Covers(cfg, i, a, s)

\* quarantineForGrants(): an explicit hold wins over trust, trust over the kind.
QuarantineForGrants(G) ==
    \/ G = {} \/ \E g \in G : g.quarantine
    \/ (\A g \in G : ~g.trusted) /\ \E g \in G : g.system

StatusFor(cfg, a, s) ==
    IF a # Owner /\ QuarantineForGrants(AuthorizingGrants(cfg, a, s))
    THEN "quarantined" ELSE "accepted"

\* renderRegistryMarkdown()
RegistryRows(cfg) == {g.form : g \in {h \in Elements(cfg.grants) : h.status # "revoked"}}

\* requireActiveSource(): an empty allow-list allows everyone.
SourceAllows(cfg, a) ==
    cfg.source.status = "active" /\ (cfg.source.actors = {} \/ a \in cfg.source.actors)

-----------------------------------------------------------------------------
(* Changes of policy, all the owner's.                                     *)

Idle == \A c \in Calls : calls[c] = None
Changing ==
    /\ up /\ (Overlap \/ Idle)
    /\ changes < traffic.changes /\ changes' = changes + 1

CreateGrant(cfg, f) ==
    [cfg EXCEPT !.grants = Append(@, [form |-> f, status |-> "active"])]

\* GRANT leaves registry.md as it is.
Grant(f) ==
    /\ Changing /\ Len(config.grants) < MaxGrants
    /\ config' = CreateGrant(config, f)
    /\ UNCHANGED <<traffic, registry, session, log, calls, ledger, up>>

Revoke(i) ==
    /\ Changing
    /\ config' = [config EXCEPT !.grants[i].status = "revoked"]
    /\ UNCHANGED <<traffic, registry, session, log, calls, ledger, up>>

\* ensureTrustedClientGrant(): rewrites the first active grant in place, or
\* gives a new one, and refreshes registry.md.
EnsureTrustedClientGrant(a, S) ==
    LET form == [actor |-> a, scopes |-> S, trusted |-> TRUE, quarantine |-> FALSE,
                 system |-> FALSE]
        own  == OwnGrants(config, a)
    IN  /\ Changing
        /\ own # {} \/ Len(config.grants) < MaxGrants
        /\ config' = IF own = {} THEN CreateGrant(config, form)
                     ELSE [config EXCEPT !.grants[First(own)].form = form]
        /\ registry' = RegistryRows(config')
        /\ UNCHANGED <<traffic, session, log, calls, ledger, up>>

\* The clock passes a grant's expires_at.
GrantExpires(i) ==
    /\ Overlap \/ Idle
    /\ config.grants[i].status = "active"
    /\ changes < traffic.changes /\ changes' = changes + 1
    /\ config' = [config EXCEPT !.grants[i].status = "expired"]
    /\ UNCHANGED <<traffic, registry, session, log, calls, ledger, up>>

\* registerSource(): an upsert.
RegisterSource(status, actors) ==
    /\ Changing
    /\ config' = [config EXCEPT !.source = [status |-> status, actors |-> actors]]
    /\ UNCHANGED <<traffic, registry, session, log, calls, ledger, up>>

\* The host edits the retention of the stream's scope in config.json.
SetRetention(r) ==
    /\ Changing /\ config.retention # r
    /\ config' = [config EXCEPT !.retention = r]
    /\ UNCHANGED <<traffic, registry, session, log, calls, ledger, up>>

-----------------------------------------------------------------------------
(* Sessions.                                                               *)

\* POLICY_MATRIX: only an untrusted session may not write.
WriteMode(level) ==
    CASE level = "verified"         -> "auto"
      [] level = "user_facing"      -> "durable_summary"
      [] level = "background_agent" -> "explicit_only"
      [] level = "untrusted"        -> "off"

\* resolveTrust(): the declared level, capped by the actor's first grant.
ResolveTrust(cfg, a, declared) ==
    LET g == GrantForActor(cfg, a)
        capped == IF ~g.trusted /\ declared = "verified" THEN "user_facing" ELSE declared
    IN  CASE a = Owner -> declared
          [] a # Owner /\ g = None -> "untrusted"
          [] OTHER -> IF g.quarantine /\ capped \in {"verified", "user_facing"}
                      THEN "background_agent" ELSE capped

\* resolveCapabilities(): whether the session may observe at all.
MayObserve(cfg, a, S) ==
    a = Owner \/ (GrantForActor(cfg, a) # None /\ GrantForActor(cfg, a).scopes \cap S # {})

SessionStart(a, declared, S) ==
    /\ up /\ session = None /\ traffic.from = "people"
    /\ session' = [actor |-> a, level |-> ResolveTrust(config, a, declared), scopes |-> S,
                   observes |-> MayObserve(config, a, S), status |-> "active",
                   lapsed |-> FALSE]
    /\ UNCHANGED <<traffic, config, registry, log, calls, ledger, changes, up>>

\* The clock passes expires_at; the row is only marked when it is read.
SessionLapses ==
    /\ session # None /\ ~session.lapsed
    /\ session' = [session EXCEPT !.lapsed = TRUE]
    /\ UNCHANGED <<traffic, config, registry, log, calls, ledger, changes, up>>

\* SessionStore.get()
Fetched(s) == IF s.status = "active" /\ s.lapsed THEN [s EXCEPT !.status = "expired"] ELSE s

\* session_describe; a call refused because its session lapsed leaves the same row.
SessionDescribe ==
    /\ up /\ session # None /\ session' = Fetched(session)
    /\ UNCHANGED <<traffic, config, registry, log, calls, ledger, changes, up>>

SessionEnd ==
    /\ up /\ session # None
    /\ session' = [Fetched(session) EXCEPT !.status = IF @ = "active" THEN "ended" ELSE @]
    /\ UNCHANGED <<traffic, config, registry, log, calls, ledger, changes, up>>

\* resolveActorFromSession() and requireSessionCapability()
SessionAllows(s, scope) ==
    /\ Fetched(s).status = "active" /\ WriteMode(s.level) # "off"
    /\ s.observes /\ scope \in s.scopes

-----------------------------------------------------------------------------
(* OBSERVE and the owner's review.                                         *)

\* observePayload(): the payload an id is the hash of.
Payload(cfg, a, item, scope) ==
    [actor |-> a, item |-> item, scope |-> scope,
     retention |-> IF scope = Stream THEN cfg.retention ELSE "forever"]

\* A mutant of KnownAs: only the id, the hash of the payload, is looked up.
KnownAsId(payload) == \E l \in log : l.payload = payload

\* checkLegacySourceDedup() for a source's item, then the row of the same id.
KnownAs(payload) ==
    \E l \in log :
        \/ l.payload = payload
        \/ payload.item \in Items /\ l.payload.item = payload.item
                                  /\ l.payload.scope = payload.scope

Line(cfg, payload, via) ==
    [payload |-> payload, via |-> via, status |-> StatusFor(cfg, payload.actor, payload.scope)]

\* An actor observes a note, by itself or through its session, whose actor it then is.
Observe(a, n, scope, via) ==
    LET payload == Payload(config, a, n, scope)
    IN  /\ up /\ traffic.from = "people"
        /\ Cardinality({l \in log : l.payload.item \in Notes}) < MaxNotes
        /\ via => session # None /\ SessionAllows(session, scope) /\ a = session.actor
        /\ HasGrant(config, a, scope) /\ ~KnownAs(payload)
        /\ log' = log \cup {Line(config, payload, IF via THEN "session" ELSE "actor")}
        /\ UNCHANGED <<traffic, config, registry, session, calls, ledger, changes, up>>

\* QUARANTINE.REVIEW
QuarantineReview(l, verdict) ==
    /\ up /\ l.status = "quarantined"
    /\ log' = (log \ {l}) \cup {[l EXCEPT !.status = verdict]}
    /\ UNCHANGED <<traffic, config, registry, session, calls, ledger, changes, up>>

-----------------------------------------------------------------------------
(* Ingestion.                                                              *)

\* latestBatch() and sourceSyncStatus(): the cursor of the stream.
Cursor == IF ledger = <<>> THEN 0 ELSE ledger[Len(ledger)].page

\* The host resumes from the cursor it reads, or sends an earlier page again.
HostSends(p) == p <= Cursor + 1

IngestStart(c, op, p, a) ==
    /\ up /\ traffic.from = "connector" /\ calls[c] = None /\ HostSends(p)
    /\ SourceAllows(config, a) /\ HasGrant(config, a, Stream)
    /\ ~\E i \in DOMAIN ledger : ledger[i].op = op
    /\ calls' = [calls EXCEPT ![c] = [op |-> op, page |-> p, actor |-> a, next |-> 1,
                    config |-> config]]
    /\ UNCHANGED <<traffic, config, registry, session, log, ledger, changes, up>>

\* One round of the loop: handleObserve() runs to its end before it awaits.
IngestItem(c) ==
    LET k    == calls[c]
        item == Pages[k.page][k.next]
        payload == Payload(k.config, k.actor, item, Stream)
        line == Line(k.config, payload, "source")
        result == CASE item \in Poison -> "rejected"
                    [] item \notin Poison /\ KnownAs(payload) -> "duplicate"
                    [] OTHER -> line.status
    IN  /\ up /\ k # None /\ k.next <= Len(Pages[k.page])
        /\ log' = IF result \in {"rejected", "duplicate"} THEN log ELSE log \cup {line}
        /\ calls' = [calls EXCEPT ![c].next = @ + 1]
        /\ UNCHANGED <<traffic, config, registry, session, ledger, changes, up>>

\* recordBatch()
BatchRow(k) == [op |-> k.op, page |-> k.page]

\* A mutant of IngestCommit: the receipt is filed before the last item.
IngestCommitEarly(c) ==
    LET k == calls[c]
    IN  /\ up /\ k # None /\ k.next >= Len(Pages[k.page])
        /\ calls' = [calls EXCEPT ![c] = None]
        /\ ledger' = IF \E i \in DOMAIN ledger : ledger[i].op = k.op THEN ledger
                     ELSE Append(ledger, BatchRow(k))
        /\ UNCHANGED <<traffic, config, registry, session, log, changes, up>>

\* The receipt, once every item was processed.  The operation id is the
\* table's key: the second of two deliveries of one operation fails here.
IngestCommit(c) ==
    LET k == calls[c]
    IN  /\ up /\ k # None /\ k.next > Len(Pages[k.page])
        /\ calls' = [calls EXCEPT ![c] = None]
        /\ ledger' = IF \E i \in DOMAIN ledger : ledger[i].op = k.op THEN ledger
                     ELSE Append(ledger, BatchRow(k))
        /\ UNCHANGED <<traffic, config, registry, session, log, changes, up>>

\* The process dies between two steps of its calls.
Die ==
    /\ up /\ up' = FALSE
    /\ calls' = [c \in Calls |-> None]
    /\ UNCHANGED <<traffic, config, registry, session, log, ledger, changes>>

\* The ledger is operational state: it may be lost between two opens.
LoseLedger ==
    /\ ~up /\ ledger # <<>>
    /\ ledger' = <<>>
    /\ UNCHANGED <<traffic, config, registry, session, log, calls, changes, up>>

\* open() rewrites registry.md.
Open ==
    /\ ~up /\ up' = TRUE
    /\ registry' = RegistryRows(config)
    /\ UNCHANGED <<traffic, config, session, log, calls, ledger, changes>>

Init ==
    /\ config = [grants |-> <<>>, source |-> [status |-> "active", actors |-> {}],
                 retention |-> "forever"]
    /\ registry = {} /\ session = None /\ log = {}
    /\ calls = [c \in Calls |-> None] /\ ledger = <<>>
    /\ changes = 0 /\ up = TRUE /\ traffic \in Traffic

Next ==
    \/ \E f \in GrantForms : Grant(f)
    \/ \E i \in DOMAIN config.grants : Revoke(i) \/ GrantExpires(i)
    \/ \E a \in Clients : EnsureTrustedClientGrant(a, {Stream})
    \/ \E s \in {"active", "paused"}, A \in {{}, {Owner}} : RegisterSource(s, A)
    \/ \E r \in {"forever", "duration"} : SetRetention(r)
    \/ \E a \in Actors, d \in Declared : SessionStart(a, d, Scopes)
    \/ SessionLapses \/ SessionDescribe \/ SessionEnd
    \/ \E a \in Actors, n \in Notes, s \in Scopes, v \in BOOLEAN : Observe(a, n, s, v)
    \/ \E l \in log, v \in {"accepted", "rejected"} : QuarantineReview(l, v)
    \/ \E c \in Calls, op \in Ops, p \in DOMAIN Pages, a \in Actors : IngestStart(c, op, p, a)
    \/ \E c \in Calls : IngestItem(c) \/ IngestCommit(c)
    \/ Die \/ LoseLedger \/ Open

Spec == Init /\ [][Next]_vars

-----------------------------------------------------------------------------
(* What admission promises.                                                *)

Grants == {g.form : g \in {h \in Elements(config.grants) : h.status = "active"}}

\* Whatever wrote it, a session opened under older grants included, evidence of
\* a client is admitted under the policy of that moment: some grant covers the
\* scope, the source is active, and it is accepted outright only where no
\* covering grant holds the actor back and one of them vouches for it.
AdmittedUnderPolicy ==
    [][\A l \in {m \in log' : ~\E k \in log : k.payload = m.payload} :
        LET G == {g \in Grants : /\ g.actor \in {l.payload.actor, Anyone}
                                 /\ l.payload.scope \in g.scopes}
        IN  /\ l.via = "source" => config.source.status = "active"
            /\ l.via = "session" => session.status = "active" /\ ~session.lapsed
            /\ l.payload.actor # Owner =>
                /\ G # {}
                /\ l.status = "accepted" =>
                    /\ \A g \in G : ~g.quarantine
                    /\ \E g \in G : g.trusted \/ ~g.system]_vars

\* Retries, duplicate deliveries, a lost ledger and a changed configuration
\* never mint a twin of a source's item, held back or rejected ones included.
OneObservationPerItem ==
    \A l, m \in log :
        l.payload.item = m.payload.item /\ l.payload.item \in Items => l = m

\* Resuming from the cursor loses nothing: every item of every page up to it
\* is in the log or was refused, whatever died, was retried or overlapped.
CursorCovers ==
    \A p \in DOMAIN Pages : p <= Cursor =>
        \A i \in DOMAIN Pages[p] :
            Pages[p][i] \in Poison \/ \E l \in log : l.payload.item = Pages[p][i]

\* The registry lists exactly the grants that are not revoked.
RegistryCurrent == up => registry = RegistryRows(config)
=============================================================================
