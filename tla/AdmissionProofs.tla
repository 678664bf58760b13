-------------------------- MODULE AdmissionProofs --------------------------
(***************************************************************************)
(* What Admission promises for any actors, grants, pages and calls.        *)
(***************************************************************************)
EXTENDS Admission, SequenceTheorems, WellFoundedInduction, TLAPS

-----------------------------------------------------------------------------
(* Types.                                                                  *)

GrantForm == [actor : Clients \cup {Anyone}, scopes : SUBSET Scopes,
              trusted : BOOLEAN, quarantine : BOOLEAN, system : BOOLEAN]
GrantRow  == [form : GrantForm, status : {"active", "revoked", "expired"}]
SourceRow == [status : {"active", "paused"}, actors : SUBSET Actors]
Settings  == {"forever", "duration"}
Config    == [grants : Seq(GrantRow), source : SourceRow, retention : Settings]

Session   == [actor : Actors, level : Levels, scopes : SUBSET Scopes, observes : BOOLEAN,
              status : {"active", "expired", "ended"}, lapsed : BOOLEAN]

PayloadT  == [actor : Actors, item : Items \cup Notes, scope : Scopes, retention : Settings]
LogLine   == [payload : PayloadT, via : {"actor", "session", "source"},
              status : {"quarantined", "accepted", "rejected"}]

Call      == [op : Ops, page : DOMAIN Pages, actor : Actors, next : Nat \ {0}, config : Config]
Batch     == [op : Ops, page : DOMAIN Pages]

TypeOK ==
    /\ config \in Config /\ registry \subseteq GrantForm
    /\ session # None => session \in Session
    /\ log \subseteq LogLine
    /\ calls \in [Calls -> Call \cup {None}] /\ ledger \in Seq(Batch)
    /\ changes \in Nat /\ up \in BOOLEAN /\ traffic \in Traffic

\* The pages are numbered from 1, and so are their items.
LEMMA PagesType ==
    /\ \A p \in DOMAIN Pages : p \in Nat \ {0} /\ Pages[p] \in Seq(Items)
    /\ \A p \in DOMAIN Pages : DOMAIN Pages[p] = 1..Len(Pages[p]) /\ Len(Pages[p]) \in Nat
    /\ \A p \in DOMAIN Pages : \A i \in DOMAIN Pages[p] : Pages[p][i] \in Items
<1>1. Pages \in Seq(Seq(Items))
  BY AdmissionAssumption
<1>2. DOMAIN Pages = 1..Len(Pages) /\ Len(Pages) \in Nat
  BY <1>1, LenProperties
<1>3. \A p \in DOMAIN Pages : p \in Nat \ {0} /\ Pages[p] \in Seq(Items)
  BY <1>1, <1>2, ElementOfSeq
<1>4. \A p \in DOMAIN Pages : DOMAIN Pages[p] = 1..Len(Pages[p]) /\ Len(Pages[p]) \in Nat
  BY <1>3, LenProperties
<1>5. \A p \in DOMAIN Pages : \A i \in DOMAIN Pages[p] : Pages[p][i] \in Items
  BY <1>3, <1>4, ElementOfSeq
<1> QED
  BY <1>3, <1>4, <1>5

\* The first of some positions is one of them.
LEMMA FirstIn ==
    ASSUME NEW S \in SUBSET Nat, S # {}
    PROVE  First(S) \in S
<1>1. PICK i \in S : \A j \in S : ~(<<j, i>> \in OpToRel(<, Nat))
  BY NatLessThanWellFounded, WFMin
<1>2. \A j \in S : ~(j < i)
  BY <1>1 DEF OpToRel
<1>3. \A j \in S : i <= j
  BY <1>2
<1> QED
  BY <1>3 DEF First

\* A changed grant keeps the configuration well typed.
LEMMA GrantChanged ==
    ASSUME NEW cfg \in Config, NEW i \in DOMAIN cfg.grants
    PROVE  /\ cfg.grants[i] \in GrantRow
           /\ \A r \in GrantRow : [cfg EXCEPT !.grants = [cfg.grants EXCEPT ![i] = r]] \in Config
<1>1. cfg.grants \in Seq(GrantRow)
  BY DEF Config
<1>2. i \in 1..Len(cfg.grants)
  BY <1>1, LenProperties
<1>3. cfg.grants[i] \in GrantRow
  BY <1>1, <1>2, ElementOfSeq
<1>4. ASSUME NEW r \in GrantRow PROVE [cfg EXCEPT !.grants = [cfg.grants EXCEPT ![i] = r]] \in Config
  <2>1. [cfg.grants EXCEPT ![i] = r] \in Seq(GrantRow)
    BY <1>1, <1>2, ExceptSeq
  <2> QED
    BY <2>1 DEF Config
<1> QED
  BY <1>3, <1>4

\* A given grant too.
LEMMA CreateGrantType ==
    ASSUME NEW cfg \in Config, NEW f \in GrantForm
    PROVE  CreateGrant(cfg, f) \in Config
<1>1. cfg.grants \in Seq(GrantRow) /\ [form |-> f, status |-> "active"] \in GrantRow
  BY DEF Config, GrantRow
<1>2. Append(cfg.grants, [form |-> f, status |-> "active"]) \in Seq(GrantRow)
  BY <1>1, AppendProperties
<1> QED
  BY <1>2 DEF CreateGrant, Config

\* The rows of the registry are grants.
LEMMA RegistryType ==
    ASSUME NEW cfg \in Config
    PROVE  RegistryRows(cfg) \subseteq GrantForm
<1>1. \A i \in DOMAIN cfg.grants : cfg.grants[i].form \in GrantForm
  BY GrantChanged DEF GrantRow
<1> QED
  BY <1>1 DEF RegistryRows, Elements

\* The grant of an actor is one of the configuration.
LEMMA GrantForActorType ==
    ASSUME NEW cfg \in Config, NEW a, GrantForActor(cfg, a) # None
    PROVE  GrantForActor(cfg, a) \in GrantForm
<1>1. OwnGrants(cfg, a) # {} /\ GrantForActor(cfg, a) = cfg.grants[First(OwnGrants(cfg, a))].form
  BY DEF GrantForActor
<1>2. DOMAIN cfg.grants \subseteq Nat
  BY LenProperties DEF Config
<1>3. OwnGrants(cfg, a) \subseteq DOMAIN cfg.grants
  BY DEF OwnGrants, ActiveGrants
<1>4. First(OwnGrants(cfg, a)) \in DOMAIN cfg.grants
  BY <1>1, <1>2, <1>3, FirstIn
<1> QED
  BY <1>1, <1>4, GrantChanged DEF GrantRow

\* The trust decision has one of two outcomes.
LEMMA LineType ==
    ASSUME NEW cfg \in Config, NEW a \in Actors, NEW x \in Items \cup Notes, NEW s \in Scopes,
           NEW via \in {"actor", "session", "source"}
    PROVE  Line(cfg, Payload(cfg, a, x, s), via) \in LogLine
<1>1. Payload(cfg, a, x, s) \in PayloadT
  BY DEF Payload, PayloadT, Config, Settings
<1> DEFINE p == Payload(cfg, a, x, s)
<1>2. StatusFor(cfg, p.actor, p.scope) \in {"quarantined", "accepted", "rejected"}
  BY DEF StatusFor
<1> HIDE DEF p
<1> QED
  BY <1>1, <1>2 DEF Line, LogLine, p

\* The state at the start is well typed.
LEMMA InitType == Init => TypeOK
<1> SUFFICES ASSUME Init PROVE TypeOK
  OBVIOUS
<1>1. config \in Config
  BY EmptySeq DEF Init, Config, SourceRow, Settings
<1>2. ledger \in Seq(Batch)
  BY EmptySeq DEF Init
<1> QED
  BY <1>1, <1>2 DEF Init, TypeOK

\* Every verb, call, crash and open keeps the state well typed.
LEMMA StepType == TypeOK /\ [Next]_vars => TypeOK'
<1> SUFFICES ASSUME TypeOK, [Next]_vars PROVE TypeOK'
  OBVIOUS
<1> USE AdmissionAssumption
<1>c. ASSUME config' \in Config, registry' \subseteq GrantForm, changes' \in Nat,
             UNCHANGED <<session, log, calls, ledger, up, traffic>>
      PROVE  TypeOK'
  BY <1>c DEF TypeOK
<1>n. changes + 1 \in Nat /\ registry \subseteq GrantForm /\ config \in Config
  BY DEF TypeOK
<1>1. ASSUME NEW f \in GrantForms, Grant(f) PROVE TypeOK'
  <2>1. CreateGrant(config, f) \in Config
    BY <1>n, CreateGrantType DEF GrantForm
  <2> QED
    BY <1>1, <1>c, <1>n, <2>1 DEF Grant, Changing
<1>2. ASSUME NEW i \in DOMAIN config.grants, Revoke(i) PROVE TypeOK'
  <2>1. [config.grants[i] EXCEPT !.status = "revoked"] \in GrantRow
    BY <1>n, GrantChanged DEF GrantRow
  <2>2. config' = [config EXCEPT !.grants = [config.grants EXCEPT
                      ![i] = [config.grants[i] EXCEPT !.status = "revoked"]]]
    BY <1>2, <1>n DEF Revoke, Config
  <2>3. config' \in Config
    BY <1>n, <2>1, <2>2, GrantChanged
  <2> QED
    BY <1>2, <1>c, <1>n, <2>3 DEF Revoke, Changing
<1>3. ASSUME NEW i \in DOMAIN config.grants, GrantExpires(i) PROVE TypeOK'
  <2>1. [config.grants[i] EXCEPT !.status = "expired"] \in GrantRow
    BY <1>n, GrantChanged DEF GrantRow
  <2>2. config' = [config EXCEPT !.grants = [config.grants EXCEPT
                      ![i] = [config.grants[i] EXCEPT !.status = "expired"]]]
    BY <1>3, <1>n DEF GrantExpires, Config
  <2>3. config' \in Config
    BY <1>n, <2>1, <2>2, GrantChanged
  <2> QED
    BY <1>3, <1>c, <1>n, <2>3 DEF GrantExpires
<1>4. ASSUME NEW a \in Clients, EnsureTrustedClientGrant(a, {Stream}) PROVE TypeOK'
  <2> DEFINE form == [actor |-> a, scopes |-> {Stream}, trusted |-> TRUE, quarantine |-> FALSE,
                      system |-> FALSE]
             own  == OwnGrants(config, a)
             i    == First(own)
  <2>1. form \in GrantForm
    BY DEF GrantForm
  <2>2. CASE own = {}
    <3>1. config' = CreateGrant(config, form)
      BY <1>4, <2>2 DEF EnsureTrustedClientGrant
    <3> QED
      BY <3>1, <2>1, <1>4, <1>c, <1>n, CreateGrantType, RegistryType DEF EnsureTrustedClientGrant, Changing
  <2>3. CASE own # {}
    <3>1. DOMAIN config.grants \subseteq Nat
      BY <1>n, LenProperties DEF Config
    <3>2. own \subseteq DOMAIN config.grants
      BY DEF OwnGrants, ActiveGrants
    <3>3. i \in DOMAIN config.grants
      BY <2>3, <3>1, <3>2, FirstIn
    <3>4. config' = [config EXCEPT !.grants[i].form = form]
      BY <1>4, <2>3 DEF EnsureTrustedClientGrant
    <3> HIDE DEF i, form, own
    <3>5. [config.grants[i] EXCEPT !.form = form] \in GrantRow
      BY <1>n, <2>1, <3>3, GrantChanged DEF GrantRow
    <3>6. config' = [config EXCEPT !.grants = [config.grants EXCEPT
                        ![i] = [config.grants[i] EXCEPT !.form = form]]]
      BY <3>4, <1>n DEF Config
    <3>7. config' \in Config
      BY <1>n, <3>3, <3>5, <3>6, GrantChanged
    <3> QED
      BY <1>4, <1>c, <1>n, <3>7, RegistryType DEF EnsureTrustedClientGrant, Changing
  <2> QED
    BY <2>2, <2>3
<1>5. ASSUME NEW s \in {"active", "paused"}, NEW A \in {{}, {Owner}}, RegisterSource(s, A) PROVE TypeOK'
  <2>1. [status |-> s, actors |-> A] \in SourceRow
    BY DEF SourceRow, Actors
  <2>2. config' \in Config
    BY <1>5, <1>n, <2>1 DEF RegisterSource, Config
  <2> QED
    BY <1>5, <1>c, <1>n, <2>2 DEF RegisterSource, Changing
<1>6. ASSUME NEW r \in {"forever", "duration"}, SetRetention(r) PROVE TypeOK'
  <2>1. config' \in Config
    BY <1>6, <1>n DEF SetRetention, Config, Settings
  <2> QED
    BY <1>6, <1>c, <1>n, <2>1 DEF SetRetention, Changing
<1>7. ASSUME NEW a \in Actors, NEW d \in Declared, SessionStart(a, d, Scopes) PROVE TypeOK'
  <2>1. ResolveTrust(config, a, d) \in Levels
    BY DEF ResolveTrust, Levels
  <2>2. MayObserve(config, a, Scopes) \in BOOLEAN
    BY DEF MayObserve
  <2>3. session' \in Session
    BY <1>7, <2>1, <2>2 DEF SessionStart, Session
  <2> QED
    BY <1>7, <2>3 DEF SessionStart, TypeOK
<1>8. CASE SessionLapses \/ SessionDescribe \/ SessionEnd
  <2>1. session \in Session
    BY <1>8 DEF SessionLapses, SessionDescribe, SessionEnd, TypeOK
  <2>2. Fetched(session) \in Session
    BY <2>1 DEF Fetched, Session
  <2>3. session' \in Session
    BY <1>8, <2>1, <2>2 DEF SessionLapses, SessionDescribe, SessionEnd, Session
  <2> QED
    BY <1>8, <2>3 DEF SessionLapses, SessionDescribe, SessionEnd, TypeOK
<1>9. ASSUME NEW a \in Actors, NEW n \in Notes, NEW s \in Scopes, NEW v, Observe(a, n, s, v)
      PROVE  TypeOK'
  <2>1. Line(config, Payload(config, a, n, s), IF v THEN "session" ELSE "actor") \in LogLine
    BY <1>n, LineType
  <2> QED
    BY <1>9, <2>1 DEF Observe, TypeOK
<1>10. ASSUME NEW l \in log, NEW v \in {"accepted", "rejected"}, QuarantineReview(l, v) PROVE TypeOK'
  <2>1. [l EXCEPT !.status = v] \in LogLine
    BY DEF TypeOK, LogLine
  <2> QED
    BY <1>10, <2>1 DEF QuarantineReview, TypeOK
<1>11. ASSUME NEW c \in Calls, NEW op \in Ops, NEW p \in DOMAIN Pages, NEW a \in Actors, IngestStart(c, op, p, a)
       PROVE  TypeOK'
  <2>1. [op |-> op, page |-> p, actor |-> a, next |-> 1, config |-> config] \in Call
    BY <1>n DEF Call
  <2> QED
    BY <1>11, <2>1 DEF IngestStart, TypeOK
<1>12. ASSUME NEW c \in Calls, IngestItem(c) PROVE TypeOK'
  <2> DEFINE k == calls[c]
  <2>1. k \in Call /\ k.next <= Len(Pages[k.page])
    BY <1>12 DEF IngestItem, TypeOK
  <2>2. [k EXCEPT !.next = k.next + 1] \in Call
    <3>1. k.next + 1 \in Nat \ {0}
      BY <2>1 DEF Call
    <3> HIDE DEF k
    <3> QED
      BY <2>1, <3>1 DEF Call
  <2>3. calls' = [calls EXCEPT ![c] = [k EXCEPT !.next = k.next + 1]]
    BY <1>12 DEF IngestItem
  <2>4. calls' \in [Calls -> Call \cup {None}]
    BY <2>2, <2>3 DEF TypeOK
  <2> DEFINE item == Pages[k.page][k.next]
             line == Line(k.config, Payload(k.config, k.actor, item, Stream), "source")
  <2>5. log' = log \/ log' = log \cup {line}
    BY <1>12 DEF IngestItem
  <2>6. line \in LogLine
    <3>1. k.next \in DOMAIN Pages[k.page]
      BY <2>1, PagesType DEF Call
    <3>2. item \in Items /\ k.config \in Config /\ k.actor \in Actors
      BY <3>1, <2>1, PagesType DEF Call
    <3> HIDE DEF item, k
    <3> QED
      BY <3>2, LineType
  <2> QED
    BY <1>12, <2>4, <2>5, <2>6 DEF IngestItem, TypeOK
<1>13. ASSUME NEW c \in Calls, IngestCommit(c) PROVE TypeOK'
  <2>1. calls[c] \in Call
    BY <1>13 DEF IngestCommit, TypeOK
  <2>2. BatchRow(calls[c]) \in Batch
    BY <2>1 DEF BatchRow, Batch, Call
  <2>3. Append(ledger, BatchRow(calls[c])) \in Seq(Batch)
    BY <2>2, AppendProperties DEF TypeOK
  <2> QED
    BY <1>13, <2>3 DEF IngestCommit, TypeOK
<1>14. CASE Die \/ LoseLedger
  <2>1. <<>> \in Seq(Batch)
    BY EmptySeq
  <2>2. calls' \in [Calls -> Call \cup {None}] /\ ledger' \in Seq(Batch)
    BY <1>14, <2>1 DEF Die, LoseLedger, TypeOK
  <2> QED
    BY <1>14, <2>2 DEF Die, LoseLedger, TypeOK
<1>15. CASE Open
  BY <1>15, <1>n, RegistryType DEF Open, TypeOK
<1>16. CASE UNCHANGED vars
  BY <1>16 DEF vars, TypeOK
<1>17. CASE \E a \in Actors, n \in Notes, s \in Scopes, v \in BOOLEAN : Observe(a, n, s, v)
  <2>1. PICK a \in Actors, n \in Notes, s \in Scopes, v \in BOOLEAN : Observe(a, n, s, v)
    BY Zenon, <1>17
  <2> QED
    BY Zenon, <2>1, <1>9
<1> QED
  BY <1>1, <1>2, <1>3, <1>4, <1>5, <1>6, <1>7, <1>8, <1>10, <1>11, <1>12, <1>13, <1>14, <1>15, <1>16, <1>17
  DEF Next

-----------------------------------------------------------------------------
(* Ingestion.                                                              *)

\* What becomes of the log, the calls and the ledger in a step.
LEMMA LogSteps ==
    ASSUME [Next]_vars
    PROVE  \/ UNCHANGED <<log, calls, ledger>>
           \/ \E a \in Actors, n \in Notes, s \in Scopes, v \in BOOLEAN : Observe(a, n, s, v)
           \/ \E l \in log, v \in {"accepted", "rejected"} : QuarantineReview(l, v)
           \/ \E c \in Calls, op \in Ops, p \in DOMAIN Pages, a \in Actors : IngestStart(c, op, p, a)
           \/ \E c \in Calls : IngestItem(c) \/ IngestCommit(c)
           \/ Die \/ LoseLedger
BY DEF Next, vars, Grant, Revoke, GrantExpires, EnsureTrustedClientGrant, RegisterSource, SetRetention,
   SessionStart, SessionLapses, SessionDescribe, SessionEnd, Open

\* A source's item is only admitted into the stream's scope, and once.
ItemInv ==
    /\ \A l \in log : l.payload.item \in Items => l.payload.scope = Stream
    /\ OneObservationPerItem

\* What an item in flight is, and what becomes of the log when it is processed.
LEMMA ItemStep ==
    ASSUME TypeOK, NEW c \in Calls, IngestItem(c)
    PROVE  \E x \in Items :
              /\ calls[c] \in Call /\ calls[c].next \in DOMAIN Pages[calls[c].page]
              /\ x = Pages[calls[c].page][calls[c].next]
              /\ \/ log' = log /\ (x \in Poison \/ \E l \in log : l.payload.item = x)
                 \/ /\ \A l \in log : l.payload.item = x => l.payload.scope # Stream
                    /\ log' = log \cup {Line(calls[c].config,
                                  Payload(calls[c].config, calls[c].actor, x, Stream), "source")}
<1> DEFINE k == calls[c]
           x == Pages[k.page][k.next]
           payload == Payload(k.config, k.actor, x, Stream)
           line == Line(k.config, payload, "source")
<1>1. k \in Call /\ k.next <= Len(Pages[k.page])
  BY DEF IngestItem, TypeOK
<1>2. k.next \in DOMAIN Pages[k.page]
  BY <1>1, PagesType DEF Call
<1>3. x \in Items
  BY <1>1, <1>2, PagesType DEF Call
<1>4. payload.item = x /\ payload.scope = Stream
  BY DEF Payload
<1>5. CASE x \in Poison
  <2>1. log' = log
    BY <1>5 DEF IngestItem
  <2> QED
    BY <1>1, <1>2, <1>3, <1>5, <2>1
<1>6. CASE x \notin Poison /\ KnownAs(payload)
  <2>1. log' = log
    BY <1>6 DEF IngestItem
  <2>2. \E l \in log : l.payload.item = x
    BY <1>4, <1>6 DEF KnownAs
  <2> QED
    BY <1>1, <1>2, <1>3, <2>1, <2>2
<1>7. CASE x \notin Poison /\ ~KnownAs(payload)
  <2>1. line.status \in {"quarantined", "accepted"}
    BY DEF Line, StatusFor
  <2>2. log' = log \cup {line}
    <3> HIDE DEF line, payload, x
    <3>1. log' = IF line.status \in {"rejected", "duplicate"} THEN log ELSE log \cup {line}
      BY <1>7 DEF IngestItem, line, payload, x
    <3> QED
      BY <3>1, <2>1
  <2>3. \A l \in log : l.payload.item = x => l.payload.scope # Stream
    BY <1>3, <1>4, <1>7 DEF KnownAs
  <2> QED
    BY <1>1, <1>2, <1>3, <2>2, <2>3
<1> QED
  BY <1>5, <1>6, <1>7

\* Neither a retry nor an overlapping call, nor the owner's review, adds a twin.
LEMMA StepItem == TypeOK /\ ItemInv /\ [Next]_vars => ItemInv'
<1> SUFFICES ASSUME TypeOK, ItemInv, [Next]_vars PROVE ItemInv'
  OBVIOUS
<1>1. CASE log' = log
  BY <1>1 DEF ItemInv, OneObservationPerItem
<1>a. ASSUME NEW y, log' = log \cup {y},
             \/ y.payload.item \notin Items
             \/ y.payload.scope = Stream /\ \A l \in log : l.payload.item # y.payload.item
      PROVE  ItemInv'
  BY <1>a DEF ItemInv, OneObservationPerItem
<1>2. ASSUME NEW a \in Actors, NEW n \in Notes, NEW s \in Scopes, NEW v, Observe(a, n, s, v)
      PROVE  ItemInv'
  <2> DEFINE y == Line(config, Payload(config, a, n, s), IF v THEN "session" ELSE "actor")
  <2>1. log' = log \cup {y}
    BY <1>2 DEF Observe
  <2>2. y.payload.item = n
    BY DEF Line, Payload
  <2>3. n \notin Items
    BY AdmissionAssumption
  <2> HIDE DEF y
  <2> QED
    BY <1>a, <2>1, <2>2, <2>3
<1>3. ASSUME NEW l \in log, NEW v \in {"accepted", "rejected"}, QuarantineReview(l, v) PROVE ItemInv'
  <2> DEFINE y == [l EXCEPT !.status = v]
  <2>1. y.payload = l.payload
    BY DEF TypeOK, LogLine
  <2>2. log' = (log \ {l}) \cup {y}
    BY <1>3 DEF QuarantineReview
  <2> HIDE DEF y
  <2> QED
    BY <2>1, <2>2 DEF ItemInv, OneObservationPerItem
<1>4. ASSUME NEW c \in Calls, IngestItem(c) PROVE ItemInv'
  <2>1. PICK x \in Items :
              \/ log' = log
              \/ /\ \A l \in log : l.payload.item = x => l.payload.scope # Stream
                 /\ log' = log \cup {Line(calls[c].config,
                               Payload(calls[c].config, calls[c].actor, x, Stream), "source")}
    BY <1>4, ItemStep
  <2>2. CASE log' # log
    <3> DEFINE y == Line(calls[c].config, Payload(calls[c].config, calls[c].actor, x, Stream), "source")
    <3>1. y.payload.item = x /\ y.payload.scope = Stream
      BY DEF Line, Payload
    <3>2. \A l \in log : l.payload.item # x
      BY <2>1, <2>2 DEF ItemInv
    <3>3. log' = log \cup {y}
      BY <2>1, <2>2
    <3> HIDE DEF y
    <3> QED
      BY <1>a, <3>1, <3>2, <3>3
  <2> QED
    BY <1>1, <2>2
<1>5. CASE \E a \in Actors, n \in Notes, s \in Scopes, v \in BOOLEAN : Observe(a, n, s, v)
  <2>1. PICK a \in Actors, n \in Notes, s \in Scopes, v \in BOOLEAN : Observe(a, n, s, v)
    BY Zenon, <1>5
  <2> QED
    BY Zenon, <2>1, <1>2
<1>6. ~(\E a \in Actors, n \in Notes, s \in Scopes, v \in BOOLEAN : Observe(a, n, s, v))
      /\ ~(\E l \in log, v \in {"accepted", "rejected"} : QuarantineReview(l, v))
      /\ ~(\E c \in Calls : IngestItem(c))
      => log' = log
  BY LogSteps DEF IngestStart, IngestCommit, Die, LoseLedger
<1> QED
  BY <1>1, <1>3, <1>4, <1>5, <1>6

\* A source's item is never observed twice, whatever overlapped, was retried
\* after a crash, lost its ledger or changed its policy in between
\* (idempotency.ts, checkLegacySourceDedup; quarantine_review.ts).
THEOREM NoTwins == Spec => []OneObservationPerItem
<1>1. Init => TypeOK /\ ItemInv
  BY InitType DEF Init, ItemInv, OneObservationPerItem
<1>2. TypeOK /\ ItemInv /\ [Next]_vars => (TypeOK /\ ItemInv)'
  BY StepType, StepItem
<1>3. ItemInv => OneObservationPerItem
  BY DEF ItemInv
<1> QED
  BY <1>1, <1>2, <1>3, PTL DEF Spec

-----------------------------------------------------------------------------
(* The cursor.                                                             *)

\* The item was admitted, or is refused.
Settled(L, x) == x \in Poison \/ \E l \in L : l.payload.item = x

\* Every item of every page up to n is.
SettledTo(L, n) ==
    \A p \in DOMAIN Pages : p <= n => \A i \in DOMAIN Pages[p] : Settled(L, Pages[p][i])

\* A call in flight was started with the pages before its own settled, and has
\* settled the items before its next one; a batch of the ledger, its page.
CursorInv ==
    /\ \A c \in Calls : calls[c] # None =>
          /\ SettledTo(log, calls[c].page - 1)
          /\ \A i \in DOMAIN Pages[calls[c].page] :
                i < calls[c].next => Settled(log, Pages[calls[c].page][i])
    /\ \A i \in DOMAIN ledger : SettledTo(log, ledger[i].page)

\* The log never loses an observation.
LEMMA LogKept ==
    ASSUME TypeOK, [Next]_vars
    PROVE  \A x : Settled(log, x) => Settled(log', x)
<1>1. \A l \in log : \E m \in log' : m.payload = l.payload
  <2>1. CASE log \subseteq log'
    BY <2>1
  <2>2. ASSUME NEW l \in log, NEW v \in {"accepted", "rejected"}, QuarantineReview(l, v)
        PROVE  \A k \in log : \E m \in log' : m.payload = k.payload
    <3>1. [l EXCEPT !.status = v].payload = l.payload
      BY DEF TypeOK, LogLine
    <3> QED
      BY <2>2, <3>1 DEF QuarantineReview
  <2>3. ASSUME NEW c \in Calls, IngestItem(c) PROVE log \subseteq log'
    BY <2>3, ItemStep
  <2>4. CASE \E a \in Actors, n \in Notes, s \in Scopes, v \in BOOLEAN : Observe(a, n, s, v)
    <3>1. PICK a \in Actors, n \in Notes, s \in Scopes, v \in BOOLEAN : Observe(a, n, s, v)
      BY Zenon, <2>4
    <3> QED
      BY <3>1, <2>1 DEF Observe
  <2>5. ~(\E a \in Actors, n \in Notes, s \in Scopes, v \in BOOLEAN : Observe(a, n, s, v))
        /\ ~(\E l \in log, v \in {"accepted", "rejected"} : QuarantineReview(l, v))
        /\ ~(\E c \in Calls : IngestItem(c))
        => log' = log
    BY LogSteps DEF IngestStart, IngestCommit, Die, LoseLedger
  <2> QED
    BY <2>1, <2>2, <2>3, <2>4, <2>5
<1> QED
  BY <1>1 DEF Settled

\* The receipt of a page is filed once its items are settled, and a page is
\* sent once the receipts of those before it were.
LEMMA StepCursor == TypeOK /\ CursorInv /\ [Next]_vars => CursorInv'
<1> SUFFICES ASSUME TypeOK, CursorInv, [Next]_vars PROVE CursorInv'
  OBVIOUS
<1>k. \A x : Settled(log, x) => Settled(log', x)
  BY LogKept
<1>t. \A n : SettledTo(log, n) => SettledTo(log', n)
  BY <1>k DEF SettledTo
<1> DEFINE CallOK(c) == calls[c] # None =>
              /\ SettledTo(log, calls[c].page - 1)
              /\ \A i \in DOMAIN Pages[calls[c].page] :
                    i < calls[c].next => Settled(log, Pages[calls[c].page][i])
           RowsOK == \A i \in DOMAIN ledger : SettledTo(log, ledger[i].page)
<1>i. (\A c \in Calls : CallOK(c)) /\ RowsOK
  BY DEF CursorInv
<1>s. SUFFICES (\A c \in Calls : CallOK(c)') /\ RowsOK'
  BY DEF CursorInv
<1>c. \A c \in Calls : calls'[c] = calls[c] => CallOK(c)'
  BY <1>i, <1>k, <1>t
<1>r. ledger' = ledger => RowsOK'
  BY <1>i, <1>t
<1>1. CASE UNCHANGED <<calls, ledger>>
  BY <1>1, <1>c, <1>r
<1>2. ASSUME NEW c \in Calls, NEW op \in Ops, NEW p \in DOMAIN Pages, NEW a \in Actors, IngestStart(c, op, p, a)
      PROVE  (\A d \in Calls : CallOK(d)') /\ RowsOK'
  <2>1. Cursor \in Nat /\ SettledTo(log, Cursor)
    <3>1. CASE ledger = <<>>
      BY <3>1, PagesType DEF Cursor, SettledTo
    <3>2. CASE ledger # <<>>
      <4>1. Len(ledger) \in DOMAIN ledger /\ ledger[Len(ledger)] \in Batch
        BY <3>2, EmptySeq, LenProperties, ElementOfSeq DEF TypeOK
      <4> QED
        BY <3>2, <4>1, <1>i, PagesType DEF Cursor, Batch
    <3> QED
      BY <3>1, <3>2
  <2>2. p \in Nat /\ p <= Cursor + 1
    BY <1>2, PagesType DEF IngestStart, HostSends
  <2>3. SettledTo(log, p - 1)
    BY <2>1, <2>2, PagesType DEF SettledTo
  <2>4. /\ calls' = [calls EXCEPT ![c] = [op |-> op, page |-> p, actor |-> a, next |-> 1, config |-> config]]
        /\ ledger' = ledger
    BY <1>2 DEF IngestStart
  <2>5. calls'[c].page = p /\ calls'[c].next = 1
    BY <2>4 DEF TypeOK
  <2>6. CallOK(c)'
    <3>1. \A i \in DOMAIN Pages[p] : ~(i < 1)
      BY PagesType
    <3> QED
      BY <2>3, <2>5, <3>1, <1>t
  <2>7. \A d \in Calls : d # c => calls'[d] = calls[d]
    BY <2>4 DEF TypeOK
  <2> HIDE DEF CallOK, RowsOK
  <2> QED
    BY <2>4, <2>6, <2>7, <1>c, <1>r
<1>3. ASSUME NEW c \in Calls, IngestItem(c) PROVE (\A d \in Calls : CallOK(d)') /\ RowsOK'
  <2>1. PICK x \in Items :
              /\ calls[c] \in Call /\ calls[c].next \in DOMAIN Pages[calls[c].page]
              /\ x = Pages[calls[c].page][calls[c].next]
              /\ \/ log' = log /\ (x \in Poison \/ \E l \in log : l.payload.item = x)
                 \/ log' = log \cup {Line(calls[c].config,
                               Payload(calls[c].config, calls[c].actor, x, Stream), "source")}
    BY <1>3, ItemStep
  <2>2. Settled(log', x)
    <3>1. CASE log' = log /\ (x \in Poison \/ \E l \in log : l.payload.item = x)
      BY <3>1 DEF Settled
    <3>2. CASE log' = log \cup {Line(calls[c].config,
                          Payload(calls[c].config, calls[c].actor, x, Stream), "source")}
      <4> DEFINE y == Line(calls[c].config, Payload(calls[c].config, calls[c].actor, x, Stream), "source")
      <4>1. y.payload.item = x
        BY DEF Line, Payload
      <4>2. y \in log'
        BY <3>2
      <4> HIDE DEF y
      <4> QED
        BY <4>1, <4>2 DEF Settled
    <3> QED
      BY <2>1, <3>1, <3>2
  <2>3. calls'[c].page = calls[c].page /\ calls'[c].next = calls[c].next + 1 /\ calls[c] # None
    BY <1>3, <2>1 DEF IngestItem, TypeOK, Call
  <2>4. calls[c].page \in DOMAIN Pages /\ calls[c].next \in Nat
    BY <2>1 DEF Call
  <2>5. CallOK(c)'
    <3>1. SettledTo(log', calls[c].page - 1)
      BY <1>i, <1>t, <2>3
    <3>2. ASSUME NEW i \in DOMAIN Pages[calls[c].page], i < calls[c].next + 1
          PROVE  Settled(log', Pages[calls[c].page][i])
      <4>1. i < calls[c].next \/ i = calls[c].next
        BY <2>4, <3>2, PagesType
      <4>2. CASE i < calls[c].next
        BY <1>i, <1>k, <2>3, <4>2
      <4>3. CASE i = calls[c].next
        BY <2>1, <2>2, <4>3
      <4> QED
        BY <4>1, <4>2, <4>3
    <3> QED
      BY <2>3, <3>1, <3>2
  <2>6. (\A d \in Calls : d # c => calls'[d] = calls[d]) /\ ledger' = ledger
    BY <1>3 DEF IngestItem, TypeOK
  <2> HIDE DEF CallOK, RowsOK
  <2> QED
    BY <2>5, <2>6, <1>c, <1>r
<1>4. ASSUME NEW c \in Calls, IngestCommit(c) PROVE (\A d \in Calls : CallOK(d)') /\ RowsOK'
  <2>1. calls[c] \in Call /\ calls[c] # None /\ calls[c].next > Len(Pages[calls[c].page])
    BY <1>4 DEF IngestCommit, TypeOK
  <2>2. calls[c].page \in DOMAIN Pages /\ calls[c].next \in Nat
    BY <2>1 DEF Call
  <2>3. \A i \in DOMAIN Pages[calls[c].page] : Settled(log, Pages[calls[c].page][i])
    <3>1. \A i \in DOMAIN Pages[calls[c].page] : i < calls[c].next
      BY <2>1, <2>2, PagesType
    <3> QED
      BY <2>1, <3>1, <1>i
  <2>4. SettledTo(log, calls[c].page)
    BY <2>1, <2>2, <2>3, <1>i, PagesType DEF SettledTo
  <2>5. CallOK(c)'
    BY <1>4 DEF IngestCommit, TypeOK
  <2>6. \A d \in Calls : d # c => calls'[d] = calls[d]
    BY <1>4 DEF IngestCommit, TypeOK
  <2>7. RowsOK'
    <3>1. CASE ledger' = ledger
      BY <3>1, <1>r
    <3>2. CASE ledger' = Append(ledger, BatchRow(calls[c]))
      <4>1. BatchRow(calls[c]) \in Batch /\ BatchRow(calls[c]).page = calls[c].page
        BY <2>1 DEF BatchRow, Batch, Call
      <4>2. ledger \in Seq(Batch)
        BY DEF TypeOK
      <4>3. /\ DOMAIN ledger' = 1..(Len(ledger) + 1) /\ DOMAIN ledger = 1..Len(ledger)
            /\ Len(ledger) \in Nat
            /\ \A i \in 1..Len(ledger) : ledger'[i] = ledger[i]
            /\ ledger'[Len(ledger) + 1] = BatchRow(calls[c])
        BY <3>2, <4>1, <4>2, AppendProperties, LenProperties
      <4>4. ASSUME NEW i \in DOMAIN ledger' PROVE SettledTo(log', ledger'[i].page)
        <5>1. CASE i \in 1..Len(ledger)
          BY <4>3, <5>1, <1>i, <1>t
        <5>2. CASE i = Len(ledger) + 1
          BY <4>1, <4>3, <5>2, <2>4, <1>t
        <5> QED
          BY <4>3, <4>4, <5>1, <5>2
      <4> QED
        BY <4>4
    <3> QED
      BY <1>4, <3>1, <3>2 DEF IngestCommit
  <2> HIDE DEF CallOK, RowsOK
  <2> QED
    BY <2>5, <2>6, <2>7, <1>c
<1>5. CASE Die
  <2>1. (\A d \in Calls : calls'[d] = None) /\ ledger' = ledger
    BY <1>5 DEF Die
  <2> QED
    BY <2>1, <1>r
<1>6. CASE LoseLedger
  <2>1. calls' = calls /\ DOMAIN ledger' = {}
    BY <1>6 DEF LoseLedger
  <2> QED
    BY <2>1, <1>c
<1>7. CASE \E a \in Actors, n \in Notes, s \in Scopes, v \in BOOLEAN : Observe(a, n, s, v)
  <2>1. PICK a \in Actors, n \in Notes, s \in Scopes, v \in BOOLEAN : Observe(a, n, s, v)
    BY Zenon, <1>7
  <2>2. UNCHANGED <<calls, ledger>>
    BY <2>1 DEF Observe
  <2> QED
    BY <2>2, <1>1
<1>8. ASSUME NEW l \in log, NEW v \in {"accepted", "rejected"}, QuarantineReview(l, v)
      PROVE  UNCHANGED <<calls, ledger>>
  BY <1>8 DEF QuarantineReview
<1> HIDE DEF CallOK, RowsOK
<1> QED
  BY <1>1, <1>2, <1>3, <1>4, <1>5, <1>6, <1>7, <1>8, LogSteps

\* Resuming from the cursor loses nothing, whatever died, was sent again,
\* overlapped or lost its ledger (ingest.ts, the receipt after the loop;
\* sync.ts, the cursor of the latest batch).
THEOREM ResumingLosesNothing == Spec => []CursorCovers
<1>1. Init => TypeOK /\ CursorInv
  BY InitType DEF Init, CursorInv
<1>2. TypeOK /\ CursorInv /\ [Next]_vars => (TypeOK /\ CursorInv)'
  BY StepType, StepCursor
<1>3. TypeOK /\ CursorInv => CursorCovers
  <2> SUFFICES ASSUME TypeOK, CursorInv, NEW p \in DOMAIN Pages, p <= Cursor, NEW i \in DOMAIN Pages[p]
               PROVE  Settled(log, Pages[p][i])
    BY DEF CursorCovers, Settled
  <2>1. ledger # <<>>
    BY PagesType DEF Cursor
  <2>2. Len(ledger) \in DOMAIN ledger
    BY <2>1, EmptySeq, LenProperties DEF TypeOK
  <2> QED
    BY <2>1, <2>2 DEF Cursor, CursorInv, SettledTo
<1> QED
  BY <1>1, <1>2, <1>3, PTL DEF Spec

-----------------------------------------------------------------------------
(* The policy of the moment.                                               *)

\* A call in flight works with the configuration that stands, under which its
\* actor may write to the stream.
PolicyInv ==
    \A c \in Calls : calls[c] # None =>
        /\ calls[c].config = config
        /\ config.source.status = "active" /\ HasGrant(config, calls[c].actor, Stream)

\* The grants G of the property are the ones that authorise.
LEMMA CoveringGrants ==
    ASSUME NEW a, NEW s
    PROVE  /\ {g \in Grants : g.actor \in {a, Anyone} /\ s \in g.scopes} = AuthorizingGrants(config, a, s)
           /\ HasGrant(config, a, s) /\ a # Owner => AuthorizingGrants(config, a, s) # {}
<1>1. Grants = {config.grants[i].form : i \in ActiveGrants(config)}
  BY DEF Grants, Elements, ActiveGrants
<1> QED
  BY <1>1 DEF AuthorizingGrants, HasGrant, Covers

\* What trust accepts outright is vouched for and not held back.
LEMMA AcceptedOutright ==
    ASSUME NEW a, a # Owner, NEW s, StatusFor(config, a, s) = "accepted"
    PROVE  /\ \A g \in AuthorizingGrants(config, a, s) : ~g.quarantine
           /\ \E g \in AuthorizingGrants(config, a, s) : g.trusted \/ ~g.system
<1> DEFINE G == AuthorizingGrants(config, a, s)
<1>1. ~QuarantineForGrants(G)
  BY DEF StatusFor
<1> HIDE DEF G
<1>2. G # {} /\ \A g \in G : ~g.quarantine
  BY <1>1 DEF QuarantineForGrants
<1>3. (\E g \in G : g.trusted) \/ ~\E g \in G : g.system
  BY <1>1, <1>2 DEF QuarantineForGrants
<1> QED
  BY <1>2, <1>3 DEF G

\* While a call is in flight the policy does not change.
LEMMA StepPolicy == ASSUME Overlap = FALSE, TypeOK, PolicyInv, [Next]_vars PROVE PolicyInv'
<1>1. CASE UNCHANGED <<config, calls>>
  BY <1>1 DEF PolicyInv
<1>2. CASE Idle /\ calls' = calls
  BY <1>2 DEF PolicyInv, Idle
<1>3. ASSUME NEW c \in Calls, NEW op \in Ops, NEW p \in DOMAIN Pages, NEW a \in Actors, IngestStart(c, op, p, a)
      PROVE  PolicyInv'
  <2>1. /\ calls' = [calls EXCEPT ![c] = [op |-> op, page |-> p, actor |-> a, next |-> 1, config |-> config]]
        /\ config' = config /\ SourceAllows(config, a) /\ HasGrant(config, a, Stream)
    BY <1>3 DEF IngestStart
  <2>2. /\ calls'[c].config = config /\ calls'[c].actor = a
        /\ \A d \in Calls : d # c => calls'[d] = calls[d]
    BY <2>1 DEF TypeOK
  <2> QED
    BY <2>1, <2>2 DEF PolicyInv, SourceAllows
<1>4. ASSUME NEW c \in Calls, IngestItem(c) PROVE PolicyInv'
  <2>1. calls[c] \in Call /\ calls[c] # None
    BY <1>4 DEF IngestItem, TypeOK
  <2>2. /\ calls'[c].config = calls[c].config /\ calls'[c].actor = calls[c].actor
        /\ config' = config
        /\ \A d \in Calls : d # c => calls'[d] = calls[d]
    BY <1>4, <2>1 DEF IngestItem, TypeOK, Call
  <2> QED
    BY <2>1, <2>2 DEF PolicyInv
<1>5. ASSUME NEW c \in Calls, IngestCommit(c) PROVE PolicyInv'
  <2>1. calls'[c] = None /\ config' = config /\ \A d \in Calls : d # c => calls'[d] = calls[d]
    BY <1>5 DEF IngestCommit, TypeOK
  <2> QED
    BY <2>1 DEF PolicyInv
<1>6. CASE Die
  BY <1>6 DEF Die, PolicyInv
<1>7. CASE \E a \in Actors, n \in Notes, s \in Scopes, v \in BOOLEAN : Observe(a, n, s, v)
  <2>1. PICK a \in Actors, n \in Notes, s \in Scopes, v \in BOOLEAN : Observe(a, n, s, v)
    BY Zenon, <1>7
  <2>2. UNCHANGED <<config, calls>>
    BY <2>1 DEF Observe
  <2> QED
    BY <2>2, <1>1
<1>8. ASSUME NEW f, Grant(f) PROVE Idle /\ calls' = calls
  BY <1>8 DEF Grant, Changing
<1>9. ASSUME NEW i, Revoke(i) \/ GrantExpires(i) PROVE Idle /\ calls' = calls
  BY <1>9 DEF Revoke, GrantExpires, Changing
<1>10. ASSUME NEW a, EnsureTrustedClientGrant(a, {Stream}) PROVE Idle /\ calls' = calls
  BY <1>10 DEF EnsureTrustedClientGrant, Changing
<1>11. ASSUME NEW s, NEW A, RegisterSource(s, A) PROVE Idle /\ calls' = calls
  BY <1>11 DEF RegisterSource, Changing
<1>12. ASSUME NEW r, SetRetention(r) PROVE Idle /\ calls' = calls
  BY <1>12 DEF SetRetention, Changing
<1>13. ASSUME NEW a, NEW d, SessionStart(a, d, Scopes) PROVE UNCHANGED <<config, calls>>
  BY <1>13 DEF SessionStart
<1>14. CASE SessionLapses \/ SessionDescribe \/ SessionEnd \/ LoseLedger \/ Open
  BY <1>14, <1>1 DEF SessionLapses, SessionDescribe, SessionEnd, LoseLedger, Open
<1>15. ASSUME NEW l, NEW v, QuarantineReview(l, v) PROVE UNCHANGED <<config, calls>>
  BY <1>15 DEF QuarantineReview
<1>16. CASE UNCHANGED vars
  BY <1>16, <1>1 DEF vars
<1> QED
  BY <1>1, <1>2, <1>3, <1>4, <1>5, <1>6, <1>7, <1>8, <1>9, <1>10, <1>11, <1>12, <1>13, <1>14, <1>15, <1>16
  DEF Next

\* Evidence is admitted under the policy of that moment, also by a session that
\* was opened under older grants (session.ts, policy.ts; trust.ts,
\* quarantineForGrants; sources.ts, requireActiveSource), where the owner does
\* not change the policy while a call is in flight.  handleIngest() reads the
\* configuration once: with such a change it admits under the one it read.
THEOREM UnderPolicy == ASSUME Overlap = FALSE PROVE Spec => AdmittedUnderPolicy
<1> DEFINE G(l) == {g \in Grants : /\ g.actor \in {l.payload.actor, Anyone}
                                   /\ l.payload.scope \in g.scopes}
           OK(l) == /\ l.via = "source" => config.source.status = "active"
                    /\ l.via = "session" => session.status = "active" /\ ~session.lapsed
                    /\ l.payload.actor # Owner =>
                        /\ G(l) # {}
                        /\ l.status = "accepted" =>
                            /\ \A g \in G(l) : ~g.quarantine
                            /\ \E g \in G(l) : g.trusted \/ ~g.system
           New == {m \in log' : ~\E k \in log : k.payload = m.payload}
<1>1. Init => TypeOK /\ PolicyInv
  BY InitType DEF Init, PolicyInv
<1>2. TypeOK /\ PolicyInv /\ [Next]_vars => (TypeOK /\ PolicyInv)'
  BY StepType, StepPolicy
<1>3. ASSUME TypeOK, PolicyInv, [Next]_vars PROVE \A l \in New : OK(l)
  <2> USE <1>3
  <2>l. ASSUME NEW a, NEW s, HasGrant(config, a, s), NEW l, l.payload.actor = a, l.payload.scope = s,
               l.status = StatusFor(config, a, s),
               l.via = "source" => config.source.status = "active",
               l.via = "session" => session.status = "active" /\ ~session.lapsed
        PROVE  OK(l)
    <3>1. G(l) = AuthorizingGrants(config, a, s)
      BY <2>l, CoveringGrants
    <3>2. a # Owner => G(l) # {}
      BY <2>l, <3>1, CoveringGrants
    <3>3. a # Owner /\ l.status = "accepted" => /\ \A g \in G(l) : ~g.quarantine
                                              /\ \E g \in G(l) : g.trusted \/ ~g.system
      BY <2>l, <3>1, AcceptedOutright
    <3> HIDE DEF G
    <3> QED
      BY <2>l, <3>2, <3>3
  <2>1. ASSUME NEW a \in Actors, NEW n \in Notes, NEW s \in Scopes, NEW v, Observe(a, n, s, v)
        PROVE  \A l \in New : OK(l)
    <3> DEFINE y == Line(config, Payload(config, a, n, s), IF v THEN "session" ELSE "actor")
    <3>1. log' = log \cup {y} /\ HasGrant(config, a, s)
      BY <2>1 DEF Observe
    <3>2. /\ y.payload.actor = a /\ y.payload.scope = s /\ y.status = StatusFor(config, a, s)
          /\ y.via = IF v THEN "session" ELSE "actor"
      BY DEF Line, Payload
    <3>3. v => session.status = "active" /\ ~session.lapsed
      <4> SUFFICES ASSUME v PROVE session.status = "active" /\ ~session.lapsed
        OBVIOUS
      <4>1. session \in Session /\ Fetched(session).status = "active"
        BY <2>1 DEF Observe, SessionAllows, TypeOK
      <4> QED
        BY <4>1 DEF Fetched, Session
    <3> HIDE DEF y, OK
    <3>4. OK(y)
      BY <3>1, <3>2, <3>3, <2>l
    <3> QED
      BY <3>1, <3>4
  <2>2. ASSUME NEW l \in log, NEW v, QuarantineReview(l, v) PROVE New = {}
    <3>1. [l EXCEPT !.status = v].payload = l.payload
      BY DEF TypeOK, LogLine
    <3> QED
      BY <2>2, <3>1 DEF QuarantineReview
  <2>3. ASSUME NEW c \in Calls, IngestItem(c) PROVE \A l \in New : OK(l)
    <3>1. PICK x \in Items :
              \/ log' = log
              \/ log' = log \cup {Line(calls[c].config,
                            Payload(calls[c].config, calls[c].actor, x, Stream), "source")}
      BY <2>3, ItemStep
    <3> DEFINE y == Line(config, Payload(config, calls[c].actor, x, Stream), "source")
    <3>2. /\ calls[c].config = config /\ config.source.status = "active"
          /\ HasGrant(config, calls[c].actor, Stream)
      BY <2>3 DEF IngestItem, PolicyInv
    <3>3. /\ y.payload.actor = calls[c].actor /\ y.payload.scope = Stream /\ y.via = "source"
          /\ y.status = StatusFor(config, calls[c].actor, Stream)
      BY DEF Line, Payload
    <3>4. log' = log \/ log' = log \cup {y}
      BY <3>1, <3>2
    <3> HIDE DEF y, OK
    <3>5. OK(y)
      BY <3>2, <3>3, <2>l
    <3> QED
      BY <3>4, <3>5
  <2>4. CASE log' = log
    BY <2>4
  <2>5. CASE \E a \in Actors, n \in Notes, s \in Scopes, v \in BOOLEAN : Observe(a, n, s, v)
    <3>1. PICK a \in Actors, n \in Notes, s \in Scopes, v \in BOOLEAN : Observe(a, n, s, v)
      BY Zenon, <2>5
    <3> QED
      BY Zenon, <3>1, <2>1
  <2>6. ~(\E a \in Actors, n \in Notes, s \in Scopes, v \in BOOLEAN : Observe(a, n, s, v))
        /\ ~(\E l \in log, v \in {"accepted", "rejected"} : QuarantineReview(l, v))
        /\ ~(\E c \in Calls : IngestItem(c))
        => log' = log
    BY LogSteps DEF IngestStart, IngestCommit, Die, LoseLedger
  <2>7. CASE \E l \in log, v \in {"accepted", "rejected"} : QuarantineReview(l, v)
    BY <2>2, <2>7
  <2> HIDE DEF OK, New
  <2> QED
    BY <2>3, <2>4, <2>5, <2>6, <2>7
<1>4. TypeOK /\ PolicyInv /\ [Next]_vars => [\A l \in New : OK(l)]_vars
  BY <1>3
<1>5. [\A l \in New : OK(l)]_vars => [\A l \in {m \in log' : ~\E k \in log : k.payload = m.payload} :
        LET H == {g \in Grants : /\ g.actor \in {l.payload.actor, Anyone}
                                 /\ l.payload.scope \in g.scopes}
        IN  /\ l.via = "source" => config.source.status = "active"
            /\ l.via = "session" => session.status = "active" /\ ~session.lapsed
            /\ l.payload.actor # Owner =>
                /\ H # {}
                /\ l.status = "accepted" =>
                    /\ \A g \in H : ~g.quarantine
                    /\ \E g \in H : g.trusted \/ ~g.system]_vars
  OBVIOUS
<1> QED
  BY <1>1, <1>2, <1>4, <1>5, PTL DEF Spec, AdmittedUnderPolicy

\* Every file, table and call in flight keeps its type.
THEOREM TypeCorrect == Spec => []TypeOK
BY InitType, StepType, PTL DEF Spec
=============================================================================
