-------------------------------- MODULE Wiki --------------------------------
(***************************************************************************)
(* What is derived from the claims of one scope, and the one way back: the *)
(* wiki pages the compiler renders (src/src/layer2), the claim lane that   *)
(* RECALL searches (src/src/layer3/search.ts), and ENDORSE, which puts a   *)
(* page and every claim it cites in the person's own voice after a preview *)
(* (src/src/protocol/endorse.ts, src/src/preview_store/store.ts).          *)
(*                                                                         *)
(* The compiler awaits a language model between reading an entity's claims *)
(* and writing its page, and every verb may run in between.  ENDORSE has   *)
(* no await: it is one step, which a crash may cut after any of its        *)
(* writes, and which recovery at the next open completes or leaves.        *)
(*                                                                         *)
(* A page keeps who its author is, the claims it cites (with the prose     *)
(* over them), its endorsement stamp, and the compile that last rendered   *)
(* its timeline: two renders never have the same text, hence the same      *)
(* hash.  A claim keeps its state, whether it is demoted as a duplicate,   *)
(* its version and its voice.                                              *)
(***************************************************************************)
EXTENDS Naturals, FiniteSets

CONSTANTS
    Claims, Entities, Subject,  \* the entity a claim is about
    Citable,                    \* the claims that hand-written pages may cite
    People, PreviewIds, Ops, None,
    Limit,                      \* the rows a search returns (LIMIT 50)
    Uses    \* the uses of the brain that are explored, each with its bounds

\* What a use does besides forgetting and compiling.
Verbs == {"drain", "revive", "revise", "resolve", "repick", "correct",
          "consolidate", "cite", "endorse"}

ASSUME WikiAssumption ==
    /\ Subject \in [Claims -> Entities] /\ Citable \subseteq Claims
    /\ Limit \in Nat \ {0} /\ None \notin Ops \cup {"user"}
    /\ \A u \in Uses : /\ u.verbs \subseteq Verbs
                        /\ {u.ver, u.compiles, u.crashes} \subseteq Nat

VARIABLES
    claim,      \* the latest record of each claim; the store row follows it
    cited,      \* the claims cited by pages written by hand
    page,       \* wiki/<category>/<slug>.md of each entity
    lane,       \* claim_search_index: the claims with a row
    task,       \* the compile in flight: entities left, page being written
    preview,    \* cascade_previews
    intent,     \* the prepared endorsements
    made,       \* the claim versions that carry the operation's id
    log,        \* the endorse entries of the operations log
    up, compiles, crashes,
    use         \* the use that is explored, chosen at the start

vars == <<claim, cited, page, lane, task, preview, intent, made, log, up,
          compiles, crashes, use>>
derived == <<page, task, preview, intent, made, log, compiles>>

NoPage  == [author |-> None, sources |-> {}, stamp |-> None, rev |-> 0]
NoTask  == [todo |-> {}, of |-> None, from |-> {}]

Init ==
    /\ claim = [c \in Claims |->
                  [st |-> "none", dem |-> FALSE, ver |-> 0, voice |-> "agent"]]
    /\ cited = {} /\ page = [e \in Entities |-> NoPage] /\ lane = {}
    /\ task = NoTask
    /\ preview = [i \in PreviewIds |-> [st |-> "none"]]
    /\ intent = [o \in Ops |-> None] /\ made = [o \in Ops |-> {}] /\ log = {}
    /\ up = TRUE /\ compiles = 0 /\ crashes = 0 /\ use \in Uses

-----------------------------------------------------------------------------
(* Claims and the lane.                                                    *)

\* store rows with status active: what a page is rendered from.
ActiveOf(e, cl) ==
    {c \in Claims : Subject[c] = e /\ cl[c].st = "active" /\ ~cl[c].dem}

\* syncSearchFromClaims(): the lane of the scope becomes the indexable set.
Indexable(cl) == {c \in Claims : cl[c].st = "active" /\ ~cl[c].dem}

\* buildAuthorizedClaimSnapshot(): what a default RECALL may serve.
Visible == {c \in Claims : claim[c].st = "active" /\ ~claim[c].dem}

\* searchClaims(): of the rows l that match the query q, Limit at most; which
\* ones is a matter of their rank.
SearchClaims(l, q) ==
    LET hits == l \cap q
    IN  IF Cardinality(hits) <= Limit THEN {hits}
        ELSE {s \in SUBSET hits : Cardinality(s) = Limit}

\* assembleContext(): the snapshot filters what was fetched.
Answers(l, q) == {hits \cap Visible : hits \in SearchClaims(l, q)}

Bumped(c, st, dem, voice) ==
    [st |-> st, dem |-> dem, ver |-> claim[c].ver + 1, voice |-> voice]
CanWrite(C) == up /\ \A c \in C : claim[c].ver < use.ver
Does(v) == v \in use.verbs

\* A verb that ends with syncSearchFromClaims.
Synced(cl) == claim' = cl /\ lane' = Indexable(cl)

\* The claim production of the compile worker: one row is added.
Drain(c) ==
    /\ Does("drain") /\ CanWrite({c}) /\ claim[c].st = "none"
    /\ claim' = [claim EXCEPT ![c] = Bumped(c, "active", FALSE, "agent")]
    /\ lane' = lane \cup {c}
    /\ UNCHANGED <<derived, cited, up, crashes, use>>

\* core.forget: the row is kept; the snapshot filters it.
Forget(c) ==
    /\ CanWrite({c}) /\ claim[c].st = "active"
    /\ claim' = [claim EXCEPT ![c] = Bumped(c, "forgotten", @.dem, @.voice)]
    /\ UNCHANGED <<lane, derived, cited, up, crashes, use>>

\* A mutant of Revive: the lane is not synced again.
ReviveUnsynced(c) ==
    /\ Does("revive") /\ CanWrite({c}) /\ claim[c].st = "forgotten"
    /\ claim' = [claim EXCEPT ![c] = Bumped(c, "active", @.dem, @.voice)]
    /\ UNCHANGED <<lane, derived, cited, up, crashes, use>>

\* core.revive: the claim returns with the voice and the demotion it had.
Revive(c) ==
    /\ Does("revive") /\ CanWrite({c}) /\ claim[c].st = "forgotten"
    /\ Synced([claim EXCEPT ![c] = Bumped(c, "active", @.dem, @.voice)])
    /\ UNCHANGED <<derived, cited, up, crashes, use>>

\* core.revise: a new version of the same text, adopted or not.
Revise(c, adopt) ==
    /\ Does("revise") /\ CanWrite({c}) /\ claim[c].st = "active"
    /\ Synced([claim EXCEPT ![c] =
                 Bumped(c, "active", @.dem, IF adopt THEN "user" ELSE @.voice)])
    /\ UNCHANGED <<derived, cited, up, crashes, use>>

\* resolveFactMatches(), which a host calls on two claims of one fact: the
\* survivor takes the evidence, the other is demoted; the lane is not synced.
Resolve(c, d) ==
    /\ Does("resolve") /\ CanWrite({c, d}) /\ c # d /\ Subject[c] = Subject[d]
    /\ {c, d} \subseteq Visible
    /\ claim' = [claim EXCEPT ![c] = Bumped(c, "active", TRUE, @.voice),
                              ![d] = Bumped(d, "active", FALSE, @.voice)]
    /\ UNCHANGED <<lane, derived, cited, up, crashes, use>>

\* core.revise with repick_survivor: the duplicate and its survivor change
\* places.
Repick(c, d) ==
    /\ Does("repick") /\ CanWrite({c, d}) /\ c # d /\ Subject[c] = Subject[d]
    /\ claim[c].st = "active" /\ claim[c].dem
    /\ claim[d].st = "active" /\ ~claim[d].dem
    /\ Synced([claim EXCEPT ![c] = Bumped(c, "active", FALSE, @.voice),
                            ![d] = Bumped(d, "active", TRUE, @.voice)])
    /\ UNCHANGED <<derived, cited, up, crashes, use>>

\* core.correct: the claim is retracted and a new one takes its place.
Correct(c, d) ==
    /\ Does("correct") /\ CanWrite({c, d}) /\ Subject[c] = Subject[d]
    /\ claim[c].st = "active" /\ claim[d].st = "none"
    /\ Synced([claim EXCEPT ![c] = Bumped(c, "forgotten", @.dem, @.voice),
                            ![d] = Bumped(d, "active", FALSE, "user")])
    /\ UNCHANGED <<derived, cited, up, crashes, use>>

\* core.consolidate: two active claims become one reviewed claim.
Consolidate(b, c, d) ==
    /\ Does("consolidate") /\ CanWrite({b, c, d}) /\ b # c
    /\ claim[b].st = "active" /\ claim[c].st = "active" /\ claim[d].st = "none"
    /\ Synced([claim EXCEPT ![b] = Bumped(b, "forgotten", @.dem, @.voice),
                            ![c] = Bumped(c, "forgotten", @.dem, @.voice),
                            ![d] = Bumped(d, "active", FALSE, "user")])
    /\ UNCHANGED <<derived, cited, up, crashes, use>>

\* A page somebody keeps by hand in the wiki cites a claim, or no longer does.
HandEdit(c) ==
    /\ Does("cite") /\ claim[c].st # "none"
    /\ cited' = IF c \in cited THEN cited \ {c} ELSE cited \cup {c}
    /\ UNCHANGED <<claim, lane, derived, up, crashes, use>>

-----------------------------------------------------------------------------
(* The compiler.                                                           *)

\* findFactIdentityMatch(): a fact that a live claim holds corroborates it, so
\* what is produced is claims that did not exist.
Producible(new) == \A c \in new : claim[c].st = "none"

\* reflectAutoCreateClaims() and the sync of what it committed.
Reflected(new) ==
    [c \in Claims |-> IF c \in new THEN Bumped(c, "active", FALSE, "agent")
                      ELSE claim[c]]

\* compile() up to the page loop: every entity is to be looked at.
Gathered == [NoTask EXCEPT !.todo = Entities]

\* handleCompile(): claims are produced, at most one here, and the lane is
\* synced before any page is written.
Compile(new) ==
    /\ up /\ task = NoTask /\ compiles < use.compiles
    /\ Producible(new)
    /\ Synced(Reflected(new))
    /\ task' = Gathered
    /\ compiles' = compiles + 1
    /\ UNCHANGED <<page, preview, intent, made, log, cited, up, crashes, use>>

\* The claims of an entity are read, and the model is asked for the prose.
CompileReads(e) ==
    /\ up /\ e \in task.todo /\ task.of = None /\ ActiveOf(e, claim) # {}
    /\ task' = [todo |-> task.todo \ {e}, of |-> e, from |-> ActiveOf(e, claim)]
    /\ UNCHANGED <<claim, lane, page, preview, intent, made, log, compiles,
                   cited, up, crashes, use>>

\* A mutant of Rendered: a recompile cites what it was rendered from.
RenderedAnew(old, from) ==
    [author |-> IF old.author = "user" THEN "user" ELSE "agent",
     sources |-> from, stamp |-> old.stamp, rev |-> compiles]

\* Voice protection: on a page whose author is the user the prose and the
\* cited claims stay; the endorsement stamp is carried forward on any page.
Rendered(old, from) ==
    [author |-> IF old.author = "user" THEN "user" ELSE "agent",
     sources |-> IF old.author = "user" THEN old.sources ELSE from,
     stamp |-> old.stamp, rev |-> compiles]

\* The answer is back (or failed: the templates take the same claims); the
\* page on disk is read only now, and written.
CompileWrites ==
    /\ up /\ task.of # None
    /\ page' = [page EXCEPT ![task.of] = Rendered(@, task.from)]
    /\ task' = [task EXCEPT !.of = None, !.from = {}]
    /\ UNCHANGED <<claim, lane, preview, intent, made, log, compiles, cited,
                   up, crashes, use>>

\* An entity without an active claim is skipped: its old page stays.
CompileEnds ==
    /\ up /\ task # NoTask /\ task.of = None
    /\ \A e \in task.todo : ActiveOf(e, claim) = {}
    /\ task' = NoTask
    /\ UNCHANGED <<claim, lane, page, preview, intent, made, log, compiles,
                   cited, up, crashes, use>>

-----------------------------------------------------------------------------
(* Previews and endorsement.                                               *)

\* The cited claims of a page that some other page cites too.
Shared(e) ==
    page[e].sources \cap
        (cited \cup UNION {page[f].sources : f \in Entities \ {e}})

\* ENDORSE with dry_run: the cascade is shown and kept for the commit.
DryRun(w, e, i) ==
    /\ Does("endorse") /\ up /\ page[e] # NoPage /\ preview[i].st = "none"
    /\ preview' = [preview EXCEPT ![i] =
                     [st |-> "live", who |-> w, page |-> e,
                      sources |-> page[e].sources, shared |-> Shared(e)]]
    /\ UNCHANGED <<claim, lane, page, task, intent, made, log, compiles, cited,
                   up, crashes, use>>

\* Five minutes pass.
Expire(i) ==
    /\ preview[i].st = "live"
    /\ preview' = [preview EXCEPT ![i].st = "expired"]
    /\ UNCHANGED <<claim, lane, page, task, intent, made, log, compiles, cited,
                   up, crashes, use>>

\* gc(): an expired row goes, and a consumed one a day later.
Gc(i) ==
    /\ up /\ preview[i].st \in {"expired", "consumed"}
    /\ preview' = [preview EXCEPT ![i].st = "deleted"]
    /\ UNCHANGED <<claim, lane, page, task, intent, made, log, compiles, cited,
                   up, crashes, use>>

\* consume(): only a preview that is still live.
Consumed(i) ==
    IF i # None /\ preview[i].st = "live"
    THEN [preview EXCEPT ![i].st = "consumed"] ELSE preview

\* A mutant of Acknowledged: only the cited claims are compared.
AcknowledgedSources(w, e, i) ==
    /\ Shared(e) # {} => i # None
    /\ i # None => /\ preview[i].st = "live"
                   /\ preview[i].page = e /\ preview[i].who = w
                   /\ preview[i].sources = page[e].sources

\* Shared claims need a preview, and a named preview must be live, of this
\* page and person, and show what the page cites and shares now.
Acknowledged(w, e, i) ==
    /\ Shared(e) # {} => i # None
    /\ i # None => /\ preview[i].st = "live"
                   /\ preview[i].page = e /\ preview[i].who = w
                   /\ preview[i].sources = page[e].sources
                   /\ preview[i].shared = Shared(e)

\* The stamped page, and the endorsed versions of the claims it cites.
Endorsed(e, o) == [page[e] EXCEPT !.author = "user", !.stamp = o]
Versions(e, o) ==
    [c \in page[e].sources |-> IF c \in made[o] THEN intent[o].claims[c]
                               ELSE claim[c].ver + 1]

\* recovery.ts: the artifacts of a prepared endorsement, whole and exact.
Exact(o) ==
    /\ made[o] = DOMAIN intent[o].claims
    /\ page[intent[o].of] = intent[o].page
\* Its page carries the stamp but is not the prepared text.
ManualReview(o) ==
    page[intent[o].of].stamp = o /\ page[intent[o].of] # intent[o].page

\* The order of ENDORSE's writes: the intent, the claim versions, the page,
\* the entry, the preview.  A mutant of the second: the page goes first.
ClaimsAtLate == 4
ClaimsAt == 2
PageAt   == 3
EntryAt  == 4
AllDone  == 5

Entry(o, i) ==
    [op |-> o, who |-> i.w, page |-> i.of, via |-> i.via, shared |-> i.shared,
     text |-> i.page]

\* ENDORSE by w of page e through preview i as operation o, cut by a crash
\* after its k-th write.  A retry continues only what it finds prepared, with
\* the same payload and the same expected artifacts.
Endorse(w, e, i, o, k) ==
    LET src == page[e].sources
        new == [w |-> w, of |-> e, via |-> i, shared |-> Shared(e),
                page |-> Endorsed(e, o), claims |-> Versions(e, o)]
        miss == src \ made[o]
    IN  /\ Does("endorse") /\ up /\ page[e] # NoPage
        /\ k < AllDone => crashes < use.crashes
        /\ ~\E x \in log : x.op = o
        /\ intent[o] # None =>
             intent[o] = [new EXCEPT !.shared = intent[o].shared]
        /\ intent[o] # None => ~ManualReview(o)
        /\ Acknowledged(w, e, i)
        /\ \A c \in miss : claim[c].st = "active"
        /\ CanWrite(miss)
        /\ intent' = [intent EXCEPT ![o] = IF k = AllDone THEN None ELSE new]
        /\ IF k >= ClaimsAt
           THEN /\ claim' = [c \in Claims |-> IF c \in miss
                               THEN Bumped(c, "active", claim[c].dem, "user")
                               ELSE claim[c]]
                /\ made' = [made EXCEPT ![o] = src]
           ELSE UNCHANGED <<claim, made>>
        /\ page' = IF k >= PageAt THEN [page EXCEPT ![e] = Endorsed(e, o)]
                   ELSE page
        /\ log' = IF k >= EntryAt
                  THEN log \cup {Entry(o, new)} ELSE log
        /\ preview' = IF k = AllDone THEN Consumed(i) ELSE preview
        /\ up' = (k = AllDone)
        /\ crashes' = IF k = AllDone THEN crashes ELSE crashes + 1
        /\ task' = IF k = AllDone THEN task ELSE NoTask
        /\ UNCHANGED <<lane, compiles, cited, use>>

\* committedResult(): the entry is found, the page still has the text it was
\* committed with, and the preview is consumed now if it was not before.
EndorseReplayed(x) ==
    /\ up /\ x \in log /\ page[x.page] = x.text
    /\ x.via # None /\ preview[x.via].st = "live"
    /\ preview' = Consumed(x.via)
    /\ UNCHANGED <<claim, lane, page, task, intent, made, log, compiles, cited,
                   up, crashes, use>>

\* The process dies between two steps; a compile in flight is lost.
Crash ==
    /\ up /\ crashes < use.crashes
    /\ up' = FALSE /\ crashes' = crashes + 1 /\ task' = NoTask
    /\ UNCHANGED <<claim, lane, page, preview, intent, made, log, compiles,
                   cited, use>>

\* open(): recovery finalises the exact sets and drops committed intents, the
\* lane is synced, expired previews are swept.
Open ==
    LET held(o)  == intent[o] # None
        done(o)  == held(o) /\ Exact(o)
    IN  /\ ~up /\ up' = TRUE
        /\ log' = log \cup
             {Entry(o, intent[o]) : o \in {q \in Ops : done(q) /\ ~\E x \in log : x.op = q}}
        /\ intent' = [o \in Ops |-> IF done(o) THEN None ELSE intent[o]]
        /\ lane' = Indexable(claim)
        /\ preview' = [i \in PreviewIds |->
             IF preview[i].st = "expired" THEN [preview[i] EXCEPT !.st = "deleted"]
             ELSE preview[i]]
        /\ UNCHANGED <<claim, cited, page, task, made, compiles, crashes, use>>

-----------------------------------------------------------------------------
Next ==
    \/ \E c \in Claims : Drain(c) \/ Forget(c) \/ Revive(c)
    \/ \E c \in Claims, adopt \in BOOLEAN : Revise(c, adopt)
    \/ \E c, d \in Claims : Resolve(c, d) \/ Repick(c, d) \/ Correct(c, d)
    \/ \E b, c, d \in Claims : Consolidate(b, c, d)
    \/ \E c \in Citable : HandEdit(c)
    \/ \E new \in {s \in SUBSET Claims : Cardinality(s) <= 1} : Compile(new)
    \/ \E e \in Entities : CompileReads(e)
    \/ CompileWrites \/ CompileEnds
    \/ \E w \in People, e \in Entities, i \in PreviewIds : DryRun(w, e, i)
    \/ \E i \in PreviewIds : Expire(i) \/ Gc(i)
    \/ \E w \in People, e \in Entities, i \in PreviewIds \cup {None}, o \in Ops,
          k \in 1 .. AllDone : Endorse(w, e, i, o, k)
    \/ \E x \in log : EndorseReplayed(x)
    \/ Crash \/ Open

Spec == Init /\ [][Next]_vars

-----------------------------------------------------------------------------
(* Properties.                                                             *)

\* A recompile never takes a page out of the person's voice, changes what it
\* cites or loses its endorsement, also when the endorsement lands while the
\* compiler awaits the model (compiler.ts, voice protection; reflect.ts).
VoiceKept ==
    [][\A e \in Entities : page[e].author = "user" =>
          /\ page'[e].author = "user" /\ page'[e].sources = page[e].sources
          /\ page'[e].stamp # None]_vars

\* A page in the person's voice cites only claims in the person's voice: a
\* crash inside ENDORSE, and every later verb on the claims, leaves no page
\* that vouches for what nobody endorsed (endorse.ts, the order of writes).
VoiceBacked ==
    \A e \in Entities : page[e].author = "user" =>
        \A c \in page[e].sources : claim[c].voice = "user"

\* Whoever's endorsement changed claims that another page cites had seen
\* exactly those claims in a preview of that page, whether the operation
\* committed in one go or was finished by recovery (endorse.ts, the drift
\* check; store.ts lookup).
SharedAcknowledged ==
    \A x \in log : x.shared # {} =>
        /\ x.via # None
        /\ preview[x.via].page = x.page /\ preview[x.via].who = x.who
        /\ preview[x.via].shared = x.shared

\* What RECALL serves from the live lane is what it would serve after a
\* restart rebuilt the lane, for every query (core.ts, the re-syncs of
\* correct, revise, revive and consolidate; forget_scope.ts, the kept rows).
RecallAsRebuilt ==
    \A q \in SUBSET Claims : Answers(lane, q) = Answers(Indexable(claim), q)
=============================================================================
