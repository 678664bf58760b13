----------------------------- MODULE WikiProofs -----------------------------
(***************************************************************************)
(* What Wiki promises for any claims, entities, people, previews and uses  *)
(* of the brain.                                                           *)
(***************************************************************************)
EXTENDS Wiki, FiniteSetTheorems, TLAPS

-----------------------------------------------------------------------------
(* Types.                                                                  *)

Record == [st : {"none", "active", "forgotten"}, dem : BOOLEAN, ver : Nat,
           voice : {"agent", "user"}]
Page   == [author : {None, "user", "agent"}, sources : SUBSET Claims,
           stamp : Ops \cup {None}, rev : Nat]
Task   == [todo : SUBSET Entities, of : Entities \cup {None}, from : SUBSET Claims]
Shown  == [st : {"live", "expired", "consumed", "deleted"}, who : People, page : Entities,
           sources : SUBSET Claims, shared : SUBSET Claims]
Vias   == PreviewIds \cup {None}
Logged == [op : Ops, who : People, page : Entities, via : Vias, shared : SUBSET Claims, text : Page]

TypeOK ==
    /\ claim \in [Claims -> Record] /\ cited \subseteq Claims
    /\ page \in [Entities -> Page] /\ lane \subseteq Claims /\ task \in Task
    /\ preview \in [PreviewIds -> [st : {"none"}] \cup Shown]
    /\ DOMAIN intent = Ops
    /\ \A o \in Ops : intent[o] # None =>
          /\ intent[o].w \in People /\ intent[o].of \in Entities /\ intent[o].via \in Vias
          /\ intent[o].shared \subseteq Claims /\ intent[o].page \in Page
    /\ made \in [Ops -> SUBSET Claims] /\ log \subseteq Logged
    /\ up \in BOOLEAN /\ compiles \in Nat /\ crashes \in Nat /\ use \in Uses

\* What becomes of the record of a claim: it does not vanish, and stays in the
\* person's voice once it is.
Succ(r, s) ==
    /\ s \in Record /\ s.st # "none"
    /\ r.st # "none" /\ r.voice = "user" => s.voice = "user"
ClaimStep == \A c \in Claims : claim'[c] = claim[c] \/ Succ(claim[c], claim'[c])

\* A new version of a claim is a successor where it keeps the voice.
LEMMA BumpedSucc ==
    ASSUME TypeOK, NEW c \in Claims, NEW st \in {"active", "forgotten"}, NEW dem \in BOOLEAN,
           NEW voice \in {"agent", "user"},
           claim[c].st # "none" /\ claim[c].voice = "user" => voice = "user"
    PROVE  Succ(claim[c], Bumped(c, st, dem, voice))
BY DEF Bumped, Succ, Record, TypeOK

\* The parts of a claim's record.
LEMMA ClaimParts ==
    ASSUME TypeOK, NEW c \in Claims
    PROVE  claim[c].dem \in BOOLEAN /\ claim[c].voice \in {"agent", "user"}
BY DEF TypeOK, Record

\* One claim is written.
LEMMA WriteOne ==
    ASSUME TypeOK, NEW c \in Claims, NEW r, Succ(claim[c], r), claim' = [claim EXCEPT ![c] = r]
    PROVE  ClaimStep /\ claim' \in [Claims -> Record]
BY DEF ClaimStep, Succ, TypeOK

\* Two claims.
LEMMA WriteTwo ==
    ASSUME TypeOK, NEW c \in Claims, NEW d \in Claims, c # d, NEW r, Succ(claim[c], r),
           NEW s, Succ(claim[d], s), claim' = [claim EXCEPT ![c] = r, ![d] = s]
    PROVE  ClaimStep /\ claim' \in [Claims -> Record]
BY DEF ClaimStep, Succ, TypeOK

\* Three claims.
LEMMA WriteThree ==
    ASSUME TypeOK, NEW b \in Claims, NEW c \in Claims, NEW d \in Claims, b # c, b # d, c # d,
           NEW q, Succ(claim[b], q), NEW r, Succ(claim[c], r), NEW s, Succ(claim[d], s),
           claim' = [claim EXCEPT ![b] = q, ![c] = r, ![d] = s]
    PROVE  ClaimStep /\ claim' \in [Claims -> Record]
BY DEF ClaimStep, Succ, TypeOK

\* Every verb writes successors of the claims it touches.
LEMMA ClaimSteps == ASSUME TypeOK, [Next]_vars PROVE ClaimStep /\ claim' \in [Claims -> Record]
<1>0. CASE claim' = claim
  BY <1>0 DEF ClaimStep, TypeOK
<1>1. ASSUME NEW c \in Claims, Drain(c) PROVE ClaimStep /\ claim' \in [Claims -> Record]
  <2>1. Succ(claim[c], Bumped(c, "active", FALSE, "agent"))
    BY <1>1, BumpedSucc DEF Drain
  <2> QED
    BY <1>1, <2>1, WriteOne DEF Drain
<1>2. ASSUME NEW c \in Claims, Forget(c) PROVE ClaimStep /\ claim' \in [Claims -> Record]
  <2>1. Succ(claim[c], Bumped(c, "forgotten", claim[c].dem, claim[c].voice))
    BY BumpedSucc, ClaimParts
  <2> QED
    BY <1>2, <2>1, WriteOne DEF Forget
<1>3. ASSUME NEW c \in Claims, Revive(c) PROVE ClaimStep /\ claim' \in [Claims -> Record]
  <2>1. Succ(claim[c], Bumped(c, "active", claim[c].dem, claim[c].voice))
    BY BumpedSucc, ClaimParts
  <2> QED
    BY <1>3, <2>1, WriteOne DEF Revive, Synced
<1>4. ASSUME NEW c \in Claims, NEW adopt, Revise(c, adopt) PROVE ClaimStep /\ claim' \in [Claims -> Record]
  <2>1. Succ(claim[c], Bumped(c, "active", claim[c].dem, IF adopt THEN "user" ELSE claim[c].voice))
    BY BumpedSucc, ClaimParts
  <2> QED
    BY <1>4, <2>1, WriteOne DEF Revise, Synced
<1>5. ASSUME NEW c \in Claims, NEW d \in Claims, Resolve(c, d) PROVE ClaimStep /\ claim' \in [Claims -> Record]
  <2>1. Succ(claim[c], Bumped(c, "active", TRUE, claim[c].voice))
        /\ Succ(claim[d], Bumped(d, "active", FALSE, claim[d].voice))
    BY BumpedSucc, ClaimParts
  <2>2. c # d /\ claim' = [claim EXCEPT ![c] = Bumped(c, "active", TRUE, claim[c].voice),
                                        ![d] = Bumped(d, "active", FALSE, claim[d].voice)]
    BY <1>5 DEF Resolve, TypeOK
  <2> QED
    BY <2>1, <2>2, WriteTwo
<1>6. ASSUME NEW c \in Claims, NEW d \in Claims, Repick(c, d) PROVE ClaimStep /\ claim' \in [Claims -> Record]
  <2>1. Succ(claim[c], Bumped(c, "active", FALSE, claim[c].voice))
        /\ Succ(claim[d], Bumped(d, "active", TRUE, claim[d].voice))
    BY BumpedSucc, ClaimParts
  <2>2. c # d /\ claim' = [claim EXCEPT ![c] = Bumped(c, "active", FALSE, claim[c].voice),
                                        ![d] = Bumped(d, "active", TRUE, claim[d].voice)]
    BY <1>6 DEF Repick, Synced, TypeOK
  <2> QED
    BY <2>1, <2>2, WriteTwo
<1>7. ASSUME NEW c \in Claims, NEW d \in Claims, Correct(c, d) PROVE ClaimStep /\ claim' \in [Claims -> Record]
  <2>1. Succ(claim[c], Bumped(c, "forgotten", claim[c].dem, claim[c].voice))
        /\ Succ(claim[d], Bumped(d, "active", FALSE, "user"))
    BY BumpedSucc, ClaimParts
  <2>2. c # d /\ claim' = [claim EXCEPT ![c] = Bumped(c, "forgotten", claim[c].dem, claim[c].voice),
                                        ![d] = Bumped(d, "active", FALSE, "user")]
    BY <1>7 DEF Correct, Synced, TypeOK
  <2> QED
    BY <2>1, <2>2, WriteTwo
<1>8. ASSUME NEW b \in Claims, NEW c \in Claims, NEW d \in Claims, Consolidate(b, c, d)
      PROVE  ClaimStep /\ claim' \in [Claims -> Record]
  <2>1. Succ(claim[b], Bumped(b, "forgotten", claim[b].dem, claim[b].voice))
        /\ Succ(claim[c], Bumped(c, "forgotten", claim[c].dem, claim[c].voice))
        /\ Succ(claim[d], Bumped(d, "active", FALSE, "user"))
    BY BumpedSucc, ClaimParts
  <2>2. /\ b # c /\ b # d /\ c # d
        /\ claim' = [claim EXCEPT ![b] = Bumped(b, "forgotten", claim[b].dem, claim[b].voice),
                                  ![c] = Bumped(c, "forgotten", claim[c].dem, claim[c].voice),
                                  ![d] = Bumped(d, "active", FALSE, "user")]
    BY <1>8 DEF Consolidate, Synced, TypeOK
  <2> QED
    BY <2>1, <2>2, WriteThree
<1>9. ASSUME NEW new \in SUBSET Claims, Compile(new) PROVE ClaimStep /\ claim' \in [Claims -> Record]
  <2>1. \A c \in new : claim[c].st = "none"
    BY <1>9 DEF Compile, Producible
  <2>2. \A c \in new : Succ(claim[c], Bumped(c, "active", FALSE, "agent"))
    BY <2>1, BumpedSucc
  <2>3. claim' = [c \in Claims |-> IF c \in new THEN Bumped(c, "active", FALSE, "agent") ELSE claim[c]]
    BY <1>9 DEF Compile, Synced, Reflected
  <2> QED
    BY <2>2, <2>3 DEF ClaimStep, Succ, TypeOK
<1>10. ASSUME NEW w \in People, NEW e \in Entities, NEW i \in Vias, NEW o \in Ops, NEW k \in 1..AllDone,
              Endorse(w, e, i, o, k)
       PROVE  ClaimStep /\ claim' \in [Claims -> Record]
  <2> DEFINE miss == page[e].sources \ made[o]
  <2>1. miss \subseteq Claims
    BY DEF TypeOK, Page
  <2>2. \A c \in miss : Succ(claim[c], Bumped(c, "active", claim[c].dem, "user"))
    BY <2>1, BumpedSucc, ClaimParts
  <2>3. \/ claim' = claim
        \/ claim' = [c \in Claims |-> IF c \in miss THEN Bumped(c, "active", claim[c].dem, "user")
                                      ELSE claim[c]]
    BY <1>10 DEF Endorse
  <2> HIDE DEF miss
  <2> QED
    BY <1>0, <2>1, <2>2, <2>3 DEF ClaimStep, Succ, TypeOK
<1>11. CASE \E c \in Claims, adopt \in BOOLEAN : Revise(c, adopt)
  <2>1. PICK c \in Claims, adopt \in BOOLEAN : Revise(c, adopt)
    BY Zenon, <1>11
  <2> QED
    BY Zenon, <2>1, <1>4
<1>12. \/ claim' = claim
       \/ \E c \in Claims : Drain(c) \/ Forget(c) \/ Revive(c)
       \/ \E c \in Claims, adopt \in BOOLEAN : Revise(c, adopt)
       \/ \E c, d \in Claims : Resolve(c, d) \/ Repick(c, d) \/ Correct(c, d)
       \/ \E b, c, d \in Claims : Consolidate(b, c, d)
       \/ \E new \in SUBSET Claims : Compile(new)
       \/ \E w \in People, e \in Entities, i \in Vias, o \in Ops, k \in 1 .. AllDone :
            Endorse(w, e, i, o, k)
  BY DEF Next, vars, HandEdit, CompileReads, CompileWrites, CompileEnds, DryRun, Expire, Gc,
     EndorseReplayed, Crash, Open, Vias
<1> HIDE DEF ClaimStep
<1> QED
  BY <1>0, <1>1, <1>2, <1>3, <1>5, <1>6, <1>7, <1>8, <1>9, <1>10, <1>11, <1>12

\* The steps, those that only change claims, citations and the lane apart.
LEMMA Steps ==
    ASSUME TypeOK, [Next]_vars
    PROVE  \/ UNCHANGED <<derived, up, crashes, use>> /\ lane' \subseteq Claims /\ cited' \subseteq Claims
           \/ \E new \in SUBSET Claims : Compile(new)
           \/ \E e \in Entities : CompileReads(e)
           \/ CompileWrites \/ CompileEnds
           \/ \E w \in People, e \in Entities, i \in PreviewIds : DryRun(w, e, i)
           \/ \E i \in PreviewIds : Expire(i) \/ Gc(i)
           \/ \E w \in People, e \in Entities, i \in Vias, o \in Ops, k \in 1 .. AllDone :
                Endorse(w, e, i, o, k)
           \/ \E x \in log : EndorseReplayed(x)
           \/ Crash \/ Open
<1> DEFINE Q == UNCHANGED <<derived, up, crashes, use>> /\ lane' \subseteq Claims /\ cited' \subseteq Claims
<1>1. ASSUME NEW c \in Claims, Drain(c) \/ Forget(c) \/ Revive(c) PROVE Q
  BY <1>1 DEF Drain, Forget, Revive, Synced, Indexable, TypeOK
<1>2. ASSUME NEW c \in Claims, NEW adopt, Revise(c, adopt) PROVE Q
  BY <1>2 DEF Revise, Synced, Indexable, TypeOK
<1>3. ASSUME NEW c \in Claims, NEW d \in Claims, Resolve(c, d) \/ Repick(c, d) \/ Correct(c, d) PROVE Q
  BY <1>3 DEF Resolve, Repick, Correct, Synced, Indexable, TypeOK
<1>4. ASSUME NEW b \in Claims, NEW c \in Claims, NEW d \in Claims, Consolidate(b, c, d) PROVE Q
  BY <1>4 DEF Consolidate, Synced, Indexable, TypeOK
<1>5. ASSUME NEW c \in Citable, HandEdit(c) PROVE Q
  BY <1>5, WikiAssumption DEF HandEdit, TypeOK
<1>6. CASE UNCHANGED vars
  BY <1>6 DEF vars, derived, TypeOK
<1>7. CASE \E c \in Claims, adopt \in BOOLEAN : Revise(c, adopt)
  <2>1. PICK c \in Claims, adopt \in BOOLEAN : Revise(c, adopt)
    BY Zenon, <1>7
  <2> QED
    BY Zenon, <2>1, <1>2
<1> HIDE DEF Q
<1>8. Q \/ ~Q
  OBVIOUS
<1>9. CASE ~Q
  BY <1>9, <1>1, <1>3, <1>4, <1>5, <1>6, <1>7 DEF Next, Vias
<1> QED
  BY <1>9 DEF Q

\* The preview that a committed endorsement consumes keeps what it showed.
LEMMA ConsumedType ==
    ASSUME TypeOK, NEW i
    PROVE  Consumed(i) \in [PreviewIds -> [st : {"none"}] \cup Shown]
<1>1. CASE i \in PreviewIds /\ preview[i].st = "live"
  <2>1. preview[i] \in Shown
    BY <1>1 DEF TypeOK
  <2>2. [preview[i] EXCEPT !.st = "consumed"] \in Shown
    BY <2>1 DEF Shown
  <2> QED
    BY <1>1, <2>2 DEF Consumed, TypeOK
<1>2. CASE ~(i \in PreviewIds /\ preview[i].st = "live")
  BY <1>2 DEF Consumed, TypeOK
<1> QED
  BY <1>1, <1>2

\* A page that is endorsed is in the person's voice and cites what it cited.
LEMMA EndorsedPage ==
    ASSUME TypeOK, NEW e \in Entities, NEW o \in Ops
    PROVE  /\ Endorsed(e, o) \in Page
           /\ Endorsed(e, o).author = "user" /\ Endorsed(e, o).stamp = o
           /\ Endorsed(e, o).sources = page[e].sources
<1> DEFINE p == page[e]
<1>1. p \in Page
  BY DEF TypeOK
<1>2. Endorsed(e, o) = [p EXCEPT !.author = "user", !.stamp = o]
  BY DEF Endorsed
<1> HIDE DEF p
<1> QED
  BY <1>1, <1>2 DEF Page, p

\* A recompiled page keeps the voice, the stamp and, in the person's voice, the
\* claims it cites.
LEMMA RenderedPage ==
    ASSUME TypeOK, NEW e \in Entities, NEW from \in SUBSET Claims
    PROVE  /\ Rendered(page[e], from) \in Page
           /\ Rendered(page[e], from).author = "user" <=> page[e].author = "user"
           /\ Rendered(page[e], from).stamp = page[e].stamp
           /\ page[e].author = "user" => Rendered(page[e], from).sources = page[e].sources
<1> DEFINE p == page[e]
<1>1. p \in Page /\ compiles \in Nat
  BY DEF TypeOK
<1> HIDE DEF p
<1>2. /\ Rendered(p, from) \in Page
      /\ Rendered(p, from).author = "user" <=> p.author = "user"
      /\ Rendered(p, from).stamp = p.stamp
      /\ p.author = "user" => Rendered(p, from).sources = p.sources
  BY <1>1 DEF Rendered, Page
<1> QED
  BY <1>2 DEF p

\* What an endorsement with the intent new, cut at any write, does to
\* everything but the claims.
EndorseWrites(w, e, i, o, k, new) ==
    /\ new.w = w /\ new.of = e /\ new.via = i /\ new.shared = Shared(e) /\ new.page = Endorsed(e, o)
    /\ Acknowledged(w, e, i)
    /\ intent' = [intent EXCEPT ![o] = IF k = AllDone THEN None ELSE new]
    /\ \/ k >= ClaimsAt /\ made' = [made EXCEPT ![o] = page[e].sources]
       \/ k < ClaimsAt /\ made' = made
    /\ page' = IF k >= PageAt THEN [page EXCEPT ![e] = Endorsed(e, o)] ELSE page
    /\ log' = log \/ log' = log \cup {Entry(o, new)}
    /\ preview' = preview \/ preview' = Consumed(i)
    /\ up' \in BOOLEAN /\ crashes' \in Nat
    /\ task' = task \/ task' = NoTask
    /\ UNCHANGED <<lane, compiles, cited, use>>

\* Every endorsement has these effects.
LEMMA EndorseEffect ==
    ASSUME TypeOK, NEW w \in People, NEW e \in Entities, NEW i \in Vias, NEW o \in Ops,
           NEW k \in 1..AllDone, Endorse(w, e, i, o, k)
    PROVE  \E new : EndorseWrites(w, e, i, o, k, new)
<1> DEFINE new == [w |-> w, of |-> e, via |-> i, shared |-> Shared(e),
                   page |-> Endorsed(e, o), claims |-> Versions(e, o)]
<1> SUFFICES EndorseWrites(w, e, i, o, k, new)
  OBVIOUS
<1>1. /\ new.w = w /\ new.of = e /\ new.via = i /\ new.shared = Shared(e)
      /\ new.page = Endorsed(e, o)
  OBVIOUS
<1>2. /\ Acknowledged(w, e, i)
      /\ intent' = [intent EXCEPT ![o] = IF k = AllDone THEN None ELSE new]
      /\ IF k >= ClaimsAt THEN made' = [made EXCEPT ![o] = page[e].sources] ELSE made' = made
      /\ page' = IF k >= PageAt THEN [page EXCEPT ![e] = Endorsed(e, o)] ELSE page
      /\ log' = IF k >= EntryAt THEN log \cup {Entry(o, new)} ELSE log
      /\ preview' = IF k = AllDone THEN Consumed(i) ELSE preview
      /\ up' = (k = AllDone)
      /\ crashes' = IF k = AllDone THEN crashes ELSE crashes + 1
      /\ task' = IF k = AllDone THEN task ELSE NoTask
      /\ UNCHANGED <<lane, compiles, cited, use>>
  BY DEF Endorse
<1> HIDE DEF new
<1>3. up' \in BOOLEAN /\ crashes' \in Nat
  BY <1>2 DEF TypeOK
<1>4. k >= ClaimsAt \/ k < ClaimsAt
  BY DEF ClaimsAt, AllDone
<1> QED
  BY <1>1, <1>2, <1>3, <1>4 DEF EndorseWrites

\* The state at the start is well typed.
LEMMA InitType == Init => TypeOK
<1> SUFFICES ASSUME Init PROVE TypeOK
  OBVIOUS
<1>1. claim \in [Claims -> Record]
  BY DEF Init, Record
<1>2. page \in [Entities -> Page] /\ task \in Task
  BY DEF Init, NoPage, NoTask, Page, Task
<1>3. preview \in [PreviewIds -> [st : {"none"}] \cup Shown]
  BY DEF Init
<1>4. /\ DOMAIN intent = Ops /\ \A o \in Ops : ~(intent[o] # None)
      /\ made \in [Ops -> SUBSET Claims]
  BY DEF Init
<1> QED
  BY <1>1, <1>2, <1>3, <1>4 DEF Init, TypeOK

\* Every verb, the compiler, a crash and an open keep the state well typed.
LEMMA StepType == TypeOK /\ [Next]_vars => TypeOK'
<1> SUFFICES ASSUME TypeOK, [Next]_vars PROVE TypeOK'
  OBVIOUS
<1>c. claim' \in [Claims -> Record]
  BY ClaimSteps
<1> DEFINE IntentsOK == /\ DOMAIN intent = Ops
                        /\ \A o \in Ops : intent[o] # None =>
                              /\ intent[o].w \in People /\ intent[o].of \in Entities
                              /\ intent[o].via \in Vias
                              /\ intent[o].shared \subseteq Claims /\ intent[o].page \in Page
           PreviewsOK == preview \in [PreviewIds -> [st : {"none"}] \cup Shown]
<1>i. UNCHANGED intent => IntentsOK'
  BY DEF TypeOK
<1>0. CASE UNCHANGED <<derived, up, crashes, use>> /\ lane' \subseteq Claims /\ cited' \subseteq Claims
  BY <1>0, <1>c, <1>i DEF derived, TypeOK
<1>1. ASSUME NEW new \in SUBSET Claims, Compile(new) PROVE TypeOK'
  <2>1. lane' \subseteq Claims /\ task' \in Task /\ compiles' \in Nat
    BY <1>1 DEF Compile, Synced, Indexable, Gathered, NoTask, Task, TypeOK
  <2> QED
    BY <1>1, <1>c, <1>i, <2>1 DEF Compile, TypeOK
<1>2. ASSUME NEW e \in Entities, CompileReads(e) PROVE TypeOK'
  <2>1. task' \in Task
    BY <1>2 DEF CompileReads, ActiveOf, Task, TypeOK
  <2> QED
    BY <1>2, <1>i, <2>1 DEF CompileReads, TypeOK
<1>3. CASE CompileWrites
  <2>1. task.of \in Entities /\ task.from \in SUBSET Claims
    BY <1>3 DEF CompileWrites, TypeOK, Task
  <2>2. page' \in [Entities -> Page]
    BY <1>3, <2>1, RenderedPage DEF CompileWrites, TypeOK
  <2>3. task' \in Task
    BY <1>3 DEF CompileWrites, TypeOK, Task
  <2> QED
    BY <1>3, <1>i, <2>2, <2>3 DEF CompileWrites, TypeOK
<1>4. CASE CompileEnds
  <2>1. task' \in Task
    BY <1>4 DEF CompileEnds, NoTask, Task
  <2> QED
    BY <1>4, <1>i, <2>1 DEF CompileEnds, TypeOK
<1>5. ASSUME NEW w \in People, NEW e \in Entities, NEW i \in PreviewIds, DryRun(w, e, i) PROVE TypeOK'
  <2>1. page[e].sources \subseteq Claims /\ Shared(e) \subseteq Claims
    BY DEF Shared, TypeOK, Page
  <2>2. [st |-> "live", who |-> w, page |-> e, sources |-> page[e].sources, shared |-> Shared(e)] \in Shown
    BY <2>1 DEF Shown
  <2>3. PreviewsOK'
    BY <1>5, <2>2 DEF DryRun, TypeOK
  <2> QED
    BY <1>5, <1>i, <2>3 DEF DryRun, TypeOK
<1>6. ASSUME NEW i \in PreviewIds, Expire(i) \/ Gc(i) PROVE TypeOK'
  <2>1. preview[i] \in Shown
    BY <1>6 DEF Expire, Gc, TypeOK
  <2>2. \A st \in {"expired", "deleted"} : [preview[i] EXCEPT !.st = st] \in Shown
    BY <2>1 DEF Shown
  <2>3. PreviewsOK'
    BY <1>6, <2>2 DEF Expire, Gc, TypeOK
  <2> QED
    BY <1>6, <1>i, <2>3 DEF Expire, Gc, TypeOK
<1>7. ASSUME NEW w \in People, NEW e \in Entities, NEW i \in Vias, NEW o \in Ops, NEW k \in 1..AllDone,
             Endorse(w, e, i, o, k)
      PROVE  TypeOK'
  <2>0. PICK new : EndorseWrites(w, e, i, o, k, new)
    BY <1>7, EndorseEffect
  <2>1. EndorseWrites(w, e, i, o, k, new)
    BY <2>0
  <2>2. page[e].sources \subseteq Claims /\ Shared(e) \subseteq Claims /\ Endorsed(e, o) \in Page
    BY EndorsedPage DEF Shared, TypeOK, Page
  <2>3. IntentsOK'
    <3>1. DOMAIN intent' = Ops /\ \A q \in Ops : intent'[q] = intent[q] \/ intent'[q] \in {None, new}
      BY <2>1 DEF EndorseWrites, TypeOK
    <3> QED
      BY <2>1, <2>2, <3>1 DEF EndorseWrites, TypeOK
  <2>4. made' \in [Ops -> SUBSET Claims] /\ page' \in [Entities -> Page]
    BY <2>1, <2>2 DEF EndorseWrites, TypeOK
  <2>5. Entry(o, new) \in Logged
    BY <2>1, <2>2 DEF EndorseWrites, Entry, Logged
  <2>6. PreviewsOK'
    BY <2>1, ConsumedType DEF EndorseWrites, TypeOK
  <2>7. task' \in Task
    BY <2>1 DEF EndorseWrites, TypeOK, NoTask, Task
  <2> QED
    BY <1>c, <2>1, <2>3, <2>4, <2>5, <2>6, <2>7 DEF EndorseWrites, TypeOK
<1>8. ASSUME NEW x \in log, EndorseReplayed(x) PROVE TypeOK'
  <2>1. PreviewsOK'
    BY <1>8, ConsumedType DEF EndorseReplayed
  <2> QED
    BY <1>8, <1>i, <2>1 DEF EndorseReplayed, TypeOK
<1>9. CASE Crash
  <2>1. task' \in Task /\ crashes' \in Nat
    BY <1>9 DEF Crash, NoTask, Task, TypeOK
  <2> QED
    BY <1>9, <1>i, <2>1 DEF Crash, TypeOK
<1>10. CASE Open
  <2>1. lane' \subseteq Claims
    BY <1>10 DEF Open, Indexable
  <2>2. PreviewsOK'
    <3>1. \A i \in PreviewIds : preview[i].st = "expired" => [preview[i] EXCEPT !.st = "deleted"] \in Shown
      BY DEF TypeOK, Shown
    <3>2. preview' = [i \in PreviewIds |->
             IF preview[i].st = "expired" THEN [preview[i] EXCEPT !.st = "deleted"] ELSE preview[i]]
      BY <1>10 DEF Open
    <3> QED
      BY <3>1, <3>2 DEF TypeOK
  <2>3. DOMAIN intent' = Ops /\ \A o \in Ops : intent'[o] = None \/ intent'[o] = intent[o]
    BY <1>10 DEF Open
  <2>4. IntentsOK'
    BY <2>3 DEF TypeOK
  <2>5. \A o \in Ops : intent[o] # None => Entry(o, intent[o]) \in Logged
    BY DEF Entry, Logged, TypeOK
  <2>6. \A x \in log' : x \in log \/ \E o \in Ops : intent[o] # None /\ x = Entry(o, intent[o])
    BY <1>10 DEF Open
  <2>7. log' \subseteq Logged
    BY <2>5, <2>6 DEF TypeOK
  <2> QED
    BY <1>10, <2>1, <2>2, <2>4, <2>7 DEF Open, TypeOK
<1> HIDE DEF IntentsOK, PreviewsOK
<1> QED
  BY <1>0, <1>1, <1>2, <1>3, <1>4, <1>5, <1>6, <1>7, <1>8, <1>9, <1>10, Steps

\* Every claim, page, preview, intent and entry keeps its type.
THEOREM TypeCorrect == Spec => []TypeOK
BY InitType, StepType, PTL DEF Spec

-----------------------------------------------------------------------------
(* The person's voice.                                                     *)

\* A claim in the person's voice exists; the claims an endorsement has written
\* are in it, and so is what a page in that voice cites, which is stamped.
VoiceInv ==
    /\ \A c \in Claims : claim[c].voice = "user" => claim[c].st # "none"
    /\ \A o \in Ops : \A c \in made[o] : claim[c].voice = "user"
    /\ VoiceBacked
    /\ \A e \in Entities : page[e].author = "user" => page[e].stamp # None

\* What a step does to a page: it is rendered or endorsed, the latter only
\* with every claim it cites in the person's voice.
PageStep ==
    \A e \in Entities :
        \/ page'[e] = page[e]
        \/ /\ page'[e].author = "user" <=> page[e].author = "user"
           /\ page'[e].stamp = page[e].stamp
           /\ page[e].author = "user" => page'[e].sources = page[e].sources
        \/ /\ page'[e].author = "user" /\ page'[e].stamp \in Ops
           /\ page'[e].sources = page[e].sources
           /\ \A c \in page[e].sources : claim'[c].voice = "user"

\* The claims an endorsement has marked as written are in the person's voice.
MadeStep ==
    \A o \in Ops : \A c \in made'[o] : c \in made[o] \/ claim'[c].voice = "user"

\* A claim keeps the voice, and one in the person's voice exists.
LEMMA VoiceGrows ==
    ASSUME TypeOK, VoiceInv, ClaimStep, claim' \in [Claims -> Record]
    PROVE  \A c \in Claims : /\ claim[c].voice = "user" => claim'[c].voice = "user"
                             /\ claim'[c].voice = "user" => claim'[c].st # "none"
BY DEF ClaimStep, Succ, VoiceInv

\* Every step is such a step.
LEMMA PageSteps == ASSUME TypeOK, VoiceInv, [Next]_vars PROVE PageStep /\ MadeStep
<1>c. ClaimStep /\ claim' \in [Claims -> Record]
  BY ClaimSteps
<1>v. \A c \in Claims : claim[c].voice = "user" => claim'[c].voice = "user"
  BY <1>c, VoiceGrows
<1>u. ASSUME UNCHANGED <<page, made>> PROVE PageStep /\ MadeStep
  BY <1>u DEF PageStep, MadeStep
<1>1. CASE CompileWrites
  <2>1. task.of \in Entities /\ task.from \in SUBSET Claims
    BY <1>1 DEF CompileWrites, TypeOK, Task
  <2>2. /\ page' = [page EXCEPT ![task.of] = Rendered(page[task.of], task.from)]
        /\ made' = made
    BY <1>1 DEF CompileWrites
  <2>3. PageStep
    <3>1. \A e \in Entities : e # task.of => page'[e] = page[e]
      BY <2>2 DEF TypeOK
    <3>2. page'[task.of] = Rendered(page[task.of], task.from)
      BY <2>1, <2>2 DEF TypeOK
    <3> QED
      BY <2>1, <3>1, <3>2, RenderedPage DEF PageStep
  <2> QED
    BY <2>2, <2>3 DEF MadeStep
<1>2. ASSUME NEW w \in People, NEW e \in Entities, NEW i \in Vias, NEW o \in Ops, NEW k \in 1..AllDone,
             Endorse(w, e, i, o, k)
      PROVE  PageStep /\ MadeStep
  <2>1. /\ \/ k >= ClaimsAt /\ made' = [made EXCEPT ![o] = page[e].sources]
           \/ k < ClaimsAt /\ made' = made
        /\ page' = IF k >= PageAt THEN [page EXCEPT ![e] = Endorsed(e, o)] ELSE page
    BY <1>2, EndorseEffect DEF EndorseWrites
  <2> DEFINE src == page[e].sources
             miss == src \ made[o]
  <2>2. src \subseteq Claims
    BY DEF TypeOK, Page
  <2>3. ASSUME k >= ClaimsAt, NEW c \in src PROVE claim'[c].voice = "user"
    <3>1. claim' = [d \in Claims |-> IF d \in miss THEN Bumped(d, "active", claim[d].dem, "user")
                                     ELSE claim[d]]
      BY <1>2, <2>3 DEF Endorse
    <3>2. CASE c \in made[o]
      BY <3>2, <2>2, <1>v DEF VoiceInv
    <3>3. CASE c \notin made[o]
      <4>1. claim'[c] = Bumped(c, "active", claim[c].dem, "user")
        BY <2>2, <3>1, <3>3
      <4> QED
        BY <4>1 DEF Bumped
    <3> QED
      BY <3>2, <3>3
  <2>4. MadeStep
    <3>1. CASE k >= ClaimsAt
      <4>1. \A q \in Ops : made'[q] = IF q = o THEN src ELSE made[q]
        BY <2>1, <3>1 DEF TypeOK, ClaimsAt, AllDone
      <4> QED
        BY <4>1, <3>1, <2>3 DEF MadeStep
    <3>2. CASE ~(k >= ClaimsAt)
      BY <3>2, <2>1 DEF MadeStep
    <3> QED
      BY <3>1, <3>2
  <2>5. PageStep
    <3>1. CASE k >= PageAt
      <4>1. k >= ClaimsAt
        BY <3>1 DEF PageAt, ClaimsAt, AllDone
      <4>2. \A f \in Entities : page'[f] = IF f = e THEN Endorsed(e, o) ELSE page[f]
        BY <2>1, <3>1 DEF TypeOK
      <4>3. \A c \in src : claim'[c].voice = "user"
        BY <4>1, <2>3
      <4> QED
        BY <4>2, <4>3, EndorsedPage DEF PageStep
    <3>2. CASE ~(k >= PageAt)
      BY <3>2, <2>1 DEF PageStep
    <3> QED
      BY <3>1, <3>2
  <2> QED
    BY <2>4, <2>5
<1>3. \/ UNCHANGED <<page, made>> \/ CompileWrites
      \/ \E w \in People, e \in Entities, i \in Vias, o \in Ops, k \in 1 .. AllDone :
            Endorse(w, e, i, o, k)
  BY Steps DEF derived, Compile, CompileReads, CompileEnds, DryRun, Expire, Gc, EndorseReplayed, Crash, Open
<1> QED
  BY <1>u, <1>1, <1>2, <1>3

\* Voices only grow.
LEMMA StepVoice == ASSUME TypeOK, TypeOK', VoiceInv, [Next]_vars PROVE VoiceInv'
<1>1. \A c \in Claims : /\ claim[c].voice = "user" => claim'[c].voice = "user"
                        /\ claim'[c].voice = "user" => claim'[c].st # "none"
  BY ClaimSteps, VoiceGrows
<1>2. PageStep /\ MadeStep
  BY PageSteps
<1>t. /\ \A e \in Entities : page[e].sources \subseteq Claims
      /\ \A o \in Ops : made[o] \subseteq Claims
  BY DEF TypeOK, Page
<1>3. \A o \in Ops : \A c \in made'[o] : claim'[c].voice = "user"
  BY <1>1, <1>2, <1>t DEF MadeStep, VoiceInv
<1>4. ASSUME NEW e \in Entities, page'[e].author = "user"
      PROVE  (\A c \in page'[e].sources : claim'[c].voice = "user") /\ page'[e].stamp # None
  BY <1>1, <1>2, <1>4, <1>t, WikiAssumption DEF PageStep, VoiceInv, VoiceBacked
<1> QED
  BY <1>1, <1>3, <1>4 DEF VoiceInv, VoiceBacked

\* The invariant of the voices holds in every reachable state.
LEMMA VoiceInvariance == Spec => [](TypeOK /\ VoiceInv)
<1>1. Init => TypeOK /\ VoiceInv
  <2> SUFFICES ASSUME Init PROVE VoiceInv
    BY InitType
  <2>1. /\ \A c \in Claims : claim[c].voice = "agent"
        /\ \A e \in Entities : page[e] = NoPage
        /\ \A o \in Ops : made[o] = {}
    BY DEF Init
  <2>2. NoPage.author = None /\ NoPage.sources = {}
    BY DEF NoPage
  <2> QED
    BY <2>1, <2>2, WikiAssumption DEF VoiceInv, VoiceBacked
<1>2. TypeOK /\ VoiceInv /\ [Next]_vars => (TypeOK /\ VoiceInv)'
  BY StepType, StepVoice
<1> QED
  BY <1>1, <1>2, PTL DEF Spec

\* A page in the person's voice cites only claims in that voice, wherever a
\* crash cut ENDORSE (endorse.ts, claims before the page) and whatever was
\* forgotten, revived, revised or compiled since.
THEOREM PagesBacked == Spec => []VoiceBacked
<1>1. VoiceInv => VoiceBacked
  BY DEF VoiceInv
<1> QED
  BY <1>1, VoiceInvariance, PTL

\* No step takes a page out of the person's voice, changes what it then cites
\* or loses its stamp (compiler.ts, voice protection), an endorsement that
\* lands while the compiler awaits the model included.
THEOREM VoiceIsKept == Spec => VoiceKept
<1>1. ASSUME TypeOK /\ VoiceInv, [Next]_vars
      PROVE  \A e \in Entities : page[e].author = "user" =>
                /\ page'[e].author = "user" /\ page'[e].sources = page[e].sources
                /\ page'[e].stamp # None
  <2>1. PageStep
    BY <1>1, PageSteps
  <2> QED
    BY <1>1, <2>1, WikiAssumption DEF PageStep, VoiceInv
<1>2. TypeOK /\ VoiceInv /\ [Next]_vars =>
        [\A e \in Entities : page[e].author = "user" =>
            /\ page'[e].author = "user" /\ page'[e].sources = page[e].sources
            /\ page'[e].stamp # None]_vars
  BY <1>1
<1> QED
  BY <1>2, VoiceInvariance, PTL DEF Spec, VoiceKept

-----------------------------------------------------------------------------
(* Previews.                                                               *)

\* Preview i showed the person who the shared claims S of page e.
Showed(i, who, e, S) ==
    /\ i \in PreviewIds /\ i # None /\ preview[i].st # "none"
    /\ preview[i].page = e /\ preview[i].who = who /\ preview[i].shared = S

\* Whoever prepared or committed an endorsement of shared claims had seen them.
PreviewInv ==
    /\ \A o \in Ops : intent[o] # None /\ intent[o].shared # {} =>
          Showed(intent[o].via, intent[o].w, intent[o].of, intent[o].shared)
    /\ \A x \in log : x.shared # {} => Showed(x.via, x.who, x.page, x.shared)

\* Once shown, a preview keeps what it showed: only its state changes.
PreviewStep ==
    \A i \in PreviewIds : preview[i].st # "none" =>
        /\ preview'[i].st # "none" /\ preview'[i].page = preview[i].page
        /\ preview'[i].who = preview[i].who /\ preview'[i].shared = preview[i].shared

\* What was shown with another state is shown.
LEMMA Restated ==
    ASSUME NEW p \in Shown, NEW st \in {"expired", "consumed", "deleted"}
    PROVE  /\ [p EXCEPT !.st = st].st # "none" /\ [p EXCEPT !.st = st].page = p.page
           /\ [p EXCEPT !.st = st].who = p.who /\ [p EXCEPT !.st = st].shared = p.shared
BY DEF Shown

\* A preview that is consumed keeps what it showed.
LEMMA ConsumedStep == ASSUME TypeOK, NEW i, preview' = Consumed(i) PROVE PreviewStep
<1>1. CASE i \in PreviewIds /\ preview[i].st = "live"
  <2>1. preview[i] \in Shown
    BY <1>1 DEF TypeOK
  <2>2. \A j \in PreviewIds : j # i => preview'[j] = preview[j]
    BY DEF Consumed, TypeOK
  <2>3. preview'[i] = [preview[i] EXCEPT !.st = "consumed"] \/ preview'[i] = preview[i]
    BY <1>1 DEF Consumed, TypeOK
  <2>4. /\ [preview[i] EXCEPT !.st = "consumed"].st # "none"
        /\ [preview[i] EXCEPT !.st = "consumed"].page = preview[i].page
        /\ [preview[i] EXCEPT !.st = "consumed"].who = preview[i].who
        /\ [preview[i] EXCEPT !.st = "consumed"].shared = preview[i].shared
    BY <2>1, Restated
  <2>5. preview'[i].st # "none" /\ preview'[i].page = preview[i].page
        /\ preview'[i].who = preview[i].who /\ preview'[i].shared = preview[i].shared
    BY <1>1, <2>3, <2>4
  <2> QED
    BY <2>2, <2>5 DEF PreviewStep
<1>2. CASE i \in PreviewIds /\ preview[i].st # "live"
  BY <1>2 DEF Consumed, PreviewStep
<1>3. CASE i \notin PreviewIds
  BY <1>3 DEF Consumed, PreviewStep, TypeOK
<1> QED
  BY <1>1, <1>2, <1>3

\* Every step keeps what the previews showed.
LEMMA PreviewSteps == ASSUME TypeOK, [Next]_vars PROVE PreviewStep
<1>0. CASE preview' = preview
  BY <1>0 DEF PreviewStep
<1>1. ASSUME NEW w \in People, NEW e \in Entities, NEW i \in PreviewIds, DryRun(w, e, i) PROVE PreviewStep
  <2>1. preview[i].st = "none" /\ \A j \in PreviewIds : j # i => preview'[j] = preview[j]
    BY <1>1 DEF DryRun, TypeOK
  <2> QED
    BY <2>1 DEF PreviewStep
<1>2. ASSUME NEW i \in PreviewIds, Expire(i) \/ Gc(i) PROVE PreviewStep
  <2>1. preview[i] \in Shown
    BY <1>2 DEF Expire, Gc, TypeOK
  <2>2. /\ \A j \in PreviewIds : j # i => preview'[j] = preview[j]
        /\ \/ preview'[i] = [preview[i] EXCEPT !.st = "expired"]
           \/ preview'[i] = [preview[i] EXCEPT !.st = "deleted"]
    BY <1>2 DEF Expire, Gc, TypeOK
  <2>3. ASSUME NEW st \in {"expired", "deleted"}, preview'[i] = [preview[i] EXCEPT !.st = st]
        PROVE  /\ preview'[i].st # "none" /\ preview'[i].page = preview[i].page
               /\ preview'[i].who = preview[i].who /\ preview'[i].shared = preview[i].shared
    BY <2>1, <2>3, Restated
  <2> QED
    BY <2>2, <2>3 DEF PreviewStep
<1>3. ASSUME NEW w \in People, NEW e \in Entities, NEW i \in Vias, NEW o \in Ops, NEW k \in 1..AllDone,
             Endorse(w, e, i, o, k)
      PROVE  PreviewStep
  <2>1. preview' = preview \/ preview' = Consumed(i)
    BY <1>3, EndorseEffect DEF EndorseWrites
  <2> QED
    BY <2>1, <1>0, ConsumedStep
<1>4. ASSUME NEW x \in log, EndorseReplayed(x) PROVE PreviewStep
  BY <1>4, ConsumedStep DEF EndorseReplayed
<1>5. CASE Open
  <2>1. \A i \in PreviewIds : preview'[i] =
             IF preview[i].st = "expired" THEN [preview[i] EXCEPT !.st = "deleted"] ELSE preview[i]
    BY <1>5 DEF Open
  <2>2. \A i \in PreviewIds : preview[i].st = "expired" => preview[i] \in Shown
    BY DEF TypeOK
  <2> QED
    BY <2>1, <2>2, Restated DEF PreviewStep
<1>6. \/ preview' = preview
      \/ \E w \in People, e \in Entities, i \in PreviewIds : DryRun(w, e, i)
      \/ \E i \in PreviewIds : Expire(i) \/ Gc(i)
      \/ \E w \in People, e \in Entities, i \in Vias, o \in Ops, k \in 1 .. AllDone :
            Endorse(w, e, i, o, k)
      \/ \E x \in log : EndorseReplayed(x)
      \/ Open
  BY Steps DEF derived, Compile, CompileReads, CompileWrites, CompileEnds, Crash
<1> QED
  BY <1>0, <1>1, <1>2, <1>3, <1>4, <1>5, <1>6

\* An endorsement is prepared by someone who has seen what it shares, and
\* recovery commits what was prepared.
LEMMA StepPreview == ASSUME TypeOK, PreviewInv, [Next]_vars PROVE PreviewInv'
<1> DEFINE Shown2(i, who, e, S) ==
              /\ i \in PreviewIds /\ i # None /\ preview'[i].st # "none"
              /\ preview'[i].page = e /\ preview'[i].who = who /\ preview'[i].shared = S
           IntentOK(x) == x # None /\ x.shared # {} => Shown2(x.via, x.w, x.of, x.shared)
           LogOK(x) == x.shared # {} => Shown2(x.via, x.who, x.page, x.shared)
<1>p. \A i, who, e, S : Showed(i, who, e, S) => Shown2(i, who, e, S)
  BY PreviewSteps DEF PreviewStep, Showed
<1>i. \A o \in Ops : IntentOK(intent[o])
  BY <1>p DEF PreviewInv
<1>l. \A x \in log : LogOK(x)
  BY <1>p DEF PreviewInv
<1>s. SUFFICES (\A o \in Ops : IntentOK(intent'[o])) /\ (\A x \in log' : LogOK(x))
  BY DEF PreviewInv, Showed
<1>1. ASSUME NEW w \in People, NEW e \in Entities, NEW i \in Vias, NEW o \in Ops, NEW k \in 1..AllDone,
             Endorse(w, e, i, o, k)
      PROVE  (\A q \in Ops : IntentOK(intent'[q])) /\ (\A x \in log' : LogOK(x))
  <2>1. PICK new : EndorseWrites(w, e, i, o, k, new)
    BY <1>1, EndorseEffect
  <2>2. /\ new.w = w /\ new.of = e /\ new.via = i /\ new.shared = Shared(e)
        /\ Acknowledged(w, e, i)
        /\ intent' = [intent EXCEPT ![o] = IF k = AllDone THEN None ELSE new]
        /\ log' = log \/ log' = log \cup {Entry(o, new)}
    BY <2>1 DEF EndorseWrites
  <2>3. Shared(e) # {} => Showed(i, w, e, Shared(e))
    BY <2>2 DEF Acknowledged, Showed, Vias
  <2>4. IntentOK(new)
    BY <2>2, <2>3, <1>p
  <2>5. Entry(o, new).via = i /\ Entry(o, new).who = w /\ Entry(o, new).page = e
        /\ Entry(o, new).shared = Shared(e)
    BY <2>2 DEF Entry
  <2>6. LogOK(Entry(o, new))
    BY <2>3, <2>5, <1>p
  <2>7. \A q \in Ops : intent'[q] = intent[q] \/ intent'[q] \in {None, new}
    BY <2>2 DEF TypeOK
  <2>8. \A q \in Ops : IntentOK(intent'[q])
    <3> HIDE DEF Shown2
    <3> QED
      BY <2>4, <2>7, <1>i
  <2> HIDE DEF LogOK
  <2> QED
    BY <2>2, <2>6, <2>8, <1>l
<1>2. CASE Open
  <2>1. \A o \in Ops : intent'[o] \in {None, intent[o]}
    BY <1>2 DEF Open
  <2>2. \A x \in log' : x \in log \/ \E o \in Ops : intent[o] # None /\ x = Entry(o, intent[o])
    BY <1>2 DEF Open
  <2>3. \A o \in Ops : intent[o] # None => LogOK(Entry(o, intent[o]))
    <3> TAKE o \in Ops
    <3>1. /\ Entry(o, intent[o]).via = intent[o].via /\ Entry(o, intent[o]).who = intent[o].w
          /\ Entry(o, intent[o]).page = intent[o].of /\ Entry(o, intent[o]).shared = intent[o].shared
      BY DEF Entry
    <3> QED
      BY <3>1, <1>i
  <2>4. \A o \in Ops : IntentOK(intent'[o])
    <3> HIDE DEF Shown2
    <3> QED
      BY <2>1, <1>i
  <2> HIDE DEF LogOK
  <2> QED
    BY <2>2, <2>3, <2>4, <1>l
<1>3. CASE UNCHANGED <<intent, log>>
  BY <1>3, <1>i, <1>l
<1>4. \/ UNCHANGED <<intent, log>> \/ Open
      \/ \E w \in People, e \in Entities, i \in Vias, o \in Ops, k \in 1 .. AllDone :
            Endorse(w, e, i, o, k)
  BY Steps DEF derived, Compile, CompileReads, CompileWrites, CompileEnds, DryRun, Expire, Gc,
     EndorseReplayed, Crash
<1> HIDE DEF LogOK, IntentOK
<1> QED
  BY <1>1, <1>2, <1>3, <1>4

\* Whoever's endorsement changed claims that another page cites had seen
\* exactly those claims in a preview of that page (endorse.ts, the drift check;
\* store.ts, lookup), also when it was cut and finished by recovery.
THEOREM SharedSeen == Spec => []SharedAcknowledged
<1>1. Init => TypeOK /\ PreviewInv
  <2> SUFFICES ASSUME Init PROVE PreviewInv
    BY InitType
  <2>1. log = {} /\ \A o \in Ops : intent[o] = None
    BY DEF Init
  <2> QED
    BY <2>1 DEF PreviewInv
<1>2. TypeOK /\ PreviewInv /\ [Next]_vars => (TypeOK /\ PreviewInv)'
  BY StepType, StepPreview
<1>3. PreviewInv => SharedAcknowledged
  BY DEF PreviewInv, Showed, SharedAcknowledged
<1> QED
  BY <1>1, <1>2, <1>3, PTL DEF Spec

-----------------------------------------------------------------------------
(* The lane.                                                               *)

\* Every claim that may be served has a row in the lane.
LaneInv == Indexable(claim) \subseteq lane

\* A verb that makes a claim servable gives it a row.
LEMMA StepLane == ASSUME TypeOK, LaneInv, [Next]_vars PROVE LaneInv'
<1>s. ASSUME lane' = Indexable(claim') PROVE LaneInv'
  BY <1>s DEF LaneInv
<1>k. ASSUME lane \subseteq lane', Indexable(claim') \subseteq Indexable(claim) \cup lane' PROVE LaneInv'
  BY <1>k DEF LaneInv
<1>1. ASSUME NEW c \in Claims, Drain(c) PROVE LaneInv'
  <2>1. \A d \in Claims : d # c => claim'[d] = claim[d]
    BY <1>1 DEF Drain, TypeOK
  <2>2. lane' = lane \cup {c}
    BY <1>1 DEF Drain
  <2> QED
    BY <1>k, <2>1, <2>2 DEF Indexable
<1>2. ASSUME NEW c \in Claims, Forget(c) PROVE LaneInv'
  <2>1. \A d \in Claims : claim'[d] = IF d = c THEN Bumped(c, "forgotten", claim[c].dem, claim[c].voice)
                                      ELSE claim[d]
    BY <1>2 DEF Forget, TypeOK
  <2>2. claim'[c].st = "forgotten"
    BY <2>1 DEF Bumped
  <2>3. lane' = lane
    BY <1>2 DEF Forget
  <2> QED
    BY <1>k, <2>1, <2>2, <2>3 DEF Indexable
<1>3. ASSUME NEW c \in Claims, Revive(c) PROVE LaneInv'
  BY <1>3, <1>s DEF Revive, Synced
<1>4. ASSUME NEW c \in Claims, NEW adopt, Revise(c, adopt) PROVE LaneInv'
  BY <1>4, <1>s DEF Revise, Synced
<1>5. ASSUME NEW c \in Claims, NEW d \in Claims, Resolve(c, d) PROVE LaneInv'
  <2>1. /\ {c, d} \subseteq Indexable(claim) /\ lane' = lane
        /\ \A b \in Claims : b \notin {c, d} => claim'[b] = claim[b]
    BY <1>5 DEF Resolve, Visible, Indexable, TypeOK
  <2> QED
    BY <1>k, <2>1 DEF Indexable
<1>6. ASSUME NEW c \in Claims, NEW d \in Claims, Repick(c, d) \/ Correct(c, d) PROVE LaneInv'
  BY <1>6, <1>s DEF Repick, Correct, Synced
<1>7. ASSUME NEW b \in Claims, NEW c \in Claims, NEW d \in Claims, Consolidate(b, c, d) PROVE LaneInv'
  BY <1>7, <1>s DEF Consolidate, Synced
<1>8. ASSUME NEW new \in SUBSET Claims, Compile(new) PROVE LaneInv'
  BY <1>8, <1>s DEF Compile, Synced
<1>9. ASSUME NEW w \in People, NEW e \in Entities, NEW i \in Vias, NEW o \in Ops, NEW k \in 1..AllDone,
             Endorse(w, e, i, o, k)
      PROVE  LaneInv'
  <2> DEFINE miss == page[e].sources \ made[o]
  <2>1. \A c \in miss : claim[c].st = "active"
    BY <1>9 DEF Endorse
  <2>2. \/ claim' = claim
        \/ claim' = [c \in Claims |-> IF c \in miss THEN Bumped(c, "active", claim[c].dem, "user")
                                      ELSE claim[c]]
    BY <1>9 DEF Endorse
  <2>3. lane' = lane
    BY <1>9 DEF Endorse
  <2> HIDE DEF miss
  <2>4. ASSUME NEW c \in Claims
        PROVE  claim'[c].st = "active" /\ ~claim'[c].dem => claim[c].st = "active" /\ ~claim[c].dem
    <3>1. CASE claim' = claim
      BY <3>1
    <3>2. CASE claim' # claim
      BY <3>2, <2>1, <2>2, <2>4 DEF Bumped
    <3> QED
      BY <3>1, <3>2
  <2> QED
    BY <1>k, <2>3, <2>4 DEF Indexable
<1>10. CASE Open
  BY <1>10, <1>s DEF Open
<1>11. CASE UNCHANGED <<claim, lane>>
  BY <1>11 DEF LaneInv, Indexable
<1>12. CASE \E c \in Claims, adopt \in BOOLEAN : Revise(c, adopt)
  <2>1. PICK c \in Claims, adopt \in BOOLEAN : Revise(c, adopt)
    BY Zenon, <1>12
  <2> QED
    BY Zenon, <2>1, <1>4
<1>13. \/ UNCHANGED <<claim, lane>> \/ Open
       \/ \E c \in Claims : Drain(c) \/ Forget(c) \/ Revive(c)
       \/ \E c \in Claims, adopt \in BOOLEAN : Revise(c, adopt)
       \/ \E c, d \in Claims : Resolve(c, d) \/ Repick(c, d) \/ Correct(c, d)
       \/ \E b, c, d \in Claims : Consolidate(b, c, d)
       \/ \E new \in SUBSET Claims : Compile(new)
       \/ \E w \in People, e \in Entities, i \in Vias, o \in Ops, k \in 1 .. AllDone :
            Endorse(w, e, i, o, k)
  BY DEF Next, vars, HandEdit, CompileReads, CompileWrites, CompileEnds, DryRun, Expire, Gc,
     EndorseReplayed, Crash, Vias
<1> HIDE DEF LaneInv
<1> QED
  BY <1>1, <1>2, <1>3, <1>5, <1>6, <1>7, <1>8, <1>9, <1>10, <1>11, <1>12, <1>13

\* RECALL from the live lane serves what it would after a restart, for every
\* query (core.ts, the re-syncs), where no query matches more claims than a
\* search returns.  Beyond that the rows of forgotten claims take the places
\* of claims that may be served.
THEOREM RecallRebuilt ==
    ASSUME IsFiniteSet(Claims), Cardinality(Claims) <= Limit
    PROVE  Spec => []RecallAsRebuilt
<1>1. Init => TypeOK /\ LaneInv
  <2> SUFFICES ASSUME Init PROVE LaneInv
    BY InitType
  <2>1. \A c \in Claims : claim[c].st = "none"
    BY DEF Init
  <2> QED
    BY <2>1 DEF LaneInv, Indexable
<1>2. TypeOK /\ LaneInv /\ [Next]_vars => (TypeOK /\ LaneInv)'
  BY StepType, StepLane
<1>3. ASSUME NEW l \in SUBSET Claims, NEW q \in SUBSET Claims PROVE SearchClaims(l, q) = {l \cap q}
  <2>1. l \cap q \in SUBSET Claims
    OBVIOUS
  <2>2. IsFiniteSet(l \cap q) /\ Cardinality(l \cap q) <= Cardinality(Claims)
    BY <2>1, FS_Subset
  <2>3. Cardinality(l \cap q) \in Nat /\ Cardinality(Claims) \in Nat
    BY <2>2, FS_CardinalityType
  <2>4. Cardinality(l \cap q) <= Limit
    BY <2>2, <2>3, WikiAssumption
  <2> QED
    BY <2>4 DEF SearchClaims
<1>4. TypeOK /\ LaneInv => RecallAsRebuilt
  <2> SUFFICES ASSUME TypeOK, LaneInv, NEW q \in SUBSET Claims
               PROVE  Answers(lane, q) = Answers(Indexable(claim), q)
    BY DEF RecallAsRebuilt
  <2>1. Visible = Indexable(claim) /\ Indexable(claim) \in SUBSET Claims /\ lane \in SUBSET Claims
    BY DEF Visible, Indexable, TypeOK
  <2>2. SearchClaims(lane, q) = {lane \cap q} /\ SearchClaims(Indexable(claim), q) = {Indexable(claim) \cap q}
    BY <2>1, <1>3
  <2>3. Answers(lane, q) = {(lane \cap q) \cap Visible}
        /\ Answers(Indexable(claim), q) = {(Indexable(claim) \cap q) \cap Visible}
    BY <2>2 DEF Answers
  <2>4. (lane \cap q) \cap Visible = (Indexable(claim) \cap q) \cap Visible
    BY <2>1 DEF LaneInv
  <2> QED
    BY <2>3, <2>4
<1> QED
  BY <1>1, <1>2, <1>4, PTL DEF Spec
=============================================================================
