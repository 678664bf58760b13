-------------------------- MODULE ClaimStoreProofs --------------------------
(***************************************************************************)
(* What ClaimStore promises for any number of claims, observations, values *)
(* and events.                                                             *)
(***************************************************************************)
EXTENDS ClaimStore, WellFoundedInduction, TLAPS

-----------------------------------------------------------------------------
(* The invariants.                                                         *)

Evidence == Obs \cup Ids \cup {Warrant}
Contents == Values \cup {Blank, Redacted}
Pointers == {Nobody} \cup Ids

Rows == [status : {"none", "active", "contested", "superseded", "retracted"}, by : Pointers,
         ev : SUBSET Evidence, val : Contents, from : Nat, open : BOOLEAN]
Records == [state : {"none", "active", "forgotten"}, by : Pointers,
            ev : SUBSET Evidence, val : Contents, from : Nat, open : BOOLEAN]
Stores == [row : [Ids -> Rows], rec : [Ids -> Records], act : [Ids -> Records]]

Corrections == {e \in [kind : {"correction"}, target : Ids, reason : Reasons, into : Ids,
                      val : Values \cup {Blank}, id : Pointers] :
                   e.reason = "duplicate" \/ e.id \in Ids}
Withdrawals == [kind : {"tombstone", "redaction"}, target : Ids, id : {0}]
               \cup [kind : {"observation"}, target : Obs, id : {0}]
Events      == Corrections \cup Withdrawals

TypeOK ==
    /\ Current \in Stores
    /\ log \in Seq(Events)
    /\ cursor \in 0 .. Len(log)
    /\ late \in Nat \X Nat /\ late[1] <= late[2] /\ late[2] <= Len(log)
    /\ up \in BOOLEAN

\* Row and record of a claim agree, but for what a dying process did not sync:
\* the evidence.
Agree(s, c) ==
    /\ s.rec[c].state = "none" <=> s.row[c].status = "none"
    /\ s.rec[c].state # "none" =>
          LET derived == ClaimVersionVals(s.row[c], s.rec[c])
          IN  /\ s.row[c].by = derived.by
              /\ \/ s.row[c].status = derived.status
                 \/ s.row[c].status = "contested" /\ derived.status = "active"

\* An active record is the last active one; a claim without one has none.
Kept(s, c) ==
    /\ s.rec[c].state = "active" => s.act[c] = s.rec[c]
    /\ s.rec[c].state = "none" => s.act[c] = NoRecord

Sound  == {s \in Stores : \A c \in Ids : Agree(s, c) /\ Kept(s, c)}
Synced == {s \in Sound : \A c \in Ids : s.rec[c].state # "none" => s.row[c].ev = s.rec[c].ev}

StoreInv ==
    /\ TypeOK
    /\ Current \in Sound
    /\ up => Current \in Synced

\* Where no verb runs while a catch-up has yielded, one event at most is ahead
\* of the cursor.
QueueInv ==
    /\ Len(log) <= cursor + 1
    /\ late # Idle => up /\ late = <<cursor, Len(log)>>
    /\ up /\ late = Idle => cursor = Len(log)

\* What a correction found it still finds, also the second time.
Stands(s, e) ==
    e.kind = "correction" =>
        /\ ~CorrectForgotten /\ e.reason \in {"changed", "duplicate"} =>
              s.row[e.target].status # "retracted"
        /\ ~MergeDemoted /\ e.reason = "duplicate" =>
              e.into # e.target /\ s.row[e.into].status \in Live
        /\ e.reason # "duplicate" =>
              e.id # e.target /\ s.row[e.id].status # "retracted" /\ s.act[e.id].by = Nobody

PendingInv == QueueInv /\ \A i \in DOMAIN log : i > cursor => Stands(Current, log[i])

-----------------------------------------------------------------------------
(* What inserting and syncing does to a store.                             *)

\* A row that may be inserted: it exists, and points to a claim exactly when it
\* is superseded.
Good(r) == r \in Rows /\ r.status # "none" /\ (r.status = "superseded" <=> r.by # Nobody)

\* insertClaim() writes row, record and, unless it retracts, the active record
\* of the claims it is given, and no other.
LEMMA InsertFacts ==
    ASSUME NEW s \in Stores, NEW r, NEW c \in Ids
    PROVE  LET t == InsertClaims(s, r)
               v == RecordOf(r[c], s.rec[c])
           IN  /\ c \in DOMAIN r => /\ t.row[c] = r[c] /\ t.rec[c] = v
                                    /\ t.act[c] = IF v.state = "active" THEN v ELSE s.act[c]
               /\ c \notin DOMAIN r => /\ t.row[c] = s.row[c] /\ t.rec[c] = s.rec[c]
                                       /\ t.act[c] = s.act[c]
BY DEF InsertClaims, S

\* The record of a good row is a record, and the row is the one it derives.
LEMMA RecordFacts ==
    ASSUME NEW r, Good(r), NEW prior
    PROVE  /\ RecordOf(r, prior) \in Records
           /\ RecordOf(r, prior).state = IF r.status = "retracted" THEN "forgotten" ELSE "active"
           /\ RecordOf(r, prior).by = r.by /\ RecordOf(r, prior).ev = r.ev
BY DEF RecordOf, Records, Rows, Good, Contents, Pointers

LEMMA InsertType ==
    ASSUME NEW s \in Stores, NEW r, \A c \in Ids : c \in DOMAIN r => Good(r[c])
    PROVE  InsertClaims(s, r) \in Stores
<1> DEFINE t == InsertClaims(s, r)
<1>1. \A c \in Ids : c \in DOMAIN r => r[c] \in Rows /\ RecordOf(r[c], s.rec[c]) \in Records
  BY RecordFacts DEF Good
<1>2. [c \in Ids |-> IF c \in DOMAIN r THEN r[c] ELSE s.row[c]] \in [Ids -> Rows]
  BY <1>1 DEF Stores
<1>3. [c \in Ids |-> IF c \in DOMAIN r THEN RecordOf(r[c], s.rec[c]) ELSE s.rec[c]] \in [Ids -> Records]
  BY <1>1 DEF Stores
<1>4. [c \in Ids |-> IF c \in DOMAIN r /\ RecordOf(r[c], s.rec[c]).state = "active"
                     THEN RecordOf(r[c], s.rec[c]) ELSE s.act[c]] \in [Ids -> Records]
  BY <1>1 DEF Stores
<1> QED
  BY <1>2, <1>3, <1>4 DEF InsertClaims, S, Stores

\* What is inserted as a good row agrees with its record.
LEMMA InsertSound ==
    ASSUME NEW s \in Sound, NEW r, \A c \in Ids : c \in DOMAIN r => Good(r[c])
    PROVE  /\ InsertClaims(s, r) \in Sound
           /\ s \in Synced => InsertClaims(s, r) \in Synced
<1> DEFINE t == InsertClaims(s, r)
<1>1. s \in Stores /\ t \in Stores
  BY InsertType DEF Sound
<1>2. ASSUME NEW c \in Ids PROVE Agree(t, c) /\ Kept(t, c)
  <2>1. CASE c \in DOMAIN r
    <3>1. Good(r[c])
      BY <2>1
    <3>2. /\ t.row[c] = r[c] /\ t.rec[c] = RecordOf(r[c], s.rec[c])
          /\ t.rec[c].state = "active" => t.act[c] = t.rec[c]
      BY <1>1, <2>1, InsertFacts
    <3>3. /\ t.rec[c].state = IF r[c].status = "retracted" THEN "forgotten" ELSE "active"
          /\ t.rec[c].by = r[c].by
      BY <3>1, <3>2, RecordFacts
    <3> HIDE DEF t
    <3>4. Kept(t, c)
      BY <3>2, <3>3 DEF Kept
    <3>5. Agree(t, c)
      BY <3>1, <3>2, <3>3 DEF Agree, ClaimVersionVals, Good, Rows, Nobody
    <3> QED
      BY <3>4, <3>5
  <2>2. CASE c \notin DOMAIN r
    <3>1. t.row[c] = s.row[c] /\ t.rec[c] = s.rec[c] /\ t.act[c] = s.act[c]
      BY <1>1, <2>2, InsertFacts
    <3>2. Agree(s, c) /\ Kept(s, c)
      BY DEF Sound
    <3> HIDE DEF t
    <3> QED
      BY <3>1, <3>2 DEF Agree, Kept
  <2> QED
    BY <2>1, <2>2
<1>3. ASSUME NEW c \in Ids, s \in Synced, t.rec[c].state # "none" PROVE t.row[c].ev = t.rec[c].ev
  <2>1. CASE c \in DOMAIN r
    <3>1. Good(r[c]) /\ t.row[c] = r[c] /\ t.rec[c] = RecordOf(r[c], s.rec[c])
      BY <1>1, <2>1, InsertFacts
    <3> QED
      BY <3>1, RecordFacts
  <2>2. CASE c \notin DOMAIN r
    BY <1>1, <1>3, <2>2, InsertFacts DEF Synced
  <2> QED
    BY <2>1, <2>2
<1> HIDE DEF t
<1>4. t \in Sound
  BY <1>1, <1>2 DEF Sound
<1>5. s \in Synced => t \in Synced
  BY <1>3, <1>4 DEF Synced
<1> QED
  BY <1>4, <1>5 DEF t

\* syncFromJsonlVersion() derives the row of the claims it is given from the
\* version.
LEMMA SyncFacts ==
    ASSUME NEW s \in Stores, NEW v, NEW c \in Ids
    PROVE  LET t == SyncVersions(s, v)
           IN  /\ c \in DOMAIN v => /\ t.row[c] = ClaimVersionVals(s.row[c], v[c]) /\ t.rec[c] = v[c]
                                    /\ t.act[c] = IF v[c].state = "active" THEN v[c] ELSE s.act[c]
               /\ c \notin DOMAIN v => /\ t.row[c] = s.row[c] /\ t.rec[c] = s.rec[c]
                                       /\ t.act[c] = s.act[c]
BY DEF SyncVersions, S

LEMMA DerivedFacts ==
    ASSUME NEW old \in Rows, NEW v \in Records
    PROVE  /\ ClaimVersionVals(old, v) \in Rows
           /\ ClaimVersionVals(old, v).ev = v.ev
           /\ ClaimVersionVals(old, v).by = IF v.state = "active" THEN v.by ELSE Nobody
           /\ ClaimVersionVals(old, v).status =
                 IF v.state = "forgotten" THEN "retracted"
                 ELSE IF v.state = "active" /\ v.by # Nobody THEN "superseded" ELSE "active"
BY DEF ClaimVersionVals, Rows, Records, Pointers, Nobody

\* What is synced agrees with its row.
LEMMA SyncSound ==
    ASSUME NEW s \in Sound, NEW v,
           \A c \in Ids : c \in DOMAIN v => v[c] \in Records /\ v[c].state # "none"
    PROVE  /\ SyncVersions(s, v) \in Sound
           /\ s \in Synced => SyncVersions(s, v) \in Synced
<1> DEFINE t == SyncVersions(s, v)
<1>0. s \in Stores
  BY DEF Sound
<1>1. t \in Stores
  <2>1. \A c \in Ids : c \in DOMAIN v => ClaimVersionVals(s.row[c], v[c]) \in Rows
    BY <1>0, DerivedFacts DEF Stores
  <2>2. [c \in Ids |-> IF c \in DOMAIN v THEN ClaimVersionVals(s.row[c], v[c]) ELSE s.row[c]]
            \in [Ids -> Rows]
    BY <1>0, <2>1 DEF Stores
  <2>3. [c \in Ids |-> IF c \in DOMAIN v THEN v[c] ELSE s.rec[c]] \in [Ids -> Records]
    BY <1>0 DEF Stores
  <2>4. [c \in Ids |-> IF c \in DOMAIN v /\ v[c].state = "active" THEN v[c] ELSE s.act[c]]
            \in [Ids -> Records]
    BY <1>0 DEF Stores
  <2> QED
    BY <2>2, <2>3, <2>4 DEF SyncVersions, S, Stores
<1>2. ASSUME NEW c \in Ids
      PROVE  /\ Agree(t, c) /\ Kept(t, c)
             /\ s \in Synced /\ t.rec[c].state # "none" => t.row[c].ev = t.rec[c].ev
  <2>1. CASE c \in DOMAIN v
    <3>1. v[c] \in Records /\ v[c].state # "none" /\ s.row[c] \in Rows /\ t.row[c] \in Rows
      BY <1>0, <1>1, <2>1 DEF Stores
    <3>2. /\ t.row[c] = ClaimVersionVals(s.row[c], v[c]) /\ t.rec[c] = v[c]
          /\ t.rec[c].state = "active" => t.act[c] = t.rec[c]
      BY <1>0, <2>1, SyncFacts
    <3> HIDE DEF t
    <3>3. /\ t.row[c].by = ClaimVersionVals(t.row[c], v[c]).by
          /\ t.row[c].status = ClaimVersionVals(t.row[c], v[c]).status
          /\ t.row[c].status # "none" /\ t.row[c].ev = v[c].ev
      BY <3>1, <3>2, DerivedFacts
    <3> QED
      BY <3>1, <3>2, <3>3 DEF Agree, Kept
  <2>2. CASE c \notin DOMAIN v
    <3>1. t.row[c] = s.row[c] /\ t.rec[c] = s.rec[c] /\ t.act[c] = s.act[c]
      BY <1>0, <2>2, SyncFacts
    <3>2. Agree(s, c) /\ Kept(s, c)
      BY DEF Sound
    <3> HIDE DEF t
    <3> QED
      BY <3>1, <3>2 DEF Agree, Kept, Synced
  <2> QED
    BY <2>1, <2>2
<1> HIDE DEF t
<1>3. t \in Sound
  BY <1>1, <1>2 DEF Sound
<1>4. s \in Synced => t \in Synced
  BY <1>2, <1>3 DEF Synced
<1> QED
  BY <1>3, <1>4 DEF t

-----------------------------------------------------------------------------
(* The replay of the evidence log, as far as the log goes.                 *)

\* A set of numbers has a smallest one.
LEMMA SmallestExists ==
    ASSUME NEW N \in SUBSET Nat, N # {}
    PROVE  \E m \in N : \A x \in N : m <= x
<1>1. PICK m \in N : \A u \in N : ~(<<u, m>> \in OpToRel(<, Nat))
  BY NatLessThanWellFounded, WFMin
<1>2. \A u \in N : ~(u < m)
  BY <1>1 DEF OpToRel
<1> QED
  BY <1>2

Applies(f, s, events, a, b) ==
    f = [k \in a .. b |-> IF k = a THEN s ELSE ProcessEvent(f[k - 1], events[k])]

\* The stores between the events exist.
LEMMA AppliedExists ==
    ASSUME NEW s, NEW events, NEW a \in Nat, NEW b \in Nat, a <= b
    PROVE  \E f : Applies(f, s, events, a, b)
<1> DEFINE N == {n \in Nat : a <= n /\ ~ \E f : Applies(f, s, events, a, n)}
<1>1. SUFFICES ASSUME N # {} PROVE FALSE
  OBVIOUS
<1>2. PICK n \in N : \A x \in N : n <= x
  BY <1>1, SmallestExists
<1>3. CASE n = a
  <2> DEFINE f == [k \in a .. a |-> s]
  <2>1. Applies(f, s, events, a, a)
    BY DEF Applies
  <2> QED
    BY <1>2, <1>3, <2>1
<1>4. CASE n # a
  <2>1. n - 1 \in Nat /\ a <= n - 1 /\ n - 1 < n
    BY <1>2, <1>4
  <2>2. n - 1 \notin N
    BY <1>2, <2>1
  <2>3. PICK g : Applies(g, s, events, a, n - 1)
    BY <2>1, <2>2
  <2> DEFINE f == [k \in a .. n |-> IF k = n THEN ProcessEvent(g[n - 1], events[n]) ELSE g[k]]
  <2>4. ASSUME NEW k \in a .. n
        PROVE  f[k] = IF k = a THEN s ELSE ProcessEvent(f[k - 1], events[k])
    <3>1. CASE k = n
      <4>1. f[k] = ProcessEvent(g[n - 1], events[n]) /\ k # a
        BY <1>4, <3>1
      <4>2. f[k - 1] = g[n - 1]
        BY <2>1, <3>1
      <4> QED
        BY <3>1, <4>1, <4>2
    <3>2. CASE k # n
      <4>1. k \in a .. n - 1 /\ f[k] = g[k]
        BY <1>2, <3>2
      <4>2. g[k] = IF k = a THEN s ELSE ProcessEvent(g[k - 1], events[k])
        BY <2>3, <4>1 DEF Applies
      <4>3. k # a => f[k - 1] = g[k - 1]
        BY <1>2, <4>1
      <4> QED
        BY <4>1, <4>2, <4>3
    <3> QED
      BY <3>1, <3>2
  <2>5. f = [k \in a .. n |-> f[k]]
    OBVIOUS
  <2> HIDE DEF f
  <2>6. Applies(f, s, events, a, n)
    BY <2>4, <2>5 DEF Applies
  <2> QED
    BY <1>2, <2>6
<1> QED
  BY <1>3, <1>4

\* replayCatchUp() hands each event to processEvent() with what the one before
\* has left.
LEMMA CatchUpApplies ==
    ASSUME NEW s, NEW events, NEW a \in Nat, NEW b \in Nat, a <= b
    PROVE  \E f : Applies(f, s, events, a, b) /\ CatchUp(s, events, a, b) = f[b]
<1> DEFINE f == CHOOSE g : Applies(g, s, events, a, b)
<1>1. Applies(f, s, events, a, b)
  BY AppliedExists
<1>2. CatchUp(s, events, a, b) = f[b]
  BY DEF CatchUp, Applies
<1> QED
  BY <1>1, <1>2

\* What every event keeps the replay keeps.
LEMMA CatchUpKeeps ==
    ASSUME NEW I, NEW s \in I, NEW events, NEW a \in Nat, NEW b \in Nat, a <= b,
           \A k \in a + 1 .. b : \A t \in I : ProcessEvent(t, events[k]) \in I
    PROVE  CatchUp(s, events, a, b) \in I
<1>1. PICK f : Applies(f, s, events, a, b) /\ CatchUp(s, events, a, b) = f[b]
  BY CatchUpApplies
<1> DEFINE N == {n \in a .. b : f[n] \notin I}
<1>2. SUFFICES ASSUME N # {} PROVE FALSE
  BY <1>1
<1>3. N \in SUBSET Nat
  OBVIOUS
<1>4. PICK n \in N : \A x \in N : n <= x
  BY <1>2, <1>3, SmallestExists
<1>5. f[n] = IF n = a THEN s ELSE ProcessEvent(f[n - 1], events[n])
  BY <1>1 DEF Applies
<1>6. n # a
  BY <1>5
<1>7. n - 1 \in a .. b /\ n \in a + 1 .. b /\ n - 1 < n
  BY <1>6
<1>8. f[n - 1] \in I
  BY <1>4, <1>7
<1> QED
  BY <1>5, <1>6, <1>7, <1>8

\* One event at most is replayed as it is.
LEMMA CatchUpOne ==
    ASSUME NEW s, NEW events, NEW a \in Nat
    PROVE  /\ CatchUp(s, events, a, a) = s
           /\ CatchUp(s, events, a, a + 1) = ProcessEvent(s, events[a + 1])
<1>1. CatchUp(s, events, a, a) = s
  <2>1. PICK f : Applies(f, s, events, a, a) /\ CatchUp(s, events, a, a) = f[a]
    BY CatchUpApplies
  <2> QED
    BY <2>1 DEF Applies
<1>2. CatchUp(s, events, a, a + 1) = ProcessEvent(s, events[a + 1])
  <2>1. PICK f : Applies(f, s, events, a, a + 1) /\ CatchUp(s, events, a, a + 1) = f[a + 1]
    BY CatchUpApplies
  <2>2. f[a] = s
    BY <2>1 DEF Applies
  <2>3. f[a + 1] = ProcessEvent(f[(a + 1) - 1], events[a + 1])
    BY <2>1 DEF Applies
  <2>4. (a + 1) - 1 = a
    OBVIOUS
  <2> QED
    BY <2>1, <2>2, <2>3, <2>4
<1> QED
  BY <1>1, <1>2

-----------------------------------------------------------------------------
(* What the writers of rows do to a sound store.                           *)

\* In a sound store the row of a claim has the pointer of its record, is
\* retracted when the record is forgotten, and live when nothing demotes it.
LEMMA RowFacts ==
    ASSUME NEW s \in Sound, NEW c \in Ids
    PROVE  /\ s.row[c] \in Rows /\ s.rec[c] \in Records /\ s.act[c] \in Records
           /\ s.row[c].status = "none" <=> s.rec[c].state = "none"
           /\ s.row[c].status = "retracted" <=> s.rec[c].state = "forgotten"
           /\ s.row[c].status \in Live <=> s.rec[c].state = "active" /\ s.rec[c].by = Nobody
           /\ s.row[c].status = "superseded" <=> s.rec[c].state = "active" /\ s.rec[c].by # Nobody
           /\ s.rec[c].state = "active" => s.row[c].by = s.rec[c].by
           /\ s.rec[c].state = "active" => s.act[c] = s.rec[c]
           /\ s.rec[c].state = "none" => s.act[c].by = Nobody
           /\ s.row[c].status # "none" => Good(s.row[c])
<1>1. s.row[c] \in Rows /\ s.rec[c] \in Records /\ s.act[c] \in Records
  BY DEF Sound, Stores
<1>2. Agree(s, c) /\ Kept(s, c)
  BY DEF Sound
<1>3. s.rec[c].state \in {"none", "active", "forgotten"}
  BY <1>1 DEF Records
<1>4. /\ s.row[c].status = "none" <=> s.rec[c].state = "none"
      /\ s.row[c].status = "retracted" <=> s.rec[c].state = "forgotten"
      /\ s.row[c].status \in Live <=> s.rec[c].state = "active" /\ s.rec[c].by = Nobody
      /\ s.row[c].status = "superseded" <=> s.rec[c].state = "active" /\ s.rec[c].by # Nobody
      /\ s.rec[c].state = "active" => s.row[c].by = s.rec[c].by
      /\ s.rec[c].state = "forgotten" => s.row[c].by = Nobody
  BY <1>1, <1>2, <1>3, DerivedFacts DEF Agree, Live
<1>5. s.row[c].status # "none" => Good(s.row[c])
  BY <1>1, <1>3, <1>4 DEF Good
<1> QED
  BY <1>1, <1>2, <1>4, <1>5 DEF Kept, NoRecord

\* insertClaim() of good rows: the active record, where the row is not retracted,
\* takes the pointer of the row.
LEMMA InsertPointers ==
    ASSUME NEW s \in Sound, NEW r, NEW c \in Ids, c \in DOMAIN r => Good(r[c])
    PROVE  LET t == InsertClaims(s, r)
           IN  /\ c \in DOMAIN r => /\ t.row[c] = r[c]
                                    /\ t.act[c].by = IF r[c].status = "retracted"
                                                     THEN s.act[c].by ELSE r[c].by
               /\ c \notin DOMAIN r => /\ t.row[c] = s.row[c] /\ t.rec[c] = s.rec[c]
                                       /\ t.act[c] = s.act[c]
<1>1. s \in Stores
  BY DEF Sound
<1>2. CASE c \in DOMAIN r
  BY <1>1, <1>2, InsertFacts, RecordFacts
<1>3. CASE c \notin DOMAIN r
  BY <1>1, <1>3, InsertFacts
<1> QED
  BY <1>2, <1>3

\* A row rewritten with another status or content stays good.
LEMMA RowRewritten ==
    ASSUME NEW r, Good(r)
    PROVE  /\ \A E \in SUBSET Evidence : Good([r EXCEPT !.ev = E])
           /\ \A v \in Contents : Good([r EXCEPT !.val = v])
           /\ r.by = Nobody => Good([r EXCEPT !.status = "contested"])
           /\ \A closes \in BOOLEAN :
                 /\ Good([r EXCEPT !.status = "retracted", !.by = Nobody, !.open = @ /\ ~closes])
                 /\ \A d \in Ids : Good([r EXCEPT !.status = "superseded", !.by = d,
                                                  !.open = @ /\ ~closes])
<1>1. r \in Rows /\ r.status # "none" /\ (r.status = "superseded" <=> r.by # Nobody)
  BY DEF Good
<1>2. \A E \in SUBSET Evidence : Good([r EXCEPT !.ev = E])
  BY <1>1 DEF Good, Rows
<1>3. \A v \in Contents : Good([r EXCEPT !.val = v])
  BY <1>1 DEF Good, Rows
<1>4. r.by = Nobody => Good([r EXCEPT !.status = "contested"])
  BY <1>1 DEF Good, Rows
<1>5. ASSUME NEW closes \in BOOLEAN
      PROVE  Good([r EXCEPT !.status = "retracted", !.by = Nobody, !.open = @ /\ ~closes])
  <2> DEFINE open == r.open /\ ~closes
  <2>1. open \in BOOLEAN /\ Nobody \in Pointers
    BY <1>1 DEF Rows, Pointers
  <2> HIDE DEF open
  <2>2. Good([r EXCEPT !.status = "retracted", !.by = Nobody, !.open = open])
    BY <1>1, <2>1 DEF Good, Rows
  <2> QED
    BY <2>2 DEF open
<1>6. ASSUME NEW closes \in BOOLEAN, NEW d \in Ids
      PROVE  Good([r EXCEPT !.status = "superseded", !.by = d, !.open = @ /\ ~closes])
  <2> DEFINE open == r.open /\ ~closes
  <2>1. open \in BOOLEAN /\ d \in Pointers /\ d # Nobody
    BY <1>1 DEF Rows, Pointers, Ids, Nobody
  <2> HIDE DEF open
  <2>2. Good([r EXCEPT !.status = "superseded", !.by = d, !.open = open])
    BY <1>1, <2>1 DEF Good, Rows
  <2> QED
    BY <2>2 DEF open
<1> QED
  BY <1>2, <1>3, <1>4, <1>5, <1>6

\* What updateClaimStatus() is called with.
Ends(status, by) == (status = "retracted" /\ by = Nobody) \/ (status = "superseded" /\ by \in Ids)

LEMMA StatusFacts ==
    ASSUME NEW s \in Sound, NEW D, NEW status, NEW by, Ends(status, by), NEW closes \in BOOLEAN
    PROVE  LET t == UpdateStatuses(s, D, status, by, closes)
           IN  /\ t \in Sound
               /\ s \in Synced => t \in Synced
               /\ \A c \in Ids :
                     LET hit == c \in D /\ s.row[c].status # "none"
                     IN  /\ hit => /\ t.row[c].status = status
                                   /\ t.act[c].by = IF status = "retracted" THEN s.act[c].by ELSE by
                                   /\ t.row[c].ev = s.row[c].ev
                         /\ ~hit => /\ t.row[c] = s.row[c] /\ t.rec[c] = s.rec[c]
                                    /\ t.act[c] = s.act[c]
<1> DEFINE r == [c \in {d \in D : s.row[d].status # "none"} |->
                    [s.row[c] EXCEPT !.status = status, !.by = by, !.open = @ /\ ~closes]]
           t == UpdateStatuses(s, D, status, by, closes)
<1>1. t = InsertClaims(s, r)
  BY DEF UpdateStatuses
<1>2. ASSUME NEW c \in Ids, c \in DOMAIN r
      PROVE  /\ Good(r[c]) /\ r[c].status = status /\ r[c].by = by /\ r[c].ev = s.row[c].ev
  <2>1. Good(s.row[c]) /\ s.row[c] \in Rows
    BY <1>2, RowFacts
  <2>2. r[c] = [s.row[c] EXCEPT !.status = status, !.by = by, !.open = @ /\ ~closes]
    BY <1>2
  <2> DEFINE q == s.row[c]
  <2> HIDE DEF r, q
  <2>3. Good(q) => Good([q EXCEPT !.status = status, !.by = by, !.open = @ /\ ~closes])
    <3>1. CASE status = "retracted" /\ by = Nobody
      BY <3>1, RowRewritten
    <3>2. CASE status = "superseded" /\ by \in Ids
      BY <3>2, RowRewritten
    <3> QED
      BY <3>1, <3>2 DEF Ends
  <2>4. Good(r[c])
    BY <2>1, <2>2, <2>3 DEF q
  <2> QED
    BY <2>1, <2>2, <2>4 DEF Rows
<1>3. \A c \in Ids : c \in DOMAIN r <=> c \in D /\ s.row[c].status # "none"
  OBVIOUS
<1> HIDE DEF r
<1>4. t \in Sound /\ (s \in Synced => t \in Synced)
  BY <1>1, <1>2, InsertSound
<1>5. ASSUME NEW c \in Ids
      PROVE  /\ c \in DOMAIN r => /\ t.row[c] = r[c]
                                  /\ t.act[c].by = IF status = "retracted" THEN s.act[c].by ELSE by
             /\ c \notin DOMAIN r => /\ t.row[c] = s.row[c] /\ t.rec[c] = s.rec[c]
                                     /\ t.act[c] = s.act[c]
  BY <1>1, <1>2, InsertPointers
<1> HIDE DEF t
<1> QED
  BY <1>2, <1>3, <1>4, <1>5 DEF t

-----------------------------------------------------------------------------
(* The handlers of the replay.                                             *)

\* Status and pointer of c are what they were; c has ended.
Same(s, t, c) == t.row[c].status = s.row[c].status /\ t.act[c].by = s.act[c].by
Ended(s, t, c, status, by) ==
    t.row[c].status = status /\ t.act[c].by = IF status = "retracted" THEN s.act[c].by ELSE by

\* t is sound, and synced if s is.
AsSound(s, t) == t \in Sound /\ (s \in Synced => t \in Synced)

\* Rows inserted with the status and the pointer they have change neither.
LEMMA ContentFacts ==
    ASSUME NEW s \in Sound, NEW r,
           \A c \in Ids : c \in DOMAIN r => /\ Good(r[c]) /\ r[c].status = s.row[c].status
                                            /\ r[c].by = s.row[c].by
    PROVE  LET t == InsertClaims(s, r)
           IN  AsSound(s, t) /\ \A c \in Ids : Same(s, t, c)
<1> DEFINE t == InsertClaims(s, r)
<1>1. AsSound(s, t)
  BY InsertSound DEF AsSound
<1>2. ASSUME NEW c \in Ids PROVE Same(s, t, c)
  <2>1. CASE c \in DOMAIN r
    <3>1. /\ t.row[c] = r[c]
          /\ t.act[c].by = IF r[c].status = "retracted" THEN s.act[c].by ELSE r[c].by
      BY <2>1, InsertPointers
    <3>2. r[c].status # "none"
      BY <2>1 DEF Good
    <3>3. r[c].status # "retracted" => s.act[c].by = s.row[c].by
      BY <2>1, <3>2, RowFacts DEF Records
    <3> QED
      BY <2>1, <3>1, <3>3 DEF Same
  <2>2. CASE c \notin DOMAIN r
    BY <2>2, InsertPointers DEF Same
  <2> QED
    BY <2>1, <2>2
<1> QED
  BY <1>1, <1>2

LEMMA EvidenceFacts ==
    ASSUME NEW s \in Sound, NEW c \in Ids, s.row[c].status # "none", NEW E \in SUBSET Evidence
    PROVE  AsSound(s, AddEvidence(s, c, E)) /\ \A d \in Ids : Same(s, AddEvidence(s, c, E), d)
<1> DEFINE q == [s.row[c] EXCEPT !.ev = s.row[c].ev \cup E]
           r == [d \in {c} |-> q]
<1>1. Good(s.row[c]) /\ s.row[c] \in Rows
  BY RowFacts
<1>2. s.row[c].ev \cup E \in SUBSET Evidence
  BY <1>1 DEF Rows
<1>3. Good(q) /\ q.status = s.row[c].status /\ q.by = s.row[c].by
  BY <1>1, <1>2, RowRewritten DEF Rows
<1>4. AddEvidence(s, c, E) = InsertClaims(s, r)
  BY DEF AddEvidence, InsertClaim
<1> HIDE DEF q
<1>5. \A d \in Ids : d \in DOMAIN r => /\ Good(r[d]) /\ r[d].status = s.row[d].status
                                       /\ r[d].by = s.row[d].by
  BY <1>3
<1> HIDE DEF r
<1> QED
  BY <1>4, <1>5, ContentFacts

\* A single row is inserted.
LEMMA InsertOne ==
    ASSUME NEW s \in Sound, NEW c \in Ids, NEW q, Good(q)
    PROVE  LET t == InsertClaim(s, c, q)
           IN  /\ AsSound(s, t)
               /\ Ended(s, t, c, q.status, q.by)
               /\ \A d \in Ids \ {c} : Same(s, t, d)
<1> DEFINE r == [d \in {c} |-> q]
           t == InsertClaim(s, c, q)
<1>1. t = InsertClaims(s, r)
  BY DEF InsertClaim
<1>2. \A d \in Ids : (d \in DOMAIN r <=> d = c) /\ (d \in DOMAIN r => r[d] = q)
  OBVIOUS
<1> HIDE DEF r, t
<1>3. AsSound(s, t)
  BY <1>1, <1>2, InsertSound DEF AsSound
<1>4. Ended(s, t, c, q.status, q.by)
  BY <1>1, <1>2, InsertPointers DEF Ended
<1>5. \A d \in Ids \ {c} : Same(s, t, d)
  BY <1>1, <1>2, InsertPointers DEF Same
<1> QED
  BY <1>3, <1>4, <1>5 DEF t

\* updateClaimStatus() of one claim with a row.
LEMMA StatusOne ==
    ASSUME NEW s \in Sound, NEW c \in Ids, s.row[c].status # "none",
           NEW status, NEW by, Ends(status, by), NEW closes \in BOOLEAN
    PROVE  LET t == UpdateClaimStatus(s, c, status, by, closes)
           IN  /\ AsSound(s, t)
               /\ Ended(s, t, c, status, by)
               /\ \A d \in Ids \ {c} : Same(s, t, d)
BY StatusFacts DEF UpdateClaimStatus, AsSound, Ended, Same

LEMMA StatusEither ==
    ASSUME NEW s \in Sound, NEW D, NEW status, NEW by, Ends(status, by), NEW closes \in BOOLEAN
    PROVE  LET t == UpdateStatuses(s, D, status, by, closes)
           IN  /\ AsSound(s, t)
               /\ \A c \in Ids : Same(s, t, c) \/ (c \in D /\ Ended(s, t, c, status, by))
<1> DEFINE t == UpdateStatuses(s, D, status, by, closes)
<1>1. AsSound(s, t)
  BY StatusFacts DEF AsSound
<1>2. ASSUME NEW c \in Ids PROVE Same(s, t, c) \/ (c \in D /\ Ended(s, t, c, status, by))
  BY StatusFacts DEF Same, Ended
<1> QED
  BY <1>1, <1>2

\* handleCorrection(): with reason duplicate the target alone changes, and points
\* to what it is merged into; else the corrected claim is active, points nowhere,
\* and the target points to it or is retracted.
LEMMA CorrectionFacts ==
    ASSUME NEW s \in Sound, NEW e \in Corrections
    PROVE  LET t == HandleCorrection(s, e)
           IN  /\ AsSound(s, t)
               /\ t = s \/ /\ e.reason = "duplicate"
                           /\ Ended(s, t, e.target, "superseded", e.into)
                           /\ \A c \in Ids \ {e.target} : Same(s, t, c)
                        \/ /\ e.reason # "duplicate" /\ e.id \in Ids
                           /\ Ended(s, t, e.id, "active", Nobody)
                           /\ \A c \in Ids \ {e.target, e.id} : Same(s, t, c)
                           /\ e.target # e.id =>
                                 \/ Ended(s, t, e.target, "superseded", e.id) /\ e.reason = "changed"
                                 \/ Ended(s, t, e.target, "retracted", Nobody) /\ e.reason # "changed"
<1> DEFINE t == HandleCorrection(s, e)
           original == s.row[e.target]
           corrected == BuildCorrected(original, e)
<1>0. /\ e.target \in Ids /\ e.into \in Ids /\ e.reason \in Reasons /\ e.val \in Values \cup {Blank}
      /\ e.reason = "duplicate" \/ e.id \in Ids
  BY DEF Corrections
<1>1. CASE original.status = "none"
  <2>1. t = s
    BY <1>1 DEF HandleCorrection
  <2> QED
    BY <2>1 DEF AsSound
<1>2. CASE original.status # "none" /\ e.reason = "duplicate"
  <2>1. t = HandleDuplicate(s, e)
    BY <1>2 DEF HandleCorrection
  <2>2. CASE s.row[e.into].status = "none"
    <3>1. t = s
      BY <2>1, <2>2 DEF HandleDuplicate
    <3> QED
      BY <3>1 DEF AsSound
  <2>3. CASE s.row[e.into].status # "none"
    <3> DEFINE u == AddEvidence(s, e.into, s.row[e.target].ev)
    <3>1. t = UpdateClaimStatus(u, e.target, "superseded", e.into, FALSE)
      BY <2>1, <2>3 DEF HandleDuplicate
    <3>2. s.row[e.target].ev \in SUBSET Evidence
      BY <1>0, RowFacts DEF Rows
    <3>3. AsSound(s, u) /\ \A d \in Ids : Same(s, u, d)
      BY <1>0, <2>3, <3>2, EvidenceFacts
    <3> HIDE DEF u, t
    <3>4. u \in Sound /\ u.row[e.target].status # "none"
      BY <1>0, <1>2, <3>3 DEF AsSound, Same
    <3>5. Ends("superseded", e.into) /\ FALSE \in BOOLEAN
      BY <1>0 DEF Ends
    <3>6. /\ AsSound(u, t)
          /\ Ended(u, t, e.target, "superseded", e.into)
          /\ \A d \in Ids \ {e.target} : Same(u, t, d)
      BY <1>0, <3>1, <3>4, <3>5, StatusOne
    <3>7. AsSound(s, t)
      BY <3>3, <3>6 DEF AsSound
    <3>8. Ended(s, t, e.target, "superseded", e.into) /\ \A d \in Ids \ {e.target} : Same(s, t, d)
      BY <1>0, <3>3, <3>6 DEF Ended, Same
    <3> QED
      BY <1>2, <3>7, <3>8 DEF t
  <2> QED
    BY <2>2, <2>3
<1>3. CASE original.status # "none" /\ e.reason # "duplicate"
  <2> DEFINE status == IF e.reason = "changed" THEN "superseded" ELSE "retracted"
             by == IF e.reason = "changed" THEN e.id ELSE Nobody
             closes == (e.reason # "extraction_error")
             u == UpdateClaimStatus(s, e.target, status, by, closes)
  <2>1. t = InsertClaim(u, e.id, corrected)
    <3>1. CASE e.reason = "changed"
      BY <1>3, <3>1 DEF HandleCorrection
    <3>2. CASE e.reason \in {"wrong", "extraction_error"}
      BY <1>3, <3>2 DEF HandleCorrection
    <3> QED
      BY <1>0, <1>3, <3>1, <3>2 DEF Reasons
  <2>2. Good(corrected) /\ corrected.status = "active" /\ corrected.by = Nobody
    <3>1. original \in Rows
      BY <1>0, RowFacts
    <3>2. original.ev \cup {Warrant} \in SUBSET Evidence /\ e.val \in Contents
      BY <1>0, <3>1 DEF Rows, Evidence, Contents
    <3> HIDE DEF original
    <3> QED
      BY <3>1, <3>2 DEF BuildCorrected, Good, Rows, Pointers
  <2>3. Ends(status, by) /\ closes \in BOOLEAN
    BY <1>0, <1>3 DEF Ends
  <2> HIDE DEF corrected, status, by, closes
  <2>4. AsSound(s, u) /\ Ended(s, u, e.target, status, by) /\ \A d \in Ids \ {e.target} : Same(s, u, d)
    BY <1>0, <1>3, <2>3, StatusOne
  <2> HIDE DEF u, t
  <2>5. /\ AsSound(u, t)
        /\ Ended(u, t, e.id, "active", Nobody)
        /\ \A d \in Ids \ {e.id} : Same(u, t, d)
    BY <1>0, <1>3, <2>1, <2>2, <2>4, InsertOne DEF AsSound
  <2>6. AsSound(s, t)
    BY <2>4, <2>5 DEF AsSound
  <2>7. Ended(s, t, e.id, "active", Nobody)
    BY <2>5 DEF Ended
  <2>8. \A c \in Ids \ {e.target, e.id} : Same(s, t, c)
    BY <2>4, <2>5 DEF Same
  <2>9. e.target # e.id => Ended(s, t, e.target, status, by)
    BY <1>0, <2>4, <2>5 DEF Same, Ended
  <2>10. e.target # e.id =>
             \/ Ended(s, t, e.target, "superseded", e.id) /\ e.reason = "changed"
             \/ Ended(s, t, e.target, "retracted", Nobody) /\ e.reason # "changed"
    BY <2>9 DEF status, by
  <2>11. e.reason # "duplicate" /\ e.id \in Ids
    BY <1>0, <1>3
  <2> QED
    BY <2>6, <2>7, <2>8, <2>10, <2>11 DEF t
<1> QED
  BY <1>1, <1>2, <1>3

\* removeEvidenceFromClaims(): of active claims some end, and nothing else changes.
LEMMA RemoveEvidenceFacts ==
    ASSUME NEW s \in Sound, NEW o
    PROVE  LET t == RemoveEvidence(s, o)
           IN  /\ AsSound(s, t)
               /\ \A c \in Ids : Same(s, t, c) \/ Ended(s, t, c, "retracted", Nobody)
<1> DEFINE impacted == {c \in Ids : s.row[c].status = "active" /\ o \in s.row[c].ev}
           r == [c \in impacted |-> [s.row[c] EXCEPT !.ev = @ \ {o}]]
           u == InsertClaims(s, r)
           D == {c \in impacted : u.row[c].ev = {}}
           t == RemoveEvidence(s, o)
<1>1. t = UpdateStatuses(u, D, "retracted", Nobody, FALSE)
  BY DEF RemoveEvidence
<1>2. ASSUME NEW c \in Ids, c \in DOMAIN r
      PROVE  Good(r[c]) /\ r[c].status = s.row[c].status /\ r[c].by = s.row[c].by
  <2>1. Good(s.row[c]) /\ s.row[c] \in Rows
    BY <1>2, RowFacts
  <2>2. r[c] = [s.row[c] EXCEPT !.ev = s.row[c].ev \ {o}] /\ s.row[c].ev \ {o} \in SUBSET Evidence
    BY <1>2, <2>1 DEF Rows
  <2> DEFINE q == s.row[c]
             E == s.row[c].ev \ {o}
  <2>3. Good(q) /\ q \in Rows /\ E \in SUBSET Evidence /\ r[c] = [q EXCEPT !.ev = E]
    BY <2>1, <2>2
  <2> HIDE DEF r, q, E
  <2>4. Good([q EXCEPT !.ev = E])
    BY <2>3, RowRewritten
  <2>5. Good(r[c]) /\ r[c].status = q.status /\ r[c].by = q.by
    BY <2>3, <2>4 DEF Rows
  <2> QED
    BY <2>5 DEF q
<1> HIDE DEF r
<1>3. AsSound(s, u) /\ \A c \in Ids : Same(s, u, c)
  BY <1>2, ContentFacts
<1> HIDE DEF u, D, t
<1>4. Ends("retracted", Nobody) /\ FALSE \in BOOLEAN
  BY DEF Ends
<1>5. AsSound(u, t) /\ \A c \in Ids : Same(u, t, c) \/ Ended(u, t, c, "retracted", Nobody)
  BY <1>1, <1>3, <1>4, StatusEither DEF AsSound
<1>6. AsSound(s, t)
  BY <1>3, <1>5 DEF AsSound
<1>7. \A c \in Ids : Same(s, t, c) \/ Ended(s, t, c, "retracted", Nobody)
  BY <1>3, <1>5 DEF Same, Ended
<1> QED
  BY <1>6, <1>7 DEF t

LEMMA RetractionFacts ==
    ASSUME NEW s \in Sound, NEW e \in Withdrawals
    PROVE  LET t == HandleRetraction(s, e)
           IN  /\ AsSound(s, t)
               /\ \A c \in Ids : Same(s, t, c) \/ Ended(s, t, c, "retracted", Nobody)
<1> DEFINE t == HandleRetraction(s, e)
<1>0. AsSound(s, s) /\ \A c \in Ids : Same(s, s, c)
  BY DEF AsSound, Same
<1>1. CASE e.kind = "observation"
  <2>1. t = RemoveEvidence(s, e.target)
    BY <1>1 DEF HandleRetraction
  <2> QED
    BY <2>1, RemoveEvidenceFacts
<1>2. CASE e.kind = "redaction"
  <2>0. e.target \in Ids
    BY <1>2 DEF Withdrawals
  <2>1. CASE s.row[e.target].status = "none"
    <3>1. t = s
      BY <1>2, <2>1 DEF HandleRetraction
    <3> QED
      BY <1>0, <3>1
  <2>2. CASE s.row[e.target].status # "none"
    <3> DEFINE q == [s.row[e.target] EXCEPT !.val = Redacted]
               r == [d \in {e.target} |-> q]
    <3>1. t = InsertClaims(s, r)
      BY <1>2, <2>2 DEF HandleRetraction, InsertClaim
    <3>2. Good(q) /\ q.status = s.row[e.target].status /\ q.by = s.row[e.target].by
      <4> DEFINE old == s.row[e.target]
      <4>1. Good(old) /\ old \in Rows /\ Redacted \in Contents
        BY <2>0, <2>2, RowFacts DEF Contents
      <4> HIDE DEF old
      <4>2. /\ Good([old EXCEPT !.val = Redacted])
            /\ [old EXCEPT !.val = Redacted].status = old.status
            /\ [old EXCEPT !.val = Redacted].by = old.by
        BY <4>1, RowRewritten DEF Rows
      <4> QED
        BY <4>2 DEF old
    <3> HIDE DEF q, t
    <3>3. \A c \in Ids : c \in DOMAIN r => /\ Good(r[c]) /\ r[c].status = s.row[c].status
                                           /\ r[c].by = s.row[c].by
      BY <3>2
    <3> HIDE DEF r
    <3>4. AsSound(s, t) /\ \A c \in Ids : Same(s, t, c)
      BY <3>1, <3>3, ContentFacts
    <3> QED
      BY <3>4 DEF t
  <2> QED
    BY <2>1, <2>2
<1>3. CASE e.kind = "tombstone"
  <2>0. e.target \in Ids
    BY <1>3 DEF Withdrawals
  <2>1. CASE s.row[e.target].status = "retracted"
    <3>1. t = s
      BY <1>3, <2>1 DEF HandleRetraction
    <3> QED
      BY <1>0, <3>1
  <2>2. CASE s.row[e.target].status # "retracted"
    <3>1. t = UpdateStatuses(s, {e.target}, "retracted", Nobody, FALSE)
      BY <1>3, <2>2 DEF HandleRetraction, UpdateClaimStatus
    <3>2. Ends("retracted", Nobody) /\ FALSE \in BOOLEAN
      BY DEF Ends
    <3> HIDE DEF t
    <3>3. AsSound(s, t) /\ \A c \in Ids : Same(s, t, c) \/ Ended(s, t, c, "retracted", Nobody)
      BY <3>1, <3>2, StatusEither
    <3> QED
      BY <3>3 DEF t
  <2> QED
    BY <2>1, <2>2
<1>4. e.kind \in {"observation", "redaction", "tombstone"}
  BY DEF Withdrawals
<1> QED
  BY <1>1, <1>2, <1>3, <1>4

\* An event of the log keeps a store sound.
LEMMA EventSound ==
    ASSUME NEW s \in Sound, NEW e \in Events
    PROVE  AsSound(s, ProcessEvent(s, e))
<1>1. CASE e \in Corrections
  BY <1>1, CorrectionFacts DEF ProcessEvent, Corrections
<1>2. CASE e \in Withdrawals
  BY <1>2, RetractionFacts DEF ProcessEvent, Withdrawals
<1> QED
  BY <1>1, <1>2 DEF Events

\* So does the replay of any number of them.
LEMMA CatchUpSound ==
    ASSUME NEW s \in Sound, NEW events \in Seq(Events), NEW a \in Nat, NEW b \in 0 .. Len(events),
           a <= b
    PROVE  AsSound(s, CatchUp(s, events, a, b))
<1>1. \A k \in a + 1 .. b : events[k] \in Events
  OBVIOUS
<1>2. b \in Nat
  OBVIOUS
<1>3. CatchUp(s, events, a, b) \in Sound
  BY <1>1, <1>2, EventSound, CatchUpKeeps DEF AsSound
<1>4. ASSUME s \in Synced PROVE CatchUp(s, events, a, b) \in Synced
  <2>1. \A t \in Synced : t \in Sound
    BY DEF Synced
  <2>2. \A k \in a + 1 .. b : \A t \in Synced : ProcessEvent(t, events[k]) \in Synced
    BY <1>1, <2>1, EventSound DEF AsSound
  <2> QED
    BY <1>2, <1>4, <2>2, CatchUpKeeps
<1> QED
  BY <1>3, <1>4 DEF AsSound

-----------------------------------------------------------------------------
(* What a step from store s to store t may do.                             *)

\* No demotion is lifted.
Sticks(s, t) == \A c \in Ids : s.act[c].by # Nobody => t.act[c].by # Nobody

\* No retraction is.
Stays(s, t) == \A c \in Ids : s.row[c].status = "retracted" => t.row[c].status = "retracted"

\* Demotions are to one claim, which is not demoted itself.
LeadsTo(s, t, x) ==
    /\ x \in Ids => t.act[x].by = Nobody
    /\ \A c \in Ids : t.act[c].by \in {s.act[c].by, Nobody, x}
Leads(s, t) == \E x : LeadsTo(s, t, x)

Effects(s, t) == AsSound(s, t) /\ Sticks(s, t) /\ Stays(s, t) /\ Leads(s, t)

\* A step that changes neither a status nor a pointer does none of it.
LEMMA SameEffects ==
    ASSUME NEW s, NEW t, AsSound(s, t), \A c \in Ids : Same(s, t, c)
    PROVE  Effects(s, t)
<1>1. LeadsTo(s, t, Nobody)
  BY DEF LeadsTo, Same, Ids, Nobody
<1> QED
  BY <1>1 DEF Effects, Sticks, Stays, Leads, Same

\* An event lifts nothing it may not lift, and finds what it found when it is
\* applied again.
LEMMA EventEffects ==
    ASSUME NEW s \in Sound, NEW e \in Events, Stands(s, e)
    PROVE  LET t == ProcessEvent(s, e)
           IN  /\ Sticks(s, t)
               /\ ~CorrectForgotten => Stays(s, t)
               /\ ~MergeDemoted => Leads(s, t)
               /\ Stands(t, e)
<1> DEFINE t == ProcessEvent(s, e)
<1>1. CASE e \in Withdrawals
  <2>1. t = HandleRetraction(s, e) /\ e.kind # "correction"
    BY <1>1 DEF ProcessEvent, Withdrawals
  <2>2. \A c \in Ids : Same(s, t, c) \/ Ended(s, t, c, "retracted", Nobody)
    BY <1>1, <2>1, RetractionFacts
  <2> HIDE DEF t
  <2>3. LeadsTo(s, t, Nobody)
    BY <2>2 DEF LeadsTo, Same, Ended, Ids, Nobody
  <2>4. Sticks(s, t) /\ Stays(s, t) /\ Stands(t, e)
    BY <2>1, <2>2 DEF Sticks, Stays, Stands, Same, Ended
  <2> QED
    BY <2>3, <2>4 DEF t, Leads
<1>2. CASE e \in Corrections
  <2>1. t = HandleCorrection(s, e) /\ e.kind = "correction" /\ e.target \in Ids /\ e.into \in Ids
    BY <1>2 DEF ProcessEvent, Corrections
  <2> HIDE DEF t
  <2>2. CASE t = s
    <3>1. LeadsTo(s, t, Nobody)
      BY <2>2 DEF LeadsTo, Ids, Nobody
    <3> QED
      BY <2>2, <3>1 DEF Sticks, Stays, Leads, t
  <2>3. CASE /\ e.reason = "duplicate"
             /\ Ended(s, t, e.target, "superseded", e.into)
             /\ \A c \in Ids \ {e.target} : Same(s, t, c)
    <3>1. e.into # Nobody
      BY <2>1 DEF Ids, Nobody
    <3>2. Sticks(s, t)
      BY <2>1, <2>3, <3>1 DEF Sticks, Same, Ended
    <3>3. ~CorrectForgotten => Stays(s, t)
      BY <2>1, <2>3 DEF Stays, Stands, Same
    <3>4. ~MergeDemoted => /\ e.into # e.target /\ s.row[e.into].status \in Live
                           /\ Same(s, t, e.into) /\ t.act[e.into].by = Nobody
      BY <2>1, <2>3, RowFacts DEF Stands, Same
    <3>5. ~MergeDemoted => LeadsTo(s, t, e.into)
      BY <2>3, <3>4 DEF LeadsTo, Same, Ended
    <3>6. Stands(t, e)
      BY <2>3, <3>4 DEF Stands, Same, Ended
    <3> QED
      BY <3>2, <3>3, <3>5, <3>6 DEF t, Leads
  <2>4. CASE /\ e.reason # "duplicate" /\ e.id \in Ids
             /\ Ended(s, t, e.id, "active", Nobody)
             /\ \A c \in Ids \ {e.target, e.id} : Same(s, t, c)
             /\ e.target # e.id =>
                   \/ Ended(s, t, e.target, "superseded", e.id) /\ e.reason = "changed"
                   \/ Ended(s, t, e.target, "retracted", Nobody) /\ e.reason # "changed"
    <3>1. e.id # e.target /\ s.row[e.id].status # "retracted" /\ s.act[e.id].by = Nobody
      BY <2>1, <2>4 DEF Stands
    <3>2. e.id # Nobody
      BY <2>4 DEF Ids, Nobody
    <3>3. Sticks(s, t)
      BY <2>4, <3>1, <3>2 DEF Sticks, Same, Ended
    <3>4. ~CorrectForgotten => Stays(s, t)
      BY <2>1, <2>4, <3>1 DEF Stays, Stands, Same, Ended
    <3>5. LeadsTo(s, t, e.id)
      BY <2>4, <3>1 DEF LeadsTo, Same, Ended
    <3>6. Stands(t, e)
      BY <2>4, <3>1 DEF Stands, Same, Ended
    <3> QED
      BY <3>3, <3>4, <3>5, <3>6 DEF t, Leads
  <2> QED
    BY <1>2, <2>1, <2>2, <2>3, <2>4, CorrectionFacts
<1> QED
  BY <1>1, <1>2 DEF Events

\* Live claims marked as contested keep their pointers.
LEMMA ContestFacts ==
    ASSUME NEW s \in Sound, NEW c \in Ids, NEW D \in SUBSET Ids,
           \A d \in D \cup {c} : s.row[d].status \in Live
    PROVE  LET t == MarkContested(s, c, D)
           IN  /\ AsSound(s, t)
               /\ \A d \in Ids : t.act[d].by = s.act[d].by
               /\ \A d \in Ids : Same(s, t, d) \/ (t.row[d].status = "contested" /\ d \in D \cup {c})
<1> DEFINE r == [d \in D \cup {c} |-> [s.row[d] EXCEPT !.status = "contested"]]
           t == MarkContested(s, c, D)
<1>1. t = InsertClaims(s, r)
  BY DEF MarkContested
<1>2. ASSUME NEW d \in Ids, d \in DOMAIN r
      PROVE  /\ Good(r[d]) /\ r[d].status = "contested" /\ r[d].by = Nobody
             /\ s.act[d].by = Nobody
  <2> DEFINE q == s.row[d]
  <2>1. Good(q) /\ q.by = Nobody /\ q \in Rows /\ s.act[d].by = Nobody
    BY <1>2, RowFacts DEF Live
  <2>2. r[d] = [q EXCEPT !.status = "contested"]
    BY <1>2
  <2> HIDE DEF r, q
  <2>3. Good([q EXCEPT !.status = "contested"])
    BY <2>1, RowRewritten
  <2> QED
    BY <2>1, <2>2, <2>3 DEF Rows
<1>3. \A d \in Ids : d \in DOMAIN r <=> d \in D \cup {c}
  OBVIOUS
<1> HIDE DEF r, t
<1>4. AsSound(s, t)
  BY <1>1, <1>2, InsertSound DEF AsSound
<1>5. ASSUME NEW d \in Ids
      PROVE  /\ t.act[d].by = s.act[d].by
             /\ Same(s, t, d) \/ (t.row[d].status = "contested" /\ d \in D \cup {c})
  <2>1. CASE d \in DOMAIN r
    <3>1. Good(r[d]) /\ r[d].status = "contested" /\ r[d].by = Nobody /\ s.act[d].by = Nobody
      BY <1>2, <2>1
    <3>2. /\ t.row[d] = r[d]
          /\ t.act[d].by = IF r[d].status = "retracted" THEN s.act[d].by ELSE r[d].by
      BY <1>1, <2>1, <3>1, InsertPointers
    <3> QED
      BY <1>3, <2>1, <3>1, <3>2
  <2>2. CASE d \notin DOMAIN r
    <3>1. t.row[d] = s.row[d] /\ t.act[d] = s.act[d]
      BY <1>1, <2>2, InsertPointers
    <3> QED
      BY <3>1 DEF Same
  <2> QED
    BY <2>1, <2>2
<1> QED
  BY <1>4, <1>5 DEF t

-----------------------------------------------------------------------------
(* The verbs.                                                              *)

LEMMA BecomesIs ==
    ASSUME NEW t \in Stores, Becomes(t)
    PROVE  Current' = t
BY DEF Becomes, Current, S, Stores

\* appendClaimVersion() and syncFromJsonlVersion(): a forgotten version retracts
\* the row, an active one hands its pointer to row and active record.
LEMMA SyncPointers ==
    ASSUME NEW s \in Sound, NEW v, NEW c \in Ids,
           c \in DOMAIN v => v[c] \in Records /\ v[c].state # "none"
    PROVE  LET t == SyncVersions(s, v)
           IN  /\ c \in DOMAIN v =>
                     /\ t.row[c].status = IF v[c].state = "forgotten" THEN "retracted"
                                          ELSE IF v[c].by # Nobody THEN "superseded" ELSE "active"
                     /\ t.act[c].by = IF v[c].state = "active" THEN v[c].by ELSE s.act[c].by
               /\ c \notin DOMAIN v => Same(s, t, c) /\ t.row[c] = s.row[c]
<1> DEFINE t == SyncVersions(s, v)
<1>0. s \in Stores /\ s.row[c] \in Rows
  BY DEF Sound, Stores
<1>1. CASE c \in DOMAIN v
  <2>1. v[c] \in Records /\ v[c].state \in {"active", "forgotten"}
    BY <1>1 DEF Records
  <2>2. /\ t.row[c] = ClaimVersionVals(s.row[c], v[c])
        /\ t.act[c] = IF v[c].state = "active" THEN v[c] ELSE s.act[c]
    BY <1>0, <1>1, SyncFacts
  <2>3. t.row[c].status = IF v[c].state = "forgotten" THEN "retracted"
                          ELSE IF v[c].by # Nobody THEN "superseded" ELSE "active"
    BY <1>0, <2>1, <2>2, DerivedFacts
  <2>4. t.act[c].by = IF v[c].state = "active" THEN v[c].by ELSE s.act[c].by
    BY <2>2
  <2> QED
    BY <1>1, <2>3, <2>4
<1>2. CASE c \notin DOMAIN v
  <2>1. t.row[c] = s.row[c] /\ t.act[c] = s.act[c]
    BY <1>0, <1>2, SyncFacts
  <2>2. Same(s, t, c)
    BY <2>1 DEF Same
  <2> QED
    BY <1>2, <2>1, <2>2
<1> QED
  BY <1>1, <1>2

\* A claim without row and record was never demoted.
LEMMA FreshFacts ==
    ASSUME Current \in Sound, NEW c \in Fresh
    PROVE  /\ c \in Ids /\ c # Nobody /\ row[c].status = "none"
           /\ rec[c].state = "none" /\ act[c].by = Nobody
<1>1. c \in Ids /\ row[c].status = "none" /\ rec[c].state = "none"
  BY DEF Fresh
<1>2. act[c].by = Nobody
  BY <1>1, RowFacts DEF Current, S
<1> QED
  BY <1>1, <1>2 DEF Ids, Nobody

\* A claim minted or corrected takes an id that was free.
LEMMA MintedEffects ==
    ASSUME NEW s \in Sound, NEW c \in Ids, s.row[c].status = "none", NEW q, Good(q),
           q.status = "active"
    PROVE  LET t == InsertClaim(s, c, q)
           IN  /\ Effects(s, t)
               /\ Ended(s, t, c, "active", Nobody)
               /\ \A d \in Ids \ {c} : Same(s, t, d)
<1> DEFINE t == InsertClaim(s, c, q)
<1>1. q.by = Nobody
  BY DEF Good
<1>2. s.act[c].by = Nobody
  BY RowFacts
<1>3. AsSound(s, t) /\ Ended(s, t, c, "active", Nobody) /\ \A d \in Ids \ {c} : Same(s, t, d)
  BY <1>1, InsertOne
<1> HIDE DEF t
<1>4. LeadsTo(s, t, Nobody)
  BY <1>3 DEF LeadsTo, Same, Ended, Ids, Nobody
<1>5. Sticks(s, t) /\ Stays(s, t)
  BY <1>2, <1>3 DEF Sticks, Stays, Same, Ended
<1> QED
  BY <1>3, <1>4, <1>5 DEF Effects, Leads, t

\* Admission demotes in favour of the new claim alone.
LEMMA AdmitEffects ==
    ASSUME Current \in Sound,
           NEW c \in Ids, NEW o \in Obs, NEW v \in Values, NEW f \in Froms, Admit(c, o, v, f)
    PROVE  Current' \in Sound /\ Effects(Current, Current')
<1> DEFINE s == Current
           q == Minted(o, v, f)
           u == InsertClaim(s, c, q)
<1>0. s.row = row /\ s.rec = rec /\ s.act = act
  BY DEF Current, S
<1>1. Good(q) /\ q.status = "active"
  BY ClaimStoreAssumption
  DEF Minted, Good, Rows, Evidence, Contents, Pointers
<1>2. c \in Fresh /\ c # Nobody /\ row[c].status = "none" /\ act[c].by = Nobody
  BY FreshFacts DEF Admit
<1> HIDE DEF s, q
<1>3. s \in Sound
  BY DEF s
<1>4. /\ Effects(s, u)
      /\ Ended(s, u, c, "active", Nobody)
      /\ \A d \in Ids \ {c} : Same(s, u, d)
  BY <1>0, <1>1, <1>2, <1>3, MintedEffects
<1> HIDE DEF u
<1>5. u \in Sound /\ AsSound(s, u)
  BY <1>4 DEF Effects, AsSound
<1>6. SUFFICES \E t : AsSound(s, t) /\ Effects(s, t) /\ Becomes(t)
  <2>1. PICK t : AsSound(s, t) /\ Effects(s, t) /\ Becomes(t)
    BY <1>6
  <2>2. t \in Stores /\ t \in Sound
    BY <2>1 DEF AsSound, Sound
  <2>3. Current' = t
    BY <2>1, <2>2, BecomesIs
  <2> QED
    BY <2>1, <2>2, <2>3 DEF s
<1>7. ASSUME NEW d \in Agreeing(v, f), Becomes(AddEvidence(s, d, {o}))
      PROVE  \E t : AsSound(s, t) /\ Effects(s, t) /\ Becomes(t)
  <2>1. d \in Ids /\ s.row[d].status # "none" /\ {o} \in SUBSET Evidence
    BY <1>0 DEF Agreeing, SameKey, Live, Evidence
  <2>2. AsSound(s, AddEvidence(s, d, {o})) /\ \A b \in Ids : Same(s, AddEvidence(s, d, {o}), b)
    BY <1>3, <2>1, EvidenceFacts
  <2>3. Effects(s, AddEvidence(s, d, {o}))
    BY <2>2, SameEffects
  <2> QED
    BY <1>7, <2>2, <2>3
<1>8. ASSUME Becomes(MarkContested(u, c, SameKey(f)))
      PROVE  \E t : AsSound(s, t) /\ Effects(s, t) /\ Becomes(t)
  <2> DEFINE D == SameKey(f)
             t == MarkContested(u, c, D)
  <2>1. D \in SUBSET Ids /\ c \notin D /\ \A d \in D : row[d].status \in Live
    BY <1>2 DEF SameKey, Live
  <2> HIDE DEF D
  <2>2. \A d \in D \cup {c} : u.row[d].status \in Live /\ u.row[d].status # "retracted"
    BY <1>0, <1>4, <2>1 DEF Same, Ended, Live
  <2>3. /\ AsSound(u, t)
        /\ \A d \in Ids : t.act[d].by = u.act[d].by
        /\ \A d \in Ids : Same(u, t, d) \/ (t.row[d].status = "contested" /\ d \in D \cup {c})
    BY <1>5, <2>1, <2>2, ContestFacts
  <2> HIDE DEF t
  <2>4. AsSound(s, t)
    BY <1>5, <2>3 DEF AsSound
  <2>5. Sticks(s, t) /\ Stays(s, t)
    BY <1>4, <2>2, <2>3 DEF Effects, Sticks, Stays, Same
  <2>6. PICK x : LeadsTo(s, u, x)
    BY <1>4 DEF Effects, Leads
  <2>7. LeadsTo(s, t, x)
    BY <2>3, <2>6 DEF LeadsTo
  <2> QED
    BY <1>8, <2>4, <2>5, <2>7 DEF Effects, Leads, t, D
<1>9. ASSUME NEW d \in Earlier(f), Becomes(UpdateClaimStatus(u, d, "superseded", c, TRUE))
      PROVE  \E t : AsSound(s, t) /\ Effects(s, t) /\ Becomes(t)
  <2> DEFINE t == UpdateClaimStatus(u, d, "superseded", c, TRUE)
  <2>1. d \in Ids /\ row[d].status = "active" /\ d # c
    BY <1>2 DEF Earlier
  <2>2. u.row[d].status = "active" /\ Ends("superseded", c) /\ TRUE \in BOOLEAN
    BY <1>0, <1>4, <2>1 DEF Same, Ends
  <2>3. /\ AsSound(u, t)
        /\ Ended(u, t, d, "superseded", c)
        /\ \A b \in Ids \ {d} : Same(u, t, b)
    BY <1>5, <2>1, <2>2, StatusOne
  <2> HIDE DEF t
  <2>4. AsSound(s, t)
    BY <1>5, <2>3 DEF AsSound
  <2>5. LeadsTo(s, t, c)
    BY <1>4, <2>1, <2>3 DEF LeadsTo, Same, Ended
  <2>6. Sticks(s, t) /\ Stays(s, t)
    BY <1>0, <1>2, <1>4, <2>1, <2>3 DEF Effects, Sticks, Stays, Same, Ended
  <2> QED
    BY <1>9, <2>4, <2>5, <2>6 DEF Effects, Leads, t
<1>10. ASSUME Becomes(u) PROVE \E t : AsSound(s, t) /\ Effects(s, t) /\ Becomes(t)
  BY <1>4, <1>5, <1>10
<1> QED
  BY <1>7, <1>8, <1>9, <1>10 DEF Admit, s, q, u

\* A write that moves no pointer and lifts no retraction may follow.
LEMMA EffectsThen ==
    ASSUME NEW s, NEW u, NEW t, Effects(s, u), AsSound(u, t), u \in Sound, Stays(u, t),
           \A c \in Ids : t.act[c].by = u.act[c].by
    PROVE  Effects(s, t)
<1>1. PICK x : LeadsTo(s, u, x)
  BY DEF Effects, Leads
<1>2. LeadsTo(s, t, x)
  BY <1>1 DEF LeadsTo
<1>3. Sticks(s, t) /\ Stays(s, t) /\ AsSound(s, t)
  BY DEF Effects, Sticks, Stays, AsSound
<1> QED
  BY <1>2, <1>3 DEF Effects, Leads

\* A step to a store that s has the effects of is one of the state.
LEMMA StepEffects ==
    ASSUME NEW t, Current \in Sound, Effects(Current, t), Becomes(t)
    PROVE  Current' = t /\ Current' \in Sound
<1>1. t \in Stores /\ t \in Sound
  BY DEF Effects, AsSound, Sound
<1> QED
  BY <1>1, BecomesIs

\* The duplicates of a fact are demoted to the one that survives.
LEMMA ResolveEffects ==
    ASSUME Current \in Sound, NEW v \in Values, NEW E \in SUBSET Obs, ResolveFactMatches(v, E)
    PROVE  Current' \in Sound /\ Effects(Current, Current')
<1> DEFINE s == Current
           M == FactMatches(v)
           survivor == CHOOSE c \in M : \A d \in M : c <= d
           F == E \cup UNION {row[c].ev : c \in M}
           u == AddEvidence(s, survivor, F)
           t == UpdateStatuses(u, M \ {survivor}, "superseded", survivor, FALSE)
<1>0. s.row = row /\ s.rec = rec /\ s.act = act
  BY DEF Current, S
<1>1. M \in SUBSET Ids /\ M # {} /\ \A c \in M : row[c].status = "active"
  BY DEF ResolveFactMatches, FactMatches
<1>2. survivor \in M
  <2>1. M \in SUBSET Nat
    BY <1>1 DEF Ids
  <2>2. \E c \in M : \A d \in M : c <= d
    BY <1>1, <2>1, SmallestExists
  <2> QED
    BY <2>2
<1>3. Becomes(t)
  BY DEF ResolveFactMatches
<1> HIDE DEF s, M, survivor
<1>4. s \in Sound
  BY DEF s
<1>5. F \in SUBSET Evidence
  <2>1. \A c \in M : row[c].ev \in SUBSET Evidence
    BY <1>0, <1>1, <1>4, RowFacts DEF Rows
  <2> QED
    BY <2>1 DEF Evidence
<1> HIDE DEF F
<1>6. survivor \in Ids /\ s.row[survivor].status = "active"
  BY <1>0, <1>1, <1>2
<1>7. s.act[survivor].by = Nobody
  BY <1>4, <1>6, RowFacts DEF Live
<1>8. AsSound(s, u) /\ \A d \in Ids : Same(s, u, d)
  BY <1>4, <1>5, <1>6, EvidenceFacts
<1> HIDE DEF u
<1>9. Ends("superseded", survivor) /\ FALSE \in BOOLEAN /\ u \in Sound
  BY <1>4, <1>6, <1>8 DEF Ends, AsSound
<1>10. /\ AsSound(u, t)
       /\ \A d \in Ids : \/ Same(u, t, d)
                         \/ d \in M \ {survivor} /\ Ended(u, t, d, "superseded", survivor)
  BY <1>9, StatusEither
<1> HIDE DEF t
<1>12. LeadsTo(s, t, survivor)
  BY <1>6, <1>7, <1>8, <1>10 DEF LeadsTo, Same, Ended
<1>13. survivor # Nobody
  BY <1>6 DEF Ids, Nobody
<1>14. Sticks(s, t)
  BY <1>8, <1>10, <1>13 DEF Sticks, Same, Ended
<1>15. Stays(s, t)
  BY <1>0, <1>1, <1>8, <1>10 DEF Stays, Same, Ended
<1>16. Effects(s, t)
  BY <1>8, <1>10, <1>12, <1>14, <1>15 DEF Effects, AsSound, Leads
<1> QED
  BY <1>3, <1>16, StepEffects DEF s

\* A forgotten version takes no pointer away.
LEMMA TombstonedFacts ==
    ASSUME NEW s \in Sound, NEW D
    PROVE  LET t == Tombstoned(s, D)
           IN  /\ AsSound(s, t) /\ Stays(s, t)
               /\ \A c \in Ids : t.act[c].by = s.act[c].by
<1> DEFINE v == [d \in D |-> [s.rec[d] EXCEPT !.state = "forgotten", !.val = Blank]]
           t == Tombstoned(s, D)
<1>1. t = SyncVersions(s, v)
  BY DEF Tombstoned
<1>2. ASSUME NEW c \in Ids, c \in DOMAIN v PROVE v[c] \in Records /\ v[c].state = "forgotten"
  <2> DEFINE q == s.rec[c]
  <2>1. q \in Records /\ v[c] = [q EXCEPT !.state = "forgotten", !.val = Blank]
    BY <1>2, RowFacts
  <2> HIDE DEF q, v
  <2> QED
    BY <2>1 DEF Records, Contents
<1> HIDE DEF v, t
<1>3. AsSound(s, t)
  BY <1>1, <1>2, SyncSound DEF AsSound
<1>4. ASSUME NEW c \in Ids
      PROVE  /\ t.act[c].by = s.act[c].by
             /\ s.row[c].status = "retracted" => t.row[c].status = "retracted"
  <2>1. CASE c \in DOMAIN v
    BY <1>1, <1>2, <2>1, SyncPointers
  <2>2. CASE c \notin DOMAIN v
    BY <1>1, <2>2, SyncPointers DEF Same
  <2> QED
    BY <2>1, <2>2
<1> QED
  BY <1>3, <1>4 DEF t, Stays

\* The summary of a consolidation takes an id that was free; its inputs, or the
\* first of them, are forgotten.
LEMMA ConsolidateEffects ==
    ASSUME Current \in Sound, NEW c \in Fresh, NEW inputs \in SUBSET Ids, NEW v \in Values,
           NEW f \in Froms, NEW D, Becomes(Tombstoned(Consolidated(c, inputs, v, f), D))
    PROVE  Current' \in Sound /\ Effects(Current, Current')
<1> DEFINE s == Current
           q == [state |-> "active", by |-> Nobody, val |-> v, from |-> f, open |-> TRUE,
                 ev |-> inputs \cup UNION {rec[d].ev : d \in inputs}]
           r == [d \in {c} |-> q]
           u == Consolidated(c, inputs, v, f)
           t == Tombstoned(u, D)
<1>0. s.row = row /\ s.rec = rec /\ s.act = act
  BY DEF Current, S
<1>1. u = SyncVersions(s, r)
  BY DEF Consolidated, SyncVersion
<1>2. c \in Ids /\ row[c].status = "none" /\ act[c].by = Nobody
  BY FreshFacts
<1> HIDE DEF s, t
<1>3. s \in Sound
  BY DEF s
<1>4. q \in Records /\ q.state = "active" /\ q.by = Nobody
  <2>1. \A d \in inputs : rec[d].ev \in SUBSET Evidence
    BY <1>0, <1>3, RowFacts DEF Records
  <2>2. inputs \cup UNION {rec[d].ev : d \in inputs} \in SUBSET Evidence
    BY <2>1 DEF Evidence
  <2>3. f \in Nat /\ v \in Contents /\ Nobody \in Pointers
    BY ClaimStoreAssumption DEF Contents, Pointers
  <2> QED
    BY <2>2, <2>3 DEF Records
<1> HIDE DEF u, q
<1>5. \A d \in Ids : (d \in DOMAIN r <=> d = c) /\ (d \in DOMAIN r => r[d] = q)
  OBVIOUS
<1> HIDE DEF r
<1>6. AsSound(s, u)
  BY <1>1, <1>3, <1>4, <1>5, SyncSound DEF AsSound
<1>7. /\ u.row[c].status = "active" /\ u.act[c].by = Nobody
      /\ \A d \in Ids \ {c} : Same(s, u, d)
  BY <1>1, <1>2, <1>3, <1>4, <1>5, SyncPointers
<1>8. LeadsTo(s, u, Nobody)
  BY <1>7 DEF LeadsTo, Same, Ids, Nobody
<1>9. Sticks(s, u) /\ Stays(s, u)
  BY <1>0, <1>2, <1>7 DEF Sticks, Stays, Same
<1>10. Effects(s, u) /\ u \in Sound
  BY <1>3, <1>6, <1>8, <1>9 DEF Effects, Leads, AsSound
<1>11. Effects(s, t) /\ Becomes(t)
  BY <1>10, TombstonedFacts, EffectsThen DEF t, u
<1> QED
  BY <1>11, StepEffects DEF s

\* A REVISE carries the demotion along.
LEMMA ReviseEffects ==
    ASSUME Current \in Sound, NEW c \in Ids, NEW o \in Obs, Revise(c, o)
    PROVE  Current' \in Sound /\ Effects(Current, Current')
<1> DEFINE s == Current
           q == [rec[c] EXCEPT !.ev = @ \cup {o}]
           r == [d \in {c} |-> q]
           t == SyncVersions(s, r)
<1>0. s.row = row /\ s.rec = rec /\ s.act = act
  BY DEF Current, S
<1>1. Becomes(t)
  BY DEF Revise, SyncVersion
<1> HIDE DEF s
<1>2. s \in Sound
  BY DEF s
<1>3. rec[c].state = "active" /\ act[c].by = rec[c].by /\ row[c].status # "retracted"
  BY <1>0, <1>2, RowFacts DEF Revise
<1>4. q \in Records /\ q.state = "active" /\ q.by = rec[c].by
  <2>1. rec[c] \in Records /\ rec[c].ev \cup {o} \in SUBSET Evidence
    BY <1>0, <1>2, RowFacts DEF Records, Evidence
  <2> QED
    BY <1>3, <2>1 DEF Records
<1> HIDE DEF q
<1>5. \A d \in Ids : (d \in DOMAIN r <=> d = c) /\ (d \in DOMAIN r => r[d] = q)
  OBVIOUS
<1> HIDE DEF r, t
<1>6. AsSound(s, t)
  BY <1>2, <1>4, <1>5, SyncSound DEF AsSound, t
<1>7. t.act[c].by = act[c].by /\ \A d \in Ids \ {c} : Same(s, t, d)
  BY <1>2, <1>3, <1>4, <1>5, SyncPointers DEF t
<1>8. LeadsTo(s, t, Nobody)
  BY <1>0, <1>7 DEF LeadsTo, Same, Ids, Nobody
<1>9. Sticks(s, t) /\ Stays(s, t)
  BY <1>0, <1>3, <1>7 DEF Sticks, Stays, Same
<1>10. Effects(s, t)
  BY <1>6, <1>8, <1>9 DEF Effects, Leads
<1> QED
  BY <1>1, <1>10, StepEffects DEF s

\* A process that dies between the version and its sync leaves the row behind by
\* the evidence alone.
LEMMA ReviseDiesEffects ==
    ASSUME Current \in Sound, NEW c \in Ids, NEW o \in Obs, ReviseDies(c, o)
    PROVE  /\ Current' \in Sound
           /\ Sticks(Current, Current') /\ Stays(Current, Current') /\ Leads(Current, Current')
<1> DEFINE q == [rec[c] EXCEPT !.ev = @ \cup {o}]
           s == Current
           t == Current'
<1>0. s.row = row /\ s.rec = rec /\ s.act = act /\ t.row = row' /\ t.rec = rec' /\ t.act = act'
  BY DEF Current, S
<1>1. row \in [Ids -> Rows] /\ rec \in [Ids -> Records] /\ act \in [Ids -> Records]
  BY <1>0 DEF Sound, Stores
<1>2. /\ row' = row /\ rec' = [rec EXCEPT ![c] = q] /\ act' = [act EXCEPT ![c] = q]
      /\ rec[c].state = "active"
  BY <1>1 DEF ReviseDies
<1>3. q \in Records /\ q.state = "active" /\ q.by = rec[c].by /\ rec[c] \in Records
  <2>1. rec[c] \in Records /\ rec[c].ev \cup {o} \in SUBSET Evidence
    BY <1>1 DEF Records, Evidence
  <2> QED
    BY <1>2, <2>1 DEF Records
<1>4. \A d \in Ids : Agree(s, d) /\ Kept(s, d)
  BY DEF Sound
<1>5. t \in Stores
  BY <1>1, <1>2, <1>3 DEF Stores, Current, S
<1> HIDE DEF q, s, t
<1>6. ASSUME NEW d \in Ids PROVE Agree(t, d) /\ Kept(t, d) /\ t.act[d].by = s.act[d].by
  <2>1. CASE d = c
    <3>1. t.row[c] = s.row[c] /\ t.rec[c] = q /\ t.act[c] = q
      BY <1>0, <1>1, <1>2
    <3>2. s.row[c] \in Rows /\ s.rec[c] = rec[c]
      BY <1>0, <1>1
    <3>3. Agree(t, c)
      <4> DEFINE w == s.row[c]
      <4>1. /\ ClaimVersionVals(w, q).by = ClaimVersionVals(w, rec[c]).by
            /\ ClaimVersionVals(w, q).status = ClaimVersionVals(w, rec[c]).status
        BY <1>2, <1>3, <3>2, DerivedFacts
      <4>2. Agree(s, c) /\ s.rec[c].state = "active" /\ q.state = "active"
        BY <1>2, <1>3, <1>4, <3>2
      <4> QED
        BY <3>1, <3>2, <4>1, <4>2 DEF Agree
    <3>4. Kept(t, c)
      BY <1>3, <3>1 DEF Kept
    <3>5. t.act[c].by = s.act[c].by
      BY <1>2, <1>3, <1>4, <3>1, <3>2 DEF Kept
    <3> QED
      BY <2>1, <3>3, <3>4, <3>5
  <2>2. CASE d # c
    <3>1. t.row[d] = s.row[d] /\ t.rec[d] = s.rec[d] /\ t.act[d] = s.act[d]
      BY <1>0, <1>1, <1>2, <2>2
    <3> QED
      BY <1>4, <3>1 DEF Agree, Kept
  <2> QED
    BY <2>1, <2>2
<1>7. t \in Sound
  BY <1>5, <1>6 DEF Sound
<1>8. Sticks(s, t) /\ Stays(s, t)
  BY <1>0, <1>2, <1>6 DEF Sticks, Stays
<1>9. LeadsTo(s, t, Nobody)
  BY <1>6 DEF LeadsTo, Ids, Nobody
<1> QED
  BY <1>7, <1>8, <1>9 DEF Leads, s, t

\* REVIVE lifts the retraction of its claim, and no demotion.
LEMMA ReviveEffects ==
    ASSUME Current \in Sound, NEW c \in Ids, Revive(c)
    PROVE  /\ Current' \in Sound /\ AsSound(Current, Current')
           /\ Sticks(Current, Current') /\ Leads(Current, Current')
           /\ \A d \in Ids \ {c} : Same(Current, Current', d)
<1> DEFINE s == Current
           q == act[c]
           r == [d \in {c} |-> q]
           t == SyncVersions(s, r)
<1>0. s.row = row /\ s.rec = rec /\ s.act = act
  BY DEF Current, S
<1>1. Becomes(t)
  BY DEF Revive, SyncVersion, Revived
<1> HIDE DEF s
<1>2. s \in Sound
  BY DEF s
<1>3. q \in Records /\ q.state = "active"
  BY <1>0, <1>2, RowFacts DEF Revive
<1>4. q.by = s.act[c].by
  BY <1>0
<1> HIDE DEF q
<1>5. \A d \in Ids : (d \in DOMAIN r <=> d = c) /\ (d \in DOMAIN r => r[d] = q)
  OBVIOUS
<1> HIDE DEF r, t
<1>6. AsSound(s, t)
  BY <1>2, <1>3, <1>5, SyncSound DEF AsSound, t
<1>7. t.act[c].by = s.act[c].by /\ \A d \in Ids \ {c} : Same(s, t, d)
  BY <1>2, <1>3, <1>4, <1>5, SyncPointers DEF t
<1>8. LeadsTo(s, t, Nobody) /\ Sticks(s, t)
  BY <1>7 DEF LeadsTo, Sticks, Same, Ids, Nobody
<1>9. t \in Stores /\ t \in Sound
  BY <1>2, <1>6 DEF AsSound, Sound
<1>10. Current' = t
  BY <1>1, <1>9, BecomesIs
<1> QED
  BY <1>6, <1>7, <1>8, <1>9, <1>10 DEF Leads, s

\* repickSurvivor() lifts the demotion of its claim, and demotes the others to it.
LEMMA RepickEffects ==
    ASSUME Current \in Sound, NEW c \in Ids, Repick(c)
    PROVE  /\ Current' \in Sound /\ AsSound(Current, Current')
           /\ Stays(Current, Current') /\ Leads(Current, Current')
           /\ \A d \in Ids \ {c} : act[d].by # Nobody => act'[d].by # Nobody
<1> DEFINE s == Current
           M == FactMatches(row[c].val)
           r == [d \in M \cup {c} |-> IF d = c THEN Released(c) ELSE [rec[d] EXCEPT !.by = c]]
           t == SyncVersions(s, r)
<1>0. s.row = row /\ s.rec = rec /\ s.act = act
  BY DEF Current, S
<1>1. Becomes(t) /\ rec[c].state = "active" /\ \A d \in M : rec[d].state = "active"
  BY DEF Repick
<1> HIDE DEF s, M
<1>2. s \in Sound
  BY DEF s
<1>3. c \in Pointers /\ Nobody \in Pointers /\ c # Nobody
  BY DEF Pointers, Ids, Nobody
<1>4. ASSUME NEW d \in Ids, d \in DOMAIN r
      PROVE  /\ r[d] \in Records /\ r[d].state = "active"
             /\ r[d].by = IF d = c THEN Nobody ELSE c
             /\ row[d].status # "retracted"
  <2> DEFINE q == rec[d]
  <2>1. q \in Records /\ q.state = "active" /\ row[d].status # "retracted"
    BY <1>0, <1>1, <1>2, <1>4, RowFacts
  <2>2. r[d] = IF d = c THEN [q EXCEPT !.by = Nobody] ELSE [q EXCEPT !.by = c]
    BY <1>4 DEF Released
  <2> HIDE DEF q, r
  <2> QED
    BY <1>3, <2>1, <2>2 DEF Records
<1>5. c \in DOMAIN r
  OBVIOUS
<1> HIDE DEF r, t
<1>6. AsSound(s, t)
  BY <1>2, <1>4, SyncSound DEF AsSound, t
<1>7. ASSUME NEW d \in Ids
      PROVE  \/ Same(s, t, d) /\ d \notin DOMAIN r
             \/ /\ d \in DOMAIN r /\ row[d].status # "retracted"
                /\ t.act[d].by = IF d = c THEN Nobody ELSE c
  BY <1>2, <1>4, SyncPointers DEF t
<1>8. LeadsTo(s, t, c)
  BY <1>5, <1>7 DEF LeadsTo, Same
<1>9. Stays(s, t)
  BY <1>0, <1>7 DEF Stays, Same
<1>10. t \in Stores /\ t \in Sound
  BY <1>2, <1>6 DEF AsSound, Sound
<1>11. Current' = t
  BY <1>1, <1>10, BecomesIs
<1>12. act' = t.act
  BY <1>11 DEF Current, S
<1>13. \A d \in Ids \ {c} : act[d].by # Nobody => act'[d].by # Nobody
  BY <1>0, <1>3, <1>7, <1>12 DEF Same
<1> QED
  BY <1>6, <1>8, <1>9, <1>10, <1>11, <1>13 DEF Leads, s

-----------------------------------------------------------------------------
(* The stores stay sound, and a live process is in step.                   *)

LEMMA IdleFacts == Idle \in Nat \X Nat /\ Idle[1] = 0 /\ Idle[2] = 0
BY DEF Idle

\* A verb that writes and leaves log and cursor alone.
LEMMA WriteInv ==
    ASSUME StoreInv, up, UNCHANGED <<log, cursor, late, up>>,
           Current' \in Sound, AsSound(Current, Current')
    PROVE  StoreInv'
<1>1. Current' \in Synced
  BY DEF StoreInv, AsSound
<1>2. TypeOK'
  BY DEF StoreInv, TypeOK, Sound
<1> QED
  BY <1>1, <1>2 DEF StoreInv

\* A process that stops, with at most one more event in the log.
LEMMA StopInv ==
    ASSUME StoreInv, Current' \in Sound, up' = FALSE, late' = Idle, cursor' = cursor,
           log' = log \/ \E e \in Events : log' = Append(log, e)
    PROVE  StoreInv'
<1>1. log' \in Seq(Events) /\ Len(log') >= Len(log) /\ Len(log') \in Nat
  <2>1. log \in Seq(Events)
    BY DEF StoreInv, TypeOK
  <2> QED
    BY <2>1
<1>2. cursor' \in 0 .. Len(log')
  BY <1>1 DEF StoreInv, TypeOK
<1>3. late' \in Nat \X Nat /\ late'[1] = 0 /\ late'[2] = 0
  BY IdleFacts
<1>4. Current' \in Stores
  BY DEF Sound
<1>5. late'[1] <= late'[2] /\ late'[2] <= Len(log')
  BY <1>1, <1>3 DEF StoreInv, TypeOK
<1>6. up' \in BOOLEAN
  OBVIOUS
<1>7. TypeOK'
  BY <1>1, <1>2, <1>3, <1>4, <1>5, <1>6 DEF TypeOK
<1> QED
  BY <1>7 DEF StoreInv

\* A handler that appends an event and awaits the catch-up.
LEMMA ReplaysInv ==
    ASSUME StoreInv, up, NEW s, AsSound(Current, s), NEW e \in Events, Replays(s, e)
    PROVE  StoreInv'
<1>1. /\ log' \in Seq(Events) /\ Len(log') = Len(log) + 1 /\ Len(log) \in Nat
      /\ cursor \in 0 .. Len(log) /\ up' = up
  BY DEF Replays, StoreInv, TypeOK
<1>2. s \in Synced /\ s \in Sound
  BY DEF StoreInv, AsSound
<1>3. CASE late = Idle
  <2>1. Becomes(s) /\ late' = <<cursor, Len(log')>> /\ cursor' = cursor
    BY <1>3 DEF Replays
  <2>2. Current' = s
    BY <1>2, <2>1, BecomesIs DEF Sound
  <2>3. TypeOK'
    BY <1>1, <1>2, <2>1, <2>2 DEF TypeOK, Sound, StoreInv
  <2> QED
    BY <1>2, <2>2, <2>3 DEF StoreInv
<1>4. CASE late # Idle
  <2> DEFINE t == CatchUp(s, log', cursor, Len(log'))
  <2>1. Becomes(t) /\ cursor' = Len(log') /\ late' = late
    BY <1>4 DEF Replays
  <2>2. AsSound(s, t)
    BY <1>1, <1>2, CatchUpSound
  <2> HIDE DEF t
  <2>3. t \in Synced /\ t \in Sound
    BY <1>2, <2>2 DEF AsSound
  <2>4. Current' = t
    BY <2>1, <2>3, BecomesIs DEF Sound
  <2>5. TypeOK'
    BY <1>1, <2>1, <2>3, <2>4 DEF TypeOK, Sound, StoreInv
  <2> QED
    BY <2>3, <2>4, <2>5 DEF StoreInv
<1> QED
  BY <1>3, <1>4

\* The events the verbs append.
LEMMA Appended ==
    /\ \A k \in {"tombstone", "redaction"}, c \in Ids : Tombstone(k, c) \in Withdrawals
    /\ \A o \in Obs : Tombstone("observation", o) \in Withdrawals
    /\ \A c, into \in Ids, reason \in Reasons, v \in Values \cup {Blank}, id \in {0} \cup Ids :
          reason = "duplicate" \/ id \in Ids =>
             [kind |-> "correction", target |-> c, reason |-> reason, into |-> into,
              val |-> v, id |-> id] \in Corrections
BY DEF Tombstone, Withdrawals, Corrections, Pointers, Nobody

\* What a forget writes before its event is replayed.
Forgetting(c) ==
    IF rec[c].state = "active"
    THEN SyncVersion(Current, c, [rec[c] EXCEPT !.state = "forgotten", !.val = Blank])
    ELSE Current

LEMMA ForgettingFacts ==
    ASSUME Current \in Sound, NEW c \in Ids
    PROVE  /\ AsSound(Current, Forgetting(c)) /\ Stays(Current, Forgetting(c))
           /\ \A d \in Ids : Forgetting(c).act[d].by = Current.act[d].by
<1>1. CASE rec[c].state = "active"
  <2>1. [d \in {c} |-> [rec[c] EXCEPT !.state = "forgotten", !.val = Blank]]
        = [d \in {c} |-> [Current.rec[d] EXCEPT !.state = "forgotten", !.val = Blank]]
    BY DEF Current, S
  <2>2. Forgetting(c) = Tombstoned(Current, {c})
    BY <1>1, <2>1 DEF Forgetting, Tombstoned, SyncVersion
  <2> QED
    BY <2>2, TombstonedFacts
<1>2. CASE rec[c].state # "active"
  <2>1. Forgetting(c) = Current
    BY <1>2 DEF Forgetting
  <2> QED
    BY <2>1 DEF AsSound, Stays
<1> QED
  BY <1>1, <1>2

\* What a process that opens reads: every row derived from its record.
Opened == S([c \in Ids |-> IF rec[c].state = "none" THEN row[c]
                           ELSE ClaimVersionVals(row[c], rec[c])], rec, act)

LEMMA OpenedFacts ==
    ASSUME Current \in Sound
    PROVE  /\ Opened \in Sound /\ Opened \in Synced
           /\ Opened.rec = rec /\ Opened.act = act
           /\ \A c \in Ids : Opened.row[c].status = "retracted" <=> row[c].status = "retracted"
<1> DEFINE t == Opened
           s == Current
<1>0. s.row = row /\ s.rec = rec /\ s.act = act
  BY DEF Current, S
<1>1. t.rec = rec /\ t.act = act
  BY DEF Opened, S
<1>2. \A c \in Ids : t.row[c] = IF rec[c].state = "none" THEN row[c]
                                ELSE ClaimVersionVals(row[c], rec[c])
  BY DEF Opened, S
<1>3. \A c \in Ids : row[c] \in Rows /\ rec[c] \in Records /\ t.row[c] \in Rows
  BY <1>0, <1>2, RowFacts, DerivedFacts
<1>4. t \in Stores
  <2>1. t = S([c \in Ids |-> t.row[c]], rec, act)
    BY DEF Opened, S
  <2>2. rec \in [Ids -> Records] /\ act \in [Ids -> Records]
    BY <1>0 DEF Sound, Stores
  <2>3. [c \in Ids |-> t.row[c]] \in [Ids -> Rows]
    BY <1>3
  <2> HIDE DEF t
  <2> QED
    BY <2>1, <2>2, <2>3 DEF Stores, S
<1> HIDE DEF t, s
<1>5. ASSUME NEW c \in Ids
      PROVE  /\ Agree(t, c) /\ Kept(t, c)
             /\ t.rec[c].state # "none" => t.row[c].ev = t.rec[c].ev
             /\ t.row[c].status = "retracted" <=> row[c].status = "retracted"
  <2>1. Agree(s, c) /\ Kept(s, c)
    BY DEF Sound, s
  <2>2. Kept(t, c)
    BY <1>0, <1>1, <2>1 DEF Kept
  <2>3. CASE rec[c].state = "none"
    <3>1. t.row[c] = row[c]
      BY <1>2, <2>3
    <3> QED
      BY <1>0, <1>1, <2>1, <2>2, <2>3, <3>1 DEF Agree
  <2>4. CASE rec[c].state # "none"
    <3>1. /\ t.row[c].ev = rec[c].ev
          /\ t.row[c].by = ClaimVersionVals(t.row[c], rec[c]).by
          /\ t.row[c].status = ClaimVersionVals(t.row[c], rec[c]).status
          /\ t.row[c].status # "none"
          /\ t.row[c].status = "retracted" <=> rec[c].state = "forgotten"
      BY <1>2, <1>3, <2>4, DerivedFacts
    <3>2. row[c].status = "retracted" <=> rec[c].state = "forgotten"
      BY <1>0, RowFacts DEF s
    <3> QED
      BY <1>1, <2>2, <2>4, <3>1, <3>2 DEF Agree
  <2> QED
    BY <2>3, <2>4
<1>6. t \in Sound
  BY <1>4, <1>5 DEF Sound
<1>7. t \in Synced
  BY <1>5, <1>6 DEF Synced
<1> QED
  BY <1>1, <1>5, <1>6, <1>7 DEF t

LEMMA CatchUpDiesInv ==
    ASSUME StoreInv, CatchUpDies
    PROVE  StoreInv'
<1>1. PICK k \in late[1] .. late[2] : Becomes(CatchUp(Current, log, late[1], k))
  BY DEF CatchUpDies
<1>2. /\ log \in Seq(Events) /\ Len(log) \in Nat /\ late[1] \in Nat /\ late[2] \in Nat
      /\ late[2] <= Len(log)
  BY DEF StoreInv, TypeOK
<1>3. k \in 0 .. Len(log) /\ late[1] <= k /\ Current \in Sound
  BY <1>1, <1>2 DEF StoreInv
<1>4. CatchUp(Current, log, late[1], k) \in Sound
  BY <1>2, <1>3, CatchUpSound DEF AsSound
<1>5. Current' \in Sound
  BY <1>1, <1>4, BecomesIs DEF Sound
<1> QED
  BY <1>5, StopInv DEF CatchUpDies

LEMMA CatchUpResumesInv ==
    ASSUME StoreInv, CatchUpResumes
    PROVE  StoreInv'
<1> DEFINE t == CatchUp(Current, log, late[1], late[2])
<1>1. /\ log \in Seq(Events) /\ Len(log) \in Nat /\ late[1] \in Nat /\ late[2] \in Nat
      /\ late[1] <= late[2] /\ late[2] <= Len(log) /\ cursor \in 0 .. Len(log)
  BY DEF StoreInv, TypeOK
<1>2. late[2] \in 0 .. Len(log) /\ Current \in Sound /\ Current \in Synced
  BY <1>1 DEF StoreInv, CatchUpResumes
<1>3. AsSound(Current, t)
  BY <1>1, <1>2, CatchUpSound
<1>4. Becomes(t) /\ log' = log /\ up' = up /\ late' = Idle /\ cursor' \in {late[2], cursor}
  BY DEF CatchUpResumes
<1> HIDE DEF t
<1>5. t \in Sound /\ t \in Synced
  BY <1>2, <1>3 DEF AsSound
<1>6. Current' = t
  BY <1>4, <1>5, BecomesIs DEF Sound
<1>7. cursor' \in 0 .. Len(log)
  BY <1>1, <1>2, <1>4
<1>8. TypeOK'
  BY <1>4, <1>5, <1>6, <1>7, IdleFacts DEF TypeOK, Sound, StoreInv
<1> QED
  BY <1>5, <1>6, <1>8 DEF StoreInv

LEMMA OpenInv ==
    ASSUME StoreInv, Open
    PROVE  StoreInv'
<1> DEFINE t == CatchUp(Opened, log, cursor, Len(log))
<1>1. Becomes(t) /\ cursor' = Len(log) /\ up' = TRUE /\ log' = log /\ late' = late
  BY DEF Open, Opened
<1>2. log \in Seq(Events) /\ Len(log) \in Nat /\ cursor \in 0 .. Len(log) /\ Len(log) \in 0 .. Len(log)
  BY DEF StoreInv, TypeOK
<1>3. Opened \in Sound /\ Opened \in Synced
  BY OpenedFacts DEF StoreInv
<1>4. AsSound(Opened, t)
  BY <1>2, <1>3, CatchUpSound
<1> HIDE DEF t
<1>5. t \in Sound /\ t \in Synced
  BY <1>3, <1>4 DEF AsSound
<1>6. Current' = t
  BY <1>1, <1>5, BecomesIs DEF Sound
<1>7. TypeOK'
  BY <1>1, <1>2, <1>5, <1>6 DEF TypeOK, Sound, StoreInv
<1> QED
  BY <1>5, <1>6, <1>7 DEF StoreInv

LEMMA InitInv == Init => StoreInv
<1> SUFFICES ASSUME Init PROVE StoreInv
  OBVIOUS
<1>1. NoRow \in Rows /\ NoRecord \in Records
  BY DEF NoRow, NoRecord, Rows, Records, Pointers, Contents
<1>2. Current \in Stores
  BY <1>1 DEF Init, Current, S, Stores
<1>3. \A c \in Ids : Agree(Current, c) /\ Kept(Current, c) /\ Current.rec[c].state = "none"
  BY DEF Init, Current, S, Agree, Kept, NoRow, NoRecord
<1>4. Current \in Sound /\ Current \in Synced
  BY <1>2, <1>3 DEF Sound, Synced
<1>5. log = <<>> /\ cursor = 0 /\ late = Idle /\ up = TRUE
  BY DEF Init
<1>6. TypeOK
  BY <1>2, <1>5, IdleFacts DEF TypeOK
<1> QED
  BY <1>4, <1>6 DEF StoreInv

\* The whole step: each action by what it writes.
LEMMA NextInv == StoreInv /\ [Next]_vars => StoreInv'
<1> SUFFICES ASSUME StoreInv, [Next]_vars PROVE StoreInv'
  OBVIOUS
<1>0. Current \in Sound
  BY DEF StoreInv
<1>1. ASSUME NEW c \in Ids, NEW o \in Obs, NEW v \in Values, NEW f \in Froms, Admit(c, o, v, f)
      PROVE  StoreInv'
  <2>1. Current' \in Sound /\ AsSound(Current, Current')
    BY <1>0, <1>1, AdmitEffects DEF Effects
  <2> QED
    BY <1>1, <2>1, WriteInv DEF Admit, CanWrite
<1>2. ASSUME NEW v \in Values, NEW E \in {{}} \cup {{o} : o \in Obs}, ResolveFactMatches(v, E)
      PROVE  StoreInv'
  <2>1. E \in SUBSET Obs
    BY <1>2
  <2>2. Current' \in Sound /\ AsSound(Current, Current')
    BY <1>0, <1>2, <2>1, ResolveEffects DEF Effects
  <2> QED
    BY <1>2, <2>2, WriteInv DEF ResolveFactMatches, CanWrite
<1>3. ASSUME NEW c \in Ids, NEW mode \in {"tombstone", "redaction"}, Forget(c, mode)
      PROVE  StoreInv'
  <2>1. Replays(Forgetting(c), Tombstone(mode, c)) /\ up
    BY <1>3 DEF Forget, Forgetting, CanWrite
  <2>2. Tombstone(mode, c) \in Events
    BY Appended DEF Events
  <2>3. AsSound(Current, Forgetting(c))
    BY <1>0, ForgettingFacts
  <2> QED
    BY <2>1, <2>2, <2>3, ReplaysInv
<1>4. ASSUME NEW c \in Ids, ForgetDies(c) PROVE StoreInv'
  <2>1. Current' = Current
    BY <1>4 DEF ForgetDies, Current, S, store
  <2>2. Tombstone("tombstone", c) \in Events
    BY Appended DEF Events
  <2> QED
    BY <1>0, <1>4, <2>1, <2>2, StopInv DEF ForgetDies
<1>5. ASSUME NEW c \in Ids, Revive(c) PROVE StoreInv'
  BY <1>0, <1>5, ReviveEffects, WriteInv DEF Revive, CanWrite
<1>6. ASSUME NEW c \in Ids, Repick(c) PROVE StoreInv'
  <2>1. up /\ UNCHANGED <<log, cursor, late, up>>
    BY <1>6 DEF Repick, CanWrite
  <2> QED
    BY <1>0, <1>6, <2>1, RepickEffects, WriteInv
<1>7. ASSUME NEW o \in Obs, ForgetObservation(o) PROVE StoreInv'
  <2>1. Replays(Current, Tombstone("observation", o)) /\ up
    BY <1>7 DEF ForgetObservation, CanWrite
  <2>2. Tombstone("observation", o) \in Events
    BY Appended DEF Events
  <2> QED
    BY <1>0, <2>1, <2>2, ReplaysInv DEF AsSound
<1>8. ASSUME NEW c \in Ids, NEW o \in Obs, Revise(c, o) PROVE StoreInv'
  <2>1. Current' \in Sound /\ AsSound(Current, Current')
    BY <1>0, <1>8, ReviseEffects DEF Effects
  <2> QED
    BY <1>8, <2>1, WriteInv DEF Revise, CanWrite
<1>9. ASSUME NEW c \in Ids, NEW o \in Obs, ReviseDies(c, o) PROVE StoreInv'
  <2>1. Current' \in Sound
    BY <1>0, <1>9, ReviseDiesEffects
  <2> QED
    BY <1>9, <2>1, StopInv DEF ReviseDies
<1>10. ASSUME NEW c \in Ids, NEW into \in Ids, NEW reason \in Reasons,
              NEW v \in Values \cup {Blank}, NEW id \in {0} \cup Ids, Correct(c, reason, into, v, id)
       PROVE  StoreInv'
  <2> DEFINE e == [kind |-> "correction", target |-> c, reason |-> reason, into |-> into,
                   val |-> v, id |-> id]
  <2>1. Replays(Current, e) /\ up /\ (reason = "duplicate" \/ id \in Ids)
    BY <1>10 DEF Correct, CanWrite, Fresh
  <2>2. e \in Events
    BY <2>1, Appended DEF Events
  <2> HIDE DEF e
  <2> QED
    BY <1>0, <2>1, <2>2, ReplaysInv DEF AsSound
<1>11. ASSUME NEW c \in Ids, NEW inputs \in SUBSET Ids, NEW v \in Values, NEW f \in Froms,
              Consolidate(c, inputs, v, f)
       PROVE  StoreInv'
  <2>1. c \in Fresh /\ Becomes(Tombstoned(Consolidated(c, inputs, v, f), inputs))
        /\ up /\ UNCHANGED <<log, cursor, late, up>>
    BY <1>11 DEF Consolidate, CanWrite
  <2>2. Current' \in Sound /\ AsSound(Current, Current')
    BY <1>0, <2>1, ConsolidateEffects DEF Effects
  <2> QED
    BY <2>1, <2>2, WriteInv
<1>12. ASSUME NEW c \in Ids, NEW inputs \in SUBSET Ids, NEW v \in Values, NEW f \in Froms,
              ConsolidateDies(c, inputs, v, f)
       PROVE  StoreInv'
  <2>1. PICK D \in SUBSET inputs : Becomes(Tombstoned(Consolidated(c, inputs, v, f), D))
    BY <1>12 DEF ConsolidateDies
  <2>2. c \in Fresh /\ up' = FALSE /\ late' = Idle /\ cursor' = cursor /\ log' = log
    BY <1>12 DEF ConsolidateDies
  <2>3. Current' \in Sound
    BY <1>0, <2>1, <2>2, ConsolidateEffects
  <2> QED
    BY <2>2, <2>3, StopInv
<1>13. CASE Close
  <2>1. Current' = Current /\ up' = FALSE /\ late' = Idle /\ cursor' = cursor /\ log' = log
    BY <1>13 DEF Close, Current, S, store
  <2> QED
    BY <1>0, <2>1, StopInv
<1>14. CASE UNCHANGED vars
  BY <1>14 DEF vars, StoreInv, TypeOK, Current, S
<1> QED
  BY <1>1, <1>2, <1>3, <1>4, <1>5, <1>6, <1>7, <1>8, <1>9, <1>10, <1>11, <1>12, <1>13, <1>14,
     CatchUpDiesInv, CatchUpResumesInv, OpenInv
  DEF Next

\* Stores and log keep their shape: a claim's row, its latest record and its last
\* active record, and the events the handlers append.
THEOREM TypeCorrect == Spec => []TypeOK
<1>1. StoreInv => TypeOK
  BY DEF StoreInv
<1> QED
  BY <1>1, InitInv, NextInv, PTL DEF Spec

\* Rows are rebuild-equivalent: whatever verbs, replays, deaths and reopenings
\* came before, also verbs that ran while a catch-up had yielded, a live process
\* has the row a reopened one would derive from the record, but for the mark of a
\* disagreement.
THEOREM RowsFollowRecords == Spec => []RowFollowsRecord
<1>1. ASSUME StoreInv PROVE RowFollowsRecord
  <2> SUFFICES ASSUME up PROVE \A c \in Ids :
        /\ rec[c].state = "none" <=> row[c].status = "none"
        /\ rec[c].state # "none" =>
              LET derived == ClaimVersionVals(row[c], rec[c])
              IN  /\ row[c].ev = rec[c].ev
                  /\ row[c].by = derived.by
                  /\ \/ row[c].status = derived.status
                     \/ row[c].status = "contested" /\ derived.status = "active"
    BY DEF RowFollowsRecord
  <2>1. Current \in Synced /\ Current \in Sound
    BY <1>1 DEF StoreInv
  <2>2. Current.row = row /\ Current.rec = rec
    BY DEF Current, S
  <2> QED
    BY <2>1, <2>2 DEF Sound, Synced, Agree
<1> QED
  BY <1>1, InitInv, NextInv, PTL DEF Spec

-----------------------------------------------------------------------------
(* Where no verb runs while a catch-up has yielded.                        *)

\* Nothing is ahead of the cursor.
Settled == cursor = Len(log)

LEMMA WritesSettled ==
    ASSUME ~Overlap, StoreInv, PendingInv, CanWrite
    PROVE  up /\ late = Idle /\ Settled
BY DEF CanWrite, PendingInv, QueueInv, Settled

\* With nothing ahead of the cursor a replay changes nothing, and with one event
\* it is the event.
LEMMA OneEvent ==
    ASSUME StoreInv, PendingInv, NEW k \in cursor .. Len(log), NEW s
    PROVE  LET t == CatchUp(s, log, cursor, k)
           IN  \/ t = s
               \/ /\ k = cursor + 1 /\ Len(log) = cursor + 1 /\ Len(log) \in DOMAIN log
                  /\ log[Len(log)] \in Events /\ Stands(Current, log[Len(log)])
                  /\ t = ProcessEvent(s, log[Len(log)])
<1>1. cursor \in Nat /\ Len(log) \in Nat /\ Len(log) <= cursor + 1 /\ log \in Seq(Events)
  BY DEF StoreInv, TypeOK, PendingInv, QueueInv
<1>2. CASE k = cursor
  BY <1>1, <1>2, CatchUpOne
<1>3. CASE k # cursor
  <2>1. k = cursor + 1 /\ Len(log) = cursor + 1
    BY <1>1, <1>3
  <2>2. Len(log) \in DOMAIN log /\ log[Len(log)] \in Events
    BY <1>1, <2>1
  <2>3. Stands(Current, log[Len(log)])
    BY <1>1, <2>1, <2>2 DEF PendingInv
  <2>4. CatchUp(s, log, cursor, k) = ProcessEvent(s, log[Len(log)])
    <3>1. CatchUp(s, log, cursor, cursor + 1) = ProcessEvent(s, log[cursor + 1])
      BY <1>1, CatchUpOne
    <3> QED
      BY <2>1, <3>1
  <2> QED
    BY <2>1, <2>2, <2>3, <2>4
<1> QED
  BY <1>2, <1>3

\* A write leaves nothing ahead of the cursor.
LEMMA WritePending ==
    ASSUME PendingInv, Settled, StoreInv, UNCHANGED <<log, cursor, late, up>>
    PROVE  PendingInv'
<1>1. QueueInv'
  BY DEF PendingInv, QueueInv
<1>2. \A i \in DOMAIN log' : ~(i > cursor')
  BY DEF Settled, StoreInv, TypeOK
<1> QED
  BY <1>1, <1>2 DEF PendingInv

\* A verb that appends an event has one to replay.
LEMMA ReplaysPending ==
    ASSUME StoreInv, up, late = Idle, Settled, NEW s, AsSound(Current, s), NEW e \in Events,
           Replays(s, e), Stands(s, e)
    PROVE  Current' = s /\ PendingInv'
<1>1. /\ Becomes(s) /\ log' = Append(log, e) /\ late' = <<cursor, Len(log')>> /\ cursor' = cursor
      /\ up' = up
  BY DEF Replays
<1>2. s \in Stores
  BY DEF StoreInv, AsSound, Sound
<1>3. Current' = s
  BY <1>1, <1>2, BecomesIs
<1>4. log \in Seq(Events) /\ cursor = Len(log) /\ Len(log) \in Nat
  BY DEF StoreInv, TypeOK, Settled
<1>5. /\ Len(log') = cursor + 1 /\ log'[Len(log')] = e
      /\ \A i \in DOMAIN log' : i > cursor => i = Len(log')
  BY <1>1, <1>4
<1>6. late' # Idle
  BY <1>1, <1>4, <1>5 DEF Idle
<1>7. QueueInv'
  BY <1>1, <1>4, <1>5, <1>6 DEF QueueInv
<1>8. \A i \in DOMAIN log' : i > cursor' => Stands(Current', log'[i])
  BY <1>1, <1>3, <1>5
<1> QED
  BY <1>3, <1>7, <1>8 DEF PendingInv

\* A process that dies may leave an event behind the cursor has not reached.
LEMMA StopPending ==
    ASSUME StoreInv, Settled, up' = FALSE, late' = Idle, cursor' = cursor,
           log' = log \/ \E e \in Withdrawals : log' = Append(log, e)
    PROVE  PendingInv'
<1>1. log \in Seq(Events) /\ cursor = Len(log) /\ Len(log) \in Nat
  BY DEF StoreInv, TypeOK, Settled
<1>2. CASE log' = log
  <2>1. QueueInv' /\ \A i \in DOMAIN log' : ~(i > cursor')
    BY <1>1, <1>2 DEF QueueInv
  <2> QED
    BY <2>1 DEF PendingInv
<1>3. ASSUME NEW e \in Withdrawals, log' = Append(log, e) PROVE PendingInv'
  <2>1. /\ Len(log') = cursor + 1 /\ log'[Len(log')] = e
        /\ \A i \in DOMAIN log' : i > cursor => i = Len(log')
    BY <1>1, <1>3
  <2>2. \A t : Stands(t, e)
    BY DEF Stands, Withdrawals
  <2>3. QueueInv'
    BY <1>1, <2>1 DEF QueueInv
  <2>4. \A i \in DOMAIN log' : i > cursor' => Stands(Current', log'[i])
    BY <2>1, <2>2
  <2> QED
    BY <2>3, <2>4 DEF PendingInv
<1> QED
  BY <1>2, <1>3

\* What a correction is made of stands when it is made.
LEMMA CorrectStands ==
    ASSUME Current \in Sound, NEW c \in Ids, NEW into \in Ids, NEW reason \in Reasons,
           NEW v, NEW id, Correct(c, reason, into, v, id)
    PROVE  Stands(Current, [kind |-> "correction", target |-> c, reason |-> reason, into |-> into,
                            val |-> v, id |-> id])
<1> DEFINE e == [kind |-> "correction", target |-> c, reason |-> reason, into |-> into,
                 val |-> v, id |-> id]
<1>0. Current.row = row /\ Current.act = act
  BY DEF Current, S
<1>1. /\ e.kind = "correction" /\ e.target = c /\ e.reason = reason /\ e.into = into /\ e.id = id
      /\ row[c].status # "none"
  BY DEF Correct
<1>2. ~CorrectForgotten => row[c].status # "retracted"
  BY DEF Correct
<1>3. ~MergeDemoted /\ reason = "duplicate" => into # c /\ row[into].status \in Live
  BY DEF Correct
<1>4. reason # "duplicate" => id \in Fresh
  BY DEF Correct
<1>5. reason # "duplicate" =>
          id # c /\ row[id].status # "retracted" /\ act[id].by = Nobody
  BY <1>1, <1>4, FreshFacts
<1> HIDE DEF e
<1>6. Stands(Current, e)
  BY <1>0, <1>1, <1>2, <1>3, <1>5 DEF Stands
<1> QED
  BY <1>6 DEF e

\* What a step may do to the demotions, the retractions and the pointers.
Permitted ==
    /\ \A c \in Ids : act[c].by # Nobody => act'[c].by # Nobody \/ Repick(c)
    /\ ~CorrectForgotten =>
          \A c \in Ids : row[c].status = "retracted" => row'[c].status = "retracted" \/ Revive(c)
    /\ ~MergeDemoted => Leads(Current, Current')

LEMMA EffectsPermitted ==
    ASSUME Sticks(Current, Current'), Stays(Current, Current'), Leads(Current, Current')
    PROVE  Permitted
BY DEF Permitted, Sticks, Stays, Current, S

\* The replay of at most one event that stands.
LEMMA EventPermitted ==
    ASSUME NEW s \in Sound, s.act = act, s.rec = rec,
           \A c \in Ids : s.row[c].status = "retracted" <=> row[c].status = "retracted",
           Current \in Sound,
           \/ Current' = s
           \/ \E e \in Events : Stands(Current, e) /\ Current' = ProcessEvent(s, e)
    PROVE  Permitted
<1>0. /\ Current.row = row /\ Current.act = act /\ Current.rec = rec
      /\ Current'.row = row' /\ Current'.act = act'
  BY DEF Current, S
<1>1. /\ Sticks(s, Current')
      /\ ~CorrectForgotten => Stays(s, Current')
      /\ ~MergeDemoted => Leads(s, Current')
  <2>1. CASE Current' = s
    <3>1. LeadsTo(s, s, Nobody)
      BY DEF LeadsTo, Ids, Nobody
    <3> QED
      BY <2>1, <3>1 DEF Sticks, Stays, Leads
  <2>2. ASSUME NEW e \in Events, Stands(Current, e), Current' = ProcessEvent(s, e)
        PROVE  /\ Sticks(s, Current')
               /\ ~CorrectForgotten => Stays(s, Current')
               /\ ~MergeDemoted => Leads(s, Current')
    <3>1. \A c \in Ids : s.row[c].status \in Live <=> row[c].status \in Live
      BY <1>0, RowFacts
    <3>2. Stands(s, e)
      <4>1. CASE e \in Withdrawals
        BY <4>1 DEF Withdrawals, Stands
      <4>2. CASE e \in Corrections
        <5>1. e.target \in Ids /\ e.into \in Ids /\ (e.reason # "duplicate" => e.id \in Ids)
          BY <4>2 DEF Corrections
        <5> QED
          BY <1>0, <2>2, <3>1, <5>1 DEF Stands
      <4> QED
        BY <4>1, <4>2 DEF Events
    <3> QED
      BY <2>2, <3>2, EventEffects
  <2> QED
    BY <2>1, <2>2
<1>2. \A c \in Ids : act[c].by # Nobody => act'[c].by # Nobody
  BY <1>0, <1>1 DEF Sticks
<1>3. ~CorrectForgotten =>
          \A c \in Ids : row[c].status = "retracted" => row'[c].status = "retracted"
  BY <1>0, <1>1 DEF Stays
<1>4. ~MergeDemoted => Leads(Current, Current')
  BY <1>0, <1>1 DEF Leads, LeadsTo
<1> QED
  BY <1>2, <1>3, <1>4 DEF Permitted

LEMMA CatchUpPending ==
    ASSUME ~Overlap, StoreInv, PendingInv, CatchUpResumes \/ CatchUpDies
    PROVE  Permitted /\ PendingInv'
<1>1. /\ late = <<cursor, Len(log)>> /\ late[1] = cursor /\ late[2] = Len(log) /\ log' = log
      /\ late' = Idle
  BY DEF PendingInv, QueueInv, CatchUpResumes, CatchUpDies
<1>2. cursor \in 0 .. Len(log) /\ Len(log) \in Nat /\ Current \in Sound
  BY DEF StoreInv, TypeOK
<1>3. PICK k \in cursor .. Len(log) :
         /\ Becomes(CatchUp(Current, log, cursor, k))
         /\ (up' = FALSE /\ cursor' = cursor) \/ (cursor' = Len(log) /\ up' = up)
  <2>1. CASE CatchUpResumes
    BY <1>1, <1>2, <2>1 DEF CatchUpResumes
  <2>2. CASE CatchUpDies
    BY <1>1, <1>2, <2>2 DEF CatchUpDies
  <2> QED
    BY <2>1, <2>2
<1> DEFINE t == CatchUp(Current, log, cursor, k)
           e == log[Len(log)]
<1>4. \/ t = Current
      \/ /\ k = cursor + 1 /\ Len(log) = cursor + 1 /\ Len(log) \in DOMAIN log
         /\ e \in Events /\ Stands(Current, e) /\ t = ProcessEvent(Current, e)
  BY OneEvent
<1> HIDE DEF t
<1>5. t \in Sound
  BY <1>2, <1>4, EventSound DEF AsSound
<1>6. Current' = t
  BY <1>3, <1>5, BecomesIs DEF Sound, t
<1>7. Permitted
  <2>1. /\ Current.act = act /\ Current.rec = rec
        /\ \A c \in Ids : Current.row[c].status = "retracted" <=> row[c].status = "retracted"
    BY DEF Current, S
  <2>2. Current' = Current \/ \E d \in Events : Stands(Current, d) /\ Current' = ProcessEvent(Current, d)
    BY <1>4, <1>6
  <2> HIDE DEF e
  <2> QED
    BY <1>2, <2>1, <2>2, EventPermitted
<1>8. \A i \in DOMAIN log : i > cursor => Stands(Current', log[i])
  <2>1. SUFFICES ASSUME NEW i \in DOMAIN log, i > cursor PROVE Stands(Current', log[i])
    OBVIOUS
  <2>2. log \in Seq(Events) /\ Len(log) <= cursor + 1
    BY DEF StoreInv, TypeOK, PendingInv, QueueInv
  <2>3. i = Len(log)
    BY <1>2, <2>1, <2>2
  <2>4. Stands(Current, log[i])
    BY <2>1 DEF PendingInv
  <2>5. CASE t = Current
    BY <1>6, <2>4, <2>5
  <2>6. CASE e \in Events /\ Stands(Current, e) /\ t = ProcessEvent(Current, e)
    <3>1. Stands(t, e)
      BY <1>2, <2>6, EventEffects
    <3> QED
      BY <1>6, <2>3, <3>1
  <2> QED
    BY <1>4, <2>5, <2>6
<1>9. PendingInv'
  <2>1. Len(log) <= cursor + 1 /\ log \in Seq(Events)
    BY DEF PendingInv, QueueInv, StoreInv, TypeOK
  <2>2. QueueInv'
    BY <1>1, <1>2, <1>3, <2>1 DEF QueueInv
  <2>3. \A i \in DOMAIN log' : i > cursor' => Stands(Current', log'[i])
    BY <1>1, <1>2, <1>3, <1>8, <2>1
  <2> QED
    BY <2>2, <2>3 DEF PendingInv
<1> QED
  BY <1>7, <1>9

LEMMA OpenPending ==
    ASSUME StoreInv, PendingInv, Open
    PROVE  Permitted /\ PendingInv'
<1>1. cursor \in 0 .. Len(log) /\ Len(log) \in Nat /\ Current \in Sound /\ log \in Seq(Events)
  BY DEF StoreInv, TypeOK
<1> DEFINE t == CatchUp(Opened, log, cursor, Len(log))
           e == log[Len(log)]
<1>2. Becomes(t) /\ cursor' = Len(log) /\ up' = TRUE /\ log' = log /\ late' = late /\ ~up
  BY DEF Open, Opened
<1>3. \/ t = Opened
      \/ e \in Events /\ Stands(Current, e) /\ t = ProcessEvent(Opened, e)
  BY <1>1, OneEvent
<1> HIDE DEF t, e
<1>4. /\ Opened \in Sound /\ Opened.act = act /\ Opened.rec = rec
      /\ \A c \in Ids : Opened.row[c].status = "retracted" <=> row[c].status = "retracted"
  BY <1>1, OpenedFacts
<1>5. t \in Sound
  BY <1>3, <1>4, EventSound DEF AsSound
<1>6. Current' = t
  BY <1>2, <1>5, BecomesIs DEF Sound
<1>7. Permitted
  BY <1>1, <1>3, <1>4, <1>6, EventPermitted
<1>8. late = Idle
  BY <1>2 DEF PendingInv, QueueInv
<1>9. QueueInv'
  BY <1>1, <1>2, <1>8 DEF QueueInv
<1>10. \A i \in DOMAIN log' : ~(i > cursor')
  BY <1>1, <1>2
<1> QED
  BY <1>7, <1>9, <1>10 DEF PendingInv

\* A step keeps the queue short, and does what is permitted.
LEMMA NextPending ==
    ASSUME ~Overlap, StoreInv, PendingInv, [Next]_vars
    PROVE  Permitted /\ PendingInv'
<1>0. Current \in Sound
  BY DEF StoreInv
<1>1. ASSUME NEW c \in Ids, NEW o \in Obs, NEW v \in Values, NEW f \in Froms, Admit(c, o, v, f)
      PROVE  Permitted /\ PendingInv'
  <2>1. Effects(Current, Current')
    BY <1>0, <1>1, AdmitEffects
  <2>2. CanWrite /\ UNCHANGED <<log, cursor, late, up>>
    BY <1>1 DEF Admit
  <2> QED
    BY <2>1, <2>2, EffectsPermitted, WritesSettled, WritePending DEF Effects
<1>2. ASSUME NEW v \in Values, NEW E \in {{}} \cup {{o} : o \in Obs}, ResolveFactMatches(v, E)
      PROVE  Permitted /\ PendingInv'
  <2>1. E \in SUBSET Obs
    BY <1>2
  <2>2. Effects(Current, Current')
    BY <1>0, <1>2, <2>1, ResolveEffects
  <2>3. CanWrite /\ UNCHANGED <<log, cursor, late, up>>
    BY <1>2 DEF ResolveFactMatches
  <2> QED
    BY <2>2, <2>3, EffectsPermitted, WritesSettled, WritePending DEF Effects
<1>3. ASSUME NEW c \in Ids, NEW mode \in {"tombstone", "redaction"}, Forget(c, mode)
      PROVE  Permitted /\ PendingInv'
  <2>1. Replays(Forgetting(c), Tombstone(mode, c)) /\ CanWrite
    BY <1>3 DEF Forget, Forgetting
  <2>2. Tombstone(mode, c) \in Events /\ Stands(Forgetting(c), Tombstone(mode, c))
    BY Appended DEF Events, Stands, Tombstone
  <2>3. /\ AsSound(Current, Forgetting(c)) /\ Stays(Current, Forgetting(c))
        /\ \A d \in Ids : Forgetting(c).act[d].by = Current.act[d].by
    BY <1>0, ForgettingFacts
  <2>4. up /\ late = Idle /\ Settled
    BY <2>1, WritesSettled
  <2>5. Current' = Forgetting(c) /\ PendingInv'
    BY <2>1, <2>2, <2>3, <2>4, ReplaysPending
  <2>6. LeadsTo(Current, Current', Nobody) /\ Sticks(Current, Current')
    BY <2>3, <2>5 DEF LeadsTo, Sticks, Ids, Nobody
  <2>7. Stays(Current, Current')
    BY <2>3, <2>5
  <2> QED
    BY <2>5, <2>6, <2>7, EffectsPermitted DEF Leads
<1>4. ASSUME Current' = Current PROVE Permitted
  <2>1. LeadsTo(Current, Current', Nobody) /\ Sticks(Current, Current') /\ Stays(Current, Current')
    BY <1>4 DEF LeadsTo, Sticks, Stays, Ids, Nobody
  <2> QED
    BY <2>1, EffectsPermitted DEF Leads
<1>5. ASSUME NEW c \in Ids, ForgetDies(c) PROVE Permitted /\ PendingInv'
  <2>1. Current' = Current
    BY <1>5 DEF ForgetDies, Current, S, store
  <2>2. Tombstone("tombstone", c) \in Withdrawals
    BY Appended
  <2>3. Settled
    BY <1>5, WritesSettled DEF ForgetDies
  <2> QED
    BY <1>4, <1>5, <2>1, <2>2, <2>3, StopPending DEF ForgetDies
<1>6. ASSUME NEW c \in Ids, Revive(c) PROVE Permitted /\ PendingInv'
  <2>1. /\ Sticks(Current, Current') /\ Leads(Current, Current')
        /\ \A d \in Ids \ {c} : Same(Current, Current', d)
    BY <1>0, <1>6, ReviveEffects
  <2>2. \A d \in Ids : row[d].status = "retracted" => row'[d].status = "retracted" \/ d = c
    BY <2>1 DEF Same, Current, S
  <2>3. Permitted
    BY <1>6, <2>1, <2>2 DEF Permitted, Sticks, Current, S
  <2>4. CanWrite /\ UNCHANGED <<log, cursor, late, up>>
    BY <1>6 DEF Revive
  <2> QED
    BY <2>3, <2>4, WritesSettled, WritePending
<1>7. ASSUME NEW c \in Ids, Repick(c) PROVE Permitted /\ PendingInv'
  <2>1. /\ Stays(Current, Current') /\ Leads(Current, Current')
        /\ \A d \in Ids \ {c} : act[d].by # Nobody => act'[d].by # Nobody
    BY <1>0, <1>7, RepickEffects
  <2>2. \A d \in Ids : act[d].by # Nobody => act'[d].by # Nobody \/ Repick(d)
    BY <1>7, <2>1
  <2>3. Permitted
    BY <2>1, <2>2 DEF Permitted, Stays, Current, S
  <2>4. CanWrite /\ UNCHANGED <<log, cursor, late, up>>
    BY <1>7 DEF Repick
  <2> QED
    BY <2>3, <2>4, WritesSettled, WritePending
<1>8. ASSUME NEW e \in Events, Replays(Current, e), CanWrite, Stands(Current, e)
      PROVE  Permitted /\ PendingInv'
  <2>1. up /\ late = Idle /\ Settled
    BY <1>8, WritesSettled
  <2>2. Current' = Current /\ PendingInv'
    BY <1>0, <1>8, <2>1, ReplaysPending DEF AsSound
  <2> QED
    BY <1>4, <2>2
<1>9. ASSUME NEW o \in Obs, ForgetObservation(o) PROVE Permitted /\ PendingInv'
  <2>1. Replays(Current, Tombstone("observation", o)) /\ CanWrite
    BY <1>9 DEF ForgetObservation
  <2>2. Tombstone("observation", o) \in Events /\ Stands(Current, Tombstone("observation", o))
    BY Appended DEF Events, Stands, Tombstone
  <2> QED
    BY <1>8, <2>1, <2>2
<1>10. ASSUME NEW c \in Ids, NEW o \in Obs, Revise(c, o) PROVE Permitted /\ PendingInv'
  <2>1. Effects(Current, Current')
    BY <1>0, <1>10, ReviseEffects
  <2>2. CanWrite /\ UNCHANGED <<log, cursor, late, up>>
    BY <1>10 DEF Revise
  <2> QED
    BY <2>1, <2>2, EffectsPermitted, WritesSettled, WritePending DEF Effects
<1>11. ASSUME NEW c \in Ids, NEW o \in Obs, ReviseDies(c, o) PROVE Permitted /\ PendingInv'
  <2>1. Permitted
    BY <1>0, <1>11, ReviseDiesEffects, EffectsPermitted
  <2>2. Settled
    BY <1>11, WritesSettled DEF ReviseDies
  <2> QED
    BY <1>11, <2>1, <2>2, StopPending DEF ReviseDies
<1>12. ASSUME NEW c \in Ids, NEW into \in Ids, NEW reason \in Reasons,
              NEW v \in Values \cup {Blank}, NEW id \in {0} \cup Ids, Correct(c, reason, into, v, id)
       PROVE  Permitted /\ PendingInv'
  <2> DEFINE e == [kind |-> "correction", target |-> c, reason |-> reason, into |-> into,
                   val |-> v, id |-> id]
  <2>1. Replays(Current, e) /\ CanWrite /\ (reason = "duplicate" \/ id \in Ids)
    BY <1>12 DEF Correct, Fresh
  <2>2. e \in Events
    BY <2>1, Appended DEF Events
  <2>3. Stands(Current, e)
    BY <1>0, <1>12, CorrectStands
  <2> HIDE DEF e
  <2> QED
    BY <1>8, <2>1, <2>2, <2>3
<1>13. ASSUME NEW c \in Ids, NEW inputs \in SUBSET Ids, NEW v \in Values, NEW f \in Froms,
              Consolidate(c, inputs, v, f)
       PROVE  Permitted /\ PendingInv'
  <2>1. /\ c \in Fresh /\ Becomes(Tombstoned(Consolidated(c, inputs, v, f), inputs))
        /\ CanWrite /\ UNCHANGED <<log, cursor, late, up>>
    BY <1>13 DEF Consolidate
  <2>2. Effects(Current, Current')
    BY <1>0, <2>1, ConsolidateEffects
  <2> QED
    BY <2>1, <2>2, EffectsPermitted, WritesSettled, WritePending DEF Effects
<1>14. ASSUME NEW c \in Ids, NEW inputs \in SUBSET Ids, NEW v \in Values, NEW f \in Froms,
              ConsolidateDies(c, inputs, v, f)
       PROVE  Permitted /\ PendingInv'
  <2>1. PICK D \in SUBSET inputs : Becomes(Tombstoned(Consolidated(c, inputs, v, f), D))
    BY <1>14 DEF ConsolidateDies
  <2>2. c \in Fresh /\ CanWrite /\ up' = FALSE /\ late' = Idle /\ cursor' = cursor /\ log' = log
    BY <1>14 DEF ConsolidateDies
  <2>3. Effects(Current, Current')
    BY <1>0, <2>1, <2>2, ConsolidateEffects
  <2>4. Settled
    BY <2>2, WritesSettled
  <2> QED
    BY <2>2, <2>3, <2>4, EffectsPermitted, StopPending DEF Effects
<1>15. CASE Close
  <2>1. Current' = Current /\ up' = FALSE /\ late' = Idle /\ cursor' = cursor /\ log' = log
    BY <1>15 DEF Close, Current, S, store
  <2>2. Settled
    BY <1>15 DEF Close, PendingInv, QueueInv, Settled
  <2> QED
    BY <1>4, <2>1, <2>2, StopPending
<1>16. CASE UNCHANGED vars
  <2>1. Current' = Current /\ UNCHANGED <<log, cursor, late, up>>
    BY <1>16 DEF vars, Current, S
  <2>2. PendingInv'
    BY <2>1 DEF PendingInv, QueueInv
  <2> QED
    BY <1>4, <2>1, <2>2
<1> QED
  BY <1>1, <1>2, <1>3, <1>5, <1>6, <1>7, <1>9, <1>10, <1>11, <1>12, <1>13, <1>14, <1>15, <1>16,
     CatchUpPending, OpenPending
  DEF Next

LEMMA InitPending == Init => PendingInv
<1> SUFFICES ASSUME Init PROVE PendingInv
  OBVIOUS
<1>1. log = <<>> /\ cursor = 0 /\ late = Idle /\ up = TRUE
  BY DEF Init
<1>2. Len(log) = 0 /\ DOMAIN log = {}
  BY <1>1
<1>3. QueueInv
  BY <1>1, <1>2 DEF QueueInv
<1> QED
  BY <1>2, <1>3 DEF PendingInv

\* Where verbs wait for the catch-up before them, what lies ahead of the cursor
\* is one event at most, and a correction in it finds what it found.
LEMMA PendingAlways ==
    ASSUME ~Overlap
    PROVE  Spec => [](StoreInv /\ PendingInv)
<1>1. StoreInv /\ PendingInv /\ [Next]_vars => (StoreInv /\ PendingInv)'
  BY NextInv, NextPending
<1> QED
  BY <1>1, InitInv, InitPending, PTL DEF Spec

\* A demoted claim returns to recall only when the user re-picks it (ADR-0003),
\* where verbs wait for the catch-up before them: no sync, reopen, replay,
\* correction, REVISE or REVIVE lifts a demotion.
THEOREM DemotionsStick ==
    ASSUME ~Overlap
    PROVE  Spec => DemotionSticks
<1>1. ASSUME StoreInv, PendingInv, [Next]_vars
      PROVE  \A c \in Ids : act[c].by # Nobody /\ row'[c].status \in Live => Repick(c)
  <2>1. SUFFICES ASSUME NEW c \in Ids, act[c].by # Nobody, row'[c].status \in Live
                 PROVE  Repick(c)
    OBVIOUS
  <2>2. Permitted /\ StoreInv'
    BY <1>1, NextPending, NextInv
  <2>3. Current' \in Sound /\ Current'.row = row' /\ Current'.act = act' /\ Current'.rec = rec'
    BY <2>2 DEF StoreInv, Current, S
  <2>4. act'[c].by = Nobody
    BY <2>1, <2>3, RowFacts
  <2> QED
    BY <2>1, <2>2, <2>4 DEF Permitted
<1>2. StoreInv /\ PendingInv /\ [Next]_vars =>
          [\A c \in Ids : act[c].by # Nobody /\ row'[c].status \in Live => Repick(c)]_vars
  BY <1>1
<1> QED
  BY <1>2, PendingAlways, PTL DEF Spec, DemotionSticks

\* A forgotten claim is readable again only by REVIVE, where verbs wait for the
\* catch-up before them and users do not correct a forgotten claim.
THEOREM ForgottenRemain ==
    ASSUME ~Overlap, ~CorrectForgotten
    PROVE  Spec => ForgottenStays
<1>1. ASSUME StoreInv, PendingInv, [Next]_vars
      PROVE  \A c \in Ids : row[c].status = "retracted" /\ row'[c].status # "retracted" => Revive(c)
  BY <1>1, NextPending DEF Permitted
<1>2. StoreInv /\ PendingInv /\ [Next]_vars =>
          [\A c \in Ids : row[c].status = "retracted" /\ row'[c].status # "retracted" => Revive(c)]_vars
  BY <1>1
<1> QED
  BY <1>2, PendingAlways, PTL DEF Spec, ForgottenStays

\* No group of claims is demoted in favour of one another, where verbs wait for
\* the catch-up before them and users merge into live claims other than the one
\* merged: what a chain of superseded_by ends in is not itself demoted.
THEOREM SupersessionsEnd ==
    ASSUME ~Overlap, ~MergeDemoted
    PROVE  Spec => []SupersessionEnds
<1>1. Init => SupersessionEnds
  <2>1. SUFFICES ASSUME Init, NEW D \in SUBSET Ids, D # {} PROVE \E c \in D : act[c].by \notin D
    BY DEF SupersessionEnds
  <2>2. PICK c \in D : TRUE
    BY <2>1
  <2>3. act[c].by = Nobody
    BY <2>1 DEF Init, NoRecord
  <2>4. Nobody \notin D
    BY DEF Ids, Nobody
  <2> QED
    BY <2>3, <2>4
<1>2. ASSUME StoreInv, PendingInv, SupersessionEnds, [Next]_vars PROVE SupersessionEnds'
  <2>1. PICK x : LeadsTo(Current, Current', x)
    BY <1>2, NextPending DEF Permitted, Leads
  <2>2. Current.act = act /\ Current'.act = act'
    BY DEF Current, S
  <2>3. SUFFICES ASSUME NEW D \in SUBSET Ids, D # {} PROVE \E c \in D : act'[c].by \notin D
    BY DEF SupersessionEnds
  <2>4. Nobody \notin D
    BY DEF Ids, Nobody
  <2>5. CASE x \in D
    BY <2>1, <2>2, <2>4, <2>5 DEF LeadsTo
  <2>6. CASE x \notin D
    <3>1. PICK c \in D : act[c].by \notin D
      BY <1>2, <2>3 DEF SupersessionEnds
    <3> QED
      BY <2>1, <2>2, <2>4, <2>6, <3>1 DEF LeadsTo
  <2> QED
    BY <2>5, <2>6
<1>3. SupersessionEnds /\ StoreInv /\ PendingInv /\ [Next]_vars => SupersessionEnds'
  BY <1>2
<1> QED
  BY <1>1, <1>3, PendingAlways, PTL DEF Spec
=============================================================================
