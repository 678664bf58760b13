------------------------- MODULE EvidenceLogProofs -------------------------
(***************************************************************************)
(* What EvidenceLog promises for any number of payloads, scopes, packages  *)
(* and lines.                                                              *)
(***************************************************************************)
EXTENDS EvidenceLog, WellFoundedInduction, TLAPS

-----------------------------------------------------------------------------
(* Numbers.                                                                *)

LEMMA SmallestExists ==
    ASSUME NEW N \in SUBSET Nat, N # {}
    PROVE  \E m \in N : \A x \in N : m <= x
<1>1. PICK m \in N : \A u \in N : ~(<<u, m>> \in OpToRel(<, Nat))
  BY NatLessThanWellFounded, WFMin
<1>2. \A u \in N : ~(u < m)
  BY <1>1 DEF OpToRel
<1> QED
  BY <1>2

\* Of finitely many numbers one is the largest: here, of bounded ones.
LEMMA MaxFacts ==
    ASSUME NEW N \in SUBSET Nat, N # {}, NEW b \in Nat, \A x \in N : x <= b
    PROVE  Max(N) \in N /\ \A x \in N : x <= Max(N)
<1> DEFINE B == {c \in Nat : \A x \in N : x <= c}
<1>1. PICK m \in B : \A c \in B : m <= c
  BY SmallestExists
<1>2. m \in N
  <2>1. SUFFICES ASSUME m \notin N PROVE FALSE
    OBVIOUS
  <2>2. \A x \in N : x <= m - 1 /\ m - 1 \in Nat
    BY <1>1, <2>1
  <2>3. m - 1 \in B
    BY <2>2
  <2> QED
    BY <1>1, <2>3
<1>3. m \in N /\ \A x \in N : m >= x
  BY <1>1, <1>2
<1>4. Max(N) \in N /\ \A x \in N : Max(N) >= x
  BY <1>3 DEF Max
<1> QED
  BY <1>4

\* A log has a highest sequence number.
Bound(L, n, b) == b \in Nat /\ \A i \in 1 .. n : L[i].seq <= b

LEMMA SeqBounded ==
    ASSUME NEW n \in Nat, NEW L, \A i \in 1 .. n : L[i].seq \in Nat
    PROVE  \E b : Bound(L, n, b)
<1> DEFINE N == {k \in 0 .. n : ~ \E b : Bound(L, k, b)}
<1>1. SUFFICES ASSUME N # {} PROVE FALSE
  OBVIOUS
<1>2. PICK k \in N : \A x \in N : k <= x
  <2>1. N \in SUBSET Nat
    OBVIOUS
  <2> QED
    BY <1>1, <2>1, SmallestExists
<1>3. Bound(L, 0, 0)
  BY DEF Bound
<1>4. k - 1 \in 0 .. n /\ k - 1 < k /\ k \in 1 .. n
  BY <1>2, <1>3
<1>5. PICK b : Bound(L, k - 1, b)
  BY <1>2, <1>4
<1> DEFINE c == IF L[k].seq <= b THEN b ELSE L[k].seq
<1>6. c \in Nat /\ b <= c /\ L[k].seq <= c
  BY <1>4, <1>5 DEF Bound
<1> HIDE DEF c
<1>7. \A i \in 1 .. k : L[i].seq <= c
  <2> TAKE i \in 1 .. k
  <2>1. L[i].seq \in Nat /\ b \in Nat
    BY <1>2, <1>5 DEF Bound
  <2>2. i # k => L[i].seq <= b
    BY <1>4, <1>5 DEF Bound
  <2> QED
    BY <1>6, <2>1, <2>2
<1>8. Bound(L, k, c)
  BY <1>6, <1>7 DEF Bound
<1> QED
  BY <1>2, <1>8

-----------------------------------------------------------------------------
(* The replay, line by line.                                               *)

\* Whether catchUp() passes a line over.
Below(l, n) == l.seq <= n

\* The indexes after the first 0, 1, .., m lines.
Steps(f, R, L, n, m) ==
    f = [i \in 0 .. m |-> IF i = 0 THEN R
                          ELSE IF Below(L[i], n) THEN f[i - 1] ELSE Indexed(f[i - 1], L[i])]

LEMMA StepsExist ==
    ASSUME NEW R, NEW L, NEW n \in Nat, NEW m \in Nat
    PROVE  \E f : Steps(f, R, L, n, m)
<1> DEFINE N == {k \in 0 .. m : ~ \E f : Steps(f, R, L, n, k)}
<1>1. SUFFICES ASSUME N # {} PROVE FALSE
  OBVIOUS
<1>2. PICK k \in N : \A x \in N : k <= x
  <2>1. N \in SUBSET Nat
    OBVIOUS
  <2> QED
    BY <1>1, <2>1, SmallestExists
<1>3. Steps([i \in 0 .. 0 |-> R], R, L, n, 0)
  BY DEF Steps
<1>4. k - 1 \in 0 .. m /\ k - 1 < k /\ k \in 1 .. m
  BY <1>2, <1>3
<1>5. PICK g : Steps(g, R, L, n, k - 1)
  BY <1>2, <1>4
<1> DEFINE f == [i \in 0 .. k |-> IF i < k THEN g[i]
                                  ELSE IF Below(L[k], n) THEN g[k - 1] ELSE Indexed(g[k - 1], L[k])]
<1>6. ASSUME NEW i \in 0 .. k
      PROVE  f[i] = IF i = 0 THEN R
                    ELSE IF Below(L[i], n) THEN f[i - 1] ELSE Indexed(f[i - 1], L[i])
  <2>1. CASE i = k
    <3>1. f[i - 1] = g[k - 1]
      BY <1>4, <2>1
    <3> QED
      BY <1>4, <2>1, <3>1
  <2>2. CASE i # k
    <3>1. i \in 0 .. k - 1 /\ f[i] = g[i]
      BY <1>4, <2>2
    <3>2. g[i] = IF i = 0 THEN R
                 ELSE IF Below(L[i], n) THEN g[i - 1] ELSE Indexed(g[i - 1], L[i])
      BY <1>5, <3>1 DEF Steps
    <3>3. i # 0 => f[i - 1] = g[i - 1]
      BY <1>4, <3>1
    <3> QED
      BY <3>1, <3>2, <3>3
  <2> QED
    BY <2>1, <2>2
<1>7. f = [i \in 0 .. k |-> f[i]]
  OBVIOUS
<1> HIDE DEF f
<1>8. Steps(f, R, L, n, k)
  BY <1>6, <1>7 DEF Steps
<1> QED
  BY <1>2, <1>8

\* catchUp() folds Indexed over the lines.
LEMMA ReplayedSteps ==
    ASSUME NEW R, NEW L, Len(L) \in Nat, NEW n \in Nat
    PROVE  \E f : Steps(f, R, L, n, Len(L)) /\ Replayed(R, L, n) = f[Len(L)]
<1> DEFINE f == CHOOSE g : Steps(g, R, L, n, Len(L))
<1>1. Steps(f, R, L, n, Len(L))
  BY StepsExist
<1>2. Replayed(R, L, n) = f[Len(L)]
  BY DEF Replayed, Steps, Below
<1> QED
  BY <1>1, <1>2

LEMMA StepsZero ==
    ASSUME NEW R, NEW L, NEW n, NEW m \in Nat, NEW f, Steps(f, R, L, n, m)
    PROVE  f[0] = R
BY DEF Steps

LEMMA StepsOne ==
    ASSUME NEW R, NEW L, NEW n \in Nat, NEW m \in Nat, NEW f, Steps(f, R, L, n, m)
    PROVE  \A i \in 1 .. m :
               f[i] = IF Below(L[i], n) THEN f[i - 1] ELSE Indexed(f[i - 1], L[i])
BY DEF Steps

\* What every replayed line after the first a keeps.
KeptAfter(a, I, L, n, m) ==
    \A i \in a + 1 .. m : \A T \in I : ~Below(L[i], n) => Indexed(T, L[i]) \in I

\* Once it holds, the replay keeps it.
LEMMA StepsKeep ==
    ASSUME NEW R, NEW L, NEW n \in Nat, NEW m \in Nat, NEW f, Steps(f, R, L, n, m),
           NEW I, NEW a \in 0 .. m, NEW b \in a .. m, f[a] \in I, KeptAfter(a, I, L, n, m)
    PROVE  f[b] \in I
<1> DEFINE N == {k \in a .. m : f[k] \notin I}
<1>1. SUFFICES ASSUME N # {} PROVE FALSE
  OBVIOUS
<1>2. PICK k \in N : \A x \in N : k <= x
  <2>1. N \in SUBSET Nat
    OBVIOUS
  <2> QED
    BY <1>1, <2>1, SmallestExists
<1>3. k # a /\ k \in a + 1 .. m /\ k \in 1 .. m /\ k - 1 \in a .. m /\ k - 1 < k
  BY <1>2
<1>4. f[k - 1] \in I
  BY <1>2, <1>3
<1>5. f[k] = IF Below(L[k], n) THEN f[k - 1] ELSE Indexed(f[k - 1], L[k])
  BY <1>3, StepsOne
<1> QED
  BY <1>2, <1>3, <1>4, <1>5 DEF KeptAfter

\* What holds at the start and is always kept.
LEMMA StepsKeepFirst ==
    ASSUME NEW R, NEW L, NEW n \in Nat, NEW m \in Nat, NEW f, Steps(f, R, L, n, m),
           NEW I, R \in I, NEW b \in 0 .. m, KeptAfter(0, I, L, n, m)
    PROVE  f[b] \in I
<1>1. PICK a \in 0 .. m : a = 0
  OBVIOUS
<1>2. f[a] = R
  BY <1>1, StepsZero
<1>3. b \in a .. m /\ KeptAfter(a, I, L, n, m)
  BY <1>1
<1> QED
  BY <1>2, <1>3, StepsKeep

LEMMA ReplayKeeps ==
    ASSUME NEW R, NEW L, Len(L) \in Nat, NEW n \in Nat, NEW I, R \in I,
           KeptAfter(0, I, L, n, Len(L))
    PROVE  Replayed(R, L, n) \in I
<1>1. PICK f : Steps(f, R, L, n, Len(L)) /\ Replayed(R, L, n) = f[Len(L)]
  BY ReplayedSteps
<1>2. Len(L) \in 0 .. Len(L)
  OBVIOUS
<1> QED
  BY <1>1, <1>2, StepsKeepFirst

\* What replayed line i brings about, and every later one keeps, the replay
\* brings about.
LEMMA ReplayReaches ==
    ASSUME NEW R, NEW L, Len(L) \in Nat, NEW n \in Nat, NEW i \in 1 .. Len(L), ~Below(L[i], n),
           NEW J, R \in J, NEW I,
           KeptAfter(0, J, L, n, Len(L)), KeptAfter(i, I, L, n, Len(L)),
           \A T \in J : Indexed(T, L[i]) \in I
    PROVE  Replayed(R, L, n) \in I
<1>1. PICK f : Steps(f, R, L, n, Len(L)) /\ Replayed(R, L, n) = f[Len(L)]
  BY ReplayedSteps
<1>3. i - 1 \in 0 .. Len(L) /\ i \in 0 .. Len(L) /\ Len(L) \in i .. Len(L)
  OBVIOUS
<1>4. f[i - 1] \in J
  BY <1>1, <1>3, StepsKeepFirst
<1>5. f[i] = Indexed(f[i - 1], L[i])
  BY <1>1, StepsOne
<1>6. f[i] \in I
  BY <1>4, <1>5
<1>7. f[Len(L)] \in I
  BY <1>1, <1>3, <1>6, StepsKeep
<1> QED
  BY <1>1, <1>7

-----------------------------------------------------------------------------
(* What a line does to a row.                                              *)

Updated(r, l) ==
    CASE l.type \in {"offboarding", "erasure"} ->
            IF r.scope = l.target THEN [r EXCEPT !.status = ScopeTransition(@, l.type)] ELSE r
      [] l.type \in {"tombstone", "redaction", "approve", "reject"} ->
            IF r.id = l.target THEN [r EXCEPT !.status = Transition(@, l.type)] ELSE r
      [] OTHER -> r

LEMMA ApplyIsUpdated ==
    ASSUME NEW R, NEW l
    PROVE  ApplyMutationEvent(R, l) = {Updated(r, l) : r \in R}
<1>1. CASE l.type \in {"offboarding", "erasure"}
  BY <1>1 DEF ApplyMutationEvent, Updated
<1>2. CASE l.type \in {"tombstone", "redaction", "approve", "reject"}
  BY <1>2 DEF ApplyMutationEvent, Updated
<1>3. CASE ~(l.type \in {"offboarding", "erasure"})
           /\ ~(l.type \in {"tombstone", "redaction", "approve", "reject"})
  <2>1. ApplyMutationEvent(R, l) = R
    BY <1>3 DEF ApplyMutationEvent
  <2>2. \A r \in R : Updated(r, l) = r
    BY <1>3 DEF Updated
  <2> QED
    BY <2>1, <2>2
<1> QED
  BY <1>1, <1>2, <1>3

\* The rows a line can have, and an index that has one of them.
Version(x, s) == [id |-> x.id, status |-> s, scope |-> x.scope, source |-> x.source,
                  key |-> x.key, writer |-> x.writer, seq |-> x.seq, hash |-> x.hash]
Versions(x) == {Version(x, s) : s \in Statuses}
In(R, x)    == \E r \in R : r \in Versions(x)

LEMMA TransitionType ==
    ASSUME NEW s \in Statuses, NEW e
    PROVE  Transition(s, e) \in Statuses /\ ScopeTransition(s, e) \in Statuses
BY DEF Transition, ScopeTransition, Statuses, Terminal

LEMMA VersionFields ==
    ASSUME NEW x, NEW r \in Versions(x)
    PROVE  /\ r.id = x.id /\ r.scope = x.scope /\ r.source = x.source /\ r.key = x.key
           /\ r.writer = x.writer /\ r.seq = x.seq /\ r.hash = x.hash
           /\ r.status \in Statuses /\ r = Version(x, r.status)
BY DEF Versions, Version

\* Updates change the status and nothing else.
LEMMA UpdatedVersion ==
    ASSUME NEW x, NEW r \in Versions(x), NEW l
    PROVE  /\ Updated(r, l) \in Versions(x)
           /\ Updated(r, l) = Version(x, Updated(r, l).status)
           /\ Updated(r, l).status =
                CASE l.type \in {"offboarding", "erasure"} ->
                        IF x.scope = l.target THEN ScopeTransition(r.status, l.type) ELSE r.status
                  [] l.type \in {"tombstone", "redaction", "approve", "reject"} ->
                        IF x.id = l.target THEN Transition(r.status, l.type) ELSE r.status
                  [] OTHER -> r.status
<1>1. PICK s \in Statuses : r = Version(x, s)
  BY DEF Versions
<1>2. ASSUME NEW t PROVE [r EXCEPT !.status = t] = Version(x, t)
  BY <1>1 DEF Version
<1>3. r.id = x.id /\ r.scope = x.scope /\ r.status = s
  BY <1>1 DEF Version
<1>4. \A t : Version(x, t).status = t
  BY DEF Version
<1>5. Transition(s, l.type) \in Statuses /\ ScopeTransition(s, l.type) \in Statuses
  BY TransitionType
<1>6. CASE l.type \in {"offboarding", "erasure"}
  BY <1>1, <1>2, <1>3, <1>4, <1>5, <1>6 DEF Updated, Versions
<1>7. CASE l.type \in {"tombstone", "redaction", "approve", "reject"}
  BY <1>1, <1>2, <1>3, <1>4, <1>5, <1>7 DEF Updated, Versions
<1>8. CASE ~(l.type \in {"offboarding", "erasure"})
           /\ ~(l.type \in {"tombstone", "redaction", "approve", "reject"})
  BY <1>1, <1>3, <1>4, <1>8 DEF Updated, Versions
<1> QED
  BY <1>6, <1>7, <1>8

-----------------------------------------------------------------------------
(* Indexes of a log whose lines do not clash.                              *)

Apart(L)     == \A i, j \in DOMAIN L : i # j => ~Clashes(L[i], L[j])
Stated(L)    == /\ Len(L) \in Nat /\ DOMAIN L = 1 .. Len(L)
                /\ \A i \in DOMAIN L : L[i].status \in Statuses /\ L[i].seq \in Nat
RowsFor(L)   == UNION {Versions(L[i]) : i \in DOMAIN L}

LEMMA ClashSymmetric ==
    ASSUME NEW x, NEW y
    PROVE  Clashes(x, y) <=> Clashes(y, x)
BY DEF Clashes

LEMMA VersionClash ==
    ASSUME NEW x, NEW r \in Versions(x), NEW l
    PROVE  Clashes(r, l) <=> Clashes(x, l)
BY VersionFields DEF Clashes

LEMMA RowOfVersion ==
    ASSUME NEW l, l.status \in Statuses
    PROVE  RowOf(l) \in Versions(l) /\ RowOf(l) = Version(l, l.status)
BY DEF RowOf, Versions, Version

\* Indexing a line loses no row.
LEMMA IndexedKeeps ==
    ASSUME NEW T, NEW l, NEW x, In(T, x)
    PROVE  In(Indexed(T, l), x) /\ In(InsertOrSkip(T, l), x)
<1>1. PICK r \in T : r \in Versions(x)
  BY DEF In
<1>2. r \in InsertOrSkip(T, l)
  BY DEF InsertOrSkip
<1>3. Updated(r, l) \in Indexed(T, l)
  BY <1>2, ApplyIsUpdated DEF Indexed
<1>4. Updated(r, l) \in Versions(x)
  BY <1>1, UpdatedVersion
<1> QED
  BY <1>1, <1>2, <1>3, <1>4 DEF In

\* A line that clashes with no other is in the index once it is indexed.
LEMMA IndexedHas ==
    ASSUME NEW L, Stated(L), Apart(L), NEW T \in SUBSET RowsFor(L), NEW i \in DOMAIN L
    PROVE  /\ Indexed(T, L[i]) \in SUBSET RowsFor(L)
           /\ InsertOrSkip(T, L[i]) \in SUBSET RowsFor(L)
           /\ In(Indexed(T, L[i]), L[i]) /\ In(InsertOrSkip(T, L[i]), L[i])
<1> DEFINE U == InsertOrSkip(T, L[i])
<1>1. RowOf(L[i]) \in Versions(L[i])
  BY RowOfVersion DEF Stated
<1>2. U \in SUBSET RowsFor(L)
  BY <1>1 DEF InsertOrSkip, RowsFor
<1>3. In(U, L[i])
  <2>1. CASE \E r \in T : Clashes(r, L[i])
    <3>1. PICK r \in T : Clashes(r, L[i])
      BY <2>1
    <3>2. PICK j \in DOMAIN L : r \in Versions(L[j])
      BY DEF RowsFor
    <3>3. Clashes(L[j], L[i])
      BY <3>1, <3>2, VersionClash
    <3>4. j = i
      BY <3>3 DEF Apart
    <3>5. r \in U
      BY DEF InsertOrSkip
    <3> QED
      BY <3>2, <3>4, <3>5 DEF In
  <2>2. CASE ~ \E r \in T : Clashes(r, L[i])
    <3>1. RowOf(L[i]) \in U
      BY <2>2 DEF InsertOrSkip
    <3> QED
      BY <1>1, <3>1 DEF In
  <2> QED
    BY <2>1, <2>2
<1> HIDE DEF U
<1>4. Indexed(T, L[i]) = {Updated(r, L[i]) : r \in U}
  BY ApplyIsUpdated DEF Indexed, U
<1>5. ASSUME NEW r \in U PROVE Updated(r, L[i]) \in RowsFor(L)
  <2>1. PICK j \in DOMAIN L : r \in Versions(L[j])
    BY <1>2 DEF RowsFor
  <2>2. Updated(r, L[i]) \in Versions(L[j])
    BY <2>1, UpdatedVersion
  <2> QED
    BY <2>2 DEF RowsFor
<1>6. PICK r \in U : r \in Versions(L[i])
  BY <1>3 DEF In
<1>7. Updated(r, L[i]) \in Versions(L[i])
  BY <1>6, UpdatedVersion
<1>8. In(Indexed(T, L[i]), L[i])
  BY <1>4, <1>6, <1>7 DEF In
<1>9. Indexed(T, L[i]) \in SUBSET RowsFor(L)
  BY <1>4, <1>5
<1> QED
  BY <1>2, <1>3, <1>8, <1>9 DEF U

\* The replay keeps what is indexed and indexes every line above the mark.
LEMMA ReplayIndexes ==
    ASSUME NEW L, Stated(L), Apart(L), NEW R \in SUBSET RowsFor(L), NEW n \in Nat
    PROVE  /\ Replayed(R, L, n) \in SUBSET RowsFor(L)
           /\ \A x : In(R, x) => In(Replayed(R, L, n), x)
           /\ \A i \in DOMAIN L : ~Below(L[i], n) => In(Replayed(R, L, n), L[i])
<1>0. Len(L) \in Nat
  BY DEF Stated
<1>1. Len(L) \in Nat /\ DOMAIN L = 1 .. Len(L)
  BY DEF Stated
<1> DEFINE J == SUBSET RowsFor(L)
<1>2. \A i \in DOMAIN L : \A T \in J : Indexed(T, L[i]) \in J
  BY IndexedHas
<1> HIDE DEF J
<1>3. Replayed(R, L, n) \in J
  <2>1. KeptAfter(0, J, L, n, Len(L))
    BY <1>1, <1>2 DEF KeptAfter
  <2>2. R \in J
    BY DEF J
  <2> QED
    BY <1>0, <2>1, <2>2, ReplayKeeps
<1>4. ASSUME NEW x, In(R, x) PROVE In(Replayed(R, L, n), x)
  <2> DEFINE I == {T \in J : In(T, x)}
  <2>1. R \in I
    BY <1>4 DEF J
  <2>2. KeptAfter(0, I, L, n, Len(L))
    BY <1>1, <1>2, IndexedKeeps DEF KeptAfter
  <2> HIDE DEF I
  <2>3. Replayed(R, L, n) \in I
    BY <1>0, <2>1, <2>2, ReplayKeeps
  <2> QED
    BY <2>3 DEF I
<1>5. ASSUME NEW i \in DOMAIN L, ~Below(L[i], n) PROVE In(Replayed(R, L, n), L[i])
  <2> DEFINE I == {T \in J : In(T, L[i])}
  <2>1. KeptAfter(0, J, L, n, Len(L))
    BY <1>1, <1>2 DEF KeptAfter
  <2>2. \A T \in J : Indexed(T, L[i]) \in I
    BY <1>2, IndexedHas DEF J
  <2>3. KeptAfter(i, I, L, n, Len(L))
    BY <1>1, <1>2, IndexedKeeps DEF KeptAfter
  <2>4. i \in 1 .. Len(L) /\ R \in J
    BY <1>1 DEF J
  <2> HIDE DEF I
  <2>5. Replayed(R, L, n) \in I
    BY <1>0, <1>5, <2>1, <2>2, <2>3, <2>4, ReplayReaches
  <2> QED
    BY <2>5 DEF I
<1> QED
  BY <1>3, <1>4, <1>5 DEF J

\* The new mark is the old one or the number of a line, and at least every one
\* of these.
LEMMA HighestSeqFacts ==
    ASSUME NEW L, Stated(L), NEW n \in Nat
    PROVE  /\ HighestSeq(L, n) \in Nat
           /\ HighestSeq(L, n) = n \/ \E i \in DOMAIN L : HighestSeq(L, n) = L[i].seq
           /\ n <= HighestSeq(L, n)
           /\ \A i \in DOMAIN L : L[i].seq <= HighestSeq(L, n)
<1> DEFINE N == {n} \cup {L[i].seq : i \in DOMAIN L}
<1>1. N \in SUBSET Nat /\ n \in N /\ \A i \in DOMAIN L : L[i].seq \in N
  BY DEF Stated
<1>2. PICK b : Bound(L, Len(L), b)
  BY SeqBounded DEF Stated
<1> DEFINE c == IF n <= b THEN b ELSE n
<1>3. c \in Nat /\ n <= c /\ b <= c
  BY <1>2 DEF Bound
<1>4. \A x \in N : x <= c
  <2>1. \A i \in DOMAIN L : L[i].seq <= c
    <3> HIDE DEF c
    <3> QED
      BY <1>2, <1>3 DEF Bound, Stated
  <2> HIDE DEF c
  <2> QED
    BY <1>3, <2>1
<1>5. Max(N) \in N /\ \A x \in N : x <= Max(N)
  <2> HIDE DEF c, N
  <2> QED
    BY <1>1, <1>3, <1>4, MaxFacts
<1>6. HighestSeq(L, n) = Max(N)
  BY DEF HighestSeq
<1>7. Max(N) \in Nat
  <2> HIDE DEF N
  <2> QED
    BY <1>1, <1>5
<1> DEFINE h == Max(N)
<1>8. h \in N => h = n \/ \E i \in DOMAIN L : h = L[i].seq
  <2> HIDE DEF h
  <2> QED
    OBVIOUS
<1> HIDE DEF N
<1> QED
  BY <1>1, <1>5, <1>6, <1>7, <1>8

-----------------------------------------------------------------------------
(* The log.                                                                *)

\* h is the hash of the last line of this writer before place i, 0 without one.
Follows(L, i, h) ==
    \/ h = 0 /\ \A j \in DOMAIN L : j < i => L[j].writer # Me
    \/ \E j \in DOMAIN L : /\ j < i /\ L[j].writer = Me /\ h = L[j].hash
                           /\ \A m \in DOMAIN L : j < m /\ m < i => L[m].writer # Me
Newest(L, h) == Follows(L, Len(L) + 1, h)

\* A line of this writer has the identity of its payload, or that of an event.
Formed(l) ==
    \/ /\ l.id \in Payloads
       /\ l.source = SourceOf[l.id] /\ l.key = KeyOf[l.id] /\ l.scope = ScopeOf[l.id]
    \/ l.id = l.hash /\ l.source = None /\ l.key = None

Lined(L)   == L \in Seq(Lines \cup Exports)
Chained(L) == \A i \in DOMAIN L : L[i].writer = Me => Follows(L, i, L[i].prev)
Owned(L, h) ==
    \A i \in DOMAIN L : L[i].writer = Me =>
        /\ Formed(L[i]) /\ L[i].seq > 0 /\ L[i].hash <= h
        /\ \A j \in DOMAIN L : L[j].writer = Me /\ i < j =>
              L[i].seq < L[j].seq /\ L[i].hash # L[j].hash
Restored(L, C) ==
    \A i \in DOMAIN L : L[i].writer # Me => \E k \in C : \E j \in DOMAIN k : L[i] = k[j]

\* A log as this writer leaves it: h lines prepared, the packages C restored.
GoodLog(L, h, C) == Lined(L) /\ Apart(L) /\ Chained(L) /\ Owned(L, h) /\ Restored(L, C)

\* A prepared line: its hash is not taken, and it names a line of the log.
Fresh(l, L, h) ==
    /\ l \in Lines /\ Formed(l) /\ l.hash <= h
    /\ \A i \in DOMAIN L : L[i].writer = Me => l.hash # L[i].hash
    /\ l.prev = 0 \/ \E i \in DOMAIN L : L[i].writer = Me /\ l.prev = L[i].hash

\* A line that may be appended: it names the newest line of its writer, is
\* numbered above everything and clashes with nothing.
Fit(l, L, n) ==
    /\ l \in Lines /\ Formed(l) /\ Newest(L, l.prev) /\ n < l.seq
    /\ \A i \in DOMAIN L : L[i].seq < l.seq /\ ~Clashes(L[i], l)

LEMMA LineFacts ==
    ASSUME NEW l \in Lines
    PROVE  /\ l.writer = Me /\ l.seq \in Nat /\ l.hash \in 1 .. MaxLines /\ l.prev \in 0 .. MaxLines
           /\ l.status \in Statuses /\ l.id \in Ids
BY DEF Lines

LEMMA LogFacts ==
    ASSUME ExportsApart, NEW L, Lined(L)
    PROVE  /\ Stated(L)
           /\ \A i \in DOMAIN L : L[i] \in Lines \cup Exports
           /\ \A i \in DOMAIN L : L[i].writer = Me <=> L[i] \in Lines
           /\ \A i \in DOMAIN L : L[i].writer # Me <=> L[i] \in Exports
<1>1. Len(L) \in Nat /\ DOMAIN L = 1 .. Len(L) /\ \A i \in DOMAIN L : L[i] \in Lines \cup Exports
  BY DEF Lined
<1>2. \A x \in Exports : x.writer # Me /\ x.seq \in Nat /\ x.status \in Statuses
  BY DEF ExportsApart
<1>3. \A x \in Lines : x.writer = Me /\ x.seq \in Nat /\ x.status \in Statuses
  BY LineFacts
<1> QED
  BY <1>1, <1>2, <1>3 DEF Stated

\* Appending one line.
LEMMA AppendFacts ==
    ASSUME NEW L, Lined(L), NEW l \in Lines \cup Exports
    PROVE  LET M == Append(L, l)
           IN  /\ Lined(M) /\ Len(L) \in Nat /\ Len(M) = Len(L) + 1
               /\ DOMAIN L = 1 .. Len(L) /\ DOMAIN M = 1 .. Len(L) + 1
               /\ \A i \in DOMAIN L : i \in DOMAIN M /\ M[i] = L[i] /\ i < Len(L) + 1
               /\ \A i \in DOMAIN M : i \in DOMAIN L \/ i = Len(L) + 1
               /\ Len(L) + 1 \in DOMAIN M /\ M[Len(L) + 1] = l
BY DEF Lined

\* Putting lines in front.
LEMMA ConcatFacts ==
    ASSUME NEW L, Lined(L), NEW x \in Seq(Exports)
    PROVE  LET M == x \o L
           IN  /\ Lined(M) /\ Len(L) \in Nat /\ Len(x) \in Nat /\ Len(M) = Len(x) + Len(L)
               /\ DOMAIN L = 1 .. Len(L) /\ DOMAIN x = 1 .. Len(x) /\ DOMAIN M = 1 .. Len(x) + Len(L)
               /\ \A i \in DOMAIN x : i \in DOMAIN M /\ M[i] = x[i]
               /\ \A i \in DOMAIN L : Len(x) + i \in DOMAIN M /\ M[Len(x) + i] = L[i]
               /\ \A i \in DOMAIN M : i \in DOMAIN x \/ (i - Len(x) \in DOMAIN L /\ i > Len(x) /\ M[i] = L[i - Len(x)])
<1> DEFINE M == x \o L
<1>1. /\ Len(L) \in Nat /\ Len(x) \in Nat /\ DOMAIN L = 1 .. Len(L) /\ DOMAIN x = 1 .. Len(x)
      /\ x \in Seq(Lines \cup Exports) /\ L \in Seq(Lines \cup Exports)
  BY DEF Lined
<1>2. Lined(M) /\ Len(M) = Len(x) + Len(L) /\ DOMAIN M = 1 .. Len(x) + Len(L)
  BY <1>1 DEF Lined
<1>3. \A i \in 1 .. Len(x) + Len(L) : M[i] = IF i <= Len(x) THEN x[i] ELSE L[i - Len(x)]
  BY <1>1
<1> HIDE DEF M
<1>4. \A i \in DOMAIN x : i \in DOMAIN M /\ M[i] = x[i]
  BY <1>1, <1>2, <1>3
<1>5. ASSUME NEW i \in DOMAIN L PROVE Len(x) + i \in DOMAIN M /\ M[Len(x) + i] = L[i]
  <2>1. Len(x) + i \in 1 .. Len(x) + Len(L) /\ ~(Len(x) + i <= Len(x)) /\ (Len(x) + i) - Len(x) = i
    BY <1>1
  <2> QED
    BY <1>2, <1>3, <2>1
<1>6. ASSUME NEW i \in DOMAIN M
      PROVE  i \in DOMAIN x \/ (i - Len(x) \in DOMAIN L /\ i > Len(x) /\ M[i] = L[i - Len(x)])
  BY <1>1, <1>2, <1>3
<1> QED
  BY <1>1, <1>2, <1>4, <1>5, <1>6 DEF M

LEMMA NewestUnique ==
    ASSUME NEW L, Len(L) \in Nat, DOMAIN L = 1 .. Len(L), NEW g, NEW h, Newest(L, g), Newest(L, h)
    PROVE  g = h
BY DEF Newest, Follows

\* After an append only the new line is the newest one of this writer.
LEMMA AppendFollows ==
    ASSUME NEW L, Lined(L), NEW l \in Lines
    PROVE  /\ \A h : \A i \in 1 .. Len(L) + 1 : Follows(L, i, h) => Follows(Append(L, l), i, h)
           /\ \A h : Newest(Append(L, l), h) => h = l.hash
           /\ Newest(Append(L, l), l.hash)
<1> DEFINE M == Append(L, l)
           n == Len(L) + 1
<1>1. /\ Len(L) \in Nat /\ Len(M) = n /\ DOMAIN L = 1 .. Len(L) /\ DOMAIN M = 1 .. n
      /\ \A i \in DOMAIN L : M[i] = L[i]
      /\ M[n] = l /\ l.writer = Me
  BY AppendFacts, LineFacts
<1> HIDE DEF M
<1>2. ASSUME NEW i \in 1 .. n, NEW h, Follows(L, i, h) PROVE Follows(M, i, h)
  <2>1. \A j \in DOMAIN M : j < i => j \in DOMAIN L
    BY <1>1
  <2>2. \A j \in DOMAIN L : j \in DOMAIN M
    BY <1>1
  <2> QED
    BY <1>1, <1>2, <2>1, <2>2 DEF Follows
<1>3. ASSUME NEW h, Newest(M, h) PROVE h = l.hash
  <2>1. n \in DOMAIN M /\ n < n + 1 /\ \A j \in DOMAIN M : j # n => j < n
    BY <1>1
  <2>2. Follows(M, n + 1, h)
    BY <1>1, <1>3 DEF Newest
  <2> QED
    BY <1>1, <2>1, <2>2 DEF Follows
<1>4. Newest(M, l.hash)
  <2>1. n \in DOMAIN M /\ n < n + 1 /\ \A m \in DOMAIN M : ~(n < m)
    BY <1>1
  <2>2. Follows(M, n + 1, l.hash)
    BY <1>1, <2>1 DEF Follows
  <2> QED
    BY <1>1, <2>2 DEF Newest
<1> QED
  BY <1>2, <1>3, <1>4 DEF M

\* The log stays good when a fit line is appended to it.
LEMMA AppendGood ==
    ASSUME ExportsApart, NEW L, NEW h \in Nat, NEW g \in Nat, h <= g, NEW C, GoodLog(L, h, C),
           NEW l, NEW n \in Nat, Fit(l, L, n), Fresh(l, L, g)
    PROVE  GoodLog(Append(L, l), g, C)
<1> DEFINE M == Append(L, l)
           t == Len(L) + 1
<1>0. /\ Lined(L) /\ Apart(L) /\ Chained(L) /\ Owned(L, h) /\ Restored(L, C)
      /\ l \in Lines
  BY DEF GoodLog, Fit
<1>1. /\ Lined(M) /\ DOMAIN L = 1 .. Len(L) /\ Len(L) \in Nat
      /\ \A i \in DOMAIN L : i \in DOMAIN M /\ M[i] = L[i] /\ i < t
      /\ \A i \in DOMAIN M : i \in DOMAIN L \/ i = t
      /\ t \in DOMAIN M /\ M[t] = l /\ t \in 1 .. t
  BY <1>0, AppendFacts
<1>2. l.writer = Me /\ l.seq \in Nat /\ l.hash \in Nat
  BY <1>0, LineFacts
<1>3. \A e : \A i \in 1 .. t : Follows(L, i, e) => Follows(M, i, e)
  BY <1>0, AppendFollows
<1>4. \A i \in DOMAIN L : L[i].seq \in Nat /\ (L[i].writer = Me => L[i].hash \in Nat)
  <2>1. Stated(L) /\ \A i \in DOMAIN L : L[i].writer = Me => L[i] \in Lines
    BY <1>0, LogFacts
  <2> QED
    BY <2>1, LineFacts DEF Stated
<1> HIDE DEF M, t
<1>5. Apart(M)
  <2> SUFFICES ASSUME NEW i \in DOMAIN M, NEW j \in DOMAIN M, i # j
               PROVE  ~Clashes(M[i], M[j])
    BY DEF Apart
  <2>1. \A k \in DOMAIN L : ~Clashes(L[k], l) /\ ~Clashes(l, L[k])
    BY ClashSymmetric DEF Fit
  <2>2. CASE i \in DOMAIN L /\ j \in DOMAIN L
    BY <1>0, <1>1, <2>2 DEF Apart
  <2>3. CASE i = t \/ j = t
    BY <1>1, <2>1, <2>3
  <2> QED
    BY <1>1, <2>2, <2>3
<1>6. Chained(M)
  <2> SUFFICES ASSUME NEW i \in DOMAIN M, M[i].writer = Me
               PROVE  Follows(M, i, M[i].prev)
    BY DEF Chained
  <2>1. CASE i \in DOMAIN L
    <3>1. Follows(L, i, L[i].prev) /\ i \in 1 .. t
      BY <1>0, <1>1, <2>1 DEF Chained, t
    <3> QED
      BY <1>1, <1>3, <2>1, <3>1
  <2>2. CASE i = t
    <3>1. Follows(L, t, l.prev)
      BY DEF Fit, Newest, t
    <3> QED
      BY <1>1, <1>3, <2>2, <3>1
  <2> QED
    BY <1>1, <2>1, <2>2
<1>7. Owned(M, g)
  <2> SUFFICES ASSUME NEW i \in DOMAIN M, M[i].writer = Me
               PROVE  /\ Formed(M[i]) /\ M[i].seq > 0 /\ M[i].hash <= g
                      /\ \A j \in DOMAIN M : M[j].writer = Me /\ i < j =>
                            M[i].seq < M[j].seq /\ M[i].hash # M[j].hash
    BY DEF Owned
  <2>1. CASE i \in DOMAIN L
    <3>1. /\ Formed(L[i]) /\ L[i].seq > 0 /\ L[i].hash <= h
          /\ \A j \in DOMAIN L : L[j].writer = Me /\ i < j =>
                            L[i].seq < L[j].seq /\ L[i].hash # L[j].hash
      BY <1>0, <1>1, <2>1 DEF Owned
    <3>2. L[i].seq < l.seq /\ L[i].hash # l.hash
      BY <1>1, <2>1 DEF Fit, Fresh
    <3>3. L[i].hash <= g
      BY <1>1, <1>4, <2>1, <3>1
    <3> QED
      BY <1>1, <2>1, <3>1, <3>2, <3>3
  <2>2. CASE i = t
    <3>1. Formed(l) /\ l.seq > 0 /\ l.hash <= g
      BY <1>2 DEF Fit, Fresh
    <3>2. \A j \in DOMAIN M : ~(t < j)
      BY <1>1 DEF t
    <3> QED
      BY <1>1, <2>2, <3>1, <3>2
  <2> QED
    BY <1>1, <2>1, <2>2
<1>8. Restored(M, C)
  BY <1>0, <1>1, <1>2 DEF Restored
<1> QED
  BY <1>1, <1>5, <1>6, <1>7, <1>8 DEF GoodLog, M

\* Lines in front shift the others.
LEMMA ConcatFollows ==
    ASSUME ExportsApart, NEW L, Lined(L), NEW x \in Seq(Exports)
    PROVE  /\ \A h : \A i \in 1 .. Len(L) + 1 : Follows(L, i, h) => Follows(x \o L, Len(x) + i, h)
           /\ \A h : Newest(x \o L, h) => Newest(L, h)
<1> DEFINE M == x \o L
           t == Len(x)
<1>1. /\ Len(L) \in Nat /\ t \in Nat /\ Len(M) = t + Len(L)
      /\ DOMAIN L = 1 .. Len(L) /\ DOMAIN x = 1 .. t /\ DOMAIN M = 1 .. t + Len(L)
      /\ \A i \in DOMAIN x : i \in DOMAIN M /\ M[i] = x[i]
      /\ \A i \in DOMAIN L : t + i \in DOMAIN M /\ M[t + i] = L[i]
      /\ \A i \in DOMAIN M : i \in DOMAIN x \/ (i - t \in DOMAIN L /\ i > t /\ M[i] = L[i - t])
  BY ConcatFacts
<1>2. \A i \in DOMAIN x : x[i].writer # Me
  BY <1>1 DEF ExportsApart
<1> HIDE DEF M, t
<1>3. ASSUME NEW i \in 1 .. Len(L) + 1, NEW h, Follows(L, i, h)
      PROVE  Follows(M, t + i, h)
  <2>1. CASE h = 0 /\ \A j \in DOMAIN L : j < i => L[j].writer # Me
    <3>1. \A j \in DOMAIN M : j < t + i => M[j].writer # Me
      BY <1>1, <1>2, <2>1
    <3> QED
      BY <2>1, <3>1 DEF Follows
  <2>2. CASE \E j \in DOMAIN L : /\ j < i /\ L[j].writer = Me /\ h = L[j].hash
                                 /\ \A m \in DOMAIN L : j < m /\ m < i => L[m].writer # Me
    <3>1. PICK j \in DOMAIN L : /\ j < i /\ L[j].writer = Me /\ h = L[j].hash
                                /\ \A m \in DOMAIN L : j < m /\ m < i => L[m].writer # Me
      BY <2>2
    <3>2. t + j \in DOMAIN M /\ t + j < t + i /\ M[t + j].writer = Me /\ h = M[t + j].hash
      BY <1>1, <3>1
    <3>3. ASSUME NEW m \in DOMAIN M, t + j < m, m < t + i PROVE M[m].writer # Me
      <4>1. m - t \in DOMAIN L /\ M[m] = L[m - t] /\ j < m - t /\ m - t < i
        BY <1>1, <3>3
      <4> QED
        BY <3>1, <4>1
    <3> QED
      BY <3>2, <3>3 DEF Follows
  <2> QED
    BY <1>3, <2>1, <2>2 DEF Follows
<1>4. ASSUME NEW h, Newest(M, h) PROVE Newest(L, h)
  <2> DEFINE e == Len(L) + 1
  <2>0. /\ Follows(M, t + e, h) /\ Len(M) + 1 = t + e /\ e \in Nat
        /\ \A j \in DOMAIN L : j < e /\ t + j < t + e
    BY <1>1, <1>4 DEF Newest
  <2> HIDE DEF e
  <2>1. CASE h = 0 /\ \A j \in DOMAIN M : j < t + e => M[j].writer # Me
    <3>1. \A j \in DOMAIN L : L[j].writer # Me
      BY <1>1, <2>0, <2>1
    <3>2. Follows(L, e, h)
      BY <2>1, <3>1 DEF Follows
    <3> QED
      BY <3>2 DEF Newest, e
  <2>2. CASE \E j \in DOMAIN M : /\ j < t + e /\ M[j].writer = Me /\ h = M[j].hash
                                 /\ \A m \in DOMAIN M : j < m /\ m < t + e => M[m].writer # Me
    <3>1. PICK j \in DOMAIN M : /\ j < t + e /\ M[j].writer = Me /\ h = M[j].hash
                                 /\ \A m \in DOMAIN M : j < m /\ m < t + e => M[m].writer # Me
      BY <2>2
    <3>2. j - t \in DOMAIN L /\ j > t /\ M[j] = L[j - t]
      BY <1>1, <1>2, <3>1
    <3>3. \A m \in DOMAIN L : j - t < m /\ m < e => L[m].writer # Me
      <4> TAKE m \in DOMAIN L
      <4>1. t + m \in DOMAIN M /\ M[t + m] = L[m] /\ t + m < t + e
        BY <1>1, <2>0
      <4>2. j - t < m => j < t + m
        BY <1>1, <3>1
      <4> QED
        BY <3>1, <4>1, <4>2
    <3>4. Follows(L, e, h)
      BY <2>0, <3>1, <3>2, <3>3 DEF Follows
    <3> QED
      BY <3>4 DEF Newest, e
  <2> QED
    BY <2>0, <2>1, <2>2 DEF Follows
<1> QED
  BY <1>3, <1>4 DEF M, t

\* A line of a package clashes with no line of this writer.
LEMMA ExportsClash ==
    ASSUME ExportsApart, NEW x \in Exports, NEW l, l.id \in Ids, Formed(l)
    PROVE  ~Clashes(x, l) /\ ~Clashes(l, x)
<1>1. /\ x.id \notin Ids
      /\ \A p \in Payloads :
            /\ SourceOf[p] # None => ~(x.source = SourceOf[p] /\ x.scope = ScopeOf[p])
            /\ KeyOf[p] # None => x.key # KeyOf[p]
  BY DEF ExportsApart
<1>3. ~Clashes(x, l)
  BY <1>1 DEF Clashes, Formed
<1> QED
  BY <1>3, ClashSymmetric

\* The log stays good when lines of a package that was not restored before are
\* put in front.
LEMMA ConcatGood ==
    ASSUME ExportsApart, NEW L, NEW h \in Nat, NEW C \in SUBSET Packages, GoodLog(L, h, C),
           NEW k \in Packages, k \notin C,
           NEW x \in Seq(Exports), \A i \in DOMAIN x : i \in DOMAIN k /\ x[i] = k[i]
    PROVE  GoodLog(x \o L, h, C \cup {k})
<1> DEFINE M == x \o L
           t == Len(x)
<1>0. Lined(L) /\ Apart(L) /\ Chained(L) /\ Owned(L, h) /\ Restored(L, C)
  BY DEF GoodLog
<1>1. /\ Lined(M) /\ Len(L) \in Nat /\ t \in Nat
      /\ DOMAIN L = 1 .. Len(L) /\ DOMAIN x = 1 .. t /\ DOMAIN M = 1 .. t + Len(L)
      /\ \A i \in DOMAIN x : i \in DOMAIN M /\ M[i] = x[i]
      /\ \A i \in DOMAIN L : t + i \in DOMAIN M /\ M[t + i] = L[i]
      /\ \A i \in DOMAIN M : i \in DOMAIN x \/ (i - t \in DOMAIN L /\ i > t /\ M[i] = L[i - t])
  BY <1>0, ConcatFacts
<1>2. \A i \in DOMAIN x : x[i].writer # Me /\ x[i] \in Exports
  BY <1>1 DEF ExportsApart
<1>3. \A e : \A i \in 1 .. Len(L) + 1 : Follows(L, i, e) => Follows(M, t + i, e)
  BY <1>0, ConcatFollows
<1>4. \A i \in DOMAIN L : /\ L[i].writer = Me => L[i] \in Lines
                          /\ L[i].writer # Me => L[i] \in Exports
  BY <1>0, LogFacts
<1> HIDE DEF M, t
<1>5. ASSUME NEW i \in DOMAIN x, NEW j \in DOMAIN L
      PROVE  ~Clashes(x[i], L[j])
  <2>1. CASE L[j].writer = Me
    <3>1. L[j] \in Lines /\ Formed(L[j])
      BY <1>0, <1>4, <2>1 DEF Owned
    <3> QED
      BY <1>2, <3>1, LineFacts, ExportsClash
  <2>2. CASE L[j].writer # Me
    <3>1. PICK c \in C : \E m \in DOMAIN c : L[j] = c[m]
      BY <1>0, <2>2 DEF Restored
    <3>2. PICK m \in DOMAIN c : L[j] = c[m]
      BY <3>1
    <3>3. c # k /\ c \in Packages
      OBVIOUS
    <3>4. ~Clashes(k[i], c[m])
      BY <3>3 DEF ExportsApart
    <3> QED
      BY <3>2, <3>4
  <2> QED
    BY <2>1, <2>2
<1>6. Apart(M)
  <2> SUFFICES ASSUME NEW i \in DOMAIN M, NEW j \in DOMAIN M, i # j
               PROVE  ~Clashes(M[i], M[j])
    BY DEF Apart
  <2>1. CASE i \in DOMAIN x /\ j \in DOMAIN x
    <3>1. M[i] = k[i] /\ M[j] = k[j] /\ i \in DOMAIN k /\ j \in DOMAIN k
      BY <1>1, <2>1
    <3> QED
      BY <3>1 DEF ExportsApart
  <2>2. CASE i \in DOMAIN x /\ j \notin DOMAIN x
    BY <1>1, <1>5, <2>2
  <2>3. CASE i \notin DOMAIN x /\ j \in DOMAIN x
    <3>1. i - t \in DOMAIN L /\ M[i] = L[i - t] /\ M[j] = x[j]
      BY <1>1, <2>3
    <3>2. ~Clashes(x[j], L[i - t])
      BY <1>5, <2>3, <3>1
    <3> QED
      BY <3>1, <3>2, ClashSymmetric
  <2>4. CASE i \notin DOMAIN x /\ j \notin DOMAIN x
    <3>1. /\ i - t \in DOMAIN L /\ M[i] = L[i - t]
          /\ j - t \in DOMAIN L /\ M[j] = L[j - t] /\ i - t # j - t
      BY <1>1, <2>4
    <3> QED
      BY <1>0, <3>1 DEF Apart
  <2> QED
    BY <2>1, <2>2, <2>3, <2>4
<1>7. Chained(M)
  <2> SUFFICES ASSUME NEW i \in DOMAIN M, M[i].writer = Me
               PROVE  Follows(M, i, M[i].prev)
    BY DEF Chained
  <2>1. i - t \in DOMAIN L /\ M[i] = L[i - t] /\ t + (i - t) = i /\ i - t \in 1 .. Len(L) + 1
    BY <1>1, <1>2
  <2>2. Follows(L, i - t, L[i - t].prev)
    BY <1>0, <2>1 DEF Chained
  <2> QED
    BY <1>3, <2>1, <2>2
<1>8. Owned(M, h)
  <2> SUFFICES ASSUME NEW i \in DOMAIN M, M[i].writer = Me
               PROVE  /\ Formed(M[i]) /\ M[i].seq > 0 /\ M[i].hash <= h
                      /\ \A j \in DOMAIN M : M[j].writer = Me /\ i < j =>
                            M[i].seq < M[j].seq /\ M[i].hash # M[j].hash
    BY DEF Owned
  <2>1. i - t \in DOMAIN L /\ M[i] = L[i - t]
    BY <1>1, <1>2
  <2>2. \A j \in DOMAIN M : M[j].writer = Me => j - t \in DOMAIN L /\ M[j] = L[j - t]
    BY <1>1, <1>2
  <2>3. \A j \in DOMAIN M : i < j => i - t < j - t
    BY <1>1
  <2> QED
    BY <1>0, <2>1, <2>2, <2>3 DEF Owned
<1>9. Restored(M, C \cup {k})
  <2> SUFFICES ASSUME NEW i \in DOMAIN M, M[i].writer # Me
               PROVE  \E c \in C \cup {k} : \E j \in DOMAIN c : M[i] = c[j]
    BY DEF Restored
  <2>1. CASE i \in DOMAIN x
    BY <1>1, <2>1
  <2>2. CASE i - t \in DOMAIN L /\ M[i] = L[i - t]
    BY <1>0, <2>2 DEF Restored
  <2> QED
    BY <1>1, <2>1, <2>2
<1> QED
  BY <1>1, <1>6, <1>7, <1>8, <1>9 DEF GoodLog, M

-----------------------------------------------------------------------------
(* The index of a good log.                                                *)

\* Every row is of a line, last_sequence is not above the rows, and a line of
\* this writer that has no row will be replayed.
Indexes(R, L, n) ==
    /\ R \in SUBSET RowsFor(L) /\ n \in Nat
    /\ n = 0 \/ \E r \in R : n <= r.seq
    /\ \A i \in DOMAIN L : L[i].writer = Me => In(R, L[i]) \/ n < L[i].seq

\* In a brain that is open every line of this writer has its row, and a line
\* of another writer has one unless its number was passed.
Complete(R, L, n) ==
    \A i \in DOMAIN L : In(R, L[i]) \/ (L[i].writer # Me /\ L[i].seq <= n)

LEMMA RowSeq ==
    ASSUME NEW L, Stated(L), NEW R \in SUBSET RowsFor(L), NEW r \in R
    PROVE  r.seq \in Nat
<1>1. PICK i \in DOMAIN L : r \in Versions(L[i])
  BY DEF RowsFor
<1> QED
  BY <1>1, VersionFields DEF Stated

LEMMA InSeq ==
    ASSUME NEW R, NEW x, In(R, x)
    PROVE  \E r \in R : r.seq = x.seq /\ r.hash = x.hash /\ r.writer = x.writer /\ r.id = x.id
BY VersionFields DEF In

\* A mark that was not above the rows is not above rows that keep them.
LEMMA MarkKept ==
    ASSUME NEW L, Stated(L), NEW R \in SUBSET RowsFor(L), NEW S, NEW n,
           n = 0 \/ \E r \in R : n <= r.seq, \A x : In(R, x) => In(S, x)
    PROVE  n = 0 \/ \E r \in S : n <= r.seq
<1>1. CASE n = 0
  BY <1>1
<1>2. CASE \E r \in R : n <= r.seq
  <2>1. PICK r \in R : n <= r.seq
    BY <1>2
  <2>2. PICK i \in DOMAIN L : r \in Versions(L[i])
    BY DEF RowsFor
  <2>3. In(S, L[i]) /\ r.seq = L[i].seq
    BY <2>2, VersionFields DEF In
  <2> QED
    BY <2>1, <2>3, InSeq
<1> QED
  BY <1>1, <1>2

\* A line that is written leaves such an index, wherever the process dies.
LEMMA AppendIndexes ==
    ASSUME ExportsApart, NEW L, NEW h \in Nat, NEW C, GoodLog(L, h, C),
           NEW R, NEW n \in Nat, Indexes(R, L, n), Complete(R, L, n),
           NEW l, Fit(l, L, n), GoodLog(Append(L, l), MaxLines, C)
    PROVE  LET M == Append(L, l)
           IN  /\ Indexes(Indexed(R, l), M, n) /\ Complete(Indexed(R, l), M, n)
               /\ Indexes(InsertOrSkip(R, l), M, n)
               /\ Indexes(R, M, n)
<1> DEFINE M == Append(L, l)
           t == Len(L) + 1
<1>0. /\ Lined(L) /\ Lined(M) /\ Apart(M) /\ l \in Lines
  BY DEF GoodLog, Fit
<1>1. /\ Stated(L) /\ Stated(M)
  BY <1>0, LogFacts
<1>2. /\ \A i \in DOMAIN L : i \in DOMAIN M /\ M[i] = L[i]
      /\ \A i \in DOMAIN M : i \in DOMAIN L \/ i = t
      /\ t \in DOMAIN M /\ M[t] = l
  BY <1>0, AppendFacts
<1> HIDE DEF M, t
<1>3. R \in SUBSET RowsFor(L) /\ R \in SUBSET RowsFor(M)
  BY <1>2 DEF Indexes, RowsFor
<1>4. n < l.seq /\ l.writer = Me
  BY <1>0, LineFacts DEF Fit
<1>5. \A i \in DOMAIN L : In(R, L[i]) \/ (L[i].writer # Me /\ L[i].seq <= n)
  BY DEF Complete
<1>6. ASSUME NEW S \in SUBSET RowsFor(M), \A x : In(R, x) => In(S, x)
      PROVE  Indexes(S, M, n) /\ (In(S, l) => Complete(S, M, n))
  <2>1. n = 0 \/ \E r \in S : n <= r.seq
    BY <1>1, <1>3, <1>6, MarkKept DEF Indexes
  <2>2. \A i \in DOMAIN M : M[i].writer = Me => In(S, M[i]) \/ n < M[i].seq
    BY <1>2, <1>4, <1>5, <1>6
  <2>3. Indexes(S, M, n)
    BY <2>1, <2>2 DEF Indexes
  <2>4. ASSUME In(S, l) PROVE Complete(S, M, n)
    BY <1>2, <1>5, <1>6, <2>4 DEF Complete
  <2> QED
    BY <2>3, <2>4
<1>7. /\ Indexed(R, l) \in SUBSET RowsFor(M) /\ InsertOrSkip(R, l) \in SUBSET RowsFor(M)
      /\ In(Indexed(R, l), l)
  BY <1>0, <1>1, <1>2, <1>3, IndexedHas
<1>8. \A x : In(R, x) => In(Indexed(R, l), x) /\ In(InsertOrSkip(R, l), x)
  BY IndexedKeeps
<1>9. Indexes(Indexed(R, l), M, n) /\ Complete(Indexed(R, l), M, n)
  BY <1>6, <1>7, <1>8
<1>10. Indexes(InsertOrSkip(R, l), M, n) /\ Indexes(R, M, n)
  BY <1>3, <1>6, <1>7, <1>8
<1> QED
  BY <1>9, <1>10 DEF M

\* catchUp() completes it.
LEMMA CatchUpIndexes ==
    ASSUME ExportsApart, NEW L, Lined(L), Apart(L), NEW R, NEW n \in Nat, Indexes(R, L, n)
    PROVE  /\ Indexes(Replayed(R, L, n), L, HighestSeq(L, n))
           /\ Complete(Replayed(R, L, n), L, HighestSeq(L, n))
<1> DEFINE S == Replayed(R, L, n)
           m == HighestSeq(L, n)
<1>1. Stated(L)
  BY LogFacts
<1>2. R \in SUBSET RowsFor(L)
  BY DEF Indexes
<1>3. /\ S \in SUBSET RowsFor(L)
      /\ \A x : In(R, x) => In(S, x)
      /\ \A i \in DOMAIN L : ~Below(L[i], n) => In(S, L[i])
  BY <1>1, <1>2, ReplayIndexes
<1>4. /\ m \in Nat /\ n <= m
      /\ m = n \/ \E i \in DOMAIN L : m = L[i].seq
      /\ \A i \in DOMAIN L : L[i].seq <= m
  BY <1>1, HighestSeqFacts
<1> HIDE DEF S, m
<1>5. \A i \in DOMAIN L : L[i].seq \in Nat
  BY <1>1 DEF Stated
<1>6. Complete(S, L, m)
  <2> SUFFICES ASSUME NEW i \in DOMAIN L, ~In(S, L[i]) PROVE L[i].writer # Me /\ L[i].seq <= m
    BY DEF Complete
  <2>1. L[i].seq <= n
    BY <1>3 DEF Below
  <2>2. ~In(R, L[i])
    BY <1>3
  <2>3. L[i].writer # Me
    BY <1>5, <2>1, <2>2 DEF Indexes
  <2> QED
    BY <1>4, <2>3
<1>7. m = 0 \/ \E r \in S : m <= r.seq
  <2>1. CASE m = n
    <3>1. n = 0 \/ \E r \in S : n <= r.seq
      BY <1>1, <1>2, <1>3, MarkKept DEF Indexes
    <3> QED
      BY <2>1, <3>1
  <2>2. CASE m # n
    <3>1. PICK i \in DOMAIN L : m = L[i].seq
      BY <1>4, <2>2
    <3>2. ~Below(L[i], n)
      BY <1>4, <1>5, <2>2, <3>1 DEF Below
    <3>3. PICK r \in S : r.seq = L[i].seq
      BY <1>3, <3>1, <3>2, InSeq
    <3> QED
      BY <1>4, <3>1, <3>3
  <2> QED
    BY <2>1, <2>2
<1>8. Indexes(S, L, m)
  BY <1>3, <1>4, <1>6, <1>7 DEF Indexes, Complete
<1> QED
  BY <1>6, <1>8 DEF S, m

\* Lines put in front of the log await the next catchUp().
LEMMA ConcatIndexes ==
    ASSUME ExportsApart, NEW L, Lined(L), NEW x \in Seq(Exports),
           NEW R, NEW n \in Nat, Indexes(R, L, n), Complete(R, L, n)
    PROVE  Indexes(R, x \o L, n)
<1> DEFINE M == x \o L
           t == Len(x)
<1>1. /\ \A i \in DOMAIN x : M[i] = x[i]
      /\ \A i \in DOMAIN L : t + i \in DOMAIN M /\ M[t + i] = L[i]
      /\ \A i \in DOMAIN M : i \in DOMAIN x \/ (i - t \in DOMAIN L /\ i > t /\ M[i] = L[i - t])
      /\ DOMAIN x = 1 .. Len(x)
  BY ConcatFacts
<1>2. \A i \in DOMAIN x : x[i].writer # Me
  BY <1>1 DEF ExportsApart
<1> HIDE DEF M, t
<1>3. R \in SUBSET RowsFor(M)
  BY <1>1 DEF Indexes, RowsFor
<1>4. \A i \in DOMAIN M : M[i].writer = Me => In(R, M[i])
  BY <1>1, <1>2 DEF Complete
<1> QED
  BY <1>3, <1>4 DEF Indexes, M

\* getLatestHashForWriter() finds the newest line of this writer although it
\* reads the index, and getLastSequence() a number no line and no mark is above.
LEMMA LatestFacts ==
    ASSUME ExportsApart, NEW h \in Nat, NEW C, GoodLog(log, h, C),
           Indexes(rows, log, lastSeq), Complete(rows, log, lastSeq)
    PROVE  /\ \A e \in LatestHashes : Newest(log, e)
           /\ LastSequence \in Nat /\ lastSeq <= LastSequence
           /\ \A i \in DOMAIN log : log[i].seq <= LastSequence
           /\ LastSequence = 0 \/ \E i \in DOMAIN log : LastSequence = log[i].seq
<1>0. Lined(log) /\ Owned(log, h) /\ lastSeq \in Nat /\ rows \in SUBSET RowsFor(log)
  BY DEF GoodLog, Indexes
<1>1. /\ Stated(log) /\ Len(log) \in Nat /\ DOMAIN log = 1 .. Len(log)
      /\ \A i \in DOMAIN log : log[i].seq \in Nat
  BY <1>0, LogFacts DEF Stated
<1>2. ASSUME NEW e \in LatestHashes PROVE Newest(log, e)
  <2> DEFINE mine == {r \in rows : r.writer = Me}
  <2>1. \A i \in DOMAIN log : log[i].writer = Me => \E r \in mine : r.seq = log[i].seq
    BY InSeq DEF Complete
  <2>2. CASE mine = {}
    <3>1. e = 0
      BY <1>2, <2>2 DEF LatestHashes
    <3>2. \A i \in DOMAIN log : log[i].writer # Me
      BY <2>1, <2>2
    <3> QED
      BY <3>1, <3>2 DEF Newest, Follows
  <2>3. CASE mine # {}
    <3>1. PICK r \in mine : e = r.hash /\ \A y \in mine : y.seq <= r.seq
      BY <1>2, <2>3 DEF LatestHashes
    <3>2. PICK i \in DOMAIN log : r \in Versions(log[i])
      BY <1>0 DEF RowsFor
    <3>3. r.writer = log[i].writer /\ r.seq = log[i].seq /\ r.hash = log[i].hash
      BY <3>2, VersionFields
    <3>4. log[i].writer = Me /\ e = log[i].hash /\ i < Len(log) + 1
      BY <1>1, <3>1, <3>3
    <3>5. ASSUME NEW m \in DOMAIN log, i < m PROVE log[m].writer # Me
      <4>1. SUFFICES ASSUME log[m].writer = Me PROVE FALSE
        OBVIOUS
      <4>2. log[i].seq < log[m].seq
        BY <1>0, <3>4, <3>5, <4>1 DEF Owned
      <4>3. PICK y \in mine : y.seq = log[m].seq
        BY <2>1, <4>1
      <4>4. y.seq <= r.seq
        BY <3>1
      <4> QED
        BY <1>1, <3>3, <4>2, <4>3, <4>4
    <3> QED
      BY <3>4, <3>5 DEF Newest, Follows
  <2> QED
    BY <2>2, <2>3
<1> DEFINE N == {0} \cup {r.seq : r \in rows}
<1>3. N \in SUBSET Nat
  BY <1>0, <1>1, RowSeq
<1>4. PICK b : Bound(log, Len(log), b)
  BY <1>1, SeqBounded
<1>5. \A x \in N : x <= b
  <2>1. ASSUME NEW r \in rows PROVE r.seq <= b
    <3>1. PICK i \in DOMAIN log : r \in Versions(log[i])
      BY <1>0 DEF RowsFor
    <3>2. r.seq = log[i].seq
      BY <3>1, VersionFields
    <3> QED
      BY <1>1, <1>4, <3>2 DEF Bound
  <2> QED
    BY <1>4, <2>1 DEF Bound
<1>6. b \in Nat /\ 0 \in N /\ \A r \in rows : r.seq \in N
  BY <1>4 DEF Bound
<1>7. LastSequence = Max(N)
  BY DEF LastSequence
<1> HIDE DEF N
<1>8. Max(N) \in N /\ Max(N) \in Nat /\ \A x \in N : x <= Max(N)
  BY <1>3, <1>5, <1>6, MaxFacts
<1>9. LastSequence \in Nat /\ 0 <= LastSequence /\ \A r \in rows : r.seq <= LastSequence /\ r.seq \in Nat
  BY <1>3, <1>6, <1>7, <1>8
<1>10. lastSeq <= LastSequence
  <2>1. lastSeq = 0 \/ \E r \in rows : lastSeq <= r.seq
    BY DEF Indexes
  <2> QED
    BY <1>0, <1>9, <2>1
<1>11. ASSUME NEW i \in DOMAIN log PROVE log[i].seq <= LastSequence
  <2>1. CASE In(rows, log[i])
    BY <1>9, <2>1, InSeq
  <2>2. CASE log[i].seq <= lastSeq
    BY <1>0, <1>1, <1>9, <1>10, <2>2
  <2> QED
    BY <2>1, <2>2 DEF Complete
<1>12. LastSequence = 0 \/ \E i \in DOMAIN log : LastSequence = log[i].seq
  <2>1. LastSequence = 0 \/ \E r \in rows : LastSequence = r.seq
    BY <1>7, <1>8 DEF N
  <2>2. \A r \in rows : \E i \in DOMAIN log : r.seq = log[i].seq
    BY <1>0, VersionFields DEF RowsFor
  <2> QED
    BY <2>1, <2>2
<1> QED
  BY <1>2, <1>9, <1>10, <1>11, <1>12

-----------------------------------------------------------------------------
(* The chain.                                                              *)

TypeInv == /\ up \in BOOLEAN /\ made \in 0 .. MaxLines /\ lastSeq \in Nat
           /\ receipts \in SUBSET Packages

\* An OBSERVE that awaits is alone and may be appended; a FORGET that died may be
\* while its audit line names the newest line, and no other intent has its hash.
PendingInv ==
    /\ \A l \in held \cup intents : Fresh(l, log, made)
    /\ \A l \in held : up = TRUE /\ Fit(l, log, lastSeq)
    /\ \A l, m \in held : l = m
    /\ \A l \in held, m \in intents : l.hash # m.hash
    /\ \A l, m \in intents : l.hash = m.hash => l = m
    /\ \A l \in intents : Newest(log, l.prev) => Fit(l, log, lastSeq)

ChainInv ==
    /\ TypeInv
    /\ GoodLog(log, made, receipts)
    /\ Indexes(rows, log, lastSeq)
    /\ up = TRUE => Complete(rows, log, lastSeq)
    /\ PendingInv

LEMMA InitChain == Init => ChainInv
<1> SUFFICES ASSUME Init PROVE ChainInv
  OBVIOUS
<1>1. log = <<>> /\ DOMAIN log = {} /\ log \in Seq(Lines \cup Exports)
  BY DEF Init
<1>2. TypeInv
  <2>1. up = FALSE /\ made = 0 /\ lastSeq = 0 /\ receipts = {}
    BY DEF Init
  <2>2. 0 \in 0 .. MaxLines
    BY EvidenceAssumption
  <2> QED
    BY <2>1, <2>2 DEF TypeInv
<1>3. GoodLog(log, made, receipts)
  BY <1>1 DEF GoodLog, Lined, Apart, Chained, Owned, Restored
<1>4. Indexes(rows, log, lastSeq) /\ up = FALSE
  BY <1>1 DEF Init, Indexes
<1>5. PendingInv
  BY DEF Init, PendingInv
<1> QED
  BY <1>2, <1>3, <1>4, <1>5 DEF ChainInv

\* A line prepared from the index fits the log, if it clashes with nothing.
LEMMA PreparedFit ==
    ASSUME ExportsApart, ChainInv, up = TRUE, made < MaxLines, NEW h \in LatestHashes,
           NEW id \in Ids, NEW type \in {"observation"} \cup EventTypes, NEW status \in Statuses,
           NEW scope \in Scopes \cup {Pod}, NEW target \in Payloads \cup Scopes \cup {None},
           NEW source \in {SourceOf[p] : p \in Payloads} \cup {None},
           NEW key \in {KeyOf[p] : p \in Payloads} \cup {None},
           LET l == Prepared(h, id, type, status, scope, target, source, key)
           IN  Formed(l) /\ \A i \in DOMAIN log : ~Clashes(log[i], l)
    PROVE  LET l == Prepared(h, id, type, status, scope, target, source, key)
           IN  Fit(l, log, lastSeq) /\ Fresh(l, log, made + 1) /\ l.hash = made + 1
<1> DEFINE l == Prepared(h, id, type, status, scope, target, source, key)
<1>0. /\ GoodLog(log, made, receipts) /\ Indexes(rows, log, lastSeq) /\ Complete(rows, log, lastSeq)
      /\ Lined(log) /\ Owned(log, made)
      /\ made \in Nat /\ lastSeq \in Nat /\ made + 1 \in 1 .. MaxLines
  BY EvidenceAssumption DEF ChainInv, TypeInv, GoodLog
<1>1. /\ Newest(log, h) /\ LastSequence \in Nat /\ lastSeq <= LastSequence
      /\ \A i \in DOMAIN log : log[i].seq <= LastSequence
  BY <1>0, LatestFacts
<1>2. /\ \A i \in DOMAIN log : log[i].seq \in Nat
      /\ \A i \in DOMAIN log : log[i].writer = Me => log[i].hash \in 1 .. MaxLines /\ log[i].hash <= made
  <2>1. \A i \in DOMAIN log : log[i].seq \in Nat /\ (log[i].writer = Me => log[i] \in Lines)
    BY <1>0, LogFacts DEF Stated
  <2> QED
    BY <1>0, <2>1, LineFacts DEF Owned
<1>3. h = 0 \/ \E i \in DOMAIN log : log[i].writer = Me /\ h = log[i].hash
  BY <1>1 DEF Newest, Follows
<1>4. h \in 0 .. MaxLines
  BY <1>2, <1>3, EvidenceAssumption
<1>5. l \in Lines
  BY <1>0, <1>1, <1>4 DEF Prepared, Lines
<1>6. l.prev = h /\ l.seq = LastSequence + 1 /\ l.hash = made + 1
  BY DEF Prepared
<1> HIDE DEF l
<1>7. Fit(l, log, lastSeq)
  <2>1. Formed(l) /\ \A i \in DOMAIN log : ~Clashes(log[i], l)
    BY DEF l
  <2>2. lastSeq < l.seq /\ \A i \in DOMAIN log : log[i].seq < l.seq
    BY <1>0, <1>1, <1>2, <1>6
  <2> QED
    BY <1>1, <1>5, <1>6, <2>1, <2>2 DEF Fit
<1>8. Fresh(l, log, made + 1)
  <2>1. \A i \in DOMAIN log : log[i].writer = Me => l.hash # log[i].hash
    BY <1>0, <1>2, <1>6
  <2>2. Formed(l) /\ l.hash <= made + 1
    BY <1>0, <1>6 DEF l
  <2> QED
    BY <1>3, <1>5, <1>6, <2>1, <2>2 DEF Fresh
<1> QED
  BY <1>6, <1>7, <1>8 DEF l

\* The audit lines of the verbs: no line has their identity yet.
LEMMA EventFit ==
    ASSUME ExportsApart, ChainInv, up = TRUE, made < MaxLines, NEW h \in LatestHashes,
           NEW type \in EventTypes, NEW scope \in Scopes \cup {Pod},
           NEW target \in Payloads \cup Scopes
    PROVE  LET l == Event(h, type, scope, target)
           IN  Fit(l, log, lastSeq) /\ Fresh(l, log, made + 1) /\ l.hash = made + 1
<1> DEFINE l == Event(h, type, scope, target)
<1>0. Lined(log) /\ Owned(log, made) /\ made \in Nat /\ made + 1 \in 1 .. MaxLines
  BY EvidenceAssumption DEF ChainInv, TypeInv, GoodLog
<1>1. l.id = made + 1 /\ l.hash = made + 1 /\ l.source = None /\ l.key = None
  BY DEF Event, Prepared
<1>2. made + 1 \in Ids /\ made + 1 \notin Payloads
  BY <1>0, EvidenceAssumption DEF Ids
<1> HIDE DEF l
<1>3. ASSUME NEW i \in DOMAIN log PROVE log[i].id # made + 1
  <2>1. CASE log[i].writer = Me
    <3>1. Formed(log[i]) /\ log[i].hash <= made /\ log[i] \in Lines
      BY <1>0, <2>1, LogFacts DEF Owned
    <3>2. log[i].hash \in Nat
      BY <3>1, LineFacts
    <3> QED
      BY <1>0, <1>2, <3>1, <3>2 DEF Formed
  <2>2. CASE log[i].writer # Me
    <3>1. log[i] \in Exports
      BY <1>0, <2>2, LogFacts
    <3> QED
      BY <1>2, <3>1 DEF ExportsApart
  <2> QED
    BY <2>1, <2>2
<1>4. Formed(l) /\ \A i \in DOMAIN log : ~Clashes(log[i], l)
  BY <1>1, <1>3 DEF Formed, Clashes
<1>5. l = Prepared(h, made + 1, type, "accepted", scope, target, None, None)
  BY DEF l, Event
<1>6. "accepted" \in Statuses /\ type \in {"observation"} \cup EventTypes
      /\ target \in Payloads \cup Scopes \cup {None}
      /\ None \in {SourceOf[p] : p \in Payloads} \cup {None}
      /\ None \in {KeyOf[p] : p \in Payloads} \cup {None}
  BY DEF Statuses
<1>7. Fit(l, log, lastSeq) /\ Fresh(l, log, made + 1)
  BY <1>2, <1>4, <1>5, <1>6, PreparedFit
<1> QED
  BY <1>1, <1>7 DEF l

\* An observation that the handler admits clashes with no line.
LEMMA ObservationFit ==
    ASSUME ExportsApart, SourcesApart, ChainInv, up = TRUE, made < MaxLines, NEW h \in LatestHashes,
           NEW p \in Payloads, Admits(p)
    PROVE  LET l == Observation(p, h)
           IN  Fit(l, log, lastSeq) /\ Fresh(l, log, made + 1) /\ l.hash = made + 1
<1> DEFINE l == Observation(p, h)
<1>0. /\ Lined(log) /\ Owned(log, made) /\ Complete(rows, log, lastSeq)
      /\ made \in Nat /\ made + 1 \in 1 .. MaxLines
  BY EvidenceAssumption DEF ChainInv, TypeInv, GoodLog
<1>1. /\ l.id = p /\ l.hash = made + 1 /\ l.source = SourceOf[p] /\ l.key = KeyOf[p]
      /\ l.scope = ScopeOf[p]
  BY DEF Observation, Prepared
<1>2. l = Prepared(h, p, "observation", IF p \in Held THEN "quarantined" ELSE "accepted",
                   ScopeOf[p], None, SourceOf[p], KeyOf[p])
  BY DEF Observation
<1> HIDE DEF l
<1>3. Formed(l)
  BY <1>1 DEF Formed
<1>4. l.id \in Ids
  BY <1>1 DEF Ids
<1>5. ASSUME NEW i \in DOMAIN log PROVE ~Clashes(log[i], l)
  <2>1. CASE log[i].writer # Me
    <3>1. log[i] \in Exports
      BY <1>0, <2>1, LogFacts
    <3> QED
      BY <1>3, <1>4, <3>1, ExportsClash
  <2>2. CASE log[i].writer = Me
    <3>1. Formed(log[i])
      BY <1>0, <2>2 DEF Owned
    <3>2. PICK r \in rows : r \in Versions(log[i])
      BY <1>0, <2>2 DEF Complete, In
    <3>3. /\ r.id = log[i].id /\ r.key = log[i].key
          /\ r.source = log[i].source /\ r.scope = log[i].scope
      BY <3>2, VersionFields
    <3>4. /\ log[i].id # p
          /\ KeyOf[p] # None => log[i].key # KeyOf[p]
          /\ KeyOf[p] = None /\ SourceOf[p] # None =>
                ~(log[i].source = SourceOf[p] /\ log[i].scope = ScopeOf[p])
      BY <3>3 DEF Admits
    <3>5. KeyOf[p] # None /\ SourceOf[p] # None =>
              ~(log[i].source = SourceOf[p] /\ log[i].scope = ScopeOf[p])
      BY <3>1, <3>4 DEF Formed, SourcesApart
    <3> QED
      BY <1>1, <3>4, <3>5 DEF Clashes
  <2> QED
    BY <2>1, <2>2
<1>6. /\ (IF p \in Held THEN "quarantined" ELSE "accepted") \in Statuses
      /\ p \in Ids /\ "observation" \in {"observation"} \cup EventTypes
      /\ ScopeOf[p] \in Scopes \cup {Pod} /\ None \in Payloads \cup Scopes \cup {None}
      /\ SourceOf[p] \in {SourceOf[q] : q \in Payloads} \cup {None}
      /\ KeyOf[p] \in {KeyOf[q] : q \in Payloads} \cup {None}
  BY DEF Statuses, Ids, Scopes
<1>7. Fit(l, log, lastSeq) /\ Fresh(l, log, made + 1)
  BY <1>2, <1>3, <1>5, <1>6, PreparedFit
<1> QED
  BY <1>1, <1>7 DEF l

\* What an open brain has before a verb.
LEMMA OpenFacts ==
    ASSUME ChainInv
    PROVE  /\ TypeInv /\ GoodLog(log, made, receipts) /\ Lined(log) /\ Apart(log)
           /\ Indexes(rows, log, lastSeq) /\ (up = TRUE => Complete(rows, log, lastSeq)) /\ PendingInv
           /\ made \in Nat /\ made <= MaxLines /\ MaxLines \in Nat /\ lastSeq \in Nat
BY EvidenceAssumption DEF ChainInv, TypeInv, GoodLog

\* Writing a fit line, whichever handler writes it and wherever it dies.
LEMMA WriteChain ==
    ASSUME ExportsApart, ChainInv, up = TRUE, NEW l, Fit(l, log, lastSeq), Write(l),
           made' \in 0 .. MaxLines, made <= made', Fresh(l, log, made'),
           \A m \in held : m = l,
           \A m \in intents' : m \in intents /\ m.hash # l.hash,
           receipts' = receipts
    PROVE  ChainInv'
<1>0. /\ TypeInv /\ GoodLog(log, made, receipts) /\ Lined(log)
      /\ Indexes(rows, log, lastSeq) /\ Complete(rows, log, lastSeq) /\ PendingInv
      /\ made \in Nat /\ made' \in Nat /\ made' <= MaxLines /\ MaxLines \in Nat /\ lastSeq \in Nat
  BY OpenFacts
<1>1. log' = Append(log, l) /\ lastSeq' = lastSeq /\ l \in Lines /\ l.hash \in Nat /\ l.hash # 0
  BY LineFacts DEF Write, Fit
<1>2. GoodLog(log', made', receipts')
  BY <1>0, <1>1, AppendGood
<1>3. GoodLog(log', MaxLines, receipts)
  <2>1. Fresh(l, log, MaxLines)
    BY <1>0, <1>1 DEF Fresh
  <2> QED
    BY <1>0, <1>1, <2>1, AppendGood
<1>4. /\ Indexes(Indexed(rows, l), log', lastSeq) /\ Complete(Indexed(rows, l), log', lastSeq)
      /\ Indexes(InsertOrSkip(rows, l), log', lastSeq) /\ Indexes(rows, log', lastSeq)
  BY <1>0, <1>1, <1>3, AppendIndexes
<1>5. /\ Indexes(rows', log', lastSeq')
      /\ up' = TRUE => Complete(rows', log', lastSeq')
      /\ up' \in BOOLEAN
  BY <1>1, <1>4 DEF Write
<1>6. held' = {}
  <2>1. held \ {l} = {}
    OBVIOUS
  <2> QED
    BY <2>1 DEF Write
<1>7. ASSUME NEW m \in intents' PROVE Fresh(m, log', made') /\ ~Newest(log', m.prev)
  <2>1. Fresh(m, log, made) /\ m.hash # l.hash
    BY <1>0, <1>7 DEF PendingInv
  <2>2. /\ \A i \in DOMAIN log : i \in DOMAIN log' /\ log'[i] = log[i]
        /\ \A i \in DOMAIN log' : i \in DOMAIN log \/ i = Len(log) + 1
        /\ log'[Len(log) + 1] = l
    BY <1>0, <1>1, AppendFacts
  <2>3. m.hash \in Nat
    BY <2>1, LineFacts DEF Fresh
  <2>4. m.hash <= made'
    BY <1>0, <2>1, <2>3 DEF Fresh
  <2>5. \A i \in DOMAIN log' : log'[i].writer = Me => m.hash # log'[i].hash
    BY <2>1, <2>2 DEF Fresh
  <2>6. m.prev = 0 \/ \E i \in DOMAIN log' : log'[i].writer = Me /\ m.prev = log'[i].hash
    BY <2>1, <2>2 DEF Fresh
  <2>7. m.prev # l.hash
    BY <1>1, <2>1 DEF Fresh
  <2>8. ~Newest(log', m.prev)
    BY <1>0, <1>1, <2>7, AppendFollows
  <2> QED
    BY <2>1, <2>4, <2>5, <2>6, <2>8 DEF Fresh
<1>8. PendingInv'
  <2>1. \A m1, m2 \in intents' : m1.hash = m2.hash => m1 = m2
    BY <1>0 DEF PendingInv
  <2> QED
    BY <1>6, <1>7, <2>1 DEF PendingInv
<1>9. TypeInv'
  BY <1>0, <1>1, <1>5 DEF TypeInv
<1> QED
  BY <1>2, <1>5, <1>8, <1>9 DEF ChainInv

LEMMA GoodLogMore ==
    ASSUME ExportsApart, NEW L, NEW h \in Nat, NEW g \in Nat, h <= g, NEW C, GoodLog(L, h, C)
    PROVE  GoodLog(L, g, C)
<1>1. \A i \in DOMAIN L : L[i].writer = Me => L[i].hash \in Nat
  <2>1. \A i \in DOMAIN L : L[i].writer = Me => L[i] \in Lines
    BY LogFacts DEF GoodLog
  <2> QED
    BY <2>1, LineFacts
<1>2. Owned(L, g)
  <2>1. \A i \in DOMAIN L : L[i].writer = Me => L[i].hash <= h
    BY DEF GoodLog, Owned
  <2>2. \A i \in DOMAIN L : L[i].writer = Me => L[i].hash <= g
    BY <1>1, <2>1
  <2> QED
    BY <2>2 DEF GoodLog, Owned
<1> QED
  BY <1>2 DEF GoodLog

\* Steps that leave the log alone, and make nothing fit that was not.
LEMMA PauseChain ==
    ASSUME ExportsApart, ChainInv, log' = log, rows' = rows, lastSeq' = lastSeq, receipts' = receipts,
           up' \in BOOLEAN, up' = TRUE => up = TRUE, held' = {},
           made' \in 0 .. MaxLines, made <= made',
           \A m \in intents' : m \in intents \/ (Fit(m, log, lastSeq) /\ Fresh(m, log, made') /\ m.hash > made),
           \A m1, m2 \in intents' : m1 \notin intents /\ m2 \notin intents => m1 = m2
    PROVE  ChainInv'
<1>0. /\ TypeInv /\ GoodLog(log, made, receipts) /\ Lined(log) /\ Apart(log)
      /\ Indexes(rows, log, lastSeq) /\ (up = TRUE => Complete(rows, log, lastSeq)) /\ PendingInv
      /\ made \in Nat /\ MaxLines \in Nat
  BY OpenFacts
<1> made' \in Nat
  BY <1>0
<1>1. \A m \in intents : m \in Lines /\ m.hash <= made /\ m.hash \in Nat
  BY <1>0, LineFacts DEF PendingInv, Fresh
<1>2. \A m \in intents : Fresh(m, log, made')
  BY <1>0, <1>1 DEF PendingInv, Fresh
<1>3. \A m \in intents' : Fresh(m, log, made') /\ (Newest(log, m.prev) => Fit(m, log, lastSeq))
  BY <1>0, <1>2 DEF PendingInv
<1>4. \A m \in intents' : m.hash \in Nat
  BY <1>3, LineFacts DEF Fresh
<1>5. \A m1, m2 \in intents' : m1.hash = m2.hash => m1 = m2
  BY <1>0, <1>1, <1>4 DEF PendingInv
<1>6. PendingInv'
  BY <1>3, <1>5 DEF PendingInv
<1>7. GoodLog(log, made', receipts)
  BY <1>0, GoodLogMore
<1>8. TypeInv'
  BY <1>0 DEF TypeInv
<1> QED
  BY <1>0, <1>6, <1>7, <1>8 DEF ChainInv

\* Open, with or without an index.
LEMMA OpenChain == ASSUME ExportsApart, ChainInv, Open PROVE ChainInv'
<1>0. /\ TypeInv /\ GoodLog(log, made, receipts) /\ Lined(log) /\ Apart(log)
      /\ Indexes(rows, log, lastSeq) /\ PendingInv /\ lastSeq \in Nat
  BY OpenFacts
<1>1. /\ up = FALSE /\ up' = TRUE /\ UNCHANGED <<log, held, intents, receipts, made>>
      /\ rows' = Replayed(rows, log, lastSeq) /\ lastSeq' = HighestSeq(log, lastSeq)
  BY <1>0 DEF Open, CatchUp, TypeInv
<1>2. Indexes(rows', log', lastSeq') /\ Complete(rows', log', lastSeq')
  BY <1>0, <1>1, CatchUpIndexes
<1>3. lastSeq' \in Nat /\ (lastSeq' = lastSeq \/ \E i \in DOMAIN log : lastSeq' = log[i].seq)
  BY <1>0, <1>1, LogFacts, HighestSeqFacts
<1>4. held = {}
  BY <1>0, <1>1 DEF PendingInv
<1>5. \A m \in intents : Fit(m, log, lastSeq) => Fit(m, log, lastSeq')
  BY <1>3 DEF Fit
<1>6. PendingInv'
  BY <1>0, <1>1, <1>4, <1>5 DEF PendingInv
<1>7. TypeInv'
  BY <1>0, <1>1, <1>3 DEF TypeInv
<1> QED
  BY <1>0, <1>1, <1>2, <1>6, <1>7 DEF ChainInv

\* A deleted index will be rebuilt.
LEMMA WipeChain == ASSUME ExportsApart, ChainInv, Wipe PROVE ChainInv'
<1>0. /\ TypeInv /\ GoodLog(log, made, receipts) /\ Lined(log) /\ Owned(log, made) /\ PendingInv
  BY OpenFacts DEF GoodLog
<1>1. /\ up = FALSE /\ up' = FALSE /\ UNCHANGED <<log, held, intents, receipts, made>>
      /\ rows' = {} /\ lastSeq' = 0
  BY <1>0 DEF Wipe, TypeInv
<1>2. Indexes(rows', log', lastSeq')
  BY <1>0, <1>1 DEF Indexes, Owned
<1>3. held = {}
  BY <1>0, <1>1 DEF PendingInv
<1>4. \A m \in intents : Fit(m, log, lastSeq) => Fit(m, log, 0)
  <2>1. \A m \in Lines : m.seq \in Nat
    BY LineFacts
  <2> QED
    BY <1>0, <2>1 DEF Fit, TypeInv
<1>5. PendingInv'
  BY <1>0, <1>1, <1>3, <1>4 DEF PendingInv
<1>6. TypeInv'
  BY <1>0, <1>1 DEF TypeInv
<1> QED
  BY <1>0, <1>1, <1>2, <1>5, <1>6 DEF ChainInv

\* The lines RESTORE.SCOPE writes before it dies, or all of them.
LEMMA PrefixFacts ==
    ASSUME ExportsApart, NEW k \in Packages, NEW n \in 0 .. Len(k)
    PROVE  /\ SubSeq(k, 1, n) \in Seq(Exports)
           /\ \A i \in DOMAIN SubSeq(k, 1, n) : i \in DOMAIN k /\ SubSeq(k, 1, n)[i] = k[i]
<1>1. k \in Seq(Exports)
  BY DEF ExportsApart
<1>2. Len(k) \in Nat /\ DOMAIN k = 1 .. Len(k)
  BY <1>1
<1>3. SubSeq(k, 1, n) \in Seq(Exports) /\ Len(SubSeq(k, 1, n)) = n
  BY <1>1, <1>2
<1>4. \A i \in 1 .. n : SubSeq(k, 1, n)[i] = k[i]
  BY <1>1, <1>2
<1> QED
  BY <1>2, <1>3, <1>4

LEMMA RestoreChain ==
    ASSUME ExportsApart, ~Overlap, ~RestorePending, ChainInv, NEW k \in Packages,
           RestoreScope(k) \/ RestoreDies(k)
    PROVE  ChainInv'
<1>0. /\ TypeInv /\ GoodLog(log, made, receipts) /\ Lined(log)
      /\ Indexes(rows, log, lastSeq) /\ lastSeq \in Nat /\ made \in Nat
  BY OpenFacts
<1>1. /\ up = TRUE /\ held = {} /\ intents = {} /\ k \notin receipts
      /\ held' = {} /\ intents' = {} /\ receipts' = receipts \cup {k} /\ made' = made
  BY <1>0 DEF RestoreScope, RestoreDies, Quiet, TypeInv
<1>2. Complete(rows, log, lastSeq)
  BY <1>1, OpenFacts
<1>3. k \in Seq(Exports)
  BY DEF ExportsApart
<1>4. ASSUME NEW x \in Seq(Exports), \A i \in DOMAIN x : i \in DOMAIN k /\ x[i] = k[i]
      PROVE  GoodLog(x \o log, made, receipts \cup {k}) /\ Indexes(rows, x \o log, lastSeq)
  <2>1. GoodLog(x \o log, made, receipts \cup {k})
    BY <1>0, <1>1, <1>4, ConcatGood DEF TypeInv
  <2>2. Indexes(rows, x \o log, lastSeq)
    BY <1>0, <1>2, ConcatIndexes
  <2> QED
    BY <2>1, <2>2
<1>5. PendingInv'
  BY <1>1 DEF PendingInv
<1>6. CASE RestoreScope(k)
  <2>1. /\ log' = k \o log /\ up' = up /\ rows' = Replayed(rows, log', lastSeq)
        /\ lastSeq' = HighestSeq(log', lastSeq)
    BY <1>6 DEF RestoreScope, CatchUp
  <2>2. GoodLog(log', made', receipts') /\ Indexes(rows, log', lastSeq)
    BY <1>1, <1>3, <1>4, <2>1
  <2>3. Lined(log') /\ Apart(log')
    BY <2>2 DEF GoodLog
  <2>4. Indexes(rows', log', lastSeq') /\ Complete(rows', log', lastSeq')
    BY <1>0, <2>1, <2>2, <2>3, CatchUpIndexes
  <2>5. lastSeq' \in Nat
    BY <2>4 DEF Indexes
  <2>6. TypeInv'
    BY <1>0, <1>1, <2>1, <2>5 DEF TypeInv
  <2> QED
    BY <1>5, <2>2, <2>4, <2>6 DEF ChainInv
<1>7. CASE RestoreDies(k)
  <2>1. PICK n \in 0 .. Len(k) : log' = SubSeq(k, 1, n) \o log
    BY <1>7 DEF RestoreDies
  <2>2. up' = FALSE /\ rows' = rows /\ lastSeq' = lastSeq
    BY <1>7 DEF RestoreDies
  <2>3. GoodLog(log', made', receipts') /\ Indexes(rows', log', lastSeq')
    BY <1>1, <1>4, <2>1, <2>2, PrefixFacts
  <2>4. TypeInv'
    BY <1>0, <1>1, <2>2 DEF TypeInv
  <2> QED
    BY <1>5, <2>2, <2>3, <2>4 DEF ChainInv
<1> QED
  BY <1>6, <1>7

\* A handler writes a line that fits.
Writing(l) ==
    /\ up = TRUE /\ Write(l) /\ Fit(l, log, lastSeq) /\ Fresh(l, log, made')
    /\ made' \in 0 .. MaxLines /\ made <= made' /\ receipts' = receipts
    /\ \A m \in held : m = l
    /\ \A m \in intents' : m \in intents /\ m.hash # l.hash

LEMMA WritingChain ==
    ASSUME ExportsApart, ChainInv, NEW l, Writing(l)
    PROVE  ChainInv'
BY WriteChain DEF Writing

\* A line prepared now has a hash that no intent has.
LEMMA NewWriting ==
    ASSUME ChainInv, up = TRUE, held = {}, made < MaxLines, made' = made + 1,
           intents' = intents, receipts' = receipts,
           NEW l, Fit(l, log, lastSeq), Fresh(l, log, made + 1), l.hash = made + 1, Write(l)
    PROVE  Writing(l)
<1>1. made \in Nat /\ MaxLines \in Nat /\ PendingInv
  BY OpenFacts
<1>2. \A m \in intents : m \in Lines /\ m.hash <= made
  BY <1>1 DEF PendingInv, Fresh
<1>3. \A m \in intents : m.hash # made + 1
  BY <1>1, <1>2, LineFacts
<1> QED
  BY <1>1, <1>3 DEF Writing

LEMMA UpFacts ==
    ASSUME ~Overlap, ChainInv, up, Quiet
    PROVE  up = TRUE /\ held = {}
BY DEF ChainInv, TypeInv, Quiet

LEMMA ObserveWriting ==
    ASSUME ExportsApart, SourcesApart, ~Overlap, ChainInv, NEW p \in Payloads, Observe(p)
    PROVE  \E h \in LatestHashes : Writing(Observation(p, h))
<1>1. /\ up = TRUE /\ held = {} /\ made < MaxLines /\ Admits(p) /\ made' = made + 1
      /\ intents' = intents /\ receipts' = receipts
  BY UpFacts DEF Observe
<1>2. PICK h \in LatestHashes : Write(Observation(p, h))
  BY DEF Observe
<1>3. LET l == Observation(p, h)
      IN  Fit(l, log, lastSeq) /\ Fresh(l, log, made + 1) /\ l.hash = made + 1
  BY <1>1, ObservationFit
<1>4. Writing(Observation(p, h))
  BY <1>1, <1>2, <1>3, NewWriting
<1> QED
  BY <1>4

LEMMA AppendWriting ==
    ASSUME ChainInv, NEW l \in held, ObserveAppend(l)
    PROVE  Writing(l)
<1>1. PendingInv /\ TypeInv
  BY OpenFacts
<1>2. /\ Fit(l, log, lastSeq) /\ Fresh(l, log, made) /\ (\A m \in held : m = l)
      /\ \A m \in intents : m.hash # l.hash
  BY <1>1 DEF PendingInv
<1>3. /\ up = TRUE /\ Write(l) /\ made' = made /\ intents' = intents /\ receipts' = receipts
  BY <1>1 DEF ObserveAppend, TypeInv
<1>4. made \in Int
  BY <1>1 DEF TypeInv
<1> QED
  BY <1>1, <1>2, <1>3, <1>4 DEF Writing, TypeInv

LEMMA RetryWriting ==
    ASSUME ExportsApart, ~Overlap, ChainInv, NEW l \in intents, ForgetRetry(l)
    PROVE  Writing(l) /\ Newest(log, l.prev)
<1>0. /\ PendingInv /\ TypeInv /\ GoodLog(log, made, receipts) /\ Indexes(rows, log, lastSeq)
      /\ made \in Nat
  BY OpenFacts
<1>1. /\ up = TRUE /\ held = {} /\ Write(l) /\ made' = made /\ intents' = intents \ {l}
      /\ receipts' = receipts /\ l.prev \in LatestHashes
  BY UpFacts DEF ForgetRetry
<1>2. Complete(rows, log, lastSeq)
  BY <1>1, OpenFacts
<1>3. Newest(log, l.prev)
  BY <1>0, <1>1, <1>2, LatestFacts
<1>4. /\ Fit(l, log, lastSeq) /\ Fresh(l, log, made)
      /\ \A m \in intents' : m \in intents /\ m.hash # l.hash
  BY <1>0, <1>1, <1>3 DEF PendingInv
<1> QED
  BY <1>0, <1>1, <1>3, <1>4 DEF Writing, TypeInv

\* The verbs that write an audit line.
LEMMA EventWriting ==
    ASSUME ExportsApart, ~Overlap, ChainInv, up, Quiet, made < MaxLines, made' = made + 1,
           intents' = intents, receipts' = receipts,
           NEW h \in LatestHashes, NEW type \in EventTypes, NEW scope \in Scopes \cup {Pod},
           NEW target \in Payloads \cup Scopes, Write(Event(h, type, scope, target))
    PROVE  Writing(Event(h, type, scope, target))
<1> DEFINE l == Event(h, type, scope, target)
<1>1. up = TRUE /\ held = {}
  BY UpFacts
<1>2. Fit(l, log, lastSeq) /\ Fresh(l, log, made + 1) /\ l.hash = made + 1
  BY <1>1, EventFit
<1> HIDE DEF l
<1>3. Write(l)
  BY DEF l
<1>4. Writing(l)
  BY <1>1, <1>2, <1>3, NewWriting
<1> QED
  BY <1>4 DEF l

LEMMA ScopesFacts ==
    ASSUME NEW p \in Payloads
    PROVE  /\ ScopeOf[p] \in Scopes \cup {Pod} /\ p \in Payloads \cup Scopes
           /\ ForgetModes[p] \subseteq {"tombstone", "redaction"}
           /\ ForgetModes[p] \subseteq EventTypes
BY EvidenceAssumption DEF Scopes, EventTypes

\* The preparation of an OBSERVE that will await.
LEMMA PrepareChain ==
    ASSUME ExportsApart, SourcesApart, ~Overlap, ChainInv, NEW p \in Payloads, ObservePrepare(p)
    PROVE  ChainInv'
<1>0. /\ TypeInv /\ GoodLog(log, made, receipts) /\ Indexes(rows, log, lastSeq) /\ PendingInv
      /\ made \in Nat /\ MaxLines \in Nat
  BY OpenFacts
<1>1. /\ up = TRUE /\ held = {} /\ made < MaxLines /\ Admits(p) /\ made' = made + 1
      /\ UNCHANGED <<log, rows, lastSeq, up, intents, receipts>>
  BY UpFacts DEF ObservePrepare
<1>2. PICK h \in LatestHashes : held' = held \cup {Observation(p, h)}
  BY DEF ObservePrepare
<1> DEFINE l == Observation(p, h)
<1>3. Fit(l, log, lastSeq) /\ Fresh(l, log, made + 1) /\ l.hash = made + 1 /\ held' = {l}
  BY <1>1, <1>2, ObservationFit
<1> HIDE DEF l
<1>4. \A m \in intents : m.hash # l.hash /\ Fresh(m, log, made + 1)
  <2>1. \A m \in intents : Fresh(m, log, made) /\ m.hash <= made /\ m \in Lines
    BY <1>0 DEF PendingInv, Fresh
  <2>2. \A m \in intents : m.hash \in Nat
    BY <2>1, LineFacts
  <2>3. \A m \in intents : m.hash # l.hash /\ m.hash <= made + 1
    BY <1>0, <1>3, <2>1, <2>2
  <2> QED
    BY <2>1, <2>3 DEF Fresh
<1>5. PendingInv'
  BY <1>0, <1>1, <1>3, <1>4 DEF PendingInv
<1>6. GoodLog(log, made + 1, receipts)
  BY <1>0, GoodLogMore
<1>7. Complete(rows, log, lastSeq)
  BY <1>1, OpenFacts
<1>8. TypeInv'
  BY <1>0, <1>1 DEF TypeInv
<1> QED
  BY <1>0, <1>1, <1>5, <1>6, <1>7, <1>8 DEF ChainInv

\* A FORGET that dies leaves an intent that fits.
LEMMA DiesChain ==
    ASSUME ExportsApart, ~Overlap, ChainInv, NEW p \in Payloads, NEW mode \in ForgetModes[p],
           ForgetDies(p, mode)
    PROVE  ChainInv'
<1>0. made \in Nat /\ MaxLines \in Nat /\ PendingInv
  BY OpenFacts
<1>1. /\ up = TRUE /\ held = {} /\ made < MaxLines /\ made' = made + 1 /\ up' = FALSE /\ held' = {}
      /\ UNCHANGED <<log, rows, lastSeq, receipts>>
  BY UpFacts DEF ForgetDies
<1>2. PICK h \in LatestHashes : intents' = intents \cup {Event(h, mode, ScopeOf[p], p)}
  BY DEF ForgetDies
<1> DEFINE l == Event(h, mode, ScopeOf[p], p)
<1>3. mode \in EventTypes /\ ScopeOf[p] \in Scopes \cup {Pod} /\ p \in Payloads \cup Scopes
  BY ScopesFacts
<1>4. Fit(l, log, lastSeq) /\ Fresh(l, log, made + 1) /\ l.hash = made + 1
  BY <1>1, <1>3, EventFit
<1>5. intents' = intents \cup {l}
  BY <1>2
<1> HIDE DEF l
<1>6. /\ \A m \in intents' : m \in intents \/ (Fit(m, log, lastSeq) /\ Fresh(m, log, made') /\ m.hash > made)
      /\ \A m1, m2 \in intents' : m1 \notin intents /\ m2 \notin intents => m1 = m2
      /\ made' \in 0 .. MaxLines /\ made <= made'
  BY <1>0, <1>1, <1>4, <1>5
<1> QED
  BY <1>1, <1>6, PauseChain

LEMMA StopChain == ASSUME ExportsApart, ChainInv, Stop PROVE ChainInv'
<1>0. made \in Nat /\ made <= MaxLines /\ MaxLines \in Nat
  BY OpenFacts
<1>1. /\ up' = FALSE /\ held' = {} /\ UNCHANGED <<log, rows, lastSeq, intents, receipts, made>>
  BY DEF Stop
<1>2. made' \in 0 .. MaxLines /\ made <= made'
  BY <1>0, <1>1
<1> QED
  BY <1>1, <1>2, PauseChain

\* Every step keeps the chain.
LEMMA StepChain ==
    ASSUME ExportsApart, SourcesApart, ~Overlap, ~RestorePending, ChainInv, [Next]_vars
    PROVE  ChainInv'
<1>1. CASE UNCHANGED vars
  BY <1>1 DEF vars, ChainInv, TypeInv, PendingInv
<1>2. CASE Open \/ Stop \/ Wipe
  BY <1>2, OpenChain, StopChain, WipeChain
<1>3. ASSUME NEW p \in Payloads, Observe(p) PROVE ChainInv'
  BY <1>3, ObserveWriting, WritingChain
<1>4. ASSUME NEW p \in Payloads, ObservePrepare(p) PROVE ChainInv'
  BY <1>4, PrepareChain
<1>5. ASSUME NEW p \in Payloads, NEW mode \in ForgetModes[p], Forget(p, mode) PROVE ChainInv'
  <2>1. PICK h \in LatestHashes : Write(Event(h, mode, ScopeOf[p], p))
    BY <1>5 DEF Forget
  <2>2. mode \in EventTypes /\ ScopeOf[p] \in Scopes \cup {Pod} /\ p \in Payloads \cup Scopes
    BY <1>5, ScopesFacts
  <2>3. up /\ Quiet /\ made < MaxLines /\ made' = made + 1 /\ intents' = intents /\ receipts' = receipts
    BY <1>5 DEF Forget
  <2>4. Writing(Event(h, mode, ScopeOf[p], p))
    BY <2>1, <2>2, <2>3, EventWriting
  <2> QED
    BY <2>4, WritingChain
<1>6. ASSUME NEW p \in Payloads, NEW mode \in ForgetModes[p], ForgetDies(p, mode) PROVE ChainInv'
  BY <1>6, DiesChain
<1>7. ASSUME NEW p \in Payloads, NEW action \in {"approve", "reject"}, Review(p, action) PROVE ChainInv'
  <2>1. PICK h \in LatestHashes : Write(Event(h, action, ScopeOf[p], p))
    BY <1>7 DEF Review
  <2>2. action \in EventTypes /\ ScopeOf[p] \in Scopes \cup {Pod} /\ p \in Payloads \cup Scopes
    BY <1>7, ScopesFacts DEF EventTypes
  <2>3. up /\ Quiet /\ made < MaxLines /\ made' = made + 1 /\ intents' = intents /\ receipts' = receipts
    BY <1>7 DEF Review
  <2>4. Writing(Event(h, action, ScopeOf[p], p))
    BY <2>1, <2>2, <2>3, EventWriting
  <2> QED
    BY <2>4, WritingChain
<1>8. ASSUME NEW s \in Scopes, NEW reason \in ScopeVerbs, ForgetScope(s, reason) PROVE ChainInv'
  <2>1. PICK h \in LatestHashes : Write(Event(h, reason, Pod, s))
    BY <1>8 DEF ForgetScope
  <2>2. reason \in EventTypes /\ Pod \in Scopes \cup {Pod} /\ s \in Payloads \cup Scopes
    BY <1>8, EvidenceAssumption DEF EventTypes
  <2>3. up /\ Quiet /\ made < MaxLines /\ made' = made + 1 /\ intents' = intents /\ receipts' = receipts
    BY <1>8 DEF ForgetScope
  <2>4. Writing(Event(h, reason, Pod, s))
    BY <2>1, <2>2, <2>3, EventWriting
  <2> QED
    BY <2>4, WritingChain
<1>9. ASSUME NEW k \in Packages, RestoreScope(k) \/ RestoreDies(k) PROVE ChainInv'
  BY <1>9, RestoreChain
<1>10. ASSUME NEW l \in held, ObserveAppend(l) PROVE ChainInv'
  BY <1>10, AppendWriting, WritingChain
<1>11. ASSUME NEW l \in intents, ForgetRetry(l) PROVE ChainInv'
  BY <1>11, RetryWriting, WritingChain
<1> QED
  BY <1>1, <1>2, <1>3, <1>4, <1>5, <1>6, <1>7, <1>8, <1>9, <1>10, <1>11 DEF Next

\* In such a state the chain is linear.
LEMMA ChainInvLinear == ASSUME ExportsApart, ChainInv PROVE ChainLinear
<1>1. Lined(log) /\ Chained(log)
  BY DEF ChainInv, GoodLog
<1>2. Len(log) \in Nat /\ DOMAIN log = 1 .. Len(log)
  BY <1>1, LogFacts DEF Stated
<1> SUFFICES ASSUME NEW i \in DOMAIN log, log[i].writer = Me
             PROVE  LET before == {j \in 1 .. i - 1 : log[j].writer = Me}
                    IN  log[i].prev = IF before = {} THEN 0 ELSE log[Max(before)].hash
  BY DEF ChainLinear
<1> DEFINE before == {j \in 1 .. i - 1 : log[j].writer = Me}
<1>3. Follows(log, i, log[i].prev)
  BY <1>1 DEF Chained
<1>4. \A j : j \in before <=> j \in DOMAIN log /\ j < i /\ log[j].writer = Me
  BY <1>2
<1>5. before \in SUBSET Nat /\ i \in Nat /\ \A j \in before : j <= i
  BY <1>2
<1> HIDE DEF before
<1>6. ASSUME before = {} PROVE log[i].prev = 0
  BY <1>3, <1>4, <1>6 DEF Follows
<1>7. ASSUME before # {} PROVE log[i].prev = log[Max(before)].hash
  <2>1. Max(before) \in before /\ \A j \in before : j <= Max(before)
    BY <1>5, <1>7, MaxFacts
  <2>2. PICK j \in DOMAIN log : /\ j < i /\ log[j].writer = Me /\ log[i].prev = log[j].hash
                                /\ \A m \in DOMAIN log : j < m /\ m < i => log[m].writer # Me
    BY <1>3, <1>4, <1>7 DEF Follows
  <2>3. j = Max(before)
    BY <1>2, <1>4, <1>5, <2>1, <2>2
  <2> QED
    BY <1>7, <2>2, <2>3
<1> QED
  BY <1>6, <1>7 DEF before

\* For hosts that await each call, and packages and items with identities of
\* their own, each line of this writer names the hash of the one before it,
\* although handlers take the hash from the index and die between append and
\* insert.
THEOREM ChainStaysLinear ==
    ASSUME ~Overlap, ~RestorePending, SourcesApart, ExportsApart
    PROVE  Spec => []ChainLinear
<1>1. Init => ChainInv
  BY InitChain
<1>2. ChainInv /\ [Next]_vars => ChainInv'
  BY StepChain
<1>3. ChainInv => ChainLinear
  BY ChainInvLinear
<1> QED
  BY <1>1, <1>2, <1>3, PTL DEF Spec

-----------------------------------------------------------------------------
(* The algebra of the replay.                                              *)

\* The first b lines of M are the lines of L after its first d.
Within(M, b, L, d) == \A i \in 1 .. b : M[i] = L[d + i]

\* A replay that starts within another one goes on like it.
LEMMA StepsAgree ==
    ASSUME NEW R, NEW S, NEW L, NEW M, NEW n \in Nat, NEW a \in Nat, NEW b \in Nat,
           NEW f, Steps(f, R, L, n, a), NEW g, Steps(g, S, M, n, b),
           NEW d \in Nat, d + b <= a, f[d] = S, Within(M, b, L, d)
    PROVE  f[d + b] = g[b]
<1> DEFINE N == {k \in 0 .. b : f[d + k] # g[k]}
<1>1. SUFFICES ASSUME N # {} PROVE FALSE
  OBVIOUS
<1>2. PICK k \in N : \A x \in N : k <= x
  <2>1. N \in SUBSET Nat
    OBVIOUS
  <2> QED
    BY <1>1, <2>1, SmallestExists
<1>3. g[0] = S
  BY StepsZero
<1>4. k # 0 /\ k \in 1 .. b /\ k - 1 \in 0 .. b /\ k - 1 < k /\ d + k \in 1 .. a
  <2>1. d + 0 = d
    OBVIOUS
  <2> QED
    BY <1>2, <1>3, <2>1
<1>5. f[d + (k - 1)] = g[k - 1]
  BY <1>2, <1>4
<1>6. g[k] = IF Below(M[k], n) THEN g[k - 1] ELSE Indexed(g[k - 1], M[k])
  BY <1>4, StepsOne
<1>7. f[d + k] = IF Below(L[d + k], n) THEN f[(d + k) - 1] ELSE Indexed(f[(d + k) - 1], L[d + k])
  BY <1>4, StepsOne
<1>8. (d + k) - 1 = d + (k - 1) /\ M[k] = L[d + k]
  BY <1>4 DEF Within
<1> QED
  BY <1>2, <1>5, <1>6, <1>7, <1>8

\* A line at the end is replayed last.
LEMMA ReplayAppend ==
    ASSUME NEW R, NEW L, NEW M, Len(L) \in Nat, Len(M) = Len(L) + 1, NEW n \in Nat,
           \A i \in 1 .. Len(L) : M[i] = L[i]
    PROVE  Replayed(R, M, n) =
               IF Below(M[Len(M)], n) THEN Replayed(R, L, n) ELSE Indexed(Replayed(R, L, n), M[Len(M)])
<1> DEFINE t == Len(L)
<1>1. PICK f : Steps(f, R, M, n, Len(M)) /\ Replayed(R, M, n) = f[Len(M)]
  BY ReplayedSteps
<1>2. PICK g : Steps(g, R, L, n, Len(L)) /\ Replayed(R, L, n) = g[Len(L)]
  BY ReplayedSteps
<1>3. f[0] = R
  BY <1>1, StepsZero
<1>4. f[0 + t] = g[t]
  <2>1. PICK d \in Nat : d = 0
    OBVIOUS
  <2>2. d + t <= Len(M) /\ f[d] = R /\ Within(L, t, M, d) /\ Len(M) \in Nat
    BY <1>3, <2>1 DEF Within
  <2> HIDE DEF t
  <2>3. f[d + t] = g[t]
    <3>1. Steps(g, R, L, n, t) /\ t \in Nat
      BY <1>2 DEF t
    <3> QED
      BY <1>1, <2>2, <3>1, StepsAgree
  <2> QED
    BY <2>1, <2>3
<1>5. Len(M) \in 1 .. Len(M) /\ Len(M) - 1 = 0 + t
  OBVIOUS
<1>6. f[Len(M)] = IF Below(M[Len(M)], n) THEN f[Len(M) - 1] ELSE Indexed(f[Len(M) - 1], M[Len(M)])
  BY <1>1, <1>5, StepsOne
<1> QED
  BY <1>1, <1>2, <1>4, <1>5, <1>6

\* Lines in front are replayed first.
LEMMA ReplayConcat ==
    ASSUME NEW R, NEW x, NEW L, NEW M, Len(x) \in Nat, Len(L) \in Nat, Len(M) = Len(x) + Len(L),
           NEW n \in Nat,
           \A i \in 1 .. Len(x) : M[i] = x[i], \A i \in 1 .. Len(L) : M[Len(x) + i] = L[i]
    PROVE  Replayed(R, M, n) = Replayed(Replayed(R, x, n), L, n)
<1> DEFINE S == Replayed(R, x, n)
<1>1. PICK f : Steps(f, R, M, n, Len(M)) /\ Replayed(R, M, n) = f[Len(M)]
  BY ReplayedSteps
<1>2. PICK g : Steps(g, R, x, n, Len(x)) /\ S = g[Len(x)]
  BY ReplayedSteps
<1>3. PICK e : Steps(e, S, L, n, Len(L)) /\ Replayed(S, L, n) = e[Len(L)]
  BY ReplayedSteps
<1> HIDE DEF S
<1>4. f[Len(x)] = g[Len(x)]
  <2>1. PICK d \in Nat : d = 0
    OBVIOUS
  <2>2. f[0] = R
    BY <1>1, StepsZero
  <2>3. d + Len(x) <= Len(M) /\ f[d] = R /\ Within(x, Len(x), M, d) /\ Len(M) \in Nat
    BY <2>1, <2>2 DEF Within
  <2>4. f[d + Len(x)] = g[Len(x)]
    BY <1>1, <1>2, <2>3, StepsAgree
  <2> QED
    BY <2>1, <2>4
<1>5. f[Len(x) + Len(L)] = e[Len(L)]
  <2>1. f[Len(x)] = S /\ Len(x) + Len(L) <= Len(M) /\ Len(M) \in Nat
    BY <1>2, <1>4
  <2>2. Within(L, Len(L), M, Len(x))
    BY DEF Within
  <2> QED
    BY <1>1, <1>3, <2>1, <2>2, StepsAgree
<1> QED
  BY <1>1, <1>3, <1>5 DEF S

\* Rows that a line neither meets nor changes.
Untouched(P, l) == \A p \in P : ~Clashes(p, l) /\ Updated(p, l) = p

LEMMA IndexedApart ==
    ASSUME NEW P, NEW T, NEW l, Untouched(P, l)
    PROVE  Indexed(P \cup T, l) = P \cup Indexed(T, l)
<1>1. InsertOrSkip(P \cup T, l) = P \cup InsertOrSkip(T, l)
  BY DEF InsertOrSkip, Untouched
<1> DEFINE U == InsertOrSkip(T, l)
<1> HIDE DEF U
<1>2. {Updated(r, l) : r \in P \cup U} = P \cup {Updated(r, l) : r \in U}
  BY DEF Untouched
<1>3. Indexed(P \cup T, l) = {Updated(r, l) : r \in P \cup U} /\ Indexed(T, l) = {Updated(r, l) : r \in U}
  BY <1>1, ApplyIsUpdated DEF Indexed, U
<1> QED
  BY <1>2, <1>3

LEMMA ReplayApart ==
    ASSUME NEW P, NEW R, NEW L, Len(L) \in Nat, NEW n \in Nat,
           \A i \in 1 .. Len(L) : Untouched(P, L[i])
    PROVE  Replayed(P \cup R, L, n) = P \cup Replayed(R, L, n)
<1>0. \A T, l : Untouched(P, l) => Indexed(P \cup T, l) = P \cup Indexed(T, l)
  BY IndexedApart, Zenon
<1> DEFINE Q == P \cup R
<1>1. PICK f : Steps(f, Q, L, n, Len(L)) /\ Replayed(Q, L, n) = f[Len(L)]
  BY ReplayedSteps
<1>2. PICK g : Steps(g, R, L, n, Len(L)) /\ Replayed(R, L, n) = g[Len(L)]
  BY ReplayedSteps
<1> DEFINE N == {k \in 0 .. Len(L) : f[k] # P \cup g[k]}
<1>3. SUFFICES ASSUME N # {} PROVE FALSE
  BY <1>1, <1>2
<1>4. PICK k \in N : \A y \in N : k <= y
  <2>1. N \in SUBSET Nat
    OBVIOUS
  <2> QED
    BY <1>3, <2>1, SmallestExists
<1>5. f[0] = P \cup R /\ g[0] = R
  BY <1>1, <1>2, StepsZero
<1>6. k \in 1 .. Len(L) /\ k - 1 \in 0 .. Len(L) /\ k - 1 < k
  BY <1>4, <1>5
<1>7. f[k - 1] = P \cup g[k - 1]
  BY <1>4, <1>6
<1> HIDE DEF Q
<1>8. f[k] = IF Below(L[k], n) THEN f[k - 1] ELSE Indexed(f[k - 1], L[k])
  BY <1>1, <1>6, StepsOne
<1>9. g[k] = IF Below(L[k], n) THEN g[k - 1] ELSE Indexed(g[k - 1], L[k])
  BY <1>2, <1>6, StepsOne
<1>10. Indexed(P \cup g[k - 1], L[k]) = P \cup Indexed(g[k - 1], L[k])
  <2>1. Untouched(P, L[k])
    BY <1>6
  <2> QED
    BY <1>0, <2>1, Zenon
<1>11. f[k] = P \cup g[k]
  BY <1>7, <1>8, <1>9, <1>10
<1> QED
  BY <1>4, <1>11

\* The mark does not matter to lines that are above it anyway.
LEMMA ReplayAbove ==
    ASSUME NEW R, NEW L, Len(L) \in Nat, NEW n \in Nat, NEW m \in Nat,
           \A i \in 1 .. Len(L) : ~Below(L[i], n) /\ ~Below(L[i], m)
    PROVE  Replayed(R, L, n) = Replayed(R, L, m)
<1>1. PICK f : Steps(f, R, L, n, Len(L)) /\ Replayed(R, L, n) = f[Len(L)]
  BY ReplayedSteps
<1>2. PICK g : Steps(g, R, L, m, Len(L)) /\ Replayed(R, L, m) = g[Len(L)]
  BY ReplayedSteps
<1> DEFINE N == {k \in 0 .. Len(L) : f[k] # g[k]}
<1>3. SUFFICES ASSUME N # {} PROVE FALSE
  BY <1>1, <1>2
<1>4. PICK k \in N : \A y \in N : k <= y
  <2>1. N \in SUBSET Nat
    OBVIOUS
  <2> QED
    BY <1>3, <2>1, SmallestExists
<1>5. f[0] = R /\ g[0] = R
  BY <1>1, <1>2, StepsZero
<1>6. k \in 1 .. Len(L) /\ k - 1 \in 0 .. Len(L) /\ k - 1 < k
  BY <1>4, <1>5
<1>7. f[k - 1] = g[k - 1]
  BY <1>4, <1>6
<1>8. f[k] = Indexed(f[k - 1], L[k])
  BY <1>1, <1>6, StepsOne
<1>9. g[k] = Indexed(g[k - 1], L[k])
  BY <1>2, <1>6, StepsOne
<1> QED
  BY <1>4, <1>7, <1>8, <1>9

\* An index that has every line, and that no line changes, is its own replay.
Settled(R, L) == \A r \in R : \A i \in DOMAIN L : Updated(r, L[i]) = r

LEMMA ReplaySettled ==
    ASSUME NEW L, Len(L) \in Nat, DOMAIN L = 1 .. Len(L), NEW R, NEW n \in Nat,
           \A i \in DOMAIN L : In(R, L[i]), Settled(R, L)
    PROVE  Replayed(R, L, n) = R
<1>1. ASSUME NEW i \in DOMAIN L PROVE Indexed(R, L[i]) = R
  <2>1. PICK r \in R : r \in Versions(L[i])
    BY DEF In
  <2>2. Clashes(r, L[i])
    BY <2>1, VersionFields DEF Clashes
  <2>3. InsertOrSkip(R, L[i]) = R
    BY <2>2 DEF InsertOrSkip
  <2>4. {Updated(y, L[i]) : y \in R} = R
    BY DEF Settled
  <2> QED
    BY <2>3, <2>4, ApplyIsUpdated DEF Indexed
<1>2. KeptAfter(0, {R}, L, n, Len(L))
  BY <1>1 DEF KeptAfter
<1>3. Replayed(R, L, n) \in {R}
  BY <1>2, ReplayKeeps
<1> QED
  BY <1>3

-----------------------------------------------------------------------------
(* What the lines of a log do to a status.                                 *)

Markers == {"offboarding", "erasure"}
Aims    == {"tombstone", "redaction", "approve", "reject"}

\* The status line l gives to a row of line x.
Moved(x, s, l) ==
    CASE l.type \in Markers -> IF x.scope = l.target THEN ScopeTransition(s, l.type) ELSE s
      [] l.type \in Aims    -> IF x.id = l.target THEN Transition(s, l.type) ELSE s
      [] OTHER -> s

LEMMA MovedCases ==
    ASSUME NEW x, NEW s, NEW l
    PROVE  /\ l.type \in Markers /\ x.scope = l.target => Moved(x, s, l) = ScopeTransition(s, l.type)
           /\ l.type \in Aims /\ x.id = l.target => Moved(x, s, l) = Transition(s, l.type)
           /\ ~(l.type \in Markers /\ x.scope = l.target) /\ ~(l.type \in Aims /\ x.id = l.target) =>
                  Moved(x, s, l) = s
<1>1. CASE l.type \in Markers
  BY <1>1 DEF Moved, Markers, Aims
<1>2. CASE l.type \in Aims
  BY <1>2 DEF Moved, Markers, Aims
<1>3. CASE ~(l.type \in Markers) /\ ~(l.type \in Aims)
  BY <1>3 DEF Moved
<1> QED
  BY <1>1, <1>2, <1>3

LEMMA UpdatedMoved ==
    ASSUME NEW x, NEW r \in Versions(x), NEW l
    PROVE  /\ Updated(r, l) \in Versions(x)
           /\ Updated(r, l) = Version(x, Moved(x, r.status, l))
           /\ Updated(r, l).status = Moved(x, r.status, l)
           /\ Updated(r, l) = r <=> Moved(x, r.status, l) = r.status
<1>1. Updated(r, l) \in Versions(x) /\ Updated(r, l).status = Moved(x, r.status, l)
  <2>1. CASE l.type \in Markers
    BY <2>1, UpdatedVersion DEF Moved, Markers, Aims
  <2>2. CASE l.type \in Aims
    BY <2>2, UpdatedVersion DEF Moved, Markers, Aims
  <2>3. CASE ~(l.type \in Markers) /\ ~(l.type \in Aims)
    BY <2>3, UpdatedVersion DEF Moved, Markers, Aims
  <2> QED
    BY <2>1, <2>2, <2>3
<1>2. Updated(r, l) = Version(x, Updated(r, l).status) /\ r = Version(x, r.status)
  BY <1>1, VersionFields
<1> QED
  BY <1>1, <1>2

LEMMA MovedTwice ==
    ASSUME NEW x, NEW s, NEW l
    PROVE  Moved(x, Moved(x, s, l), l) = Moved(x, s, l)
<1>1. CASE l.type \in Markers /\ x.scope = l.target
  <2>1. \A u : Moved(x, u, l) = ScopeTransition(u, l.type)
    BY <1>1, MovedCases
  <2>2. \A u : ScopeTransition(ScopeTransition(u, l.type), l.type) = ScopeTransition(u, l.type)
    BY DEF ScopeTransition
  <2> QED
    BY <2>1, <2>2
<1>2. CASE l.type \in Aims /\ x.id = l.target
  <2>1. \A u : Moved(x, u, l) = Transition(u, l.type)
    BY <1>2, MovedCases
  <2>2. Transition(Transition(s, l.type), l.type) = Transition(s, l.type)
    BY DEF Transition
  <2> QED
    BY <2>1, <2>2
<1>3. CASE ~(l.type \in Markers /\ x.scope = l.target) /\ ~(l.type \in Aims /\ x.id = l.target)
  BY <1>3, MovedCases
<1> QED
  BY <1>1, <1>2, <1>3

LEMMA MovedStatus ==
    ASSUME NEW x, NEW s \in Statuses, NEW l
    PROVE  /\ Moved(x, s, l) \in Statuses
           /\ s \in Terminal => Moved(x, s, l) \in Terminal
           /\ Moved(x, s, l) = "quarantined" => s = "quarantined"
           /\ l.type \in Markers /\ x.scope = l.target => Moved(x, s, l) \in Terminal
<1>1. CASE l.type \in Markers /\ x.scope = l.target
  BY <1>1, MovedCases, TransitionType DEF ScopeTransition, Terminal, Statuses, Markers
<1>2. CASE l.type \in Aims /\ x.id = l.target
  BY <1>2, MovedCases, TransitionType DEF Transition, Terminal, Statuses, Aims, Markers
<1>3. CASE ~(l.type \in Markers /\ x.scope = l.target) /\ ~(l.type \in Aims /\ x.id = l.target)
  BY <1>3, MovedCases
<1> QED
  BY <1>1, <1>2, <1>3

\* A line that changes nothing changes nothing after a later one either, except
\* the redaction of what was quarantined then and is approved now.
LEMMA MovedPast ==
    ASSUME NEW x, NEW s \in Statuses, NEW e, NEW l, Moved(x, s, e) = s,
           ~(s = "quarantined" /\ e.type = "redaction" /\ e.target = x.id)
    PROVE  Moved(x, Moved(x, s, l), e) = Moved(x, s, l)
<1> DEFINE t == Moved(x, s, l)
<1>1. CASE e.type \in Markers /\ x.scope = e.target
  <2>1. s \in Terminal /\ (e.type = "erasure" => s = "erased")
    BY <1>1, MovedCases DEF ScopeTransition, Statuses, Terminal, Markers
  <2>2. t \in Terminal /\ (s = "erased" => t = "erased")
    <3>1. CASE l.type \in Markers /\ x.scope = l.target
      BY <2>1, <3>1, MovedCases DEF ScopeTransition, Statuses, Terminal, Markers
    <3>2. CASE l.type \in Aims /\ x.id = l.target
      BY <2>1, <3>2, MovedCases DEF Transition, Terminal
    <3>3. CASE ~(l.type \in Markers /\ x.scope = l.target) /\ ~(l.type \in Aims /\ x.id = l.target)
      BY <2>1, <3>3, MovedCases
    <3> QED
      BY <3>1, <3>2, <3>3
  <2> HIDE DEF t
  <2>3. Moved(x, t, e) = ScopeTransition(t, e.type)
    BY <1>1, MovedCases
  <2>4. Moved(x, t, e) = t
    BY <1>1, <2>1, <2>2, <2>3 DEF ScopeTransition, Terminal, Markers
  <2> QED
    BY <2>4 DEF t
<1>2. CASE e.type \in Aims /\ x.id = e.target
  <2>1. Transition(s, e.type) = s
    BY <1>2, MovedCases
  <2>2. t = s \/ t \in Terminal \/ (s = "quarantined" /\ t = "accepted")
    <3>1. CASE l.type \in Markers /\ x.scope = l.target
      BY <3>1, MovedStatus
    <3>2. CASE l.type \in Aims /\ x.id = l.target
      BY <3>2, MovedCases DEF Transition, Terminal
    <3>3. CASE ~(l.type \in Markers /\ x.scope = l.target) /\ ~(l.type \in Aims /\ x.id = l.target)
      BY <3>3, MovedCases
    <3> QED
      BY <3>1, <3>2, <3>3
  <2> HIDE DEF t
  <2>3. s = "quarantined" => e.type \notin {"tombstone", "approve", "reject", "redaction"}
    BY <1>2, <2>1 DEF Transition
  <2>4. s # "quarantined"
    BY <1>2, <2>3 DEF Aims
  <2>5. Transition(t, e.type) = t
    BY <2>1, <2>2, <2>4 DEF Transition, Terminal
  <2>6. Moved(x, t, e) = Transition(t, e.type)
    BY <1>2, MovedCases
  <2> QED
    BY <2>5, <2>6 DEF t
<1>3. CASE ~(e.type \in Markers /\ x.scope = e.target) /\ ~(e.type \in Aims /\ x.id = e.target)
  BY <1>3, MovedCases
<1> QED
  BY <1>1, <1>2, <1>3

-----------------------------------------------------------------------------
(* The index of the log as it is rebuilt.                                  *)

\* An event is aimed at evidence of the log or at a scope, and nobody redacts
\* what arrives quarantined.
Aimed(e, L) ==
    /\ e.type \in Aims => /\ e.target \in Payloads /\ \E j \in DOMAIN L : L[j].id = e.target
                          /\ e.type = "redaction" => e.target \notin Held
    /\ e.type \in Markers => e.target \in Scopes

Reviewable(R) == \A r \in R : r.id \in Payloads /\ r.status = "quarantined" => r.id \in Held

GoodIndex(L) == /\ Settled(Rebuilt(L), L)
                /\ Reviewable(Rebuilt(L))
                /\ \A i \in DOMAIN L : Aimed(L[i], L)

\* The lines the handlers write: an observation of a scope that is not retired,
\* an event aimed at evidence that stands, or the marker of a scope.
Unmarked(L, s) == \A i \in DOMAIN L : L[i].type \in Markers => L[i].target # s

Suits(l, L) ==
    \/ /\ l.type = "observation" /\ l.id \in Payloads /\ Unmarked(L, l.scope)
       /\ l.status = "quarantined" => l.id \in Held
    \/ /\ l.type \in Aims /\ l.target \in Payloads /\ l.scope = ScopeOf[l.target] /\ l.id \notin Payloads
       /\ l.type = "redaction" => l.target \notin Held
       /\ \E r \in Rebuilt(L) : r.id = l.target /\ r.status \notin Terminal
    \/ l.type \in Markers /\ l.target \in Scopes /\ l.scope = Pod /\ l.id \notin Payloads

\* A rebuilt index has every line, for all are numbered above 0.
LEMMA RebuiltWhole ==
    ASSUME ExportsApart, ExportsHigh, NEW L, NEW h, NEW C, GoodLog(L, h, C)
    PROVE  /\ Rebuilt(L) \in SUBSET RowsFor(L)
           /\ \A i \in DOMAIN L : In(Rebuilt(L), L[i])
<1>1. Lined(L) /\ Apart(L) /\ Owned(L, h)
  BY DEF GoodLog
<1>2. /\ Stated(L)
      /\ \A i \in DOMAIN L : L[i].writer # Me => L[i] \in Exports
  BY <1>1, LogFacts
<1>3. ASSUME NEW i \in DOMAIN L PROVE ~Below(L[i], 0)
  <2>1. L[i].seq \in Nat
    BY <1>2 DEF Stated
  <2>2. CASE L[i].writer = Me
    BY <1>1, <2>1, <2>2 DEF Owned, Below
  <2>3. CASE L[i].writer # Me
    <3>1. L[i].seq > MaxLines /\ MaxLines \in Nat
      BY <1>2, <2>3, EvidenceAssumption DEF ExportsHigh
    <3> QED
      BY <2>1, <3>1 DEF Below
  <2> QED
    BY <2>2, <2>3
<1>4. {} \in SUBSET RowsFor(L) /\ 0 \in Nat
  OBVIOUS
<1>5. Rebuilt(L) = Replayed({}, L, 0)
  BY DEF Rebuilt
<1> QED
  BY <1>1, <1>2, <1>3, <1>4, <1>5, ReplayIndexes

\* A row with the identity of a payload is of a line of this writer.
LEMMA PayloadRow ==
    ASSUME ExportsApart, NEW L, NEW h, NEW C, GoodLog(L, h, C), NEW i \in DOMAIN L,
           L[i].id \in Payloads
    PROVE  L[i].scope = ScopeOf[L[i].id]
<1>1. Lined(L) /\ Owned(L, h)
  BY DEF GoodLog
<1>2. L[i].writer = Me /\ L[i] \in Lines
  <2>1. \A x \in Exports : x.id \notin Payloads
    BY DEF ExportsApart, Ids
  <2> QED
    BY <1>1, <2>1, LogFacts
<1>3. Formed(L[i]) /\ L[i].hash \in 1 .. MaxLines
  BY <1>1, <1>2, LineFacts DEF Owned
<1> QED
  BY <1>3, EvidenceAssumption DEF Formed

\* No older line changes the row of a line that suits the log.
LEMMA SuitsUnchanged ==
    ASSUME ExportsApart, ExportsHigh, NEW L, NEW h, NEW C, GoodLog(L, h, C), GoodIndex(L),
           NEW l, NEW n, Fit(l, L, n), Suits(l, L), NEW i \in DOMAIN L
    PROVE  Moved(l, l.status, L[i]) = l.status
<1>1. /\ Rebuilt(L) \in SUBSET RowsFor(L) /\ Aimed(L[i], L)
  BY RebuiltWhole DEF GoodIndex
<1>2. ~(L[i].type \in Aims /\ l.id = L[i].target)
  <2>1. \A j \in DOMAIN L : L[j].id # l.id
    BY DEF Fit, Clashes
  <2> QED
    BY <1>1, <2>1 DEF Aimed
<1>3. ~(L[i].type \in Markers /\ l.scope = L[i].target)
  <2>1. CASE l.type = "observation" /\ Unmarked(L, l.scope)
    BY <2>1 DEF Unmarked
  <2>2. CASE l.type \in Markers /\ l.scope = Pod
    BY <1>1, <2>2, EvidenceAssumption DEF Aimed
  <2>3. CASE /\ l.type \in Aims /\ l.target \in Payloads /\ l.scope = ScopeOf[l.target]
             /\ \E r \in Rebuilt(L) : r.id = l.target /\ r.status \notin Terminal
    <3>1. PICK r \in Rebuilt(L) : r.id = l.target /\ r.status \notin Terminal
      BY <2>3
    <3>2. PICK j \in DOMAIN L : r \in Versions(L[j])
      BY <1>1 DEF RowsFor
    <3>3. r.id = L[j].id /\ r.scope = L[j].scope /\ r.status \in Statuses
      BY <3>2, VersionFields
    <3>4. L[j].scope = l.scope
      BY <2>3, <3>1, <3>3, PayloadRow
    <3>5. Updated(r, L[i]) = r
      BY DEF GoodIndex, Settled
    <3>6. Moved(L[j], r.status, L[i]) = r.status
      BY <3>2, <3>5, UpdatedMoved
    <3> QED
      BY <3>1, <3>3, <3>4, <3>6, MovedStatus
  <2> QED
    BY <2>1, <2>2, <2>3 DEF Suits
<1> QED
  BY <1>2, <1>3, MovedCases

\* A line that suits the log does nothing to its own row.
LEMMA SuitsApart ==
    ASSUME NEW L, NEW l, Suits(l, L), NEW s
    PROVE  Moved(l, s, l) = s
<1>1. ~(l.type \in Markers /\ l.scope = l.target)
  BY EvidenceAssumption DEF Suits, Markers, Aims
<1>2. ~(l.type \in Aims /\ l.id = l.target)
  BY DEF Suits, Markers, Aims
<1> QED
  BY <1>1, <1>2, MovedCases

\* The index after a line that suits: every row moved by it, and a row of its own.
LEMMA AppendRebuilt ==
    ASSUME ExportsApart, ExportsHigh, NEW L, NEW h, NEW C, GoodLog(L, h, C), GoodIndex(L),
           NEW l, NEW n \in Nat, Fit(l, L, n), Suits(l, L)
    PROVE  /\ InsertOrSkip(Rebuilt(L), l) = Rebuilt(L) \cup {RowOf(l)}
           /\ Rebuilt(Append(L, l)) = Indexed(Rebuilt(L), l)
           /\ Rebuilt(Append(L, l)) = {Updated(r, l) : r \in Rebuilt(L)} \cup {RowOf(l)}
<1> DEFINE R == Rebuilt(L)
           M == Append(L, l)
<1>0. Lined(L) /\ l \in Lines
  BY DEF GoodLog, Fit
<1>1. R \in SUBSET RowsFor(L)
  BY RebuiltWhole
<1>2. l.seq \in Nat /\ l.status \in Statuses
  BY <1>0, LineFacts
<1>3. /\ Len(L) \in Nat /\ Len(M) = Len(L) + 1 /\ M[Len(M)] = l
      /\ \A i \in 1 .. Len(L) : M[i] = L[i]
  BY <1>0, AppendFacts
<1> HIDE DEF M, R
<1>4. ASSUME NEW r \in R PROVE ~Clashes(r, l)
  <2>1. PICK i \in DOMAIN L : r \in Versions(L[i])
    BY <1>1 DEF RowsFor
  <2>2. ~Clashes(L[i], l)
    BY DEF Fit
  <2> QED
    BY <2>1, <2>2, VersionFields DEF Clashes
<1>5. InsertOrSkip(R, l) = R \cup {RowOf(l)}
  BY <1>4 DEF InsertOrSkip
<1>6. Rebuilt(M) = Indexed(R, l)
  <2>1. ~Below(M[Len(M)], 0)
    BY <1>2, <1>3 DEF Below, Fit
  <2>2. Replayed({}, M, 0) = IF Below(M[Len(M)], 0) THEN Replayed({}, L, 0)
                             ELSE Indexed(Replayed({}, L, 0), M[Len(M)])
    BY <1>3, ReplayAppend
  <2> QED
    BY <1>3, <2>1, <2>2 DEF Rebuilt, R
<1>7. Updated(RowOf(l), l) = RowOf(l)
  BY <1>2, SuitsApart, RowOfVersion, UpdatedMoved
<1>8. Indexed(R, l) = {Updated(r, l) : r \in R \cup {RowOf(l)}}
  BY <1>5, ApplyIsUpdated DEF Indexed
<1> QED
  BY <1>5, <1>6, <1>7, <1>8 DEF M, R

\* After such a line no line of the log changes the rebuilt index.
LEMMA AppendSettled ==
    ASSUME ExportsApart, ExportsHigh, NEW L, NEW h, NEW C, GoodLog(L, h, C), GoodIndex(L),
           NEW l, NEW n \in Nat, Fit(l, L, n), Suits(l, L)
    PROVE  GoodIndex(Append(L, l))
<1> DEFINE R == Rebuilt(L)
           M == Append(L, l)
<1>0. Lined(L) /\ l \in Lines /\ l.status \in Statuses
  BY LineFacts DEF GoodLog, Fit
<1>1. R \in SUBSET RowsFor(L)
  BY RebuiltWhole
<1>2. Rebuilt(M) = {Updated(r, l) : r \in R} \cup {RowOf(l)}
  BY AppendRebuilt
<1>3. /\ \A i \in DOMAIN L : i \in DOMAIN M /\ M[i] = L[i]
      /\ \A i \in DOMAIN M : M[i] = l \/ (i \in DOMAIN L /\ M[i] = L[i])
  BY <1>0, AppendFacts
<1>4. Settled(R, L) /\ Reviewable(R) /\ \A i \in DOMAIN L : Aimed(L[i], L)
  BY DEF GoodIndex
<1> HIDE DEF M, R
<1>5. RowOf(l) \in Versions(l) /\ RowOf(l).status = l.status /\ RowOf(l).id = l.id
  BY <1>0, RowOfVersion DEF RowOf
<1>6. ASSUME NEW i \in DOMAIN M PROVE Updated(RowOf(l), M[i]) = RowOf(l)
  <2>1. Moved(l, l.status, M[i]) = l.status
    BY <1>3, SuitsApart, SuitsUnchanged
  <2> QED
    BY <1>5, <2>1, UpdatedMoved
<1>7. ASSUME NEW r \in R, NEW i \in DOMAIN M PROVE Updated(Updated(r, l), M[i]) = Updated(r, l)
  <2>1. PICK j \in DOMAIN L : r \in Versions(L[j])
    BY <1>1 DEF RowsFor
  <2> DEFINE x == L[j]
             u == Updated(r, l)
             e == M[i]
  <2>2. r \in Versions(x) /\ r.id = x.id /\ r.status \in Statuses
    BY <2>1, VersionFields
  <2>3. e = l \/ (Aimed(e, L) /\ Updated(r, e) = r)
    BY <1>3, <1>4 DEF Settled
  <2> HIDE DEF x, u, e
  <2>4. u \in Versions(x) /\ u.status = Moved(x, r.status, l)
    BY <2>2, UpdatedMoved DEF u
  <2>5. Moved(x, u.status, e) = u.status
    <3>1. CASE e = l
      BY <2>4, <3>1, MovedTwice
    <3>2. CASE Aimed(e, L) /\ Updated(r, e) = r
      <4>1. Moved(x, r.status, e) = r.status
        BY <2>2, <3>2, UpdatedMoved
      <4>2. ~(r.status = "quarantined" /\ e.type = "redaction" /\ e.target = x.id)
        BY <1>4, <2>2, <3>2 DEF Aimed, Reviewable, Aims
      <4> QED
        BY <2>2, <2>4, <4>1, <4>2, MovedPast
    <3> QED
      BY <2>3, <3>1, <3>2 DEF e
  <2>6. Updated(u, e) = u
    BY <2>4, <2>5, UpdatedMoved
  <2> QED
    BY <2>6 DEF u, e
<1>8. Settled(Rebuilt(M), M)
  BY <1>2, <1>6, <1>7 DEF Settled
<1>9. Reviewable(Rebuilt(M))
  <2>1. RowOf(l).id \in Payloads /\ RowOf(l).status = "quarantined" => RowOf(l).id \in Held
    BY <1>5 DEF Suits
  <2>2. ASSUME NEW r \in R, Updated(r, l).id \in Payloads, Updated(r, l).status = "quarantined"
        PROVE  Updated(r, l).id \in Held
    <3>1. PICK j \in DOMAIN L : r \in Versions(L[j])
      BY <1>1 DEF RowsFor
    <3>2. r.id = L[j].id /\ r.status \in Statuses
      BY <3>1, VersionFields
    <3>3. Updated(r, l).id = L[j].id /\ Updated(r, l).status = Moved(L[j], r.status, l)
      BY <3>1, UpdatedMoved, VersionFields
    <3>4. r.status = "quarantined"
      BY <2>2, <3>2, <3>3, MovedStatus
    <3> QED
      BY <1>4, <2>2, <3>2, <3>3, <3>4 DEF Reviewable
  <2> QED
    BY <1>2, <2>1, <2>2 DEF Reviewable
<1>10. \A i \in DOMAIN L : Aimed(L[i], M)
  BY <1>3, <1>4 DEF Aimed
<1>11. Aimed(l, M)
  <2>1. CASE l.type = "observation"
    BY <2>1 DEF Aimed, Aims, Markers
  <2>2. CASE l.type \in Markers /\ l.target \in Scopes
    BY <2>2 DEF Aimed, Aims, Markers
  <2>3. CASE /\ l.type \in Aims /\ l.target \in Payloads
             /\ l.type = "redaction" => l.target \notin Held
             /\ \E r \in R : r.id = l.target
    <3>1. PICK r \in R : r.id = l.target
      BY <2>3
    <3>2. PICK j \in DOMAIN L : r \in Versions(L[j])
      BY <1>1 DEF RowsFor
    <3>3. j \in DOMAIN M /\ M[j].id = l.target
      BY <1>3, <3>1, <3>2, VersionFields
    <3> QED
      BY <2>3, <3>3 DEF Aimed, Aims, Markers
  <2> QED
    BY <2>1, <2>2, <2>3 DEF Suits, R
<1>12. \A i \in DOMAIN M : Aimed(M[i], M)
  BY <1>3, <1>10, <1>11
<1> QED
  BY <1>8, <1>9, <1>12 DEF GoodIndex, M

\* The index of a good log is its own replay, from whatever mark.
LEMMA RebuiltReplay ==
    ASSUME ExportsApart, ExportsHigh, NEW L, NEW h, NEW C, GoodLog(L, h, C), GoodIndex(L), NEW n \in Nat
    PROVE  Replayed(Rebuilt(L), L, n) = Rebuilt(L)
<1>1. \A i \in DOMAIN L : In(Rebuilt(L), L[i])
  BY RebuiltWhole
<1>2. Len(L) \in Nat /\ DOMAIN L = 1 .. Len(L)
  BY LogFacts DEF GoodLog, Stated
<1> QED
  BY <1>1, <1>2, ReplaySettled DEF GoodIndex

\* Wherever the process dies in a write, the next catchUp() makes up for it.
LEMMA AppendReplay ==
    ASSUME ExportsApart, ExportsHigh, NEW L, NEW h, NEW C, GoodLog(L, h, C), GoodIndex(L),
           NEW l, NEW n \in Nat, Fit(l, L, n), Suits(l, L)
    PROVE  /\ Replayed(Rebuilt(L), Append(L, l), n) = Rebuilt(Append(L, l))
           /\ Replayed(InsertOrSkip(Rebuilt(L), l), Append(L, l), n) = Rebuilt(Append(L, l))
<1> DEFINE R == Rebuilt(L)
           M == Append(L, l)
           P == {RowOf(l)}
<1>0. Lined(L) /\ l \in Lines /\ l.status \in Statuses /\ l.seq \in Nat
  BY LineFacts DEF GoodLog, Fit
<1>1. Replayed(R, L, n) = R
  BY RebuiltReplay
<1>2. /\ InsertOrSkip(R, l) = R \cup P
      /\ Rebuilt(M) = Indexed(R, l)
  BY AppendRebuilt
<1>3. /\ Len(L) \in Nat /\ Len(M) = Len(L) + 1 /\ M[Len(M)] = l /\ DOMAIN L = 1 .. Len(L)
      /\ \A i \in 1 .. Len(L) : M[i] = L[i]
  BY <1>0, AppendFacts
<1>4. ~Below(l, n)
  BY <1>0 DEF Fit, Below
<1> HIDE DEF M, R
<1>5. ASSUME NEW S PROVE Replayed(S, M, n) = Indexed(Replayed(S, L, n), l)
  <2>1. Replayed(S, M, n) = IF Below(M[Len(M)], n) THEN Replayed(S, L, n)
                            ELSE Indexed(Replayed(S, L, n), M[Len(M)])
    BY <1>3, ReplayAppend
  <2> QED
    BY <1>3, <1>4, <2>1
<1>6. ASSUME NEW i \in 1 .. Len(L) PROVE Untouched(P, L[i])
  <2>1. RowOf(l) \in Versions(l) /\ RowOf(l).status = l.status
    BY <1>0, RowOfVersion DEF RowOf
  <2>2. Moved(l, l.status, L[i]) = l.status
    BY <1>3, SuitsUnchanged
  <2>3. Updated(RowOf(l), L[i]) = RowOf(l)
    BY <2>1, <2>2, UpdatedMoved
  <2>4. ~Clashes(L[i], l)
    BY <1>3 DEF Fit
  <2>5. ~Clashes(RowOf(l), L[i])
    BY <2>4, ClashSymmetric DEF Clashes, RowOf
  <2> QED
    BY <2>3, <2>5 DEF Untouched
<1>7. Replayed(P \cup R, L, n) = P \cup R
  <2> HIDE DEF P
  <2>1. Replayed(P \cup R, L, n) = P \cup Replayed(R, L, n)
    BY <1>3, <1>6, ReplayApart
  <2> QED
    BY <1>1, <2>1
<1>8. Indexed(P \cup R, l) = Indexed(R, l)
  <2>1. Clashes(RowOf(l), l)
    BY DEF Clashes, RowOf
  <2>2. InsertOrSkip(P \cup R, l) = P \cup R
    BY <2>1 DEF InsertOrSkip
  <2> QED
    BY <1>2, <2>2 DEF Indexed
<1>9. InsertOrSkip(R, l) = P \cup R
  BY <1>2
<1> QED
  BY <1>1, <1>2, <1>5, <1>7, <1>8, <1>9 DEF M, R

\* The rows of restored observations: no line of this writer meets or moves
\* them, and they move nothing.
LEMMA ExportsUntouched ==
    ASSUME ExportsApart, ExportsHigh, NEW L, NEW h, NEW C, GoodLog(L, h, C), GoodIndex(L),
           \A i \in DOMAIN L : L[i].writer = Me,
           NEW x \in Exports, NEW i \in DOMAIN L
    PROVE  /\ \A r \in Versions(x) : ~Clashes(r, L[i]) /\ Updated(r, L[i]) = r
           /\ \A r \in Versions(L[i]) : ~Clashes(r, x)
           /\ \A r : Updated(r, x) = r
<1>1. Lined(L) /\ Owned(L, h) /\ Aimed(L[i], L)
  BY DEF GoodLog, GoodIndex
<1>2. Formed(L[i]) /\ L[i].id \in Ids
  BY <1>1, LogFacts, LineFacts DEF Owned
<1>3. ~Clashes(x, L[i]) /\ ~Clashes(L[i], x)
  BY <1>2, ExportsClash
<1>4. x.id \notin Payloads /\ x.scope \notin Scopes /\ x.type = "observation"
  BY DEF ExportsApart, ExportsHigh, Ids
<1>5. ~(L[i].type \in Markers /\ x.scope = L[i].target) /\ ~(L[i].type \in Aims /\ x.id = L[i].target)
  BY <1>1, <1>4 DEF Aimed
<1>6. ASSUME NEW r \in Versions(x) PROVE ~Clashes(r, L[i]) /\ Updated(r, L[i]) = r
  <2>1. ~Clashes(r, L[i])
    BY <1>3, VersionFields DEF Clashes
  <2>2. Moved(x, r.status, L[i]) = r.status
    BY <1>5, MovedCases
  <2> QED
    BY <2>1, <2>2, UpdatedMoved
<1>7. ASSUME NEW r \in Versions(L[i]) PROVE ~Clashes(r, x)
  BY <1>3, VersionFields DEF Clashes
<1>8. ASSUME NEW r PROVE Updated(r, x) = r
  BY <1>4 DEF Updated
<1> QED
  BY <1>6, <1>7, <1>8

\* RESTORE.SCOPE adds the rows of its lines to the index, at once or when the
\* brain is opened next, and changes no other.
LEMMA ConcatIndex ==
    ASSUME ExportsApart, ExportsHigh, NEW L, NEW h, NEW C, GoodLog(L, h, C), GoodIndex(L),
           \A i \in DOMAIN L : L[i].writer = Me,
           NEW x \in Seq(Exports), Apart(x), NEW n \in Nat, n <= MaxLines
    PROVE  /\ Rebuilt(x \o L) = Replayed({}, x, 0) \cup Rebuilt(L)
           /\ Replayed({}, x, 0) \in SUBSET RowsFor(x)
           /\ Replayed(Rebuilt(L), x \o L, n) = Rebuilt(x \o L)
           /\ GoodIndex(x \o L)
<1> DEFINE R == Rebuilt(L)
           K == Replayed({}, x, 0)
           M == x \o L
<1>0. Lined(L)
  BY DEF GoodLog
<1>1. /\ Len(L) \in Nat /\ Len(x) \in Nat /\ Len(M) = Len(x) + Len(L)
      /\ DOMAIN L = 1 .. Len(L) /\ DOMAIN x = 1 .. Len(x)
      /\ \A i \in DOMAIN x : M[i] = x[i]
      /\ \A i \in DOMAIN L : Len(x) + i \in DOMAIN M /\ M[Len(x) + i] = L[i]
      /\ \A i \in DOMAIN M : (i \in DOMAIN x /\ M[i] = x[i]) \/ (i - Len(x) \in DOMAIN L /\ M[i] = L[i - Len(x)])
  BY <1>0, ConcatFacts
<1>2. \A i \in DOMAIN x : x[i] \in Exports
  BY <1>1
<1>3. MaxLines \in Nat /\ \A y \in Exports : y.seq \in Nat /\ y.status \in Statuses /\ y.seq > MaxLines
  BY EvidenceAssumption DEF ExportsApart, ExportsHigh
<1>4. R \in SUBSET RowsFor(L)
  BY RebuiltWhole
<1>5. Stated(x)
  BY <1>1, <1>2, <1>3 DEF Stated
<1>6. K \in SUBSET RowsFor(x)
  BY <1>5, ReplayIndexes
<1>7. Replayed(R, L, n) = R
  BY RebuiltReplay
<1> HIDE DEF M, R, K
<1>8. ASSUME NEW i \in DOMAIN L PROVE Untouched(K, L[i])
  <2>1. ASSUME NEW r \in K PROVE ~Clashes(r, L[i]) /\ Updated(r, L[i]) = r
    <3>1. PICK j \in DOMAIN x : r \in Versions(x[j])
      BY <1>6 DEF RowsFor
    <3> QED
      BY <1>2, <3>1, ExportsUntouched
  <2> QED
    BY <2>1 DEF Untouched
<1>9. ASSUME NEW i \in DOMAIN x, NEW r PROVE Updated(r, x[i]) = r
  BY <1>2 DEF ExportsHigh, Updated
<1>10. ASSUME NEW i \in DOMAIN x PROVE Untouched(R, x[i])
  <2>1. ASSUME NEW r \in R PROVE ~Clashes(r, x[i])
    <3>1. PICK j \in DOMAIN L : r \in Versions(L[j])
      BY <1>4 DEF RowsFor
    <3> QED
      BY <1>2, <3>1, ExportsUntouched
  <2> QED
    BY <1>9, <2>1 DEF Untouched
<1>11. ASSUME NEW S, NEW m \in Nat PROVE Replayed(S, M, m) = Replayed(Replayed(S, x, m), L, m)
  <2>1. (\A i \in 1 .. Len(x) : M[i] = x[i]) /\ \A i \in 1 .. Len(L) : M[Len(x) + i] = L[i]
    BY <1>1
  <2> QED
    BY <1>1, <2>1, ReplayConcat
<1>12. ASSUME NEW S, NEW m \in Nat PROVE Replayed(K \cup S, L, m) = K \cup Replayed(S, L, m)
  <2>1. \A i \in 1 .. Len(L) : Untouched(K, L[i])
    BY <1>1, <1>8
  <2> QED
    BY <1>1, <2>1, ReplayApart
<1>13. Rebuilt(M) = K \cup R
  <2>1. Replayed({}, M, 0) = Replayed(K, L, 0)
    BY <1>11 DEF K
  <2>2. Replayed(K \cup {}, L, 0) = K \cup Replayed({}, L, 0) /\ K \cup {} = K
    BY <1>12
  <2> QED
    BY <2>1, <2>2 DEF Rebuilt, R
<1>14. Replayed(R, M, n) = K \cup R
  <2>1. Replayed(R \cup {}, x, n) = R \cup Replayed({}, x, n) /\ R \cup {} = R
    <3>1. \A i \in 1 .. Len(x) : Untouched(R, x[i])
      BY <1>1, <1>10
    <3>2. ASSUME NEW y, Len(y) \in Nat, \A i \in 1 .. Len(y) : Untouched(R, y[i])
          PROVE  Replayed(R \cup {}, y, n) = R \cup Replayed({}, y, n)
      BY ONLY <3>2, n \in Nat, ReplayApart
    <3> QED
      BY <1>1, <3>1, <3>2
  <2>2. Replayed({}, x, n) = K
    <3>1. \A i \in 1 .. Len(x) : ~Below(x[i], n) /\ ~Below(x[i], 0)
      BY <1>1, <1>2, <1>3 DEF Below
    <3> QED
      BY <1>1, <3>1, ReplayAbove DEF K
  <2>3. Replayed(R, M, n) = Replayed(K \cup R, L, n)
    BY <1>11, <2>1, <2>2
  <2> QED
    BY <1>7, <1>12, <2>3
<1>15. GoodIndex(M)
  <2>1. Settled(R, L) /\ Reviewable(R) /\ \A i \in DOMAIN L : Aimed(L[i], L)
    BY DEF GoodIndex, R
  <2>2. ASSUME NEW i \in DOMAIN L PROVE Aimed(L[i], M)
    BY <1>1, <2>1 DEF Aimed
  <2>3. ASSUME NEW i \in DOMAIN x PROVE Aimed(x[i], M)
    BY <1>2 DEF Aimed, Aims, Markers, ExportsHigh
  <2>4. \A i \in DOMAIN M : Aimed(M[i], M)
    BY <1>1, <2>2, <2>3
  <2>5. Settled(K \cup R, M)
    <3>1. ASSUME NEW r \in K \cup R, NEW i \in DOMAIN M PROVE Updated(r, M[i]) = r
      <4>1. CASE i \in DOMAIN x /\ M[i] = x[i]
        BY <1>9, <4>1
      <4>2. CASE i - Len(x) \in DOMAIN L /\ M[i] = L[i - Len(x)]
        <5>1. r \in K => Updated(r, L[i - Len(x)]) = r
          BY <1>8, <4>2 DEF Untouched
        <5>2. r \in R => Updated(r, L[i - Len(x)]) = r
          BY <2>1, <4>2 DEF Settled
        <5> QED
          BY <4>2, <5>1, <5>2
      <4> QED
        BY <1>1, <4>1, <4>2
    <3> QED
      BY <3>1 DEF Settled
  <2>6. Reviewable(K \cup R)
    <3>1. ASSUME NEW r \in K PROVE r.id \notin Payloads
      <4>1. PICK j \in DOMAIN x : r \in Versions(x[j])
        BY <1>6 DEF RowsFor
      <4>2. r.id = x[j].id /\ x[j].id \notin Payloads
        BY <1>2, <4>1, VersionFields DEF ExportsApart, Ids
      <4> QED
        BY <4>2
    <3> QED
      BY <2>1, <3>1 DEF Reviewable
  <2> QED
    BY <1>13, <2>4, <2>5, <2>6 DEF GoodIndex
<1> QED
  BY <1>6, <1>13, <1>14, <1>15 DEF M, R, K

-----------------------------------------------------------------------------
(* Index and log.                                                          *)

\* What FORGET was answered for is in the log, and ended.
Withdrawn(F, L) ==
    \A f \in F : /\ \E i \in DOMAIN L : L[i].id = f
                 /\ \A r \in Rebuilt(L) : r.id = f => r.status \in Terminal

\* Line l ends what has identity f.
Ends(l, L, f) == /\ \E i \in DOMAIN L : L[i].id = f
                 /\ \A r \in Rebuilt(L) : r.id = f => Updated(r, l).status \in Terminal

LEMMA WithdrawnAppend ==
    ASSUME ExportsApart, ExportsHigh, NEW L, NEW h, NEW C, GoodLog(L, h, C), GoodIndex(L),
           NEW l, NEW n \in Nat, Fit(l, L, n), Suits(l, L),
           NEW F, Withdrawn(F, L), NEW G, \A f \in G : f \in F \/ Ends(l, L, f)
    PROVE  Withdrawn(G, Append(L, l))
<1> DEFINE R == Rebuilt(L)
           M == Append(L, l)
<1>0. Lined(L) /\ l \in Lines
  BY DEF GoodLog, Fit
<1>1. R \in SUBSET RowsFor(L)
  BY RebuiltWhole
<1>2. Rebuilt(M) = {Updated(r, l) : r \in R} \cup {RowOf(l)}
  BY AppendRebuilt
<1>3. \A i \in DOMAIN L : i \in DOMAIN M /\ M[i] = L[i]
  BY <1>0, AppendFacts
<1> HIDE DEF M
<1> SUFFICES ASSUME NEW f \in G
             PROVE  /\ \E i \in DOMAIN M : M[i].id = f
                    /\ \A r \in Rebuilt(M) : r.id = f => r.status \in Terminal
  BY DEF Withdrawn, M
<1>4. PICK i \in DOMAIN L : L[i].id = f
  BY DEF Withdrawn, Ends
<1>5. i \in DOMAIN M /\ M[i].id = f
  BY <1>3, <1>4
<1>6. RowOf(l).id # f
  BY <1>4 DEF Fit, Clashes, RowOf
<1>7. ASSUME NEW r \in R, Updated(r, l).id = f PROVE Updated(r, l).status \in Terminal
  <2>1. PICK j \in DOMAIN L : r \in Versions(L[j])
    BY <1>1 DEF RowsFor
  <2>2. r.id = L[j].id /\ r.status \in Statuses
    BY <2>1, VersionFields
  <2>3. Updated(r, l).id = L[j].id /\ Updated(r, l).status = Moved(L[j], r.status, l)
    BY <2>1, UpdatedMoved, VersionFields
  <2>4. r.id = f
    BY <1>7, <2>2, <2>3
  <2>5. CASE f \in F
    <3>1. r.status \in Terminal
      BY <2>4, <2>5 DEF Withdrawn
    <3> QED
      BY <2>2, <2>3, <3>1, MovedStatus
  <2>6. CASE Ends(l, L, f)
    BY <2>4, <2>6 DEF Ends
  <2> QED
    BY <2>5, <2>6
<1> QED
  BY <1>2, <1>5, <1>6, <1>7

LEMMA WithdrawnConcat ==
    ASSUME ExportsApart, ExportsHigh, NEW L, NEW h, NEW C, GoodLog(L, h, C), GoodIndex(L),
           \A i \in DOMAIN L : L[i].writer = Me,
           NEW x \in Seq(Exports), Apart(x), NEW F, Withdrawn(F, L)
    PROVE  Withdrawn(F, x \o L)
<1> DEFINE M == x \o L
           K == Replayed({}, x, 0)
<1>0. Lined(L)
  BY DEF GoodLog
<1>1. /\ \A i \in DOMAIN L : Len(x) + i \in DOMAIN M /\ M[Len(x) + i] = L[i]
      /\ \A i \in DOMAIN x : x[i] \in Exports
  BY <1>0, ConcatFacts
<1>2. Rebuilt(M) = K \cup Rebuilt(L) /\ K \in SUBSET RowsFor(x)
  <2>1. PICK n \in Nat : n <= MaxLines
    BY EvidenceAssumption
  <2> QED
    BY <2>1, ConcatIndex
<1> HIDE DEF M, K
<1>3. ASSUME NEW r \in K, NEW i \in DOMAIN L PROVE r.id # L[i].id
  <2>1. PICK j \in DOMAIN x : r \in Versions(x[j])
    BY <1>2 DEF RowsFor
  <2>2. r.id = x[j].id /\ x[j].id \notin Ids
    BY <1>1, <2>1, VersionFields DEF ExportsApart
  <2>3. L[i].id \in Ids
    BY <1>0, LogFacts, LineFacts
  <2> QED
    BY <2>2, <2>3
<1>4. ASSUME NEW f \in F
      PROVE  /\ \E i \in DOMAIN M : M[i].id = f
             /\ \A r \in Rebuilt(M) : r.id = f => r.status \in Terminal
  <2>1. PICK i \in DOMAIN L : L[i].id = f
    BY DEF Withdrawn
  <2>2. \A r \in Rebuilt(L) : r.id = f => r.status \in Terminal
    BY DEF Withdrawn
  <2> QED
    BY <1>1, <1>2, <1>3, <2>1, <2>2
<1>5. Withdrawn(F, M)
  BY <1>4 DEF Withdrawn
<1> QED
  BY <1>5 DEF M

\* Until something is restored, lines are numbered by the lines prepared.
Low == receipts = {} => /\ \A i \in DOMAIN log : log[i].seq <= made
                        /\ \A l \in held \cup intents : l.seq <= made

\* What awaits still suits the log when it is written.
Waiting ==
    /\ \A l \in held : Suits(l, log)
    /\ \A l \in intents : /\ l.type \in {"tombstone", "redaction"}
                          /\ Newest(log, l.prev) => Suits(l, log)

\* The index of an open brain is what its log rebuilds to; that of a closed one
\* is after the next catchUp().
IndexInv ==
    /\ GoodIndex(log)
    /\ Replayed(rows, log, lastSeq) = Rebuilt(log)
    /\ up = TRUE => rows = Rebuilt(log)
    /\ Waiting
    /\ Withdrawn(forgotten, log)
    /\ Low

LEMMA InitIndex == ASSUME Init PROVE IndexInv
<1>1. log = <<>> /\ DOMAIN log = {} /\ Len(log) = 0
  BY DEF Init
<1>2. rows = {} /\ lastSeq = 0 /\ up = FALSE /\ held = {} /\ intents = {} /\ forgotten = {}
  BY DEF Init
<1>3. Replayed(rows, log, lastSeq) = Rebuilt(log)
  BY <1>2 DEF Rebuilt
<1>4. GoodIndex(log)
  <2>1. PICK f : Steps(f, {}, log, 0, Len(log)) /\ Replayed({}, log, 0) = f[Len(log)]
    BY <1>1, ReplayedSteps
  <2>2. f[0] = {}
    BY <1>1, <2>1, StepsZero
  <2>3. Rebuilt(log) = {}
    BY <1>1, <2>1, <2>2 DEF Rebuilt
  <2> QED
    BY <1>1, <2>3 DEF GoodIndex, Settled, Reviewable
<1>5. Waiting /\ Withdrawn(forgotten, log) /\ Low
  BY <1>1, <1>2 DEF Waiting, Withdrawn, Low
<1> QED
  BY <1>2, <1>3, <1>4, <1>5 DEF IndexInv

\* The lines the handlers prepare suit the log.
LEMMA ObservationSuits ==
    ASSUME ~Resumed, NEW p \in Payloads, NEW h, Admits(p)
    PROVE  Suits(Observation(p, h), log)
<1> DEFINE l == Observation(p, h)
<1>1. /\ l.type = "observation" /\ l.id = p /\ l.scope = ScopeOf[p]
      /\ l.status = "quarantined" => p \in Held
  BY DEF Observation, Prepared
<1>2. Unmarked(log, ScopeOf[p])
  BY DEF Admits, Retired, Unmarked, Markers
<1> HIDE DEF l
<1>3. Suits(l, log)
  BY <1>1, <1>2 DEF Suits
<1> QED
  BY <1>3 DEF l

LEMMA EventSuits ==
    ASSUME ChainInv, made < MaxLines, rows = Rebuilt(log), NEW h, NEW p \in Payloads, NEW type \in Aims,
           type = "redaction" => p \notin Held,
           \E r \in rows : r.id = p /\ r.status \notin Terminal
    PROVE  Suits(Event(h, type, ScopeOf[p], p), log)
<1> DEFINE l == Event(h, type, ScopeOf[p], p)
<1>1. l.type = type /\ l.target = p /\ l.scope = ScopeOf[p] /\ l.id = made + 1
  BY DEF Event, Prepared
<1>2. made + 1 \notin Payloads
  BY OpenFacts, EvidenceAssumption
<1> HIDE DEF l
<1>3. Suits(l, log)
  BY <1>1, <1>2 DEF Suits
<1> QED
  BY <1>3 DEF l

LEMMA MarkerSuits ==
    ASSUME ChainInv, made < MaxLines, NEW h, NEW s \in Scopes, NEW reason \in Markers
    PROVE  Suits(Event(h, reason, Pod, s), log)
<1> DEFINE l == Event(h, reason, Pod, s)
<1>1. l.type = reason /\ l.target = s /\ l.scope = Pod /\ l.id = made + 1
  BY DEF Event, Prepared
<1>2. made + 1 \notin Payloads
  BY OpenFacts, EvidenceAssumption
<1> HIDE DEF l
<1>3. Suits(l, log)
  BY <1>1, <1>2 DEF Suits
<1> QED
  BY <1>3 DEF l

\* A line prepared before anything was restored is numbered like the lines.
LEMMA PreparedLow ==
    ASSUME ExportsApart, ChainInv, up = TRUE, Low, receipts = {},
           NEW h, NEW id, NEW type, NEW status, NEW scope, NEW target, NEW source, NEW key
    PROVE  Prepared(h, id, type, status, scope, target, source, key).seq <= made + 1
<1>1. /\ GoodLog(log, made, receipts) /\ Indexes(rows, log, lastSeq) /\ Complete(rows, log, lastSeq)
      /\ made \in Nat
  BY OpenFacts
<1>2. LastSequence \in Nat /\ (LastSequence = 0 \/ \E i \in DOMAIN log : LastSequence = log[i].seq)
  BY <1>1, LatestFacts
<1>3. LastSequence <= made
  BY <1>1, <1>2 DEF Low
<1>4. Prepared(h, id, type, status, scope, target, source, key).seq = LastSequence + 1
  BY DEF Prepared
<1> QED
  BY <1>1, <1>2, <1>3, <1>4

\* Writing a line that suits keeps index and log together.
LEMMA WritingIndex ==
    ASSUME ExportsApart, ExportsHigh, ChainInv, IndexInv, NEW l, Writing(l), Suits(l, log),
           receipts = {} => l.seq <= made',
           \A f \in forgotten' : f \in forgotten \/ Ends(l, log, f)
    PROVE  IndexInv'
<1>0. /\ GoodLog(log, made, receipts) /\ Lined(log) /\ PendingInv /\ lastSeq \in Nat /\ made \in Nat
  BY OpenFacts
<1>1. /\ up = TRUE /\ Write(l) /\ Fit(l, log, lastSeq) /\ Fresh(l, log, made')
      /\ made' \in 0 .. MaxLines /\ made <= made' /\ receipts' = receipts /\ made' \in Nat
      /\ \A m \in held : m = l
      /\ \A m \in intents' : m \in intents /\ m.hash # l.hash
  BY DEF Writing
<1>2. log' = Append(log, l) /\ lastSeq' = lastSeq /\ l \in Lines /\ l.hash # 0
  BY <1>1, LineFacts DEF Write, Fit
<1>3. GoodIndex(log) /\ rows = Rebuilt(log) /\ Waiting /\ Withdrawn(forgotten, log) /\ Low
  BY <1>1 DEF IndexInv
<1>4. GoodIndex(log')
  BY <1>0, <1>1, <1>2, <1>3, AppendSettled
<1>5. Rebuilt(log') = Indexed(rows, l)
  BY <1>0, <1>1, <1>2, <1>3, AppendRebuilt
<1>6. /\ Replayed(rows, log', lastSeq) = Rebuilt(log')
      /\ Replayed(InsertOrSkip(rows, l), log', lastSeq) = Rebuilt(log')
  BY <1>0, <1>1, <1>2, <1>3, AppendReplay
<1>7. GoodLog(log', made', receipts)
  BY <1>0, <1>1, <1>2, AppendGood
<1>8. Replayed(Rebuilt(log'), log', lastSeq) = Rebuilt(log')
  BY <1>0, <1>4, <1>7, RebuiltReplay
<1>9. /\ Replayed(rows', log', lastSeq') = Rebuilt(log')
      /\ up' = TRUE => rows' = Rebuilt(log')
  <2>1. \/ rows' = Indexed(rows, l) /\ up' = TRUE
        \/ rows' = InsertOrSkip(rows, l) /\ up' = FALSE
        \/ rows' = rows /\ up' = FALSE
    BY <1>1 DEF Write
  <2>2. CASE rows' = Indexed(rows, l) /\ up' = TRUE
    BY <1>2, <1>5, <1>8, <2>2
  <2>3. CASE rows' = InsertOrSkip(rows, l) /\ up' = FALSE
    BY <1>2, <1>6, <2>3
  <2>4. CASE rows' = rows /\ up' = FALSE
    BY <1>2, <1>6, <2>4
  <2> QED
    BY <2>1, <2>2, <2>3, <2>4
<1>10. held' = {}
  <2>1. held \ {l} = {}
    BY <1>1
  <2> QED
    BY <1>1, <2>1 DEF Write
<1>11. Waiting'
  <2>1. ASSUME NEW m \in intents' PROVE m.type \in {"tombstone", "redaction"} /\ ~Newest(log', m.prev)
    <3>1. m \in intents /\ Fresh(m, log, made)
      BY <1>0, <1>1 DEF PendingInv
    <3>2. m.prev # l.hash
      BY <1>1, <1>2, <3>1 DEF Fresh
    <3> QED
      BY <1>0, <1>2, <1>3, <3>1, <3>2, AppendFollows DEF Waiting
  <2> QED
    BY <1>10, <2>1 DEF Waiting
<1>12. Withdrawn(forgotten', log')
  BY <1>0, <1>1, <1>2, <1>3, WithdrawnAppend
<1>13. Low'
  <2>1. SUFFICES ASSUME receipts = {}
                 PROVE  (\A i \in DOMAIN log' : log'[i].seq <= made') /\ \A m \in intents' : m.seq <= made'
    BY <1>1, <1>10 DEF Low
  <2>2. /\ \A i \in DOMAIN log : log[i].seq <= made /\ log[i].seq \in Nat
        /\ \A m \in intents : m.seq <= made /\ m.seq \in Nat
    <3>1. \A i \in DOMAIN log : log[i].seq \in Nat
      BY <1>0, LogFacts DEF Stated
    <3>2. \A m \in intents : m.seq \in Nat
      BY <1>0, LineFacts DEF PendingInv, Fresh
    <3> QED
      BY <1>3, <2>1, <3>1, <3>2 DEF Low
  <2>3. \A i \in DOMAIN log' : log'[i] = l \/ (i \in DOMAIN log /\ log'[i] = log[i])
    BY <1>0, <1>2, AppendFacts
  <2>4. l.seq <= made'
    BY <2>1
  <2> QED
    BY <1>0, <1>1, <2>2, <2>3, <2>4
<1> QED
  BY <1>4, <1>9, <1>11, <1>12, <1>13 DEF IndexInv

\* OBSERVE, at once or after the await.
LEMMA ObserveIndex ==
    ASSUME ExportsApart, ExportsHigh, SourcesApart, ~Overlap, ~Resumed, ChainInv, IndexInv,
           NEW p \in Payloads, Observe(p)
    PROVE  IndexInv'
<1>1. PICK h \in LatestHashes : Writing(Observation(p, h))
  BY ObserveWriting
<1>2. Admits(p) /\ made' = made + 1 /\ forgotten' = forgotten
  BY DEF Observe
<1> DEFINE l == Observation(p, h)
<1>3. Suits(l, log)
  BY <1>2, ObservationSuits
<1>4. receipts = {} => l.seq <= made'
  <2>1. up = TRUE /\ Low
    BY <1>1 DEF Writing, IndexInv
  <2> QED
    BY <1>2, <2>1, PreparedLow DEF Observation
<1>5. Writing(l)
  BY <1>1
<1> HIDE DEF l
<1> QED
  BY <1>2, <1>3, <1>4, <1>5, WritingIndex

LEMMA AppendIndex ==
    ASSUME ExportsApart, ExportsHigh, ChainInv, IndexInv, NEW l \in held, ObserveAppend(l)
    PROVE  IndexInv'
<1>1. Writing(l)
  BY AppendWriting
<1>2. Suits(l, log) /\ (receipts = {} => l.seq <= made)
  BY DEF IndexInv, Waiting, Low
<1>3. made' = made /\ forgotten' = forgotten
  BY DEF ObserveAppend
<1> QED
  BY <1>1, <1>2, <1>3, WritingIndex

\* A FORGET ends the rows it is aimed at.
LEMMA ForgetEnds ==
    ASSUME ExportsApart, ExportsHigh, NEW L, NEW h, NEW C, GoodLog(L, h, C), GoodIndex(L),
           NEW l, Suits(l, L), l.type \in {"tombstone", "redaction"}
    PROVE  Ends(l, L, l.target)
<1>1. Rebuilt(L) \in SUBSET RowsFor(L) /\ Reviewable(Rebuilt(L))
  BY RebuiltWhole DEF GoodIndex
<1>2. /\ l.type \in Aims /\ l.target \in Payloads
      /\ l.type = "redaction" => l.target \notin Held
      /\ \E r \in Rebuilt(L) : r.id = l.target
  BY DEF Suits, Aims, Markers
<1>3. \A r \in Rebuilt(L) : \E i \in DOMAIN L : r \in Versions(L[i])
  BY <1>1 DEF RowsFor
<1>4. \E i \in DOMAIN L : L[i].id = l.target
  BY <1>2, <1>3, VersionFields
<1>5. ASSUME NEW r \in Rebuilt(L), r.id = l.target PROVE Updated(r, l).status \in Terminal
  <2>1. PICK i \in DOMAIN L : r \in Versions(L[i])
    BY <1>3
  <2> DEFINE x == L[i]
  <2>2. r \in Versions(x)
    BY <2>1
  <2> HIDE DEF x
  <2>3. x.id = l.target /\ r.status \in Statuses
    BY <1>5, <2>2, VersionFields
  <2>4. Updated(r, l).status = Transition(r.status, l.type)
    BY <1>2, <2>2, <2>3, UpdatedMoved, MovedCases
  <2>5. r.status = "quarantined" => l.type = "tombstone"
    BY <1>1, <1>2, <1>5 DEF Reviewable
  <2>6. Transition(r.status, l.type) \in Terminal
    BY <2>3, <2>5 DEF Transition, Statuses, Terminal
  <2> QED
    BY <2>4, <2>6
<1> QED
  BY <1>4, <1>5 DEF Ends

LEMMA ForgetIndex ==
    ASSUME ExportsApart, ExportsHigh, HeldNotRedacted, ~Overlap, ChainInv, IndexInv,
           NEW p \in Payloads, NEW mode \in ForgetModes[p], Forget(p, mode)
    PROVE  IndexInv'
<1>1. PICK h \in LatestHashes : Write(Event(h, mode, ScopeOf[p], p))
  BY DEF Forget
<1>2. /\ mode \in EventTypes /\ ScopeOf[p] \in Scopes \cup {Pod} /\ p \in Payloads \cup Scopes
      /\ mode \in {"tombstone", "redaction"} /\ mode \in Aims
  BY ScopesFacts DEF Aims
<1>3. /\ up /\ Quiet /\ made < MaxLines /\ made' = made + 1 /\ intents' = intents /\ receipts' = receipts
      /\ \E r \in rows : r.id = p /\ r.status \notin Terminal
      /\ \A f \in forgotten' : f \in forgotten \/ f = p
  BY DEF Forget, Answered
<1> DEFINE l == Event(h, mode, ScopeOf[p], p)
<1>4. Writing(l)
  BY <1>1, <1>2, <1>3, EventWriting
<1>5. up = TRUE /\ rows = Rebuilt(log) /\ GoodIndex(log) /\ Low /\ GoodLog(log, made, receipts)
  BY <1>4, OpenFacts DEF Writing, IndexInv
<1>6. Suits(l, log)
  <2>1. mode = "redaction" => p \notin Held
    BY DEF HeldNotRedacted
  <2> QED
    BY <1>2, <1>3, <1>5, <2>1, EventSuits
<1>7. receipts = {} => l.seq <= made'
  BY <1>3, <1>5, PreparedLow DEF Event
<1>8. l.type = mode /\ l.target = p
  BY DEF Event, Prepared
<1> HIDE DEF l
<1>9. Ends(l, log, p)
  BY <1>2, <1>5, <1>6, <1>8, ForgetEnds
<1> QED
  BY <1>3, <1>4, <1>6, <1>7, <1>9, WritingIndex

LEMMA RetryIndex ==
    ASSUME ExportsApart, ExportsHigh, ~Overlap, ChainInv, IndexInv, NEW l \in intents, ForgetRetry(l)
    PROVE  IndexInv'
<1>1. Writing(l) /\ Newest(log, l.prev)
  BY RetryWriting
<1>2. /\ Suits(l, log) /\ l.type \in {"tombstone", "redaction"} /\ (receipts = {} => l.seq <= made)
      /\ GoodIndex(log) /\ GoodLog(log, made, receipts)
  BY <1>1, OpenFacts DEF IndexInv, Waiting, Low
<1>3. made' = made /\ \A f \in forgotten' : f \in forgotten \/ f = l.target
  BY DEF ForgetRetry, Answered
<1>4. Ends(l, log, l.target)
  BY <1>2, ForgetEnds
<1> QED
  BY <1>1, <1>2, <1>3, <1>4, WritingIndex

LEMMA ReviewIndex ==
    ASSUME ExportsApart, ExportsHigh, ~Overlap, ChainInv, IndexInv,
           NEW p \in Payloads, NEW action \in {"approve", "reject"}, Review(p, action)
    PROVE  IndexInv'
<1>1. PICK h \in LatestHashes : Write(Event(h, action, ScopeOf[p], p))
  BY DEF Review
<1>2. /\ action \in EventTypes /\ ScopeOf[p] \in Scopes \cup {Pod} /\ p \in Payloads \cup Scopes
      /\ action \in Aims /\ action # "redaction"
  BY ScopesFacts DEF Aims, EventTypes
<1>3. /\ up /\ Quiet /\ made < MaxLines /\ made' = made + 1 /\ intents' = intents /\ receipts' = receipts
      /\ \E r \in rows : r.id = p /\ r.status = "quarantined"
      /\ forgotten' = forgotten
  BY DEF Review
<1> DEFINE l == Event(h, action, ScopeOf[p], p)
<1>4. Writing(l)
  BY <1>1, <1>2, <1>3, EventWriting
<1>5. up = TRUE /\ rows = Rebuilt(log) /\ Low
  BY <1>4 DEF Writing, IndexInv
<1>6. Suits(l, log)
  <2>1. \E r \in rows : r.id = p /\ r.status \notin Terminal
    BY <1>3 DEF Terminal
  <2> QED
    BY <1>2, <1>3, <1>5, <2>1, EventSuits
<1>7. receipts = {} => l.seq <= made'
  BY <1>3, <1>5, PreparedLow DEF Event
<1> HIDE DEF l
<1> QED
  BY <1>3, <1>4, <1>6, <1>7, WritingIndex

\* A marker ends the rows of its scope.
LEMMA MarkerEnds ==
    ASSUME ExportsApart, ExportsHigh, NEW L, NEW h, NEW C, GoodLog(L, h, C),
           NEW l, l.type \in Markers, NEW r \in Rebuilt(L), r.scope = l.target
    PROVE  Ends(l, L, r.id)
<1>1. Rebuilt(L) \in SUBSET RowsFor(L) /\ Apart(L)
  BY RebuiltWhole DEF GoodLog
<1>2. PICK i \in DOMAIN L : r \in Versions(L[i])
  BY <1>1 DEF RowsFor
<1>3. r.id = L[i].id /\ r.scope = L[i].scope
  BY <1>2, VersionFields
<1>4. ASSUME NEW q \in Rebuilt(L), q.id = r.id PROVE Updated(q, l).status \in Terminal
  <2>1. PICK j \in DOMAIN L : q \in Versions(L[j])
    BY <1>1 DEF RowsFor
  <2>2. q.id = L[j].id /\ q.status \in Statuses
    BY <2>1, VersionFields
  <2>3. i = j
    BY <1>1, <1>3, <1>4, <2>2 DEF Apart, Clashes
  <2>4. Updated(q, l).status = Moved(L[j], q.status, l) /\ L[j].scope = l.target
    BY <1>3, <2>1, <2>3, UpdatedMoved
  <2> QED
    BY <2>2, <2>4, MovedStatus
<1> QED
  BY <1>3, <1>4 DEF Ends

LEMMA ForgetScopeIndex ==
    ASSUME ExportsApart, ExportsHigh, ~Overlap, ChainInv, IndexInv,
           NEW s \in Scopes, NEW reason \in ScopeVerbs, ForgetScope(s, reason)
    PROVE  IndexInv'
<1>1. PICK h \in LatestHashes : Write(Event(h, reason, Pod, s))
  BY DEF ForgetScope
<1>2. /\ reason \in EventTypes /\ Pod \in Scopes \cup {Pod} /\ s \in Payloads \cup Scopes
      /\ reason \in Markers
  BY EvidenceAssumption DEF EventTypes, Markers
<1>3. /\ up /\ Quiet /\ made < MaxLines /\ made' = made + 1 /\ intents' = intents /\ receipts' = receipts
      /\ \A f \in forgotten' : f \in forgotten \/ \E r \in rows : r.scope = s /\ r.id = f
  BY DEF ForgetScope, Answered
<1> DEFINE l == Event(h, reason, Pod, s)
<1>4. Writing(l)
  BY <1>1, <1>2, <1>3, EventWriting
<1>5. up = TRUE /\ rows = Rebuilt(log) /\ Low /\ GoodLog(log, made, receipts)
  BY <1>4, OpenFacts DEF Writing, IndexInv
<1>6. Suits(l, log)
  BY <1>2, <1>3, MarkerSuits
<1>7. receipts = {} => l.seq <= made'
  BY <1>3, <1>5, PreparedLow DEF Event
<1>8. l.type \in Markers /\ l.target = s
  BY <1>2 DEF Event, Prepared
<1> HIDE DEF l
<1>9. \A r \in rows : r.scope = s => Ends(l, log, r.id)
  BY <1>5, <1>8, MarkerEnds
<1>10. \A f \in forgotten' : f \in forgotten \/ Ends(l, log, f)
  BY <1>3, <1>9
<1> QED
  BY <1>4, <1>6, <1>7, <1>10, WritingIndex

\* RESTORE.SCOPE, whole or dying: the one package is restored once.
LEMMA RestoreIndex ==
    ASSUME ExportsApart, ExportsHigh, ~Overlap, ~RestorePending, ChainInv, IndexInv,
           NEW k \in Packages, RestoreScope(k) \/ RestoreDies(k)
    PROVE  IndexInv'
<1>0. /\ TypeInv /\ GoodLog(log, made, receipts) /\ Lined(log) /\ lastSeq \in Nat /\ made \in Nat
      /\ Indexes(rows, log, lastSeq) /\ made <= MaxLines /\ MaxLines \in Nat
  BY OpenFacts
<1>1. /\ up = TRUE /\ held = {} /\ intents = {} /\ k \notin receipts /\ forgotten' = forgotten
      /\ held' = {} /\ intents' = {} /\ receipts' = receipts \cup {k} /\ made' = made
  BY <1>0 DEF RestoreScope, RestoreDies, Quiet, TypeInv
<1>2. rows = Rebuilt(log) /\ GoodIndex(log) /\ Withdrawn(forgotten, log) /\ Low
  BY <1>1 DEF IndexInv
<1>3. receipts = {}
  BY <1>0, <1>1 DEF TypeInv, ExportsHigh
<1>4. \A i \in DOMAIN log : log[i].writer = Me
  BY <1>0, <1>3 DEF GoodLog, Restored
<1>5. lastSeq <= MaxLines
  <2>1. \A i \in DOMAIN log : log[i].seq <= made /\ log[i].seq \in Nat
    BY <1>0, <1>2, <1>3, LogFacts DEF Low, Stated
  <2>2. rows \in SUBSET RowsFor(log) /\ (lastSeq = 0 \/ \E r \in rows : lastSeq <= r.seq)
    BY <1>0 DEF Indexes
  <2>3. \A r \in rows : \E i \in DOMAIN log : r.seq = log[i].seq
    BY <2>2, VersionFields DEF RowsFor
  <2>4. lastSeq = 0 \/ \E i \in DOMAIN log : lastSeq <= log[i].seq
    BY <2>2, <2>3
  <2> QED
    BY <1>0, <2>1, <2>4
<1>6. ASSUME NEW x \in Seq(Exports), \A i \in DOMAIN x : i \in DOMAIN k /\ x[i] = k[i]
      PROVE  /\ Replayed(rows, x \o log, lastSeq) = Rebuilt(x \o log)
             /\ GoodIndex(x \o log) /\ Withdrawn(forgotten, x \o log)
             /\ GoodLog(x \o log, made, receipts \cup {k})
  <2>1. Apart(x)
    BY <1>6 DEF ExportsApart, Apart
  <2>2. Replayed(rows, x \o log, lastSeq) = Rebuilt(x \o log) /\ GoodIndex(x \o log)
    BY <1>0, <1>2, <1>4, <1>5, <2>1, ConcatIndex
  <2>3. Withdrawn(forgotten, x \o log)
    BY <1>0, <1>2, <1>4, <2>1, WithdrawnConcat
  <2>4. GoodLog(x \o log, made, receipts \cup {k})
    BY <1>0, <1>1, <1>6, ConcatGood DEF TypeInv
  <2> QED
    BY <2>2, <2>3, <2>4
<1>7. Waiting' /\ Low'
  BY <1>1 DEF Waiting, Low
<1>8. CASE RestoreScope(k)
  <2>1. /\ log' = k \o log /\ rows' = Replayed(rows, log', lastSeq)
        /\ lastSeq' = HighestSeq(log', lastSeq)
    BY <1>8 DEF RestoreScope, CatchUp
  <2>2. k \in Seq(Exports)
    BY DEF ExportsApart
  <2>3. /\ rows' = Rebuilt(log') /\ GoodIndex(log') /\ Withdrawn(forgotten', log')
        /\ GoodLog(log', made, receipts \cup {k})
    BY <1>1, <1>6, <2>1, <2>2
  <2>4. lastSeq' \in Nat
    <3>1. Lined(log')
      BY <2>3 DEF GoodLog
    <3> QED
      BY <1>0, <2>1, <3>1, LogFacts, HighestSeqFacts
  <2>5. Replayed(rows', log', lastSeq') = Rebuilt(log')
    BY <2>3, <2>4, RebuiltReplay
  <2> QED
    BY <1>7, <2>3, <2>5 DEF IndexInv
<1>9. CASE RestoreDies(k)
  <2>1. PICK n \in 0 .. Len(k) : log' = SubSeq(k, 1, n) \o log
    BY <1>9 DEF RestoreDies
  <2>2. up' = FALSE /\ rows' = rows /\ lastSeq' = lastSeq
    BY <1>9 DEF RestoreDies
  <2>3. Replayed(rows, log', lastSeq) = Rebuilt(log') /\ GoodIndex(log') /\ Withdrawn(forgotten, log')
    BY <1>6, <2>1, PrefixFacts
  <2> QED
    BY <1>1, <1>7, <2>2, <2>3 DEF IndexInv
<1> QED
  BY <1>8, <1>9

\* A line that is prepared and awaits, or is left behind by a process that died.
LEMMA PrepareIndex ==
    ASSUME ExportsApart, SourcesApart, ~Overlap, ~Resumed, ChainInv, IndexInv,
           NEW p \in Payloads, ObservePrepare(p)
    PROVE  IndexInv'
<1>0. /\ made \in Nat /\ PendingInv
  BY OpenFacts
<1>1. /\ up = TRUE /\ held = {} /\ Admits(p) /\ made' = made + 1
      /\ UNCHANGED <<log, rows, lastSeq, up, intents, forgotten, receipts>>
  BY UpFacts DEF ObservePrepare
<1>2. PICK h \in LatestHashes : held' = held \cup {Observation(p, h)}
  BY DEF ObservePrepare
<1> DEFINE l == Observation(p, h)
<1>3. held' = {l} /\ Suits(l, log) /\ (receipts = {} => l.seq <= made + 1)
  <2>1. Suits(l, log)
    BY <1>1, ObservationSuits
  <2>2. receipts = {} => l.seq <= made + 1
    BY <1>1, PreparedLow DEF Observation, IndexInv
  <2> QED
    BY <1>1, <1>2, <2>1, <2>2
<1> HIDE DEF l
<1>4. Waiting'
  BY <1>1, <1>3 DEF IndexInv, Waiting
<1>5. Low'
  <2>1. \A i \in DOMAIN log : log[i].seq \in Nat
    BY OpenFacts, LogFacts DEF Stated
  <2>2. \A m \in intents : m.seq \in Nat
    BY <1>0, LineFacts DEF PendingInv, Fresh
  <2> QED
    BY <1>0, <1>1, <1>3, <2>1, <2>2 DEF IndexInv, Low
<1> QED
  BY <1>1, <1>4, <1>5 DEF IndexInv

LEMMA DiesIndex ==
    ASSUME ExportsApart, HeldNotRedacted, ~Overlap, ChainInv, IndexInv,
           NEW p \in Payloads, NEW mode \in ForgetModes[p], ForgetDies(p, mode)
    PROVE  IndexInv'
<1>0. /\ made \in Nat /\ PendingInv
  BY OpenFacts
<1>1. /\ up = TRUE /\ held = {} /\ made < MaxLines /\ made' = made + 1 /\ up' = FALSE /\ held' = {}
      /\ \E r \in rows : r.id = p /\ r.status \notin Terminal
      /\ UNCHANGED <<log, rows, lastSeq, forgotten, receipts>>
  BY UpFacts DEF ForgetDies
<1>2. PICK h \in LatestHashes : intents' = intents \cup {Event(h, mode, ScopeOf[p], p)}
  BY DEF ForgetDies
<1> DEFINE l == Event(h, mode, ScopeOf[p], p)
<1>3. mode \in {"tombstone", "redaction"} /\ mode \in Aims /\ (mode = "redaction" => p \notin Held)
  BY ScopesFacts DEF HeldNotRedacted, Aims
<1>4. rows = Rebuilt(log) /\ Low /\ Waiting
  BY <1>1 DEF IndexInv
<1>5. Suits(l, log) /\ l.type = mode
  BY <1>1, <1>3, <1>4, EventSuits DEF Event, Prepared
<1>6. receipts = {} => l.seq <= made + 1
  BY <1>1, <1>4, PreparedLow DEF Event
<1>7. intents' = intents \cup {l}
  BY <1>2
<1> HIDE DEF l
<1>8. Waiting'
  BY <1>1, <1>3, <1>4, <1>5, <1>7 DEF Waiting
<1>9. Low'
  <2>1. \A i \in DOMAIN log : log[i].seq \in Nat
    BY OpenFacts, LogFacts DEF Stated
  <2>2. \A m \in intents : m.seq \in Nat
    BY <1>0, LineFacts DEF PendingInv, Fresh
  <2> QED
    BY <1>0, <1>1, <1>4, <1>6, <1>7, <2>1, <2>2 DEF Low
<1> QED
  BY <1>1, <1>8, <1>9 DEF IndexInv

\* Start, stop and loss of the index.
LEMMA OpenIndex == ASSUME ExportsApart, ExportsHigh, ChainInv, IndexInv, Open PROVE IndexInv'
<1>0. TypeInv /\ GoodLog(log, made, receipts) /\ Lined(log) /\ lastSeq \in Nat /\ PendingInv
  BY OpenFacts
<1>1. /\ up' = TRUE /\ UNCHANGED <<log, held, intents, forgotten, receipts, made>>
      /\ rows' = Replayed(rows, log, lastSeq) /\ lastSeq' = HighestSeq(log, lastSeq)
  BY DEF Open, CatchUp
<1>2. rows' = Rebuilt(log) /\ GoodIndex(log)
  BY <1>1 DEF IndexInv
<1>3. lastSeq' \in Nat
  BY <1>0, <1>1, LogFacts, HighestSeqFacts
<1>4. Replayed(rows', log, lastSeq') = Rebuilt(log)
  BY <1>0, <1>2, <1>3, RebuiltReplay
<1>5. Waiting' /\ Low' /\ Withdrawn(forgotten', log')
  BY <1>1 DEF IndexInv, Waiting, Low
<1> QED
  BY <1>1, <1>2, <1>4, <1>5 DEF IndexInv

LEMMA StopIndex == ASSUME IndexInv, Stop PROVE IndexInv'
<1>1. /\ up' = FALSE /\ held' = {} /\ UNCHANGED <<log, rows, lastSeq, intents, forgotten, receipts, made>>
  BY DEF Stop
<1>2. Waiting' /\ Low'
  BY <1>1 DEF IndexInv, Waiting, Low
<1> QED
  BY <1>1, <1>2 DEF IndexInv

LEMMA WipeIndex == ASSUME ChainInv, IndexInv, Wipe PROVE IndexInv'
<1>1. /\ up = FALSE /\ rows' = {} /\ lastSeq' = 0
      /\ UNCHANGED <<log, up, held, intents, forgotten, receipts, made>>
  BY DEF Wipe, ChainInv, TypeInv
<1>2. Replayed(rows', log', lastSeq') = Rebuilt(log')
  BY <1>1 DEF Rebuilt
<1>3. Waiting' /\ Low' /\ Withdrawn(forgotten', log')
  BY <1>1 DEF IndexInv, Waiting, Low
<1> QED
  BY <1>1, <1>2, <1>3 DEF IndexInv

\* Every step keeps index and log together.
LEMMA StepIndex ==
    ASSUME ExportsApart, ExportsHigh, SourcesApart, HeldNotRedacted,
           ~Overlap, ~RestorePending, ~Resumed, ChainInv, IndexInv, [Next]_vars
    PROVE  IndexInv'
<1>1. CASE UNCHANGED vars
  <2>1. Waiting' /\ Low' /\ Withdrawn(forgotten', log')
    BY <1>1 DEF vars, IndexInv, Waiting, Low
  <2> QED
    BY <1>1, <2>1 DEF vars, IndexInv
<1>2. CASE Open \/ Stop \/ Wipe
  BY <1>2, OpenIndex, StopIndex, WipeIndex
<1>3. ASSUME NEW p \in Payloads, Observe(p) \/ ObservePrepare(p) PROVE IndexInv'
  BY <1>3, ObserveIndex, PrepareIndex
<1>4. ASSUME NEW p \in Payloads, NEW mode \in ForgetModes[p], Forget(p, mode) \/ ForgetDies(p, mode)
      PROVE  IndexInv'
  BY <1>4, ForgetIndex, DiesIndex
<1>5. ASSUME NEW p \in Payloads, NEW action \in {"approve", "reject"}, Review(p, action) PROVE IndexInv'
  BY <1>5, ReviewIndex
<1>6. ASSUME NEW s \in Scopes, NEW reason \in ScopeVerbs, ForgetScope(s, reason) PROVE IndexInv'
  BY <1>6, ForgetScopeIndex
<1>7. ASSUME NEW k \in Packages, RestoreScope(k) \/ RestoreDies(k) PROVE IndexInv'
  BY <1>7, RestoreIndex
<1>8. ASSUME NEW l \in held, ObserveAppend(l) PROVE IndexInv'
  BY <1>8, AppendIndex
<1>9. ASSUME NEW l \in intents, ForgetRetry(l) PROVE IndexInv'
  BY <1>9, RetryIndex
<1> QED
  BY <1>1, <1>2, <1>3, <1>4, <1>5, <1>6, <1>7, <1>8, <1>9 DEF Next

LEMMA IndexStays ==
    ASSUME ~Overlap, ~RestorePending, ~Resumed, SourcesApart, ExportsApart, ExportsHigh, HeldNotRedacted
    PROVE  Spec => [](ChainInv /\ IndexInv)
<1>1. Init => ChainInv /\ IndexInv
  BY InitChain, InitIndex
<1>2. ChainInv /\ IndexInv /\ [Next]_vars => ChainInv' /\ IndexInv'
  BY StepChain, StepIndex
<1> QED
  BY <1>1, <1>2, PTL DEF Spec

\* Then the index of an open brain is what its log rebuilds to, although live
\* writes do not move last_sequence and every open replays what is indexed:
\* catchUp() over lines already applied changes nothing.
THEOREM RebuildAgrees ==
    ASSUME ~Overlap, ~RestorePending, ~Resumed, SourcesApart, ExportsApart, ExportsHigh, HeldNotRedacted
    PROVE  Spec => []RebuildEquivalent
<1>1. Spec => [](ChainInv /\ IndexInv)
  BY IndexStays
<1>2. ChainInv /\ IndexInv => RebuildEquivalent
  BY DEF ChainInv, TypeInv, IndexInv, RebuildEquivalent
<1> QED
  BY <1>1, <1>2, PTL

\* And evidence a FORGET or FORGET.SCOPE was answered for stays ended through
\* reviews, retries, restarts, lost indexes and restores.
THEOREM ForgottenStaysUnserved ==
    ASSUME ~Overlap, ~RestorePending, ~Resumed, SourcesApart, ExportsApart, ExportsHigh, HeldNotRedacted
    PROVE  Spec => []NeverServedAgain
<1>1. Spec => [](ChainInv /\ IndexInv)
  BY IndexStays
<1>2. ASSUME ChainInv, IndexInv PROVE NeverServedAgain
  <2> SUFFICES ASSUME NEW r \in rows, r.id \in forgotten, up PROVE r.status # "accepted"
    BY DEF NeverServedAgain
  <2>1. rows = Rebuilt(log) /\ Withdrawn(forgotten, log)
    BY <1>2 DEF ChainInv, TypeInv, IndexInv
  <2>2. r.status \in Terminal
    BY <2>1 DEF Withdrawn
  <2> QED
    BY <2>2 DEF Terminal
<1> QED
  BY <1>1, <1>2, PTL
=============================================================================
