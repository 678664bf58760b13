------------------------- MODULE CompileQueueProofs -------------------------
(***************************************************************************)
(* What CompileQueue promises for any observations, facts, scopes, batch   *)
(* limits and ways of running a brain.                                     *)
(***************************************************************************)
EXTENDS CompileQueue, SequenceTheorems, FiniteSetTheorems, WellFoundedInduction, TLAPS

-----------------------------------------------------------------------------
(* The invariants.                                                         *)

\* A list of receipts holds one of an observation with an outcome.
Holds(s, o, x) == \E i \in DOMAIN s : s[i].obs = o /\ s[i].outcome = x

\* The versions on disk, and with those the batch in flight will append.
OnDisk  == {x.rec : x \in claims}
Written == OnDisk \cup (IF batch = None THEN {} ELSE batch.recs)

\* Appends and versions are numbered up to some point, claims up to minted.
Numbered ==
    /\ \E n \in Nat :
        /\ \A x \in claims : x.at <= n
        /\ \A r \in fp \cup Written : r.version <= n
    /\ \A r \in fp \cup Written : r.claim <= minted

\* A batch is in memory.
UpInv == batch # None => up

\* An erasure leaves no live observation, nor admits one.
AliveInv == \A o \in Obs : status[o] = "accepted" => ScopeOf[o] \notin erased

\* Nothing is known of an observation before it is made.
AbsentInv == \A o \in Obs : status[o] = "absent" =>
    /\ jobs[o] = "none" /\ (batch # None => o \notin batch.all)
    /\ \A x \in {"resolved", "failed"} : ~Holds(receipts, o, x)

\* A batch has receipts of its members alone, and one of every live member it
\* compiled.
OpsInv == batch # None =>
    /\ \A o \in Obs, x \in {"resolved", "failed"} : Holds(batch.ops, o, x) => o \in batch.all
    /\ \A o \in batch.all :
        o \notin batch.todo \cup batch.failed \cup {batch.cur} /\ status[o] = "accepted" =>
            Holds(batch.ops, o, "resolved")

\* A job is done when its receipt is on disk.
DoneInv == \A o \in Obs :
    status[o] = "accepted" /\ jobs[o] = "done" => Holds(receipts, o, "resolved")

QueueInv == TypeOK /\ Numbered /\ UpInv /\ AliveInv /\ AbsentInv /\ OpsInv /\ DoneInv

\* A failed job has its marker on disk or in the batch; without failures there
\* are neither.
MirrorInv ==
    /\ ~(Does("fails") /\ Does("dies")) =>
        \A o \in Obs : jobs[o] = "failed" =>
            Holds(receipts, o, "failed") \/ (batch # None /\ Holds(batch.ops, o, "failed"))
    /\ ~Does("fails") => \A o \in Obs :
        /\ jobs[o] # "failed" /\ ~Holds(receipts, o, "failed")
        /\ batch # None => ~Holds(batch.ops, o, "failed") /\ o \notin batch.failed

\* Neither a retry nor a lost marker parts a label from its job.
Settles == Does("fails") => MaxRetries = 0 /\ ~Does("dies")

Label(o) ==
    IF jobs[o] = "done" THEN "EXTRACTED" ELSE IF jobs[o] = "failed" THEN "FAILED" ELSE "unverified"

\* A member of the batch in flight has no receipt yet; in the batch it has the
\* one its job's state stands for once it was compiled.
MemberOf(o) ==
    /\ \A x \in {"resolved", "failed"} : ~Holds(receipts, o, x)
    /\ jobs[o] = IF o \in batch.failed THEN "failed" ELSE "running"
    /\ Holds(batch.ops, o, "failed") <=> o \in batch.failed
    /\ Holds(batch.ops, o, "resolved") => o \notin batch.failed
    /\ o \in batch.todo => o # batch.cur
    /\ o \in batch.todo \cup {batch.cur} => o \notin batch.failed /\ ~Holds(batch.ops, o, "resolved")

\* The receipts of an observation agree; while the brain is up its job has a
\* row, an open job has no receipt, and its label is its job's.
FreshOf(o) ==
    /\ ~(Holds(receipts, o, "resolved") /\ Holds(receipts, o, "failed"))
    /\ up => jobs[o] # "none"
    /\ up /\ jobs[o] \in {"pending", "running"} =>
        \A x \in {"resolved", "failed"} : ~Holds(receipts, o, x)
    /\ up /\ ~Does("restores") => fresh[o] = Label(o)
    /\ batch # None /\ o \in batch.all => MemberOf(o)

FreshInv == Settles => \A o \in Obs : status[o] = "accepted" => FreshOf(o)

\* A scope of the fact was erased.
Dead(f) == \E o \in Obs : FactOf[o] = f /\ ScopeOf[o] \in erased

Covered(o, R) ==
    FactOf[o] # None => \E r \in R : r.fact = FactOf[o] /\ (o \in r.from \/ r.owner = "user")

\* An index whose batch died is rebuilt.
Rebuilt == Does("dies") => Does("rebuilds")

\* A resolved observation is covered, and what the index knows of a live fact is
\* written or about to be.
LostInv == Rebuilt =>
    /\ \A o \in Obs : status[o] = "accepted" =>
        /\ Holds(receipts, o, "resolved") => Covered(o, OnDisk)
        /\ batch # None /\ Holds(batch.ops, o, "resolved") => Covered(o, Written)
    /\ up \/ ~Does("rebuilds") => \A r \in fp : r \in Written \/ Dead(r.fact)

\* Without overlaps a batch writes nothing of an erased scope.
ErasedInv == ~Does("overlaps") =>
    /\ \A r \in Written : ~Dead(r.fact)
    /\ batch # None /\ batch.cur # None => status[batch.cur] = "accepted"

Calm == ~Does("edits") /\ ~Does("overlaps") /\ Rebuilt

\* Every version is active, and a claim is of one fact.
ClaimsSound ==
    /\ \A r \in fp \cup Written : r.state = "active"
    /\ \A r, q \in fp \cup Written : r.claim = q.claim => r.fact = q.fact

\* A fact has one claim.
FactsSound == \A r, q \in Written : r.fact = q.fact => r.claim = q.claim

\* The index of a brain that is up has every claim written.
IndexKnows == up \/ ~Does("rebuilds") => \A r \in Written : \E q \in fp : q.claim = r.claim

OneInv == Calm => ClaimsSound /\ FactsSound /\ IndexKnows

-----------------------------------------------------------------------------
(* Facts about numbers, lists of receipts and the claim files.             *)

\* A bounded set of numbers has a largest one.
LEMMA LargestExists ==
    ASSUME NEW S \in SUBSET Nat, S # {}, NEW n \in Nat, \A x \in S : x <= n
    PROVE  \E m \in S : \A x \in S : x <= m
<1> DEFINE U == {u \in Nat : \A x \in S : x <= u}
<1>1. U \in SUBSET Nat /\ n \in U
  OBVIOUS
<1>2. PICK m \in U : \A u \in U : ~(<<u, m>> \in OpToRel(<, Nat))
  BY <1>1, NatLessThanWellFounded, WFMin
<1>0. m \in Nat /\ \A x \in S : x <= m
  BY <1>2
<1>a. \A u \in U : ~(u < m)
  BY <1>2 DEF OpToRel
<1>3. \A u \in U : m <= u
  BY <1>0, <1>a
<1>4. m \in S
  <2> SUFFICES ASSUME m \notin S PROVE FALSE
    OBVIOUS
  <2>1. \A x \in S : x < m
    BY <1>0
  <2>2. m # 0 /\ m - 1 \in Nat
    <3>1. PICK x \in S : TRUE
      OBVIOUS
    <3>2. x \in Nat /\ x < m
      BY <3>1, <2>1
    <3> QED
      BY <3>2, <1>0
  <2>3. m - 1 \in U
    BY <2>1, <2>2, <1>0
  <2> QED
    BY <1>3, <2>2, <2>3
<1> QED
  BY <1>2, <1>4

\* A set of numbers has a smallest one.
LEMMA SmallestExists ==
    ASSUME NEW S \in SUBSET Nat, S # {}
    PROVE  \E m \in S : \A x \in S : m <= x
<1>1. PICK m \in S : \A u \in S : ~(<<u, m>> \in OpToRel(<, Nat))
  BY NatLessThanWellFounded, WFMin
<1>2. \A u \in S : ~(u < m)
  BY <1>1 DEF OpToRel
<1>3. \A u \in S : m <= u
  BY <1>2
<1> QED
  BY <1>3

LEMMA HoldsEmpty ==
    ASSUME NEW o, NEW x
    PROVE  ~Holds(<<>>, o, x)
BY DEF Holds

LEMMA HoldsAppend ==
    ASSUME NEW s \in Seq(Receipts), NEW p \in Obs, NEW y \in {"resolved", "failed"}, NEW o, NEW x
    PROVE  /\ Append(s, [obs |-> p, outcome |-> y]) \in Seq(Receipts)
           /\ Holds(Append(s, [obs |-> p, outcome |-> y]), o, x) <=>
                Holds(s, o, x) \/ (o = p /\ x = y)
<1> DEFINE e == [obs |-> p, outcome |-> y]
           t == Append(s, e)
<1>1. e \in Receipts /\ e.obs = p /\ e.outcome = y
  BY DEF Receipts
<1>2. /\ t \in Seq(Receipts) /\ Len(t) = Len(s) + 1 /\ Len(s) \in Nat
      /\ \A i \in 1 .. Len(s) : t[i] = s[i]
      /\ t[Len(s) + 1] = e
  BY <1>1
<1>3. DOMAIN t = 1 .. (Len(s) + 1) /\ DOMAIN s = 1 .. Len(s)
  BY <1>2
<1> HIDE DEF e, t
<1>4. Holds(t, o, x) => Holds(s, o, x) \/ (o = p /\ x = y)
  BY <1>1, <1>2, <1>3 DEF Holds
<1>5. Holds(s, o, x) => Holds(t, o, x)
  BY <1>2, <1>3 DEF Holds
<1>6. o = p /\ x = y => Holds(t, o, x)
  <2>1. Len(s) + 1 \in DOMAIN t
    BY <1>2, <1>3
  <2> QED
    BY <2>1, <1>1, <1>2 DEF Holds
<1> QED
  BY <1>2, <1>4, <1>5, <1>6 DEF t, e

LEMMA HoldsConcat ==
    ASSUME NEW s \in Seq(Receipts), NEW t \in Seq(Receipts), NEW o, NEW x
    PROVE  /\ s \o t \in Seq(Receipts)
           /\ Holds(s \o t, o, x) <=> Holds(s, o, x) \/ Holds(t, o, x)
<1> DEFINE u == s \o t
<1>1. /\ u \in Seq(Receipts) /\ Len(u) = Len(s) + Len(t)
      /\ Len(s) \in Nat /\ Len(t) \in Nat
      /\ \A i \in 1 .. Len(s) + Len(t) :
            u[i] = IF i <= Len(s) THEN s[i] ELSE t[i - Len(s)]
  BY ConcatProperties, LenProperties
<1>2. DOMAIN u = 1 .. (Len(s) + Len(t)) /\ DOMAIN s = 1 .. Len(s) /\ DOMAIN t = 1 .. Len(t)
  BY <1>1, LenProperties
<1> HIDE DEF u
<1>3. Holds(s, o, x) => Holds(u, o, x)
  BY <1>1, <1>2 DEF Holds
<1>4. Holds(t, o, x) => Holds(u, o, x)
  <2> SUFFICES ASSUME NEW i \in DOMAIN t, t[i].obs = o, t[i].outcome = x
               PROVE  Holds(u, o, x)
    BY DEF Holds
  <2>1. Len(s) + i \in DOMAIN u /\ u[Len(s) + i] = t[i]
    BY <1>1, <1>2
  <2> QED
    BY <2>1 DEF Holds
<1>5. Holds(u, o, x) => Holds(s, o, x) \/ Holds(t, o, x)
  <2> SUFFICES ASSUME NEW i \in DOMAIN u, u[i].obs = o, u[i].outcome = x
               PROVE  Holds(s, o, x) \/ Holds(t, o, x)
    BY DEF Holds
  <2>1. CASE i <= Len(s)
    BY <2>1, <1>1, <1>2 DEF Holds
  <2>2. CASE ~(i <= Len(s))
    <3>1. i - Len(s) \in DOMAIN t /\ u[i] = t[i - Len(s)]
      BY <2>2, <1>1, <1>2
    <3> QED
      BY <3>1 DEF Holds
  <2> QED
    BY <2>1, <2>2
<1> QED
  BY <1>1, <1>3, <1>4, <1>5 DEF u

\* The last receipt of an observation is a receipt of it, and the only kind it
\* has is the last.
LEMMA LastReceiptHolds ==
    ASSUME receipts \in Seq(Receipts), NEW o, NEW x
    PROVE  LastReceipt(o, x) => Holds(receipts, o, x)
<1> SUFFICES ASSUME NEW i \in DOMAIN receipts, receipts[i].obs = o,
                    \A j \in i .. Len(receipts) : receipts[j].obs = o => receipts[j].outcome = x
             PROVE  Holds(receipts, o, x)
  BY DEF LastReceipt
<1>1. DOMAIN receipts = 1 .. Len(receipts) /\ Len(receipts) \in Nat
  BY LenProperties
<1>2. i \in i .. Len(receipts)
  BY <1>1
<1> QED
  BY <1>2 DEF Holds

LEMMA OnlyReceiptIsLast ==
    ASSUME receipts \in Seq(Receipts), NEW o, NEW x \in {"resolved", "failed"},
           Holds(receipts, o, x),
           \A y \in {"resolved", "failed"} : y # x => ~Holds(receipts, o, y)
    PROVE  LastReceipt(o, x)
<1>1. DOMAIN receipts = 1 .. Len(receipts) /\ Len(receipts) \in Nat
  BY LenProperties
<1>2. PICK i \in DOMAIN receipts : receipts[i].obs = o
  BY DEF Holds
<1>3. ASSUME NEW j \in i .. Len(receipts), receipts[j].obs = o PROVE receipts[j].outcome = x
  <2>1. j \in DOMAIN receipts
    BY <1>1
  <2>2. receipts[j] \in Receipts
    BY <2>1, <1>1, ElementOfSeq
  <2>3. receipts[j].outcome \in {"resolved", "failed"}
    BY <2>2 DEF Receipts
  <2> QED
    BY <2>1, <2>3, <1>3 DEF Holds
<1> QED
  BY <1>2, <1>3 DEF LastReceipt

\* Outcome() answers with a receipt the observation has.
LEMMA OutcomeHolds ==
    ASSUME receipts \in Seq(Receipts), NEW o
    PROVE  /\ \A x \in {"resolved", "failed"} : Outcome(o) = x => Holds(receipts, o, x)
           /\ Outcome(o) \in {"resolved", "failed", None}
BY LastReceiptHolds, CompileAssumption DEF Outcome

\* The lines of an append are behind all others.
LEMMA AppendedLines ==
    ASSUME TypeOK, Numbered, NEW R
    PROVE  \E k \in Nat : Appended(R) = claims \cup {[at |-> k, rec |-> r] : r \in R}
<1> DEFINE S == {0} \cup {x.at : x \in claims}
<1>1. PICK n \in Nat : \A x \in claims : x.at <= n
  BY DEF Numbered
<1>2. S \in SUBSET Nat /\ S # {} /\ \A x \in S : x <= n
  BY <1>1 DEF TypeOK, Lines
<1>3. \E m \in S : \A x \in S : x <= m
  BY <1>2, LargestExists
<1>4. \E m \in S : \A x \in S : m >= x
  BY <1>2, <1>3
<1>5. Max(S) \in S
  BY <1>4 DEF Max
<1>6. 1 + Max(S) \in Nat
  BY <1>5, <1>2
<1> QED
  BY <1>6 DEF Appended

LEMMA OnDiskAppended ==
    ASSUME TypeOK, Numbered, NEW R, claims' = Appended(R)
    PROVE  OnDisk' = OnDisk \cup R
<1>1. PICK k \in Nat : claims' = claims \cup {[at |-> k, rec |-> r] : r \in R}
  BY AppendedLines
<1>2. \A r \in R : [at |-> k, rec |-> r].rec = r
  OBVIOUS
<1>3. \A r : r \in OnDisk' <=> r \in OnDisk \/ r \in R
  BY <1>1, <1>2, Zenon DEF OnDisk
<1> QED
  BY <1>3

\* What production makes: a first version, or the next one of a row.
LEMMA ProducedShape ==
    ASSUME TypeOK, NEW o \in Obs, NEW r \in Produced(o)
    PROVE  /\ FactOf[o] # None /\ r.fact = FactOf[o] /\ o \in r.from
           /\ r.state = "active" /\ r.owner # "user"
           /\ \/ ActiveByFingerprint(FactOf[o]) = {} /\ r = Minted(o) /\ Produced(o) = {r}
              \/ /\ ActiveByFingerprint(FactOf[o]) # {}
                 /\ \E q \in ActiveByFingerprint(FactOf[o]) :
                        r = [q EXCEPT !.version = @ + 1, !.from = @ \cup {o}, !.by = o]
<1>1. \A q \in ActiveByFingerprint(FactOf[o]) :
        q \in Records /\ q.fact = FactOf[o] /\ q.state = "active"
  BY DEF TypeOK, ActiveByFingerprint
<1>2. FactOf[o] # None
  BY DEF Produced
<1>3. CASE ActiveByFingerprint(FactOf[o]) = {}
  BY <1>2, <1>3 DEF Produced, Minted
<1>4. CASE ActiveByFingerprint(FactOf[o]) # {}
  <2>1. PICK q \in ActiveByFingerprint(FactOf[o]) :
          q.owner # "user" /\ r = [q EXCEPT !.version = @ + 1, !.from = @ \cup {o}, !.by = o]
    BY <1>2, <1>4 DEF Produced
  <2> QED
    BY <2>1, <1>1, <1>2, <1>4 DEF Records
<1> QED
  BY <1>3, <1>4

LEMMA ProducedTyped ==
    ASSUME TypeOK, Numbered, NEW o \in Obs,
           minted + Cardinality({r \in Produced(o) : r.claim > minted}) <= MaxClaims
    PROVE  LET m == minted + Cardinality({r \in Produced(o) : r.claim > minted})
           IN  /\ m \in 0 .. MaxClaims /\ minted <= m
               /\ \A r \in Produced(o) : r \in Records /\ r.claim <= m
<1> DEFINE C == {r \in Produced(o) : r.claim > minted}
           m == minted + Cardinality(C)
<1>0. minted \in Nat /\ MaxClaims \in Nat /\ minted <= MaxClaims
  BY CompileAssumption DEF TypeOK
<1>1. CASE \E r \in Produced(o) : r = Minted(o) /\ Produced(o) = {r}
  <2>1. C = {Minted(o)}
    BY <1>1, <1>0 DEF Minted
  <2>2. Cardinality(C) = 1
    BY <2>1, FS_Singleton
  <2>3. m = minted + 1 /\ m <= MaxClaims
    BY <2>2
  <2>4. FactOf[o] # None
    BY <1>1, ProducedShape
  <2>5. Minted(o) \in Records /\ Minted(o).claim = minted + 1
    BY <2>3, <2>4, <1>0 DEF Minted, Records, Facts
  <2> QED
    BY <2>3, <2>5, <1>0, <1>1
<1>2. CASE ~(\E r \in Produced(o) : r = Minted(o) /\ Produced(o) = {r})
  <2>1. ASSUME NEW r \in Produced(o) PROVE r \in Records /\ r.claim <= minted
    <3>1. PICK q \in ActiveByFingerprint(FactOf[o]) :
            r = [q EXCEPT !.version = @ + 1, !.from = @ \cup {o}, !.by = o]
      BY <1>2, ProducedShape
    <3>2. q \in fp /\ q \in Records
      BY <3>1 DEF ActiveByFingerprint, TypeOK
    <3>3. q.claim <= minted
      BY <3>2 DEF Numbered
    <3>5. q.version + 1 \in Nat /\ q.from \cup {o} \in SUBSET Obs
      BY <3>2 DEF Records
    <3>6. q = [claim |-> q.claim, fact |-> q.fact, version |-> q.version, state |-> q.state,
               owner |-> q.owner, from |-> q.from, by |-> q.by]
      BY <3>2 DEF Records
    <3>4. /\ r = [claim |-> q.claim, fact |-> q.fact, version |-> q.version + 1, state |-> q.state,
                  owner |-> q.owner, from |-> q.from \cup {o}, by |-> o]
      BY <3>1, <3>6
    <3> QED
      BY <3>2, <3>3, <3>4, <3>5 DEF Records
  <2>2. C = {}
    <3> SUFFICES ASSUME NEW r \in C PROVE FALSE
      OBVIOUS
    <3>1. r \in Records /\ r.claim <= minted /\ r.claim > minted
      BY <2>1
    <3>2. r.claim \in Nat
      BY <3>1 DEF Records
    <3> QED
      BY <3>1, <3>2, <1>0
  <2>3. Cardinality(C) = 0
    BY <2>2, FS_EmptySet
  <2>4. m = minted
    BY <2>3, <1>0
  <2> QED
    BY <2>1, <2>4, <1>0
<1> QED
  BY <1>1, <1>2

-----------------------------------------------------------------------------
(* Types.                                                                  *)

\* Steps that append once and number a version after one that is known keep
\* the numbers bounded.
LEMMA NumbersGrow ==
    ASSUME TypeOK, Numbered, TypeOK', minted <= minted', NEW k \in Nat,
           \A x \in claims' : x \in claims \/ x.at = k,
           \A r \in (fp \cup Written)' :
                r \in fp \cup Written
                    \/ (r.claim <= minted' /\ (r.version = 1 \/ \E q \in fp \cup Written : r.version = q.version + 1))
    PROVE  Numbered'
<1>1. PICK n \in Nat : /\ \A x \in claims : x.at <= n
                       /\ \A r \in fp \cup Written : r.version <= n
  BY DEF Numbered
<1>2. n + k + 1 \in Nat
  OBVIOUS
<1>3. \A r \in fp \cup Written : r \in Records
  BY DEF TypeOK, Written, OnDisk, Lines, Batches
<1>4. minted \in Nat /\ minted' \in Nat
  BY CompileAssumption DEF TypeOK
<1>5. ASSUME NEW x \in claims' PROVE x.at <= n + k + 1
  BY <1>1 DEF TypeOK, Lines
<1>6. ASSUME NEW r \in (fp \cup Written)' PROVE r.version <= n + k + 1 /\ r.claim <= minted'
  <2>1. CASE r \in fp \cup Written
    <3>1. r.version \in Nat /\ r.claim \in Nat /\ r.claim <= minted /\ r.version <= n
      BY <2>1, <1>1, <1>3 DEF Records, Numbered
    <3> QED
      BY <3>1, <1>4
  <2>2. CASE r.claim <= minted' /\ r.version = 1
    BY <2>2
  <2>3. CASE r.claim <= minted' /\ \E q \in fp \cup Written : r.version = q.version + 1
    <3>1. PICK q \in fp \cup Written : r.version = q.version + 1
      BY <2>3
    <3>2. q.version \in Nat /\ q.version <= n
      BY <1>1, <1>3 DEF Records
    <3> QED
      BY <3>1, <3>2, <2>3
  <2> QED
    BY <1>6, <2>1, <2>2, <2>3
<1> QED
  BY <1>2, <1>5, <1>6 DEF Numbered

\* An append keeps the files well typed.
LEMMA AppendTyped ==
    ASSUME TypeOK, Numbered, NEW R, \A r \in R : r \in Records, claims' = Appended(R)
    PROVE  /\ \A x \in claims' : x \in Lines
           /\ \E k \in Nat : \A x \in claims' : x \in claims \/ x.at = k
<1>1. PICK k \in Nat : claims' = claims \cup {[at |-> k, rec |-> r] : r \in R}
  BY AppendedLines
<1>2. \A x \in claims' : x \in claims \/ \E r \in R : x = [at |-> k, rec |-> r]
  BY <1>1
<1> QED
  BY <1>2 DEF TypeOK, Lines

LEMMA InitType == Init => TypeOK /\ Numbered
<1> SUFFICES ASSUME Init PROVE TypeOK /\ Numbered
  OBVIOUS
<1> USE DEF Init
<1>1. host.deaths \in Nat
  BY CompileAssumption
<1>4. 0 \in 0 .. MaxClaims /\ 0 \in 0 .. host.deaths
  BY <1>1, CompileAssumption
<1>5. receipts \in Seq(Receipts)
  OBVIOUS
<1>2. TypeOK
  BY <1>4, <1>5 DEF TypeOK
<1>3. 0 \in Nat /\ fp \cup Written = {} /\ claims = {}
  BY DEF Written, OnDisk
<1> QED
  BY <1>2, <1>3 DEF Numbered

\* The steps that neither write claims nor index rows.
LEMMA QuietType ==
    ASSUME TypeOK, Numbered, UNCHANGED <<claims, fp, minted>>,
           batch' # None => (batch # None /\ batch'.recs = batch.recs) \/ batch'.recs = {},
           TypeOK'
    PROVE  Numbered'
<1>1. OnDisk' = OnDisk
  BY DEF OnDisk
<1>2. \A r \in (fp \cup Written)' : r \in fp \cup Written
  BY <1>1 DEF Written
<1>3. minted <= minted'
  BY CompileAssumption DEF TypeOK
<1> QED
  BY <1>2, <1>3, NumbersGrow

\* Dying keeps the counters well typed.
LEMMA DieTyped ==
    ASSUME TypeOK, Die, host' = host
    PROVE  deaths' \in 0 .. host'.deaths /\ batch' = None /\ up' = FALSE
<1>1. host.deaths \in Nat
  BY CompileAssumption DEF TypeOK
<1> QED
  BY <1>1 DEF TypeOK, Die

LEMMA UpsertTyped ==
    ASSUME NEW I, \A q \in I : q \in Records, NEW r \in Records
    PROVE  \A q \in Upsert(I, r) : q \in Records /\ (q \in I \/ q = r)
BY DEF Upsert

LEMMA TypeStep == TypeOK /\ Numbered /\ [Next]_vars => TypeOK' /\ Numbered'
<1> SUFFICES ASSUME TypeOK, Numbered, [Next]_vars PROVE TypeOK' /\ Numbered'
  OBVIOUS
<1>0. None \notin Obs
  BY CompileAssumption
<1>1. CASE Open
  <2>0. \A o \in Obs : Reconciled(o) \in {"none", "pending", "running", "done", "failed"}
    BY DEF Reconciled, TypeOK
  <2>1. \A o \in Obs : Relabelled(o) \in {"gone", "unverified", "EXTRACTED", "FAILED"}
    BY DEF Relabelled
  <2>2. \A r \in fp' : r \in fp \/ r \in OnDisk
    BY <1>1 DEF Open, CatchUp, Latest, OnDisk
  <2>3. \A r \in OnDisk : r \in Records
    BY DEF OnDisk, TypeOK, Lines
  <2>4. \A r \in fp' : r \in Records
    BY <2>2, <2>3 DEF TypeOK
  <2>5. jobs' \in [Obs -> {"none", "pending", "running", "done", "failed"}]
    BY <1>1, <2>0 DEF Open
  <2>6. fresh' \in [Obs -> {"gone", "unverified", "EXTRACTED", "FAILED"}]
    BY <1>1, <2>1 DEF Open
  <2>7. TypeOK'
    BY <1>1, <2>4, <2>5, <2>6 DEF Open, TypeOK
  <2>8. Written' = Written
    BY <1>1 DEF Open, Written, OnDisk
  <2>9. \A r \in (fp \cup Written)' : r \in fp \cup Written
    BY <2>2, <2>8 DEF Written
  <2>10. minted <= minted' /\ claims' = claims
    BY <1>1, CompileAssumption DEF Open, TypeOK
  <2> QED
    BY <2>7, <2>9, <2>10, NumbersGrow
<1>2. CASE Close
  <2>1. TypeOK'
    BY <1>2 DEF Close, TypeOK
  <2> QED
    BY <1>2, <2>1, QuietType DEF Close
<1>3. CASE DieInBatch
  <2>1. TypeOK'
    BY <1>3, DieTyped DEF DieInBatch, TypeOK
  <2>2. batch' = None /\ UNCHANGED <<claims, fp, minted>>
    BY <1>3 DEF DieInBatch, Die
  <2> QED
    BY <2>1, <2>2, QuietType
<1>4. CASE WipeQueue
  <2>1. TypeOK'
    BY <1>4 DEF WipeQueue, TypeOK
  <2> QED
    BY <1>4, <2>1, QuietType DEF WipeQueue
<1>5. CASE RestoreResync
  <2>1. TypeOK'
    BY <1>5 DEF RestoreResync, TypeOK
  <2> QED
    BY <1>5, <2>1, QuietType DEF RestoreResync
<1>6. ASSUME NEW o \in Obs, Observe(o) PROVE TypeOK' /\ Numbered'
  <2>1. host' = host /\ UNCHANGED <<claims, fp, minted, receipts, erased>>
    BY <1>6 DEF Observe
  <2>2. status' \in [Obs -> {"absent", "accepted", "terminal"}]
    BY <1>6 DEF Observe, TypeOK
  <2>3. CASE UNCHANGED <<batch, up, deaths>>
    <3>1. /\ jobs' \in [Obs -> {"none", "pending", "running", "done", "failed"}]
          /\ fresh' \in [Obs -> {"gone", "unverified", "EXTRACTED", "FAILED"}]
      BY <1>6 DEF Observe, TypeOK
    <3>2. TypeOK'
      BY <2>1, <2>2, <2>3, <3>1 DEF TypeOK
    <3> QED
      BY <2>1, <2>3, <3>2, QuietType
  <2>4. CASE Die /\ UNCHANGED <<fresh, jobs>>
    <3>1. deaths' \in 0 .. host'.deaths /\ batch' = None /\ up' = FALSE
      BY <2>1, <2>4, DieTyped
    <3>2. TypeOK'
      BY <2>1, <2>2, <2>4, <3>1 DEF TypeOK
    <3> QED
      BY <2>1, <3>1, <3>2, QuietType
  <2> QED
    BY <1>6, <2>3, <2>4 DEF Observe
<1>7. ASSUME NEW o \in Obs, Forget(o) PROVE TypeOK' /\ Numbered'
  <2>1. TypeOK'
    BY <1>7 DEF Forget, TypeOK
  <2> QED
    BY <1>7, <2>1, QuietType DEF Forget
<1>8. ASSUME NEW o \in Obs, Retry(o) PROVE TypeOK' /\ Numbered'
  <2>1. TypeOK'
    BY <1>8 DEF Retry, TypeOK
  <2> QED
    BY <1>8, <2>1, QuietType DEF Retry
<1>9. ASSUME NEW o \in Obs, SkipOne(o) PROVE TypeOK' /\ Numbered'
  <2>1. jobs' \in [Obs -> {"none", "pending", "running", "done", "failed"}]
    BY <1>9 DEF SkipOne, Marked, TypeOK
  <2>2. batch \in Batches /\ batch' \in Batches /\ batch'.recs = batch.recs /\ batch'.all = batch.all
        /\ batch'.todo = batch.todo \ {o} /\ batch'.failed = batch.failed /\ batch'.cur = batch.cur
    BY <1>9 DEF SkipOne, Batches, TypeOK
  <2>3. TypeOK'
    BY <1>9, <2>1, <2>2 DEF SkipOne, TypeOK
  <2> QED
    BY <1>9, <2>2, <2>3, QuietType DEF SkipOne
<1>10. ASSUME NEW o \in Obs, StartOne(o) PROVE TypeOK' /\ Numbered'
  <2>2. batch \in Batches /\ batch' \in Batches /\ batch'.recs = batch.recs /\ batch'.all = batch.all
        /\ batch'.todo = batch.todo \ {o} /\ batch'.failed = batch.failed /\ batch'.cur = o
    BY <1>10 DEF StartOne, Batches, TypeOK
  <2>3. TypeOK'
    BY <1>10, <2>2 DEF StartOne, TypeOK
  <2> QED
    BY <1>10, <2>2, <2>3, QuietType DEF StartOne
<1>11. ASSUME NEW s \in Scopes, Erase(s) PROVE TypeOK' /\ Numbered'
  <2>1. /\ jobs' \in [Obs -> {"none", "pending", "running", "done", "failed"}]
        /\ fresh' \in [Obs -> {"gone", "unverified", "EXTRACTED", "FAILED"}]
        /\ status' \in [Obs -> {"absent", "accepted", "terminal"}]
    BY <1>11 DEF Erase, TypeOK
  <2>2. fp' \subseteq fp /\ claims' \subseteq claims /\ erased' \subseteq Scopes
        /\ UNCHANGED <<host, receipts, batch, minted, up, deaths>>
    BY <1>11 DEF Erase, TypeOK
  <2>3. TypeOK'
    BY <2>1, <2>2 DEF TypeOK
  <2>4. \A r \in (fp \cup Written)' : r \in fp \cup Written
    BY <2>2 DEF Written, OnDisk
  <2>5. minted <= minted'
    BY <2>2, CompileAssumption DEF TypeOK
  <2> QED
    BY <2>2, <2>3, <2>4, <2>5, NumbersGrow
<1>12. ASSUME NEW c \in 1 .. MaxClaims, ForgetClaim(c) \/ ReviseClaim(c) PROVE TypeOK' /\ Numbered'
  <2>1. PICK r \in Editable(c) :
            \/ claims' = Appended({[r EXCEPT !.version = @ + 1, !.state = "forgotten", !.by = None]})
            \/ claims' = Appended({[r EXCEPT !.version = @ + 1, !.owner = "user", !.by = None]})
    BY <1>12 DEF ForgetClaim, ReviseClaim
  <2>2. r \in OnDisk /\ r \in Records
    BY DEF Editable, Latest, OnDisk, TypeOK, Lines
  <2>3. PICK q : claims' = Appended({q}) /\ q \in Records /\ q.claim = r.claim /\ q.version = r.version + 1
    <3>1. r = [claim |-> r.claim, fact |-> r.fact, version |-> r.version, state |-> r.state,
               owner |-> r.owner, from |-> r.from, by |-> r.by] /\ r.version + 1 \in Nat
      BY <2>2 DEF Records
    <3>2. \A q \in {[r EXCEPT !.version = @ + 1, !.state = "forgotten", !.by = None],
                    [r EXCEPT !.version = @ + 1, !.owner = "user", !.by = None]} :
            q \in Records /\ q.claim = r.claim /\ q.version = r.version + 1
      BY <2>2, <3>1 DEF Records
    <3> QED
      BY <2>1, <3>2
  <2>4. UNCHANGED <<host, status, jobs, fresh, fp, receipts, batch, erased, minted, up, deaths>>
    BY <1>12 DEF ForgetClaim, ReviseClaim
  <2>5. /\ \A x \in claims' : x \in Lines
        /\ \E k \in Nat : \A x \in claims' : x \in claims \/ x.at = k
    BY <2>3, AppendTyped
  <2>6. TypeOK'
    BY <2>4, <2>5 DEF TypeOK
  <2>7. OnDisk' = OnDisk \cup {q}
    BY <2>3, OnDiskAppended
  <2>8. q.claim <= minted /\ minted <= minted'
    BY <2>2, <2>3, <2>4, CompileAssumption DEF Numbered, Written, TypeOK
  <2>9. \A x \in (fp \cup Written)' : x \in fp \cup Written \/
            (x.claim <= minted' /\ \E y \in fp \cup Written : x.version = y.version + 1)
    BY <2>2, <2>3, <2>4, <2>7, <2>8 DEF Written
  <2> QED
    BY <2>5, <2>6, <2>8, <2>9, NumbersGrow
<1>13. CASE ClaimBatch
  <2>1. PICK S \in SUBSET Obs :
            /\ jobs' = [o \in Obs |-> IF o \in S THEN "running" ELSE jobs[o]]
            /\ batch' = [all |-> S, todo |-> S, cur |-> None, failed |-> {}, recs |-> {}, ops |-> <<>>]
    BY <1>13 DEF ClaimBatch
  <2>2. batch' \in Batches /\ batch'.recs = {} /\ batch'.all = S /\ batch'.todo = S
        /\ batch'.cur = None /\ batch'.failed = {}
    BY <2>1 DEF Batches
  <2>3. TypeOK'
    BY <1>13, <2>1, <2>2 DEF ClaimBatch, TypeOK
  <2> QED
    BY <1>13, <2>2, <2>3, QuietType DEF ClaimBatch
<1>14. CASE FinishOne
  <2> DEFINE o == batch.cur
             new == Produced(o)
             m == minted + Cardinality({r \in new : r.claim > minted})
  <2>1. o \in Obs /\ batch \in Batches
    BY <1>14 DEF FinishOne, TypeOK, Batches
  <2>2. m \in 0 .. MaxClaims /\ minted <= m /\ minted' = m
        /\ \A r \in new : r \in Records /\ r.claim <= m
    BY <1>14, <2>1, ProducedTyped DEF FinishOne
  <2> HIDE DEF m, new
  <2>3. /\ batch' = [batch EXCEPT !.cur = None, !.recs = @ \cup new,
                        !.ops = Append(@, [obs |-> o, outcome |-> "resolved"])]
        /\ (new = {} /\ fp' = fp) \/ \E r \in new : fp' = Upsert(fp, r)
    BY <1>14 DEF FinishOne, new
  <2>4. Append(batch.ops, [obs |-> o, outcome |-> "resolved"]) \in Seq(Receipts)
    BY <2>1, HoldsAppend DEF Batches
  <2> HIDE DEF o
  <2>5. batch' \in Batches /\ batch'.recs = batch.recs \cup new /\ batch'.all = batch.all
        /\ batch'.todo = batch.todo /\ batch'.failed = batch.failed /\ batch'.cur = None
    BY <2>1, <2>2, <2>3, <2>4 DEF Batches
  <2>6. \A q \in fp' : q \in Records /\ (q \in fp \/ q \in new)
    BY <2>2, <2>3, UpsertTyped DEF TypeOK
  <2>7. TypeOK'
    BY <1>14, <2>2, <2>5, <2>6 DEF FinishOne, TypeOK
  <2>8. OnDisk' = OnDisk /\ claims' = claims
    BY <1>14 DEF FinishOne, OnDisk
  <2>9. \A r \in new : r.version = 1 \/ \E q \in fp : r.version = q.version + 1
    <3> SUFFICES ASSUME NEW r \in new PROVE r.version = 1 \/ \E q \in fp : r.version = q.version + 1
      OBVIOUS
    <3>1. CASE r = Minted(o)
      BY <3>1 DEF Minted
    <3>2. CASE r # Minted(o)
      <4>1. PICK q \in ActiveByFingerprint(FactOf[o]) :
              r = [q EXCEPT !.version = @ + 1, !.from = @ \cup {o}, !.by = o]
        BY <3>2, <2>1, ProducedShape DEF new, o
      <4>2. q \in fp /\ q \in Records
        BY DEF ActiveByFingerprint, TypeOK
      <4> QED
        BY <4>1, <4>2 DEF Records
    <3> QED
      BY <3>1, <3>2
  <2>10. \A r \in (fp \cup Written)' : r \in fp \cup Written \/ r \in new
    BY <1>14, <2>5, <2>6, <2>8 DEF Written, FinishOne
  <2> QED
    BY <2>2, <2>7, <2>8, <2>9, <2>10, NumbersGrow
<1>15. CASE FailOne
  <2> DEFINE o == batch.cur
  <2>1. o \in Obs /\ batch \in Batches
    BY <1>15 DEF FailOne, TypeOK, Batches
  <2>2. batch' = [batch EXCEPT !.cur = None, !.failed = @ \cup {o},
                     !.ops = Append(@, [obs |-> o, outcome |-> "failed"])]
    BY <1>15 DEF FailOne
  <2>3. Append(batch.ops, [obs |-> o, outcome |-> "failed"]) \in Seq(Receipts)
    BY <2>1, HoldsAppend DEF Batches
  <2>4. o \in batch.all
    BY <1>15 DEF FailOne, TypeOK
  <2> HIDE DEF o
  <2>5. batch' \in Batches /\ batch'.recs = batch.recs /\ batch'.all = batch.all
        /\ batch'.todo = batch.todo /\ batch'.failed = batch.failed \cup {o} /\ batch'.cur = None
    BY <2>1, <2>2, <2>3 DEF Batches
  <2>6. /\ jobs' \in [Obs -> {"none", "pending", "running", "done", "failed"}]
        /\ fresh' \in [Obs -> {"gone", "unverified", "EXTRACTED", "FAILED"}]
    BY <1>15 DEF FailOne, Marked, Labelled, TypeOK
  <2>7. TypeOK'
    BY <1>15, <2>4, <2>5, <2>6 DEF FailOne, TypeOK
  <2> QED
    BY <1>15, <2>5, <2>7, QuietType DEF FailOne
<1>16. ASSUME NEW n, Commit \/ CommitDies(n) PROVE TypeOK' /\ Numbered'
  <2>1. batch # None /\ batch \in Batches /\ claims' = Appended(batch.recs) /\ batch' = None
        /\ UNCHANGED <<host, status, fp, erased, minted>>
    BY <1>16 DEF Commit, CommitDies, Die, TypeOK
  <2>2. receipts \in Seq(Receipts) /\ receipts \o batch.ops \in Seq(Receipts)
    BY <2>1, HoldsConcat DEF TypeOK, Batches
  <2>3. receipts' \in Seq(Receipts)
    BY <1>16, <2>2 DEF Commit, CommitDies
  <2>4. /\ jobs' \in [Obs -> {"none", "pending", "running", "done", "failed"}]
        /\ fresh' \in [Obs -> {"gone", "unverified", "EXTRACTED", "FAILED"}]
    BY <1>16 DEF Commit, CommitDies, Marked, Labelled, TypeOK
  <2>5. deaths' \in 0 .. host'.deaths /\ up' \in BOOLEAN
    BY <1>16, <2>1, DieTyped DEF Commit, CommitDies, TypeOK
  <2>6. \A r \in batch.recs : r \in Records
    BY <2>1 DEF Batches
  <2>7. /\ \A x \in claims' : x \in Lines
        /\ \E k \in Nat : \A x \in claims' : x \in claims \/ x.at = k
    BY <2>1, <2>6, AppendTyped
  <2>8. TypeOK'
    BY <2>1, <2>3, <2>4, <2>5, <2>7 DEF TypeOK
  <2>9. Written' = Written
    BY <2>1, OnDiskAppended DEF Written
  <2>10. minted <= minted'
    BY <2>1, CompileAssumption DEF TypeOK
  <2> QED
    BY <2>1, <2>7, <2>8, <2>9, <2>10, NumbersGrow
<1>17. CASE UNCHANGED vars
  <2>1. TypeOK'
    BY <1>17 DEF vars, TypeOK
  <2> QED
    BY <1>17, <2>1, QuietType DEF vars
<1> QED
  BY <1>1, <1>2, <1>3, <1>4, <1>5, <1>6, <1>7, <1>8, <1>9, <1>10, <1>11, <1>12, <1>13,
     <1>14, <1>15, <1>16, <1>17 DEF Next

\* Jobs, labels, index rows, claim lines, receipts and the batch in flight of
\* the worker keep their types, and no claim id above the bound is minted.
THEOREM TypeCorrect == Spec => []TypeOK
<1>1. Spec => [](TypeOK /\ Numbered)
  BY InitType, TypeStep, PTL DEF Spec
<1> QED
  BY <1>1, PTL

-----------------------------------------------------------------------------
(* What the steps of a batch do to it, to the receipts and to the rows.     *)

LEMMA ClaimShape ==
    ASSUME TypeOK, ClaimBatch
    PROVE  \E S \in SUBSET Obs :
            /\ \A o \in S : jobs[o] = "pending"
            /\ \A o \in Obs : jobs'[o] = IF o \in S THEN "running" ELSE jobs[o]
            /\ batch'.all = S /\ batch'.todo = S /\ batch'.cur = None
            /\ batch'.failed = {} /\ batch'.recs = {}
            /\ \A o, x : ~Holds(batch'.ops, o, x)
<1>1. PICK S \in SUBSET {o \in Obs : jobs[o] = "pending"} :
            /\ jobs' = [o \in Obs |-> IF o \in S THEN "running" ELSE jobs[o]]
            /\ batch' = [all |-> S, todo |-> S, cur |-> None, failed |-> {}, recs |-> {}, ops |-> <<>>]
  BY DEF ClaimBatch
<1>2. batch'.ops = <<>>
  BY <1>1
<1> QED
  BY <1>1, <1>2, HoldsEmpty

LEMMA SkipShape ==
    ASSUME TypeOK, NEW o \in Obs, SkipOne(o)
    PROVE  /\ batch' # None /\ batch'.all = batch.all /\ batch'.todo = batch.todo \ {o} /\ batch'.cur = batch.cur
           /\ batch'.failed = batch.failed /\ batch'.recs = batch.recs /\ batch'.ops = batch.ops
           /\ \A p \in Obs : jobs'[p] = IF p = o /\ jobs[o] # "none" THEN "done" ELSE jobs[p]
<1>1. batch \in Batches /\ batch' = [batch EXCEPT !.todo = @ \ {o}]
  BY DEF SkipOne, TypeOK
<1>2. batch' \in Batches
  BY <1>1 DEF Batches
<1> QED
  BY <1>1, <1>2, NoBatchAssumption DEF SkipOne, Marked, Batches

LEMMA StartShape ==
    ASSUME TypeOK, NEW o \in Obs, StartOne(o)
    PROVE  /\ batch' # None /\ batch'.all = batch.all /\ batch'.todo = batch.todo \ {o} /\ batch'.cur = o
           /\ batch'.failed = batch.failed /\ batch'.recs = batch.recs /\ batch'.ops = batch.ops
<1>1. batch \in Batches /\ batch' = [batch EXCEPT !.todo = @ \ {o}, !.cur = o]
  BY DEF StartOne, TypeOK
<1>2. batch' \in Batches
  BY <1>1 DEF Batches
<1> QED
  BY <1>1, <1>2, NoBatchAssumption DEF Batches

LEMMA FinishShape ==
    ASSUME TypeOK, Numbered, FinishOne
    PROVE  /\ batch' # None /\ batch.cur \in Obs /\ batch.cur \in batch.all
           /\ batch'.all = batch.all /\ batch'.todo = batch.todo /\ batch'.cur = None
           /\ batch'.failed = batch.failed /\ batch'.recs = batch.recs \cup Produced(batch.cur)
           /\ \A p, x : Holds(batch'.ops, p, x) <=>
                    Holds(batch.ops, p, x) \/ (p = batch.cur /\ x = "resolved")
<1> DEFINE o == batch.cur
<1>1. o \in Obs /\ o \in batch.all /\ batch \in Batches /\ batch.ops \in Seq(Receipts)
  BY DEF FinishOne, TypeOK, Batches
<1>2. batch' = [batch EXCEPT !.cur = None, !.recs = @ \cup Produced(o),
                    !.ops = Append(@, [obs |-> o, outcome |-> "resolved"])]
  BY DEF FinishOne
<1>3. batch'.ops = Append(batch.ops, [obs |-> o, outcome |-> "resolved"])
  BY <1>1, <1>2 DEF Batches
<1>4. ASSUME NEW p, NEW x
      PROVE  Holds(batch'.ops, p, x) <=> Holds(batch.ops, p, x) \/ (p = o /\ x = "resolved")
  <2> DEFINE s == batch.ops
  <2>1. s \in Seq(Receipts) /\ o \in Obs /\ "resolved" \in {"resolved", "failed"}
    BY <1>1
  <2> HIDE DEF s, o
  <2>2. Holds(Append(s, [obs |-> o, outcome |-> "resolved"]), p, x) <=> Holds(s, p, x) \/ (p = o /\ x = "resolved")
    BY <2>1, HoldsAppend
  <2> QED
    BY <1>3, <2>2 DEF s, o
<1>5. Append(batch.ops, [obs |-> o, outcome |-> "resolved"]) \in Seq(Receipts)
  BY <1>1, HoldsAppend
<1>6. \A r \in Produced(o) : r \in Records
  BY <1>1, ProducedTyped DEF FinishOne
<1>7. batch' \in Batches
  BY <1>1, <1>2, <1>5, <1>6 DEF Batches
<1> QED
  BY <1>1, <1>2, <1>4, <1>7, NoBatchAssumption DEF Batches

LEMMA FailShape ==
    ASSUME TypeOK, FailOne
    PROVE  /\ batch' # None /\ batch.cur \in Obs /\ batch.cur \in batch.all
           /\ batch'.all = batch.all /\ batch'.todo = batch.todo /\ batch'.cur = None
           /\ batch'.failed = batch.failed \cup {batch.cur} /\ batch'.recs = batch.recs
           /\ \A p, x : Holds(batch'.ops, p, x) <=>
                    Holds(batch.ops, p, x) \/ (p = batch.cur /\ x = "failed")
           /\ \A p \in Obs : jobs'[p] = IF p = batch.cur /\ jobs[p] # "none" THEN "failed" ELSE jobs[p]
           /\ \A p \in Obs : fresh'[p] = IF p = batch.cur /\ fresh[p] # "gone" THEN "FAILED" ELSE fresh[p]
<1> DEFINE o == batch.cur
<1>1. o \in Obs /\ o \in batch.all /\ batch \in Batches /\ batch.ops \in Seq(Receipts)
  BY DEF FailOne, TypeOK, Batches
<1>2. batch' = [batch EXCEPT !.cur = None, !.failed = @ \cup {o},
                    !.ops = Append(@, [obs |-> o, outcome |-> "failed"])]
  BY DEF FailOne
<1>3. batch'.ops = Append(batch.ops, [obs |-> o, outcome |-> "failed"])
  BY <1>1, <1>2 DEF Batches
<1>4. ASSUME NEW p, NEW x
      PROVE  Holds(batch'.ops, p, x) <=> Holds(batch.ops, p, x) \/ (p = o /\ x = "failed")
  <2> DEFINE s == batch.ops
  <2>1. s \in Seq(Receipts) /\ o \in Obs /\ "failed" \in {"resolved", "failed"}
    BY <1>1
  <2> HIDE DEF s, o
  <2>2. Holds(Append(s, [obs |-> o, outcome |-> "failed"]), p, x) <=> Holds(s, p, x) \/ (p = o /\ x = "failed")
    BY <2>1, HoldsAppend
  <2> QED
    BY <1>3, <2>2 DEF s, o
<1>5. /\ \A p \in Obs : jobs'[p] = IF p = o /\ jobs[p] # "none" THEN "failed" ELSE jobs[p]
      /\ \A p \in Obs : fresh'[p] = IF p = o /\ fresh[p] # "gone" THEN "FAILED" ELSE fresh[p]
  BY DEF FailOne, Marked, Labelled
<1>6. Append(batch.ops, [obs |-> o, outcome |-> "failed"]) \in Seq(Receipts)
  BY <1>1, HoldsAppend
<1>7. batch' \in Batches
  BY <1>1, <1>2, <1>6 DEF Batches
<1> QED
  BY <1>1, <1>2, <1>4, <1>5, <1>7, NoBatchAssumption DEF Batches

\* A commit, and one that dies after its n-th write: the receipts and the jobs
\* are marked or not, and no job is marked without its receipts.
LEMMA CommitShape ==
    ASSUME TypeOK, Numbered, NEW n \in 1 .. 3, Commit \/ CommitDies(n)
    PROVE  /\ up /\ batch # None /\ batch.todo = {} /\ batch.cur = None /\ batch' = None
           /\ OnDisk' = OnDisk \cup batch.recs /\ Written' = Written
           /\ UNCHANGED <<host, status, fp, erased, minted>>
           /\ \/ /\ \A p, x : Holds(receipts', p, x) <=> Holds(receipts, p, x)
                 /\ jobs' = jobs /\ CommitDies(n)
              \/ /\ \A p, x : Holds(receipts', p, x) <=> Holds(receipts, p, x) \/ Holds(batch.ops, p, x)
                 /\ jobs' = jobs \/ jobs' = Marked(jobs, batch.all \ batch.failed, "done")
                 /\ CommitDies(n) \/ (Commit /\ jobs' = Marked(jobs, batch.all \ batch.failed, "done"))
           /\ CommitDies(n) => Die /\ up' = FALSE /\ fresh' = fresh
<1>1. batch # None /\ batch \in Batches /\ claims' = Appended(batch.recs) /\ batch' = None
      /\ UNCHANGED <<host, status, fp, erased, minted>>
  BY DEF Commit, CommitDies, Die, TypeOK
<1>2. OnDisk' = OnDisk \cup batch.recs
  BY <1>1, OnDiskAppended
<1>3. Written' = Written
  BY <1>1, <1>2 DEF Written
<1>4. \A p, x : Holds(receipts \o batch.ops, p, x) <=> Holds(receipts, p, x) \/ Holds(batch.ops, p, x)
  BY <1>1, HoldsConcat DEF TypeOK, Batches
<1>5. CASE Commit
  BY <1>1, <1>2, <1>3, <1>4, <1>5 DEF Commit, CommitDies, Die
<1>6. CASE CommitDies(n)
  <2>1. CASE n = 1
    <3>1. receipts' = receipts /\ jobs' = jobs
      BY <1>6, <2>1 DEF CommitDies
    <3>2. \A p, x : Holds(receipts', p, x) <=> Holds(receipts, p, x)
      BY <3>1
    <3> QED
      BY <1>1, <1>2, <1>3, <1>6, <3>1, <3>2 DEF CommitDies, Die
  <2>2. CASE n \in 2 .. 3
    <3>1. receipts' = receipts \o batch.ops
      BY <1>6, <2>2 DEF CommitDies
    <3>2. jobs' = jobs \/ jobs' = Marked(jobs, batch.all \ batch.failed, "done")
      BY <1>6 DEF CommitDies
    <3>3. \A p, x : Holds(receipts', p, x) <=> Holds(receipts, p, x) \/ Holds(batch.ops, p, x)
      BY <1>4, <3>1
    <3>4. up /\ batch.todo = {} /\ batch.cur = None /\ Die /\ up' = FALSE /\ fresh' = fresh
      BY <1>6 DEF CommitDies, Die
    <3> QED
      BY <1>1, <1>2, <1>3, <1>6, <3>2, <3>3, <3>4
  <2>3. n = 1 \/ n \in 2 .. 3
    OBVIOUS
  <2> QED
    BY <2>1, <2>2, <2>3
<1> QED
  BY <1>5, <1>6

-----------------------------------------------------------------------------
(* The queue.                                                              *)

LEMMA InitQueue == Init => QueueInv
<1> SUFFICES ASSUME Init PROVE QueueInv
  OBVIOUS
<1>1. \A o, x : ~Holds(receipts, o, x)
  BY HoldsEmpty DEF Init
<1>2. UpInv /\ AliveInv /\ AbsentInv /\ OpsInv /\ DoneInv
  BY <1>1 DEF Init, UpInv, AliveInv, AbsentInv, OpsInv, DoneInv
<1> QED
  BY <1>2, InitType DEF QueueInv

\* A reopened job of a live observation: what its outcome and its row say.
LEMMA OpenJobs ==
    ASSUME TypeOK, Open, NEW o \in Obs
    PROVE  /\ Outcome(o) \in {"resolved", "failed", None} /\ None \notin {"resolved", "failed"}
           /\ \A x \in {"resolved", "failed"} : Outcome(o) = x => Holds(receipts, o, x)
           /\ status[o] = "accepted" =>
                /\ Outcome(o) = "resolved" => jobs'[o] = "done" /\ fresh'[o] = "EXTRACTED"
                /\ Outcome(o) = "failed" => jobs'[o] = "failed" /\ fresh'[o] = "FAILED"
                /\ Outcome(o) = None =>
                    /\ jobs'[o] = IF jobs[o] \in {"none", "running"} THEN "pending" ELSE jobs[o]
                    /\ fresh'[o] = "unverified"
           /\ status[o] # "accepted" => jobs'[o] = IF jobs[o] = "running" THEN "pending" ELSE jobs[o]
<1>1. /\ \A x \in {"resolved", "failed"} : Outcome(o) = x => Holds(receipts, o, x)
      /\ Outcome(o) \in {"resolved", "failed", None}
  BY OutcomeHolds DEF TypeOK
<1>2. None # "resolved" /\ None # "failed"
  BY CompileAssumption
<1>3. jobs'[o] = Reconciled(o) /\ fresh'[o] = Relabelled(o)
  BY DEF Open
<1> QED
  BY <1>1, <1>2, <1>3 DEF Reconciled, Relabelled

LEMMA QueueStep == QueueInv /\ [Next]_vars => QueueInv'
<1> SUFFICES ASSUME QueueInv, [Next]_vars PROVE UpInv' /\ AliveInv' /\ AbsentInv' /\ OpsInv' /\ DoneInv'
  BY TypeStep DEF QueueInv
<1> USE DEF QueueInv
<1> DEFINE Goal == UpInv /\ AliveInv /\ AbsentInv /\ OpsInv /\ DoneInv
<1>1. CASE Open
  <2>1. UNCHANGED <<status, receipts, batch, erased>> /\ up' = TRUE /\ ~up
    BY <1>1 DEF Open
  <2>2. batch = None
    BY <2>1 DEF UpInv
  <2>3. AbsentInv'
    BY <1>1, <2>1, <2>2, OpenJobs DEF AbsentInv
  <2>4. DoneInv'
    BY <1>1, <2>1, OpenJobs DEF DoneInv
  <2> QED
    BY <2>1, <2>2, <2>3, <2>4 DEF UpInv, AliveInv, OpsInv
<1>2. CASE Close
  BY <1>2 DEF Close, UpInv, AliveInv, AbsentInv, OpsInv, DoneInv
<1>3. CASE DieInBatch
  BY <1>3 DEF DieInBatch, Die, UpInv, AliveInv, AbsentInv, OpsInv, DoneInv
<1>4. CASE WipeQueue
  BY <1>4 DEF WipeQueue, UpInv, AliveInv, AbsentInv, OpsInv, DoneInv
<1>5. CASE RestoreResync
  BY <1>5 DEF RestoreResync, UpInv, AliveInv, AbsentInv, OpsInv, DoneInv
<1>6. ASSUME NEW o \in Obs, Observe(o) PROVE Goal'
  <2>1. /\ status[o] = "absent" /\ ScopeOf[o] \notin erased /\ up
        /\ \A p \in Obs : status'[p] = IF p = o THEN "accepted" ELSE status[p]
        /\ UNCHANGED <<receipts, erased>>
        /\ batch' # None => batch' = batch /\ up' = up
    BY <1>6 DEF Observe, Die, TypeOK
  <2>2. \A p \in Obs : jobs'[p] = jobs[p] \/ (p = o /\ jobs'[p] = "pending")
    BY <1>6 DEF Observe, TypeOK
  <2>3. jobs[o] = "none" /\ (batch # None => o \notin batch.all)
    BY <2>1 DEF AbsentInv
  <2>4. UpInv' /\ AliveInv'
    BY <2>1 DEF UpInv, AliveInv
  <2>5. AbsentInv'
    BY <2>1, <2>2 DEF AbsentInv
  <2>6. DoneInv'
    BY <2>1, <2>2, <2>3 DEF DoneInv
  <2>7. OpsInv'
    <3> SUFFICES ASSUME batch' # None PROVE OpsInv'
      BY DEF OpsInv
    <3>1. batch' = batch /\ o \notin batch.all /\ batch.all \subseteq Obs
      BY <2>1, <2>3 DEF TypeOK, Batches
    <3> QED
      BY <3>1, <2>1 DEF OpsInv
  <2> QED
    BY <2>4, <2>5, <2>6, <2>7
<1>7. ASSUME NEW o \in Obs, Forget(o) PROVE Goal'
  <2>1. /\ \A p \in Obs : status'[p] = IF p = o THEN "terminal" ELSE status[p]
        /\ UNCHANGED <<receipts, erased, jobs, batch, up>>
    BY <1>7 DEF Forget, TypeOK
  <2>2. batch # None => batch.all \subseteq Obs
    BY DEF TypeOK, Batches
  <2> QED
    BY <2>1, <2>2 DEF UpInv, AliveInv, AbsentInv, OpsInv, DoneInv
<1>8. ASSUME NEW o \in Obs, Retry(o) PROVE Goal'
  <2>1. /\ \A p \in Obs : jobs'[p] = IF p = o THEN "pending" ELSE jobs[p]
        /\ jobs[o] = "failed"
        /\ UNCHANGED <<receipts, erased, status, batch, up>>
    BY <1>8 DEF Retry, TypeOK
  <2> QED
    BY <2>1 DEF UpInv, AliveInv, AbsentInv, OpsInv, DoneInv
<1>9. ASSUME NEW o \in Obs, SkipOne(o) PROVE Goal'
  <2>1. /\ UNCHANGED <<receipts, erased, status, up>> /\ up /\ batch # None
        /\ status[o] # "accepted"
    BY <1>9 DEF SkipOne, Compilable
  <2>2. UpInv' /\ AliveInv' /\ AbsentInv' /\ DoneInv'
    BY <1>9, <2>1, SkipShape DEF UpInv, AliveInv, AbsentInv, DoneInv
  <2>3. OpsInv'
    BY <1>9, <2>1, SkipShape DEF OpsInv
  <2> QED
    BY <2>2, <2>3
<1>10. ASSUME NEW o \in Obs, StartOne(o) PROVE Goal'
  <2>1. UNCHANGED <<receipts, erased, status, up, jobs>> /\ up /\ batch # None /\ batch.cur = None
    BY <1>10 DEF StartOne
  <2>2. UpInv' /\ AliveInv' /\ AbsentInv' /\ DoneInv'
    BY <1>10, <2>1, StartShape DEF UpInv, AliveInv, AbsentInv, DoneInv
  <2>3. batch.all \subseteq Obs
    BY <2>1 DEF TypeOK, Batches
  <2>4. OpsInv'
    BY <1>10, <2>1, <2>3, StartShape, CompileAssumption DEF OpsInv
  <2> QED
    BY <2>2, <2>4
<1>11. ASSUME NEW s \in Scopes, Erase(s) PROVE Goal'
  <2>1. /\ UNCHANGED <<receipts, batch, up>> /\ erased' = erased \cup {s}
        /\ \A o \in Obs : ScopeOf[o] = s /\ status[o] # "absent" =>
                status'[o] = "terminal" /\ jobs'[o] = "none"
        /\ \A o \in Obs : ~(ScopeOf[o] = s /\ status[o] # "absent") =>
                status'[o] = status[o] /\ jobs'[o] = jobs[o]
    BY <1>11 DEF Erase
  <2>2. AliveInv'
    BY <2>1 DEF AliveInv
  <2>3. AbsentInv' /\ DoneInv'
    BY <2>1 DEF AbsentInv, DoneInv
  <2>4. batch # None => batch.all \subseteq Obs
    BY DEF TypeOK, Batches
  <2>5. OpsInv' /\ UpInv'
    BY <2>1, <2>4 DEF OpsInv, UpInv
  <2> QED
    BY <2>2, <2>3, <2>5
<1>12. ASSUME NEW c \in 1 .. MaxClaims, ForgetClaim(c) \/ ReviseClaim(c) PROVE Goal'
  BY <1>12 DEF ForgetClaim, ReviseClaim, UpInv, AliveInv, AbsentInv, OpsInv, DoneInv
<1>13. CASE ClaimBatch
  <2>1. UNCHANGED <<status, receipts, erased, up>> /\ up
    BY <1>13 DEF ClaimBatch
  <2>2. UpInv' /\ AliveInv'
    BY <2>1 DEF UpInv, AliveInv
  <2>3. AbsentInv' /\ DoneInv'
    BY <1>13, <2>1, ClaimShape DEF AbsentInv, DoneInv
  <2>4. OpsInv'
    BY <1>13, <2>1, ClaimShape DEF OpsInv
  <2> QED
    BY <2>2, <2>3, <2>4
<1>14. CASE FinishOne
  <2>1. UNCHANGED <<status, receipts, erased, up, jobs>> /\ up /\ batch # None
    BY <1>14 DEF FinishOne
  <2>2. UpInv' /\ AliveInv' /\ AbsentInv' /\ DoneInv'
    BY <1>14, <2>1, FinishShape DEF UpInv, AliveInv, AbsentInv, DoneInv
  <2>3. OpsInv'
    BY <1>14, <2>1, FinishShape DEF OpsInv
  <2> QED
    BY <2>2, <2>3
<1>15. CASE FailOne
  <2>1. UNCHANGED <<status, receipts, erased, up>> /\ up /\ batch # None
    BY <1>15 DEF FailOne
  <2>2. UpInv' /\ AliveInv' /\ AbsentInv' /\ DoneInv'
    BY <1>15, <2>1, FailShape DEF UpInv, AliveInv, AbsentInv, DoneInv
  <2>3. OpsInv'
    BY <1>15, <2>1, FailShape DEF OpsInv
  <2> QED
    BY <2>2, <2>3
<1>16. ASSUME NEW n \in 1 .. 3, Commit \/ CommitDies(n) PROVE Goal'
  <2>1. /\ batch # None /\ batch.todo = {} /\ batch.cur = None /\ batch' = None
        /\ UNCHANGED <<status, erased>>
        /\ \A p, x : Holds(receipts', p, x) => Holds(receipts, p, x) \/ Holds(batch.ops, p, x)
        /\ \A p, x : Holds(receipts, p, x) => Holds(receipts', p, x)
        /\ \/ jobs' = jobs
           \/ /\ jobs' = Marked(jobs, batch.all \ batch.failed, "done")
              /\ \A p, x : Holds(batch.ops, p, x) => Holds(receipts', p, x)
    BY <1>16, CommitShape
  <2>2. UpInv' /\ AliveInv' /\ OpsInv'
    BY <2>1 DEF UpInv, AliveInv, OpsInv
  <2>3. AbsentInv'
    <3> SUFFICES ASSUME NEW o \in Obs, status[o] = "absent"
                 PROVE  jobs'[o] = "none" /\ \A x \in {"resolved", "failed"} : ~Holds(receipts', o, x)
      BY <2>1 DEF AbsentInv
    <3>1. jobs[o] = "none" /\ o \notin batch.all
      BY <2>1 DEF AbsentInv
    <3>2. jobs'[o] = "none"
      BY <2>1, <3>1 DEF Marked
    <3> QED
      BY <2>1, <3>1, <3>2 DEF AbsentInv, OpsInv
  <2>4. DoneInv'
    <3> SUFFICES ASSUME NEW o \in Obs, status[o] = "accepted", jobs'[o] = "done"
                 PROVE  Holds(receipts', o, "resolved")
      BY <2>1 DEF DoneInv
    <3>1. CASE jobs[o] = "done"
      BY <2>1, <3>1 DEF DoneInv
    <3>2. CASE jobs[o] # "done"
      <4>1. /\ jobs' = Marked(jobs, batch.all \ batch.failed, "done")
            /\ \A p, x : Holds(batch.ops, p, x) => Holds(receipts', p, x)
        BY <2>1, <3>2
      <4>2. o \in batch.all \ batch.failed
        BY <3>2, <4>1 DEF Marked
      <4>3. o # None
        BY CompileAssumption
      <4> QED
        BY <2>1, <4>1, <4>2, <4>3 DEF OpsInv
    <3> QED
      BY <3>1, <3>2
  <2> QED
    BY <2>2, <2>3, <2>4
<1>17. CASE UNCHANGED vars
  BY <1>17 DEF vars, UpInv, AliveInv, AbsentInv, OpsInv, DoneInv
<1> QED
  BY <1>1, <1>2, <1>3, <1>4, <1>5, <1>6, <1>7, <1>8, <1>9, <1>10, <1>11, <1>12, <1>13,
     <1>14, <1>15, <1>16, <1>17 DEF Next

-----------------------------------------------------------------------------
(* Failure markers.                                                        *)

LEMMA InitMirror == Init => MirrorInv
<1> SUFFICES ASSUME Init PROVE MirrorInv
  OBVIOUS
<1>1. \A o, x : ~Holds(receipts, o, x)
  BY HoldsEmpty DEF Init
<1> QED
  BY <1>1 DEF Init, MirrorInv

LEMMA MirrorStep == QueueInv /\ MirrorInv /\ [Next]_vars => MirrorInv'
<1> SUFFICES ASSUME QueueInv, MirrorInv, [Next]_vars PROVE MirrorInv'
  OBVIOUS
<1> USE DEF QueueInv
<1>1. CASE Open
  <2>1. UNCHANGED <<host, status, receipts, batch, erased>> /\ batch = None
    BY <1>1 DEF Open, UpInv
  <2>2. \A o \in Obs : jobs'[o] = "failed" => jobs[o] = "failed" \/ Holds(receipts, o, "failed")
    BY <1>1, OpenJobs
  <2> QED
    BY <2>1, <2>2 DEF MirrorInv, Does
<1>2. CASE Close
  BY <1>2 DEF Close, MirrorInv, Does
<1>3. CASE DieInBatch
  BY <1>3 DEF DieInBatch, Die, MirrorInv, Does
<1>4. CASE WipeQueue
  BY <1>4 DEF WipeQueue, MirrorInv, Does
<1>5. CASE RestoreResync
  BY <1>5 DEF RestoreResync, MirrorInv, Does
<1>6. ASSUME NEW o \in Obs, Observe(o) PROVE MirrorInv'
  <2>1. /\ UNCHANGED <<host, receipts>>
        /\ \/ batch' = batch
           \/ batch' = None /\ (batch = None \/ Does("dies"))
    BY <1>6 DEF Observe, Die
  <2>2. \A p \in Obs : jobs'[p] = "failed" => jobs[p] = "failed"
    BY <1>6 DEF Observe, TypeOK
  <2> QED
    BY <2>1, <2>2 DEF MirrorInv, Does
<1>7. ASSUME NEW o \in Obs, Forget(o) PROVE MirrorInv'
  BY <1>7 DEF Forget, MirrorInv, Does
<1>8. ASSUME NEW o \in Obs, Retry(o) PROVE MirrorInv'
  <2>1. UNCHANGED <<host, receipts, batch>> /\ \A p \in Obs : jobs'[p] = "failed" => jobs[p] = "failed"
    BY <1>8 DEF Retry, TypeOK
  <2> QED
    BY <2>1 DEF MirrorInv, Does
<1>9. ASSUME NEW o \in Obs, SkipOne(o) PROVE MirrorInv'
  <2>1. UNCHANGED <<host, receipts>> /\ batch # None
    BY <1>9 DEF SkipOne
  <2> QED
    BY <1>9, <2>1, SkipShape DEF MirrorInv, Does
<1>10. ASSUME NEW o \in Obs, StartOne(o) PROVE MirrorInv'
  <2>1. UNCHANGED <<host, receipts, jobs>> /\ batch # None
    BY <1>10 DEF StartOne
  <2> QED
    BY <1>10, <2>1, StartShape DEF MirrorInv, Does
<1>11. ASSUME NEW s \in Scopes, Erase(s) PROVE MirrorInv'
  <2>1. UNCHANGED <<host, receipts, batch>> /\ \A p \in Obs : jobs'[p] = "failed" => jobs[p] = "failed"
    BY <1>11 DEF Erase, TypeOK
  <2> QED
    BY <2>1 DEF MirrorInv, Does
<1>12. ASSUME NEW c \in 1 .. MaxClaims, ForgetClaim(c) \/ ReviseClaim(c) PROVE MirrorInv'
  BY <1>12 DEF ForgetClaim, ReviseClaim, MirrorInv, Does
<1>13. CASE ClaimBatch
  <2>1. UNCHANGED <<host, receipts>> /\ batch = None
    BY <1>13 DEF ClaimBatch
  <2> QED
    BY <1>13, <2>1, ClaimShape DEF MirrorInv, Does
<1>14. CASE FinishOne
  <2>1. UNCHANGED <<host, receipts, jobs>> /\ batch # None
    BY <1>14 DEF FinishOne
  <2> QED
    BY <1>14, <2>1, FinishShape DEF MirrorInv, Does, FinishOne
<1>15. CASE FailOne
  <2>1. UNCHANGED <<host, receipts>> /\ batch # None /\ Does("fails") /\ Does("fails")'
    BY <1>15 DEF FailOne, Does
  <2> QED
    BY <1>15, <2>1, FailShape DEF MirrorInv, Does
<1>16. ASSUME NEW n \in 1 .. 3, Commit \/ CommitDies(n) PROVE MirrorInv'
  <2>1. /\ batch # None /\ batch' = None /\ host' = host
        /\ \A p, x : Holds(receipts', p, x) => Holds(receipts, p, x) \/ Holds(batch.ops, p, x)
        /\ \A p, x : Holds(receipts, p, x) => Holds(receipts', p, x)
        /\ Does("dies") \/ \A p, x : Holds(batch.ops, p, x) => Holds(receipts', p, x)
        /\ \A p \in Obs : jobs'[p] = "failed" => jobs[p] = "failed"
    <3>1. \A p \in Obs : Marked(jobs, batch.all \ batch.failed, "done")[p] = "failed" => jobs[p] = "failed"
      BY DEF Marked
    <3>2. CommitDies(n) => Does("dies")
      BY <1>16, CommitShape DEF Die
    <3> QED
      BY <1>16, <3>1, <3>2, CommitShape
  <2> QED
    BY <2>1 DEF MirrorInv, Does
<1>17. CASE UNCHANGED vars
  BY <1>17 DEF vars, MirrorInv, Does
<1> QED
  BY <1>1, <1>2, <1>3, <1>4, <1>5, <1>6, <1>7, <1>8, <1>9, <1>10, <1>11, <1>12, <1>13,
     <1>14, <1>15, <1>16, <1>17 DEF Next

-----------------------------------------------------------------------------
(* Erased scopes.                                                          *)

\* A live observation's fact is of no erased scope.
LEMMA LiveFact ==
    ASSUME AliveInv, NEW o \in Obs, status[o] = "accepted", FactOf[o] # None
    PROVE  ~Dead(FactOf[o])
<1> SUFFICES ASSUME NEW p \in Obs, FactOf[p] = FactOf[o], ScopeOf[p] \in erased PROVE FALSE
  BY DEF Dead
<1>1. ScopeOf[p] = ScopeOf[o]
  BY CompileAssumption
<1> QED
  BY <1>1 DEF AliveInv

\* An erasure purges what it kills, and kills nothing else.
LEMMA EraseShape ==
    ASSUME QueueInv, NEW s \in Scopes, Erase(s)
    PROVE  /\ UNCHANGED <<host, receipts, batch, minted, up, deaths>> /\ up
           /\ batch # None => Does("overlaps")
           /\ \A o \in Obs : status'[o] = "accepted" => status[o] = "accepted"
           /\ OnDisk' \subseteq OnDisk /\ Written' \subseteq Written /\ fp' \subseteq fp
           /\ \A r \in OnDisk : r \in OnDisk' <=> ~\E o \in Obs : FactOf[o] = r.fact /\ ScopeOf[o] = s
           /\ \A r \in OnDisk : r \in OnDisk' \/ Dead(r.fact)'
           /\ \A r \in Written : r \in Written' \/ Dead(r.fact)'
           /\ \A f : Dead(f) => Dead(f)'
           /\ \A f : Dead(f)' => Dead(f) \/ \E o \in Obs : FactOf[o] = f /\ ScopeOf[o] = s
<1>1. /\ UNCHANGED <<host, receipts, batch, minted, up, deaths>> /\ up
      /\ batch # None => Does("overlaps")
      /\ erased' = erased \cup {s} /\ fp' \subseteq fp
      /\ claims' = {x \in claims : ~\E o \in Obs : FactOf[o] = x.rec.fact /\ ScopeOf[o] = s}
      /\ \A o \in Obs : status'[o] = "accepted" => status[o] = "accepted"
  BY DEF Erase
<1>2. \A r \in OnDisk : r \in OnDisk' <=> ~\E o \in Obs : FactOf[o] = r.fact /\ ScopeOf[o] = s
  BY <1>1 DEF OnDisk
<1>3. OnDisk' \subseteq OnDisk
  BY <1>1 DEF OnDisk
<1>4. \A f : Dead(f)' <=> Dead(f) \/ \E o \in Obs : FactOf[o] = f /\ ScopeOf[o] = s
  BY <1>1 DEF Dead
<1>5. \A r \in OnDisk : r \in OnDisk' \/ Dead(r.fact)'
  BY <1>2, <1>4
<1>6. Written' \subseteq Written /\ \A r \in Written : r \in Written' \/ Dead(r.fact)'
  BY <1>1, <1>3, <1>5 DEF Written
<1> QED
  BY <1>1, <1>2, <1>3, <1>4, <1>5, <1>6

\* A user's edit adds a version of a claim that is on disk.
LEMMA EditShape ==
    ASSUME QueueInv, NEW c \in 1 .. MaxClaims, ForgetClaim(c) \/ ReviseClaim(c)
    PROVE  /\ UNCHANGED <<host, status, jobs, fresh, fp, receipts, batch, erased, minted, up, deaths>>
           /\ Does("edits")
           /\ \E r \in OnDisk : \E q :
                /\ q.fact = r.fact /\ q.claim = r.claim /\ q.from = r.from
                /\ OnDisk' = OnDisk \cup {q} /\ Written' = Written \cup {q}
<1>1. UNCHANGED <<host, status, jobs, fresh, fp, receipts, batch, erased, minted, up, deaths>> /\ Does("edits")
  BY DEF ForgetClaim, ReviseClaim, UserEdits
<1>2. PICK r \in Editable(c) :
            \/ claims' = Appended({[r EXCEPT !.version = @ + 1, !.state = "forgotten", !.by = None]})
            \/ claims' = Appended({[r EXCEPT !.version = @ + 1, !.owner = "user", !.by = None]})
  BY DEF ForgetClaim, ReviseClaim
<1>3. r \in OnDisk /\ r \in Records
  BY DEF Editable, Latest, OnDisk, TypeOK, Lines, QueueInv
<1>4. PICK q : claims' = Appended({q}) /\ q.fact = r.fact /\ q.claim = r.claim /\ q.from = r.from
  <2>1. \A q \in {[r EXCEPT !.version = @ + 1, !.state = "forgotten", !.by = None],
                  [r EXCEPT !.version = @ + 1, !.owner = "user", !.by = None]} :
          q.fact = r.fact /\ q.claim = r.claim /\ q.from = r.from
    BY <1>3 DEF Records
  <2> QED
    BY <1>2, <2>1
<1>5. OnDisk' = OnDisk \cup {q}
  BY <1>4, OnDiskAppended DEF QueueInv
<1>6. Written' = Written \cup {q}
  BY <1>1, <1>5 DEF Written
<1> QED
  BY <1>1, <1>3, <1>4, <1>5, <1>6

\* The other steps leave the claim files alone, and only a finished observation
\* adds to what will be written.
LEMMA WrittenStep ==
    ASSUME QueueInv, [Next]_vars
    PROVE  \/ \E s \in Scopes : Erase(s)
           \/ \E c \in 1 .. MaxClaims : ForgetClaim(c) \/ ReviseClaim(c)
           \/ \E n \in 1 .. 3 : Commit \/ CommitDies(n)
           \/ FinishOne /\ UNCHANGED <<OnDisk, erased, host>>
                /\ Written' = Written \cup Produced(batch.cur)
           \/ /\ UNCHANGED <<OnDisk, erased, host>> /\ Written' \subseteq Written
              /\ batch' # None \/ batch = None => Written' = Written
<1> USE DEF QueueInv
<1>1. CASE FinishOne
  <2>1. UNCHANGED <<OnDisk, erased, host>> /\ batch # None
    BY <1>1 DEF FinishOne, OnDisk
  <2> QED
    BY <1>1, <2>1, FinishShape DEF Written
<1>2. CASE ClaimBatch
  <2>1. UNCHANGED <<OnDisk, erased, host>> /\ batch = None
    BY <1>2 DEF ClaimBatch, OnDisk
  <2> QED
    BY <1>2, <2>1, ClaimShape DEF Written
<1>3. CASE FailOne
  <2>1. UNCHANGED <<OnDisk, erased, host>> /\ batch # None
    BY <1>3 DEF FailOne, OnDisk
  <2> QED
    BY <1>3, <2>1, FailShape DEF Written
<1>4. ASSUME NEW o \in Obs, SkipOne(o) \/ StartOne(o)
      PROVE  UNCHANGED <<OnDisk, erased, host>> /\ Written' = Written
  <2>1. UNCHANGED <<OnDisk, erased, host>> /\ batch # None
    BY <1>4 DEF SkipOne, StartOne, OnDisk
  <2> QED
    BY <1>4, <2>1, SkipShape, StartShape DEF Written
<1>5. ASSUME NEW o \in Obs, Observe(o)
      PROVE  /\ UNCHANGED <<OnDisk, erased, host>> /\ Written' \subseteq Written
             /\ batch' # None \/ batch = None => Written' = Written
  <2>1. UNCHANGED <<OnDisk, erased, host>> /\ (batch' = batch \/ batch' = None)
    BY <1>5 DEF Observe, OnDisk, Die
  <2> QED
    BY <2>1 DEF Written
<1>6. ASSUME DieInBatch
      PROVE  /\ UNCHANGED <<OnDisk, erased, host>> /\ Written' \subseteq Written
             /\ batch' # None \/ batch = None => Written' = Written
  BY <1>6 DEF DieInBatch, Die, OnDisk, Written
<1>7. ASSUME \/ Open \/ Close \/ WipeQueue \/ RestoreResync \/ UNCHANGED vars
             \/ \E o \in Obs : Forget(o) \/ Retry(o)
      PROVE  UNCHANGED <<OnDisk, erased, host>> /\ Written' = Written
  <2>1. UNCHANGED <<claims, batch, erased, host>>
    BY <1>7 DEF Open, Close, WipeQueue, RestoreResync, vars, Forget, Retry
  <2> QED
    BY <2>1 DEF OnDisk, Written
<1> QED
  BY <1>1, <1>2, <1>3, <1>4, <1>5, <1>6, <1>7 DEF Next

LEMMA HostStays == [Next]_vars => host' = host
BY DEF Next, vars, Open, Close, DieInBatch, WipeQueue, RestoreResync, Observe, Forget, Retry,
       SkipOne, StartOne, Erase, ForgetClaim, ReviseClaim, ClaimBatch, FinishOne, FailOne,
       Commit, CommitDies

LEMMA InitErased == Init => ErasedInv
BY DEF Init, ErasedInv, Written, OnDisk

\* Without overlaps the observation being compiled stays live.
LEMMA CurrentStays ==
    ASSUME QueueInv, [Next]_vars, ~Does("overlaps"),
           batch # None /\ batch.cur # None => status[batch.cur] = "accepted"
    PROVE  batch' # None /\ batch'.cur # None => status'[batch'.cur] = "accepted"
<1> SUFFICES ASSUME batch' # None, batch'.cur # None PROVE status'[batch'.cur] = "accepted"
  OBVIOUS
<1> USE DEF QueueInv
<1>1. ASSUME NEW o \in Obs, SkipOne(o) PROVE FALSE
  BY <1>1, SkipShape DEF SkipOne
<1>2. ASSUME NEW o \in Obs, StartOne(o) PROVE status'[batch'.cur] = "accepted"
  BY <1>2, StartShape DEF StartOne, Compilable
<1>3. CASE FinishOne \/ FailOne
  BY <1>3, FinishShape, FailShape
<1>4. CASE ClaimBatch
  BY <1>4, ClaimShape
<1>5. ASSUME NEW o \in Obs, Observe(o) PROVE status'[batch'.cur] = "accepted"
  <2>1. batch' = batch /\ batch.cur \in Obs
    BY <1>5 DEF Observe, Die, TypeOK, Batches
  <2>2. \A p \in Obs : status[p] = "accepted" => status'[p] = "accepted"
    BY <1>5 DEF Observe, TypeOK
  <2> QED
    BY <2>1, <2>2
<1>6. ASSUME NEW o \in Obs, Forget(o) PROVE FALSE
  BY <1>6 DEF Forget
<1>7. ASSUME NEW s \in Scopes, Erase(s) PROVE FALSE
  BY <1>7, EraseShape
<1>8. ASSUME DieInBatch \/ Commit \/ \E n \in 1 .. 3 : CommitDies(n) PROVE FALSE
  BY <1>8 DEF DieInBatch, Die, Commit, CommitDies
<1>9. ASSUME \/ Open \/ Close \/ WipeQueue \/ RestoreResync \/ UNCHANGED vars
             \/ \E o \in Obs : Retry(o)
             \/ \E c \in 1 .. MaxClaims : ForgetClaim(c) \/ ReviseClaim(c)
      PROVE  status'[batch'.cur] = "accepted"
  <2>1. UNCHANGED <<status, batch>>
    BY <1>9 DEF Open, Close, WipeQueue, RestoreResync, vars, Retry, ForgetClaim, ReviseClaim
  <2> QED
    BY <2>1
<1> QED
  BY <1>1, <1>2, <1>3, <1>4, <1>5, <1>6, <1>7, <1>8, <1>9 DEF Next

LEMMA ErasedStep == QueueInv /\ ErasedInv /\ [Next]_vars => ErasedInv'
<1> SUFFICES ASSUME QueueInv, ErasedInv, [Next]_vars, ~Does("overlaps")' PROVE ErasedInv'
  BY DEF ErasedInv
<1>0. host' = host /\ ~Does("overlaps") /\ \A r \in Written : ~Dead(r.fact)
  <2>1. host' = host
    BY HostStays
  <2> QED
    BY <2>1 DEF ErasedInv, Does
<1>1. batch' # None /\ batch'.cur # None => status'[batch'.cur] = "accepted"
  BY <1>0, CurrentStays DEF ErasedInv
<1>2. ASSUME NEW s \in Scopes, Erase(s) PROVE \A r \in Written' : ~Dead(r.fact)'
  <2>1. batch = None /\ batch' = None
    BY <1>0, <1>2, EraseShape
  <2>2. Written' = OnDisk' /\ Written = OnDisk
    BY <2>1 DEF Written
  <2> QED
    BY <1>0, <1>2, <2>2, EraseShape
<1>3. ASSUME NEW c \in 1 .. MaxClaims, ForgetClaim(c) \/ ReviseClaim(c)
      PROVE  \A r \in Written' : ~Dead(r.fact)'
  <2>1. erased' = erased /\ \E r \in OnDisk : \E q : q.fact = r.fact /\ Written' = Written \cup {q}
    BY <1>3, EditShape
  <2>2. PICK r \in OnDisk : \E q : q.fact = r.fact /\ Written' = Written \cup {q}
    BY <2>1
  <2>3. PICK q : q.fact = r.fact /\ Written' = Written \cup {q}
    BY <2>2
  <2>4. r \in Written
    BY DEF Written
  <2> QED
    BY <1>0, <2>1, <2>3, <2>4 DEF Dead
<1>4. ASSUME NEW n \in 1 .. 3, Commit \/ CommitDies(n) PROVE \A r \in Written' : ~Dead(r.fact)'
  BY <1>0, <1>4, CommitShape DEF Dead, QueueInv
<1>5. ASSUME FinishOne, UNCHANGED erased, Written' = Written \cup Produced(batch.cur)
      PROVE  \A r \in Written' : ~Dead(r.fact)'
  <2>1. batch.cur \in Obs /\ status[batch.cur] = "accepted"
    BY <1>0, <1>5, FinishShape DEF ErasedInv, QueueInv, FinishOne, TypeOK, Batches
  <2>2. \A r \in Produced(batch.cur) : FactOf[batch.cur] # None /\ r.fact = FactOf[batch.cur]
    BY <2>1, ProducedShape DEF QueueInv
  <2>3. \A r \in Produced(batch.cur) : ~Dead(r.fact)
    BY <2>1, <2>2, LiveFact DEF QueueInv
  <2> QED
    BY <1>0, <1>5, <2>3 DEF Dead
<1>6. ASSUME UNCHANGED erased, Written' \subseteq Written
      PROVE  \A r \in Written' : ~Dead(r.fact)'
  BY <1>0, <1>6 DEF Dead
<1>7. \A r \in Written' : ~Dead(r.fact)'
  BY <1>2, <1>3, <1>4, <1>5, <1>6, WrittenStep
<1> QED
  BY <1>1, <1>7 DEF ErasedInv

-----------------------------------------------------------------------------
(* Nothing is lost.                                                        *)

LEMMA InitLost == Init => LostInv
<1> SUFFICES ASSUME Init PROVE LostInv
  OBVIOUS
<1>1. \A o, x : ~Holds(receipts, o, x)
  BY HoldsEmpty DEF Init
<1> QED
  BY <1>1 DEF Init, LostInv

\* What covers a live observation is not erased.
LEMMA CoveredStays ==
    ASSUME AliveInv', NEW o \in Obs, status'[o] = "accepted", NEW R, NEW Q,
           Covered(o, R), \A r \in R : r \in Q \/ Dead(r.fact)'
    PROVE  Covered(o, Q)
<1> SUFFICES ASSUME FactOf[o] # None
             PROVE  \E r \in Q : r.fact = FactOf[o] /\ (o \in r.from \/ r.owner = "user")
  BY DEF Covered
<1>1. ~Dead(FactOf[o])'
  <2> SUFFICES ASSUME NEW p \in Obs, FactOf[p] = FactOf[o], ScopeOf[p] \in erased' PROVE FALSE
    BY DEF Dead
  <2>1. ScopeOf[p] = ScopeOf[o]
    BY CompileAssumption
  <2> QED
    BY <2>1 DEF AliveInv
<1> QED
  BY <1>1 DEF Covered

\* A finished observation is covered by what the batch will write.
LEMMA FinishCovers ==
    ASSUME QueueInv, FinishOne, status[batch.cur] = "accepted",
           \A r \in fp : r \in Written \/ Dead(r.fact)
    PROVE  Covered(batch.cur, Written \cup Produced(batch.cur))
<1> DEFINE o == batch.cur
<1>0. o \in Obs
  BY FinishShape DEF QueueInv
<1> HIDE DEF o
<1> SUFFICES ASSUME FactOf[o] # None PROVE Covered(o, Written \cup Produced(o))
  BY DEF Covered, o
<1>1. ~Dead(FactOf[o])
  BY <1>0, LiveFact DEF QueueInv, o
<1>2. CASE \E r : r \in Produced(o)
  BY <1>0, <1>2, ProducedShape DEF QueueInv, Covered
<1>3. CASE Produced(o) = {}
  <2>1. ActiveByFingerprint(FactOf[o]) # {}
    BY <1>3 DEF Produced
  <2>2. PICK q \in ActiveByFingerprint(FactOf[o]) : TRUE
    BY <2>1
  <2>3. q.owner = "user" \/ o \in q.from
    BY <1>3, <2>1, <2>2 DEF Produced
  <2>4. q \in fp /\ q.fact = FactOf[o]
    BY <2>2 DEF ActiveByFingerprint
  <2>5. q \in Written
    BY <2>4, <1>1
  <2> QED
    BY <2>3, <2>4, <2>5 DEF Covered
<1> QED
  BY <1>2, <1>3

\* What only one kind of step does: receipts are committed, a resolved receipt
\* is made by finishing, index rows come from finishing or opening, a batch
\* ends in a commit or with the process.
LEMMA Frame ==
    ASSUME QueueInv, [Next]_vars
    PROVE  LET commits == \E n \in 1 .. 3 : Commit \/ CommitDies(n)
           IN  /\ \A o \in Obs : status'[o] = "accepted" => status[o] \in {"accepted", "absent"}
               /\ ~commits => receipts' = receipts
               /\ batch' # None => \A o \in Obs :
                    Holds(batch'.ops, o, "resolved") =>
                        batch # None /\ (Holds(batch.ops, o, "resolved") \/ (FinishOne /\ o = batch.cur))
               /\ \A r \in fp' : r \in fp \/ (Open /\ r \in OnDisk) \/ (FinishOne /\ r \in Produced(batch.cur))
               /\ Open /\ Does("rebuilds") => \A r \in fp' : r \in OnDisk
               /\ up' => up \/ Open
               /\ ~commits /\ batch # None /\ batch' = None => Does("dies") /\ ~up'
<1> DEFINE commits == \E n \in 1 .. 3 : Commit \/ CommitDies(n)
           quiet == /\ receipts' = receipts /\ fp' \subseteq fp /\ (up' => up)
                    /\ \A o \in Obs : status'[o] = "accepted" => status[o] \in {"accepted", "absent"}
           kept == /\ batch' # None => batch # None /\ batch'.ops = batch.ops
                   /\ batch # None /\ batch' = None => Does("dies") /\ ~up'
<1> USE DEF QueueInv
<1>1. CASE Open
  <2>1. UNCHANGED <<status, receipts, batch>>
    BY <1>1 DEF Open
  <2>2. \A r \in fp' : r \in (IF Does("rebuilds") THEN {} ELSE fp) \/ r \in OnDisk
    BY <1>1 DEF Open, CatchUp, Latest, OnDisk
  <2> QED
    BY <1>1, <2>1, <2>2 DEF TypeOK
<1>2. CASE commits
  <2>1. batch' = None /\ UNCHANGED <<status, fp>> /\ (up' => up)
    BY <1>2, CommitShape
  <2>2. ~Open
    BY <1>2 DEF Open, Commit, CommitDies
  <2> QED
    BY <1>2, <2>1, <2>2
<1>3. CASE FinishOne
  <2>1. UNCHANGED <<status, receipts, up>> /\ batch # None /\ up
    BY <1>3 DEF FinishOne
  <2>2. \A r \in fp' : r \in fp \/ r \in Produced(batch.cur)
    BY <1>3 DEF FinishOne, Upsert
  <2>3. batch' # None
    BY <1>3, FinishShape
  <2>4. \A o \in Obs : Holds(batch'.ops, o, "resolved") => Holds(batch.ops, o, "resolved") \/ o = batch.cur
    BY <1>3, FinishShape
  <2>5. ~Open
    BY <2>1 DEF Open
  <2> QED
    BY <1>3, <2>1, <2>2, <2>3, <2>4, <2>5
<1>4. ASSUME ClaimBatch PROVE quiet /\ batch = None /\ \A o \in Obs : ~Holds(batch'.ops, o, "resolved")
  <2>1. UNCHANGED <<status, receipts, up, fp>> /\ batch = None
    BY <1>4 DEF ClaimBatch
  <2> QED
    BY <1>4, <2>1, ClaimShape DEF TypeOK
<1>5. ASSUME FailOne
      PROVE  quiet /\ batch # None /\ batch' # None
             /\ \A o \in Obs : Holds(batch'.ops, o, "resolved") => Holds(batch.ops, o, "resolved")
  <2>1. UNCHANGED <<status, receipts, up, fp>> /\ batch # None
    BY <1>5 DEF FailOne
  <2> QED
    BY <1>5, <2>1, FailShape DEF TypeOK
<1>6. ASSUME NEW o \in Obs, SkipOne(o) \/ StartOne(o) PROVE quiet /\ kept
  <2>1. UNCHANGED <<status, receipts, up, fp>> /\ batch # None
    BY <1>6 DEF SkipOne, StartOne
  <2> QED
    BY <1>6, <2>1, SkipShape, StartShape DEF TypeOK
<1>7. ASSUME NEW o \in Obs, Observe(o) PROVE quiet /\ kept
  <2>1. UNCHANGED <<receipts, fp>> /\ (up' => up)
    BY <1>7 DEF Observe
  <2>2. \A p \in Obs : status'[p] = "accepted" => status[p] \in {"accepted", "absent"}
    BY <1>7 DEF Observe, TypeOK
  <2>3. kept
    BY <1>7 DEF Observe, Die
  <2> QED
    BY <2>1, <2>2, <2>3
<1>8. ASSUME DieInBatch PROVE quiet /\ kept
  BY <1>8 DEF DieInBatch, Die, TypeOK
<1>9. ASSUME NEW s \in Scopes, Erase(s) PROVE quiet /\ kept
  BY <1>9, EraseShape
<1>10. ASSUME NEW o \in Obs, Forget(o) PROVE quiet /\ kept
  BY <1>10 DEF Forget, TypeOK
<1>11. ASSUME \/ Close \/ WipeQueue \/ RestoreResync \/ UNCHANGED vars
              \/ \E o \in Obs : Retry(o)
              \/ \E c \in 1 .. MaxClaims : ForgetClaim(c) \/ ReviseClaim(c)
       PROVE  quiet /\ kept
  <2>0. CASE Close \/ WipeQueue \/ RestoreResync \/ UNCHANGED vars
    BY <2>0 DEF Close, WipeQueue, RestoreResync, vars, TypeOK
  <2>2. CASE \E o \in Obs : Retry(o)
    BY <2>2 DEF Retry, TypeOK
  <2>1. ASSUME \E c \in 1 .. MaxClaims : ForgetClaim(c) \/ ReviseClaim(c)
        PROVE  UNCHANGED <<status, batch, receipts, fp, up>>
    BY <2>1 DEF ForgetClaim, ReviseClaim
  <2> QED
    BY <1>11, <2>0, <2>1, <2>2 DEF TypeOK
<1>12. ASSUME quiet, kept, ~Open
       PROVE  /\ batch' # None => \A o \in Obs :
                    Holds(batch'.ops, o, "resolved") => batch # None /\ Holds(batch.ops, o, "resolved")
              /\ \A r \in fp' : r \in fp
  BY <1>12
<1>13. CASE ~Open /\ ~commits /\ ~FinishOne
  <2>1. \/ quiet /\ kept
        \/ quiet /\ batch = None /\ \A o \in Obs : ~Holds(batch'.ops, o, "resolved")
        \/ quiet /\ batch # None /\ batch' # None
             /\ \A o \in Obs : Holds(batch'.ops, o, "resolved") => Holds(batch.ops, o, "resolved")
    BY <1>4, <1>5, <1>6, <1>7, <1>8, <1>9, <1>10, <1>11, <1>13 DEF Next
  <2> QED
    BY <1>12, <1>13, <2>1
<1> QED
  BY <1>1, <1>2, <1>3, <1>13

LEMMA LostStep == QueueInv /\ LostInv /\ [Next]_vars => LostInv'
<1> SUFFICES ASSUME QueueInv, LostInv, [Next]_vars, Rebuilt' PROVE LostInv'
  BY DEF LostInv
<1> DEFINE commits == \E n \in 1 .. 3 : Commit \/ CommitDies(n)
<1>0. host' = host /\ Rebuilt
  BY HostStays DEF Rebuilt, Does
<1>1. /\ \A o \in Obs : status[o] = "accepted" =>
            /\ Holds(receipts, o, "resolved") => Covered(o, OnDisk)
            /\ batch # None /\ Holds(batch.ops, o, "resolved") => Covered(o, Written)
      /\ up \/ ~Does("rebuilds") => \A r \in fp : r \in Written \/ Dead(r.fact)
  BY <1>0 DEF LostInv
<1>2. AliveInv'
  BY QueueStep DEF QueueInv
<1>3. /\ \A r \in OnDisk : r \in OnDisk' \/ Dead(r.fact)'
      /\ \A f : Dead(f) => Dead(f)'
      /\ commits \/ batch' # None \/ batch = None => \A r \in Written : r \in Written' \/ Dead(r.fact)'
  <2>1. ASSUME NEW s \in Scopes, Erase(s)
        PROVE  /\ \A r \in OnDisk : r \in OnDisk' \/ Dead(r.fact)'
               /\ \A f : Dead(f) => Dead(f)'
               /\ \A r \in Written : r \in Written' \/ Dead(r.fact)'
    BY <2>1, EraseShape
  <2>2. ASSUME NEW c \in 1 .. MaxClaims, ForgetClaim(c) \/ ReviseClaim(c)
        PROVE  OnDisk \subseteq OnDisk' /\ Written \subseteq Written' /\ erased' = erased
    BY <2>2, EditShape
  <2>3. ASSUME commits
        PROVE  OnDisk \subseteq OnDisk' /\ Written \subseteq Written' /\ erased' = erased
    BY <2>3, CommitShape DEF QueueInv
  <2>4. erased' = erased => \A f : Dead(f) => Dead(f)'
    BY DEF Dead
  <2> QED
    BY <2>1, <2>2, <2>3, <2>4, WrittenStep
<1>4. ASSUME NEW o \in Obs, status'[o] = "accepted", Holds(receipts', o, "resolved")
      PROVE  Covered(o, OnDisk')
  <2>1. CASE status[o] = "accepted" /\ Holds(receipts, o, "resolved")
    <3>1. Covered(o, OnDisk)
      BY <1>1, <2>1
    <3> QED
      BY <1>2, <1>3, <1>4, <3>1, CoveredStays
  <2>2. CASE ~(status[o] = "accepted" /\ Holds(receipts, o, "resolved"))
    <3>1. ~Holds(receipts, o, "resolved")
      BY <1>4, <2>2, Frame DEF QueueInv, AbsentInv
    <3>2. commits
      BY <1>4, <3>1, Frame
    <3>3. batch # None /\ batch' = None /\ status' = status /\ Written' = Written
          /\ Holds(batch.ops, o, "resolved")
      BY <1>4, <3>1, <3>2, CommitShape DEF QueueInv
    <3>4. Covered(o, Written) /\ Written' = OnDisk'
      BY <1>1, <1>4, <3>3 DEF Written
    <3> QED
      BY <3>3, <3>4
  <2> QED
    BY <2>1, <2>2
<1>5. ASSUME NEW o \in Obs, status'[o] = "accepted", batch' # None, Holds(batch'.ops, o, "resolved")
      PROVE  Covered(o, Written')
  <2>1. batch # None /\ (Holds(batch.ops, o, "resolved") \/ (FinishOne /\ o = batch.cur))
    BY <1>5, Frame
  <2>2. o \in batch.all
    BY <2>1, FinishShape DEF QueueInv, OpsInv
  <2>3. status[o] = "accepted"
    BY <1>5, <2>1, <2>2, Frame DEF QueueInv, AbsentInv
  <2>4. CASE Holds(batch.ops, o, "resolved")
    <3>1. Covered(o, Written)
      BY <1>1, <2>1, <2>3, <2>4
    <3> QED
      BY <1>2, <1>3, <1>5, <3>1, CoveredStays
  <2>5. CASE FinishOne /\ o = batch.cur
    <3>1. up
      BY <2>5 DEF FinishOne
    <3>2. Covered(o, Written \cup Produced(o))
      BY <1>1, <2>3, <2>5, <3>1, FinishCovers
    <3>3. Written' = Written \cup Produced(o)
      <4>1. OnDisk' = OnDisk
        BY <2>5 DEF FinishOne, OnDisk
      <4> QED
        BY <2>1, <2>5, <4>1, FinishShape DEF Written, QueueInv
    <3> QED
      BY <3>2, <3>3
  <2> QED
    BY <2>1, <2>4, <2>5
<1>6. ASSUME up' \/ ~Does("rebuilds")', NEW r \in fp' PROVE r \in Written' \/ Dead(r.fact)'
  <2>0. up' \/ ~Does("rebuilds")
    BY <1>0, <1>6 DEF Does
  <2>1. commits \/ batch' # None \/ batch = None
    BY <1>0, <2>0, Frame DEF Rebuilt
  <2>2. CASE r \in OnDisk
    BY <1>3, <2>2 DEF Written
  <2>3. CASE FinishOne /\ r \in Produced(batch.cur)
    BY <2>3, FinishShape DEF Written, QueueInv
  <2>4. CASE r \in fp /\ r \notin OnDisk
    <3>1. up \/ ~Does("rebuilds")
      BY <1>6, <2>0, <2>4, Frame
    <3>2. r \in Written \/ Dead(r.fact)
      BY <1>1, <2>4, <3>1
    <3> QED
      BY <1>3, <2>1, <3>2
  <2> QED
    BY <1>6, <2>2, <2>3, <2>4, Frame
<1> QED
  BY <1>4, <1>5, <1>6 DEF LostInv

\* No fact is lost where an index whose batch died with the process is rebuilt:
\* a live observation whose job is done is evidence of a committed version, or
\* its claim is the user's (worker.ts, the order of the commit).
THEOREM NothingIsLost == Spec => [](Rebuilt => NothingLost)
<1>1. Spec => [](QueueInv /\ LostInv)
  <2>1. Init => QueueInv /\ LostInv
    BY InitQueue, InitLost
  <2>2. (QueueInv /\ LostInv) /\ [Next]_vars => (QueueInv /\ LostInv)'
    BY QueueStep, LostStep
  <2> QED
    BY <2>1, <2>2, PTL DEF Spec
<1>2. QueueInv /\ LostInv => (Rebuilt => NothingLost)
  <2> SUFFICES ASSUME QueueInv, LostInv, Rebuilt, NEW o \in Obs,
                      status[o] = "accepted", jobs[o] = "done", FactOf[o] # None
               PROVE  \E x \in claims :
                        x.rec.fact = FactOf[o] /\ (o \in x.rec.from \/ x.rec.owner = "user")
    BY DEF NothingLost
  <2>1. Covered(o, OnDisk)
    BY DEF QueueInv, DoneInv, LostInv
  <2> QED
    BY <2>1 DEF Covered, OnDisk
<1> QED
  BY <1>1, <1>2, PTL

\* Where users do not erase a scope under a running batch, nothing of an erased
\* scope is on the canonical surface, nor will the worker write it back.
THEOREM ErasedStaysGone == Spec => [](~Does("overlaps") => ErasedGone)
<1>1. Spec => [](QueueInv /\ ErasedInv)
  <2>1. Init => QueueInv /\ ErasedInv
    BY InitQueue, InitErased
  <2>2. (QueueInv /\ ErasedInv) /\ [Next]_vars => (QueueInv /\ ErasedInv)'
    BY QueueStep, ErasedStep
  <2> QED
    BY <2>1, <2>2, PTL DEF Spec
<1>2. ErasedInv => (~Does("overlaps") => ErasedGone)
  BY DEF ErasedInv, ErasedGone, Dead, Written, OnDisk
<1> QED
  BY <1>1, <1>2, PTL

\* A failed job has its marker in the operations log between batches, unless
\* extraction fails in processes that die: a deleted ledger is regenerated with
\* the same failures.
THEOREM FailuresMirrored == Spec => [](~(Does("fails") /\ Does("dies")) => FailureMirrored)
<1>1. Spec => [](QueueInv /\ MirrorInv)
  <2>1. Init => QueueInv /\ MirrorInv
    BY InitQueue, InitMirror
  <2>2. (QueueInv /\ MirrorInv) /\ [Next]_vars => (QueueInv /\ MirrorInv)'
    BY QueueStep, MirrorStep
  <2> QED
    BY <2>1, <2>2, PTL DEF Spec
<1>2. QueueInv /\ MirrorInv => (~(Does("fails") /\ Does("dies")) => FailureMirrored)
  <2> SUFFICES ASSUME QueueInv, MirrorInv, ~(Does("fails") /\ Does("dies")),
                      batch = None, NEW o \in Obs, jobs[o] = "failed"
               PROVE  \E i \in DOMAIN receipts : receipts[i] = [obs |-> o, outcome |-> "failed"]
    BY DEF FailureMirrored
  <2>1. Holds(receipts, o, "failed")
    BY DEF MirrorInv
  <2>2. PICK i \in DOMAIN receipts : receipts[i].obs = o /\ receipts[i].outcome = "failed"
    BY <2>1 DEF Holds
  <2>3. receipts \in Seq(Receipts)
    BY DEF QueueInv, TypeOK
  <2>4. receipts[i] \in Receipts
    BY <2>3, LenProperties, ElementOfSeq
  <2>5. receipts[i] = [obs |-> o, outcome |-> "failed"]
    BY <2>2, <2>4 DEF Receipts
  <2> QED
    BY <2>5
<1> QED
  BY <1>1, <1>2, PTL

-----------------------------------------------------------------------------
(* Freshness labels.                                                       *)

LEMMA InitFresh == Init => FreshInv
BY DEF Init, FreshInv

\* Receipts that agree decide the outcome.
LEMMA OutcomeAgrees ==
    ASSUME TypeOK, NEW o \in Obs, ~(Holds(receipts, o, "resolved") /\ Holds(receipts, o, "failed"))
    PROVE  \A x \in {"resolved", "failed"} : Holds(receipts, o, x) => Outcome(o) = x
<1>0. receipts \in Seq(Receipts)
  BY DEF TypeOK
<1>1. Holds(receipts, o, "resolved") => LastReceipt(o, "resolved")
  BY <1>0, OnlyReceiptIsLast
<1>2. Holds(receipts, o, "failed") => LastReceipt(o, "failed")
  BY <1>0, OnlyReceiptIsLast
<1>3. LastReceipt(o, "resolved") => Holds(receipts, o, "resolved")
  BY <1>0, LastReceiptHolds
<1> QED
  BY <1>1, <1>2, <1>3 DEF Outcome

LEMMA FreshStep == QueueInv /\ MirrorInv /\ FreshInv /\ [Next]_vars => FreshInv'
<1> SUFFICES ASSUME QueueInv, MirrorInv, FreshInv, [Next]_vars, Settles',
                    NEW o \in Obs, status'[o] = "accepted"
             PROVE  FreshOf(o)'
  BY DEF FreshInv
<1> USE DEF QueueInv
<1>0. host' = host /\ Settles /\ Does("restores")' = Does("restores")
  BY HostStays DEF Settles, Does
<1>a. status[o] = "accepted" => FreshOf(o)
  BY <1>0 DEF FreshInv
<1>b. o # None
  BY CompileAssumption
<1>1. CASE Open
  <2>1. UNCHANGED <<status, receipts, batch>> /\ up' = TRUE /\ batch = None
    BY <1>1 DEF Open, UpInv
  <2>2. FreshOf(o) /\ status[o] = "accepted"
    BY <1>a, <2>1
  <2>3. ~(Holds(receipts, o, "resolved") /\ Holds(receipts, o, "failed"))
    BY <2>2 DEF FreshOf
  <2>4. \A x \in {"resolved", "failed"} : Holds(receipts, o, x) => Outcome(o) = x
    BY <2>3, OutcomeAgrees
  <2>5. jobs[o] = "failed" => Holds(receipts, o, "failed")
    BY <1>0, <2>1 DEF MirrorInv, Settles
  <2>6. jobs[o] = "done" => Holds(receipts, o, "resolved")
    BY <2>2 DEF DoneInv
  <2>7. jobs[o] \in {"none", "pending", "running", "done", "failed"}
    BY DEF TypeOK
  <2>8. \/ Outcome(o) = "resolved" /\ jobs'[o] = "done" /\ fresh'[o] = "EXTRACTED"
        \/ Outcome(o) = "failed" /\ jobs'[o] = "failed" /\ fresh'[o] = "FAILED"
        \/ Outcome(o) = None /\ jobs'[o] = "pending" /\ fresh'[o] = "unverified"
    BY <1>1, <2>2, <2>4, <2>5, <2>6, <2>7, OpenJobs
  <2>9. None # "resolved" /\ None # "failed"
    BY CompileAssumption
  <2>10. jobs'[o] \in {"pending", "running"} => \A x \in {"resolved", "failed"} : ~Holds(receipts, o, x)
    BY <2>4, <2>8, <2>9
  <2> QED
    BY <2>1, <2>3, <2>8, <2>10 DEF FreshOf, Label
<1>2. CASE Close
  BY <1>0, <1>2, <1>a DEF Close, FreshOf
<1>3. CASE DieInBatch
  BY <1>0, <1>3, <1>a DEF DieInBatch, Die, FreshOf
<1>4. CASE WipeQueue
  BY <1>0, <1>4, <1>a DEF WipeQueue, FreshOf, UpInv
<1>5. CASE RestoreResync
  BY <1>0, <1>5, <1>a DEF RestoreResync, FreshOf, MemberOf
<1>6. ASSUME NEW p \in Obs, Observe(p) PROVE FreshOf(o)'
  <2>1. /\ status[p] = "absent" /\ receipts' = receipts
        /\ o # p => status[o] = "accepted"
    BY <1>6 DEF Observe, TypeOK
  <2>2. CASE UNCHANGED <<batch, up, deaths>> /\ jobs' = [jobs EXCEPT ![p] = "pending"]
             /\ fresh' = [fresh EXCEPT ![p] = "unverified"]
    <3>1. CASE o = p
      <4>1. jobs'[o] = "pending" /\ fresh'[o] = "unverified"
        BY <2>2, <3>1 DEF TypeOK
      <4> QED
        BY <2>1, <2>2, <3>1, <4>1 DEF FreshOf, AbsentInv, Label
    <3>2. CASE o # p
      <4>1. jobs'[o] = jobs[o] /\ fresh'[o] = fresh[o]
        BY <2>2, <3>2 DEF TypeOK
      <4> QED
        BY <1>0, <1>a, <2>1, <2>2, <3>2, <4>1 DEF FreshOf, MemberOf, Label
    <3> QED
      BY <3>1, <3>2
  <2>3. CASE Die
    BY <1>a, <2>1, <2>3 DEF Die, FreshOf, AbsentInv
  <2> QED
    BY <1>6, <2>2, <2>3 DEF Observe
<1>7. ASSUME NEW p \in Obs, Forget(p) PROVE FreshOf(o)'
  <2>1. o # p /\ status[o] = "accepted" /\ fresh'[o] = fresh[o] /\ UNCHANGED <<jobs, receipts, batch, up>>
    BY <1>7 DEF Forget, TypeOK
  <2> QED
    BY <1>0, <1>a, <2>1 DEF FreshOf, MemberOf, Label
<1>8. ASSUME NEW p \in Obs, Retry(p) PROVE FALSE
  <2>1. Does("fails")
    BY <1>8 DEF Retry, MirrorInv
  <2> QED
    BY <1>0, <1>8, <2>1 DEF Retry, Settles
<1>9. ASSUME NEW p \in Obs, SkipOne(p) PROVE FreshOf(o)'
  <2>1. UNCHANGED <<status, fresh, receipts, up>> /\ o # p /\ batch # None /\ up
    BY <1>9 DEF SkipOne, Compilable
  <2>2. jobs'[o] = jobs[o]
    BY <1>9, <2>1, SkipShape
  <2>3. FreshOf(o)
    BY <1>a, <2>1
  <2> QED
    BY <1>0, <1>9, <2>1, <2>2, <2>3, SkipShape DEF FreshOf, MemberOf, Label
<1>10. ASSUME NEW p \in Obs, StartOne(p) PROVE FreshOf(o)'
  <2>1. UNCHANGED <<status, fresh, receipts, up, jobs>> /\ batch # None /\ batch.cur = None /\ p \in batch.todo
    BY <1>10 DEF StartOne
  <2>2. FreshOf(o)
    BY <1>a, <2>1
  <2> QED
    BY <1>0, <1>10, <2>1, <2>2, StartShape DEF FreshOf, MemberOf, Label
<1>11. ASSUME NEW s \in Scopes, Erase(s) PROVE FreshOf(o)'
  <2>1. /\ status[o] = "accepted" /\ fresh'[o] = fresh[o] /\ jobs'[o] = jobs[o]
        /\ UNCHANGED <<receipts, batch, up>>
    BY <1>11 DEF Erase
  <2> QED
    BY <1>0, <1>a, <2>1 DEF FreshOf, MemberOf, Label
<1>12. ASSUME NEW c \in 1 .. MaxClaims, ForgetClaim(c) \/ ReviseClaim(c) PROVE FreshOf(o)'
  <2>1. UNCHANGED <<status, fresh, receipts, up, jobs, batch>>
    BY <1>12, EditShape
  <2> QED
    BY <1>0, <1>a, <2>1 DEF FreshOf, MemberOf, Label
<1>13. CASE ClaimBatch
  <2>1. UNCHANGED <<status, fresh, receipts, up>> /\ up
    BY <1>13 DEF ClaimBatch
  <2>2. FreshOf(o)
    BY <1>a, <2>1
  <2>3. PICK S \in SUBSET Obs :
            /\ \A p \in S : jobs[p] = "pending"
            /\ \A p \in Obs : jobs'[p] = IF p \in S THEN "running" ELSE jobs[p]
            /\ batch'.all = S /\ batch'.todo = S /\ batch'.cur = None
            /\ batch'.failed = {} /\ batch'.recs = {}
            /\ \A p, x : ~Holds(batch'.ops, p, x)
    BY <1>13, ClaimShape
  <2>4. CASE o \in S
    <3>1. MemberOf(o)'
      BY <1>b, <2>1, <2>2, <2>3, <2>4 DEF FreshOf, MemberOf
    <3> QED
      BY <1>0, <2>1, <2>2, <2>3, <2>4, <3>1 DEF FreshOf, Label
  <2>5. CASE o \notin S
    BY <1>0, <2>1, <2>2, <2>3, <2>5 DEF FreshOf, Label
  <2> QED
    BY <2>4, <2>5
<1>14. CASE FinishOne
  <2>1. UNCHANGED <<status, fresh, receipts, up, jobs>> /\ batch # None
    BY <1>14 DEF FinishOne
  <2>2. FreshOf(o)
    BY <1>a, <2>1
  <2> QED
    BY <1>0, <1>b, <1>14, <2>1, <2>2, FinishShape DEF FreshOf, MemberOf, Label
<1>15. CASE FailOne
  <2>1. UNCHANGED <<status, receipts, up>> /\ batch # None /\ up
    BY <1>15 DEF FailOne
  <2>2. FreshOf(o)
    BY <1>a, <2>1
  <2>3. CASE o = batch.cur
    <3>1. jobs[o] = "running" /\ o \in batch.all /\ MemberOf(o)
      BY <1>15, <2>1, <2>2, <2>3, FailShape DEF FreshOf, MemberOf
    <3>2. jobs'[o] = "failed"
      BY <1>15, <2>3, <3>1, FailShape
    <3>3. ~Does("restores") => fresh'[o] = "FAILED"
      BY <1>15, <2>1, <2>2, <2>3, <3>1, FailShape DEF FreshOf, Label
    <3>4. MemberOf(o)'
      BY <1>b, <1>15, <2>1, <2>3, <3>1, <3>2, FailShape DEF MemberOf
    <3> QED
      BY <1>0, <2>1, <2>2, <3>2, <3>3, <3>4 DEF FreshOf, Label
  <2>4. CASE o # batch.cur
    <3>1. jobs'[o] = jobs[o] /\ fresh'[o] = fresh[o]
      BY <1>15, <2>4, FailShape
    <3> QED
      BY <1>0, <1>b, <1>15, <2>1, <2>2, <2>4, <3>1, FailShape DEF FreshOf, MemberOf, Label
  <2> QED
    BY <2>3, <2>4
<1>16. ASSUME NEW n \in 1 .. 3, Commit \/ CommitDies(n) PROVE FreshOf(o)'
  <2>1. /\ batch # None /\ batch.todo = {} /\ batch.cur = None /\ batch' = None /\ status' = status /\ up
        /\ \A x : Holds(receipts', o, x) => Holds(receipts, o, x) \/ Holds(batch.ops, o, x)
    BY <1>16, CommitShape
  <2>2. FreshOf(o) /\ status[o] = "accepted"
    BY <1>a, <2>1
  <2>3. o \in batch.all => MemberOf(o)
    BY <2>1, <2>2 DEF FreshOf
  <2>4. o \notin batch.all => \A x \in {"resolved", "failed"} : ~Holds(batch.ops, o, x)
    BY <2>1 DEF OpsInv
  <2>5. ~(Holds(receipts', o, "resolved") /\ Holds(receipts', o, "failed"))
    BY <2>1, <2>2, <2>3, <2>4 DEF FreshOf, MemberOf
  <2>6. CASE CommitDies(n)
    <3>1. up' = FALSE
      BY <2>6 DEF CommitDies, Die
    <3> QED
      BY <2>1, <2>5, <3>1 DEF FreshOf
  <2>7. CASE Commit /\ ~CommitDies(n)
    <3>1. /\ \A x : Holds(receipts', o, x) <=> Holds(receipts, o, x) \/ Holds(batch.ops, o, x)
          /\ jobs' = Marked(jobs, batch.all \ batch.failed, "done")
      BY <1>16, <2>7, CommitShape
    <3>2. fresh' = Labelled(batch.all \ batch.failed, "EXTRACTED") /\ up' = up
      BY <2>7 DEF Commit
    <3>3. CASE o \in batch.all \ batch.failed
      <4>1. jobs[o] = "running"
        BY <2>3, <3>3 DEF MemberOf
      <4>2. jobs'[o] = "done"
        BY <3>1, <3>3, <4>1 DEF Marked
      <4>3. ~Does("restores") => fresh'[o] = "EXTRACTED"
        BY <2>1, <2>2, <3>2, <3>3, <4>1 DEF FreshOf, Label, Labelled
      <4> QED
        BY <1>0, <2>1, <2>5, <4>2, <4>3 DEF FreshOf, Label
    <3>4. CASE o \notin batch.all \ batch.failed
      <4>1. jobs'[o] = jobs[o] /\ fresh'[o] = fresh[o]
        BY <3>1, <3>2, <3>4 DEF Marked, Labelled
      <4>2. o \in batch.all => jobs[o] = "failed"
        BY <2>3, <3>4 DEF MemberOf
      <4> QED
        BY <1>0, <2>1, <2>2, <2>4, <2>5, <3>1, <3>2, <4>1, <4>2 DEF FreshOf, Label
    <3> QED
      BY <3>3, <3>4
  <2> QED
    BY <1>16, <2>6, <2>7
<1>17. CASE UNCHANGED vars
  BY <1>0, <1>17, <1>a DEF vars, FreshOf, MemberOf, Label
<1> QED
  BY <1>1, <1>2, <1>3, <1>4, <1>5, <1>6, <1>7, <1>8, <1>9, <1>10, <1>11, <1>12, <1>13,
     <1>14, <1>15, <1>16, <1>17 DEF Next

\* Where failures are neither retried nor lost with a process, the label of
\* every live observation is the one its job's state stands for between batches
\* (the freshness contract of worker.ts), through crashes and reopenings.
THEOREM FreshnessKept == Spec => [](Settles => FreshnessContract)
<1>1. Spec => [](QueueInv /\ MirrorInv /\ FreshInv)
  <2>1. Init => QueueInv /\ MirrorInv /\ FreshInv
    BY InitQueue, InitMirror, InitFresh
  <2>2. (QueueInv /\ MirrorInv /\ FreshInv) /\ [Next]_vars => (QueueInv /\ MirrorInv /\ FreshInv)'
    BY QueueStep, MirrorStep, FreshStep
  <2> QED
    BY <2>1, <2>2, PTL DEF Spec
<1>2. FreshInv => (Settles => FreshnessContract)
  BY DEF FreshInv, FreshnessContract, FreshOf, Label
<1> QED
  BY <1>1, <1>2, PTL

-----------------------------------------------------------------------------
(* One claim per fact.                                                     *)

\* Of the active rows of a fact one comes first.
LEMMA ActiveExists ==
    ASSUME TypeOK, Numbered, NEW r \in fp, r.state = "active"
    PROVE  ActiveByFingerprint(r.fact) # {}
<1> DEFINE found == {q \in fp : q.fact = r.fact /\ q.state = "active"}
           V == {q.version : q \in found}
<1>0. \A q \in fp : q.version \in Nat /\ q.claim \in Nat
  BY DEF TypeOK, Records
<1>1. PICK n \in Nat : \A q \in fp : q.version <= n
  BY DEF Numbered
<1>2. V \in SUBSET Nat /\ V # {} /\ \A v \in V : v <= n
  BY <1>0, <1>1
<1>3. PICK v \in V : \A w \in V : w <= v
  BY <1>2, LargestExists
<1> DEFINE C == {q.claim : q \in {p \in found : p.version = v}}
<1>4. C \in SUBSET Nat /\ C # {}
  BY <1>0, <1>3
<1>5. PICK c \in C : \A d \in C : c <= d
  BY <1>4, SmallestExists
<1>6. PICK q \in found : q.version = v /\ q.claim = c
  BY <1>5
<1>7. ASSUME NEW p \in found
      PROVE  p.version < q.version \/ (p.version = q.version /\ p.claim >= q.claim)
  <2>1. p.version \in Nat /\ q.version \in Nat /\ p.claim \in Nat /\ q.claim \in Nat /\ p.version <= q.version
    BY <1>0, <1>3, <1>6
  <2>2. p.version = q.version => p.claim \in C
    BY <1>6
  <2> QED
    BY <1>5, <1>6, <2>1, <2>2
<1>8. q \in ActiveByFingerprint(r.fact)
  BY <1>6, <1>7 DEF ActiveByFingerprint
<1> QED
  BY <1>8

\* Of the lines of a claim one is the latest.
LEMMA LatestExists ==
    ASSUME TypeOK, Numbered, NEW x \in claims
    PROVE  \E y \in Latest(claims) : y.rec.claim = x.rec.claim
<1> DEFINE found == {y \in claims : y.rec.claim = x.rec.claim}
           V == {y.rec.version : y \in found}
<1>0. \A y \in claims : y.rec.version \in Nat /\ y.at \in Nat /\ y.rec \in Written
  BY DEF TypeOK, Lines, Records, Written, OnDisk
<1>1. PICK n \in Nat : \A q \in Written : q.version <= n
  BY DEF Numbered
<1>2. V \in SUBSET Nat /\ V # {} /\ \A v \in V : v <= n
  BY <1>0, <1>1
<1>3. PICK v \in V : \A w \in V : w <= v
  BY <1>2, LargestExists
<1> DEFINE A == {y.at : y \in {z \in found : z.rec.version = v}}
<1>4. A \in SUBSET Nat /\ A # {}
  BY <1>0, <1>3
<1>5. PICK a \in A : \A d \in A : a <= d
  BY <1>4, SmallestExists
<1>6. PICK y \in found : y.rec.version = v /\ y.at = a
  BY <1>5
<1>7. ASSUME NEW z \in found
      PROVE  z.rec.version < y.rec.version \/ (z.rec.version = y.rec.version /\ y.at <= z.at)
  <2>1. z.rec.version \in Nat /\ y.rec.version \in Nat /\ z.rec.version <= y.rec.version
    BY <1>0, <1>3, <1>6
  <2>2. z.rec.version = y.rec.version => z.at \in A
    BY <1>6
  <2> QED
    BY <1>5, <1>6, <2>1, <2>2
<1>8. y \in Latest(claims)
  BY <1>6, <1>7 DEF Latest
<1> QED
  BY <1>6, <1>8

\* After a catch-up the index has a row of every claim on disk.
LEMMA CatchUpKnows ==
    ASSUME TypeOK, Numbered, NEW I, \A r \in I : r \in Records, NEW x \in claims
    PROVE  \E q \in CatchUp(I, claims) : q.claim = x.rec.claim
<1>1. PICK y \in Latest(claims) : y.rec.claim = x.rec.claim
  BY LatestExists
<1>2. CASE \A r \in I : r.claim = y.rec.claim => r.version < y.rec.version
  <2>1. y.rec \in CatchUp(I, claims)
    BY <1>2 DEF CatchUp
  <2> QED
    BY <1>1, <2>1
<1>3. CASE ~(\A r \in I : r.claim = y.rec.claim => r.version < y.rec.version)
  <2>0. y \in claims
    BY DEF Latest
  <2>1. PICK r \in I : r.claim = y.rec.claim /\ ~(r.version < y.rec.version)
    BY <1>3
  <2>2. r.version \in Nat /\ y.rec.version \in Nat
    BY <2>0 DEF TypeOK, Lines, Records
  <2>3. ASSUME NEW z \in claims, z.rec.claim = r.claim PROVE z.rec.version <= r.version
    <3>1. z.rec.version \in Nat
      BY DEF TypeOK, Lines, Records
    <3>2. z.rec.version < y.rec.version \/ z.rec.version = y.rec.version
      BY <2>1, <2>3 DEF Latest
    <3> QED
      BY <2>1, <2>2, <3>1, <3>2
  <2>4. r \in CatchUp(I, claims)
    BY <2>3 DEF CatchUp
  <2> QED
    BY <1>1, <2>1, <2>4
<1> QED
  BY <1>2, <1>3

\* An upsert forgets no claim.
LEMMA UpsertKnows ==
    ASSUME NEW I, NEW r, NEW q, q \in I \/ q = r
    PROVE  \E p \in Upsert(I, r) : p.claim = q.claim
BY DEF Upsert

\* The index is written by opening, finishing and erasing alone.
LEMMA IndexStays ==
    ASSUME [Next]_vars, ~Open, ~FinishOne, \A s \in Scopes : ~Erase(s)
    PROVE  fp' = fp
BY DEF Next, vars, Close, DieInBatch, WipeQueue, RestoreResync, Observe, Forget, Retry,
       SkipOne, StartOne, ForgetClaim, ReviseClaim, ClaimBatch, FailOne, Commit, CommitDies

LEMMA InitOne == Init => OneInv
BY DEF Init, OneInv, ClaimsSound, FactsSound, IndexKnows, Written, OnDisk

\* Finishing an observation: a claim of a new fact has a new id, a new version
\* is of the claim the fact has.
LEMMA FinishSound ==
    ASSUME QueueInv, LostInv, ErasedInv, OneInv, Calm, FinishOne, Written' = Written \cup Produced(batch.cur)
    PROVE  ClaimsSound' /\ FactsSound' /\ IndexKnows'
<1> DEFINE o == batch.cur
           new == Produced(o)
<1> USE DEF QueueInv
<1>0. up /\ o \in Obs /\ status[o] = "accepted" /\ Written' = Written \cup new
  BY FinishShape DEF ErasedInv, Calm, FinishOne
<1>1. ClaimsSound /\ FactsSound /\ \A r \in Written : \E q \in fp : q.claim = r.claim
  BY <1>0 DEF OneInv, IndexKnows
<1>2. \A r \in fp : r.fact = FactOf[o] /\ FactOf[o] # None => r \in Written
  BY <1>0, LiveFact DEF LostInv, Calm
<1>3. \A r \in fp' : r \in fp \/ r \in new
  BY DEF FinishOne, Upsert
<1>4. \A r \in new : r.state = "active" /\ r.fact = FactOf[o] /\ FactOf[o] # None
  BY <1>0, ProducedShape
<1>5. CASE ActiveByFingerprint(FactOf[o]) = {} /\ new # {}
  <2>1. new = {Minted(o)} /\ Minted(o).claim = minted + 1
    BY <1>0, <1>5, ProducedShape DEF Minted
  <2>2. \A r \in fp \cup Written : r.claim # minted + 1
    <3> SUFFICES ASSUME NEW r \in fp \cup Written PROVE r.claim # minted + 1
      OBVIOUS
    <3>1. r.claim <= minted
      BY DEF Numbered
    <3>2. r \in Records
      BY DEF TypeOK, Written, OnDisk, Lines, Batches
    <3>3. r.claim \in Nat /\ minted \in Nat
      BY <3>2, CompileAssumption DEF TypeOK, Records
    <3> QED
      BY <3>1, <3>3
  <2>3. \A r \in Written : r.fact # FactOf[o]
    <3> SUFFICES ASSUME NEW r \in Written, r.fact = FactOf[o] PROVE FALSE
      OBVIOUS
    <3>1. PICK q \in fp : q.claim = r.claim
      BY <1>1
    <3>2. q.fact = FactOf[o] /\ q.state = "active"
      BY <1>1, <3>1 DEF ClaimsSound
    <3> QED
      BY <1>5, <3>2, ActiveExists
  <2>4. ClaimsSound'
    BY <1>0, <1>1, <1>3, <1>4, <2>1, <2>2 DEF ClaimsSound
  <2>5. FactsSound'
    BY <1>0, <1>1, <1>4, <2>1, <2>3 DEF FactsSound
  <2>6. fp' = Upsert(fp, Minted(o))
    BY <1>5, <2>1 DEF FinishOne
  <2>7. \A r \in Written' : \E q \in fp' : q.claim = r.claim
    <3>1. \A q : q \in fp \/ q = Minted(o) => \E p \in fp' : p.claim = q.claim
      BY <2>6, UpsertKnows
    <3>2. ASSUME NEW r \in Written' PROVE \E q : (q \in fp \/ q = Minted(o)) /\ q.claim = r.claim
      BY <1>0, <1>1, <2>1
    <3> QED
      BY <3>1, <3>2
  <2> QED
    BY <2>4, <2>5, <2>7 DEF IndexKnows
<1>6. CASE ~(ActiveByFingerprint(FactOf[o]) = {} /\ new # {})
  <2>1. \A r \in new : \E q \in fp : q.claim = r.claim /\ q.fact = FactOf[o]
    <3> SUFFICES ASSUME NEW r \in new PROVE \E q \in fp : q.claim = r.claim /\ q.fact = FactOf[o]
      OBVIOUS
    <3>1. PICK q \in ActiveByFingerprint(FactOf[o]) :
            r = [q EXCEPT !.version = @ + 1, !.from = @ \cup {o}, !.by = o]
      BY <1>0, <1>6, ProducedShape
    <3>2. q \in fp /\ q \in Records /\ q.fact = FactOf[o]
      BY DEF ActiveByFingerprint, TypeOK
    <3> QED
      BY <3>1, <3>2 DEF Records
  <2>2. \A r \in new : \E q \in Written : q.claim = r.claim /\ q.fact = FactOf[o]
    BY <1>2, <1>4, <2>1
  <2>3. ClaimsSound'
    BY <1>0, <1>1, <1>3, <1>4, <2>2 DEF ClaimsSound
  <2>4. FactsSound'
    BY <1>0, <1>1, <1>4, <2>2 DEF FactsSound
  <2>5. \A r \in Written' : \E q \in fp' : q.claim = r.claim
    <3>1. \A r \in Written' : \E q \in fp : q.claim = r.claim
      BY <1>0, <1>1, <2>1
    <3>2. \A q \in fp : \E p \in fp' : p.claim = q.claim
      BY UpsertKnows DEF FinishOne
    <3> QED
      BY <3>1, <3>2
  <2> QED
    BY <2>3, <2>4, <2>5 DEF IndexKnows
<1> QED
  BY <1>5, <1>6

LEMMA OneStep == QueueInv /\ LostInv /\ ErasedInv /\ OneInv /\ [Next]_vars => OneInv'
<1> SUFFICES ASSUME QueueInv, LostInv, ErasedInv, OneInv, [Next]_vars, Calm'
             PROVE  ClaimsSound' /\ FactsSound' /\ IndexKnows'
  BY DEF OneInv
<1> USE DEF QueueInv
<1> DEFINE Goal == ClaimsSound /\ FactsSound /\ IndexKnows
<1>0. host' = host /\ Calm /\ ClaimsSound /\ FactsSound /\ IndexKnows
      /\ Does("rebuilds")' = Does("rebuilds")
  BY HostStays DEF OneInv, Calm, Rebuilt, Does
<1>1. ASSUME NEW s \in Scopes, Erase(s) PROVE Goal'
  <2>1. batch = None /\ batch' = None /\ Written' \subseteq Written /\ fp' \subseteq fp /\ up
    BY <1>0, <1>1, EraseShape DEF Calm
  <2>2. Written' = OnDisk' /\ Written = OnDisk
    BY <2>1 DEF Written
  <2>3. ClaimsSound' /\ FactsSound'
    BY <1>0, <2>1 DEF ClaimsSound, FactsSound
  <2>4. ASSUME NEW w \in Written' PROVE \E q \in fp' : q.claim = w.claim
    <3>1. w \in Written /\ ~\E p \in Obs : FactOf[p] = w.fact /\ ScopeOf[p] = s
      BY <1>1, <2>1, <2>2, EraseShape
    <3>2. PICK q \in fp : q.claim = w.claim
      BY <1>0, <2>1, <3>1 DEF IndexKnows
    <3>3. ASSUME NEW y \in Latest(claims), y.rec.claim = q.claim,
                 \E p \in Obs : FactOf[p] = y.rec.fact /\ ScopeOf[p] = s
          PROVE  FALSE
      <4>1. y.rec \in Written
        BY DEF Latest, Written, OnDisk
      <4> QED
        BY <1>0, <3>1, <3>2, <3>3, <4>1 DEF ClaimsSound
    <3>4. q \in fp'
      BY <1>1, <3>3 DEF Erase
    <3> QED
      BY <3>2, <3>4
  <2> QED
    BY <2>3, <2>4 DEF IndexKnows
<1>2. ASSUME NEW c \in 1 .. MaxClaims, ForgetClaim(c) \/ ReviseClaim(c) PROVE FALSE
  BY <1>0, <1>2, EditShape DEF Calm
<1>3. ASSUME NEW n \in 1 .. 3, Commit \/ CommitDies(n) PROVE Goal'
  <2>1. Written' = Written /\ fp' = fp /\ up
    BY <1>3, CommitShape
  <2> QED
    BY <1>0, <2>1 DEF ClaimsSound, FactsSound, IndexKnows
<1>4. ASSUME FinishOne, Written' = Written \cup Produced(batch.cur) PROVE Goal'
  BY <1>0, <1>4, FinishSound
<1>5. CASE Open
  <2> DEFINE I == IF Does("rebuilds") THEN {} ELSE fp
  <2>1. UNCHANGED <<claims, batch>> /\ fp' = CatchUp(I, claims) /\ batch = None
    BY <1>5 DEF Open, UpInv
  <2>2. Written' = Written /\ Written = OnDisk
    BY <2>1 DEF Written, OnDisk
  <2>3. \A r \in fp' : r \in fp \/ r \in Written
    BY <1>5, <2>2, Frame DEF FinishOne, Open
  <2>4. ClaimsSound' /\ FactsSound'
    BY <1>0, <2>2, <2>3 DEF ClaimsSound, FactsSound
  <2>5. \A r \in I : r \in Records
    BY DEF TypeOK
  <2> HIDE DEF I
  <2>6. \A x \in claims : \E q \in fp' : q.claim = x.rec.claim
    BY <2>1, <2>5, CatchUpKnows
  <2>7. \A w \in Written' : \E q \in fp' : q.claim = w.claim
    BY <2>2, <2>6 DEF OnDisk
  <2> QED
    BY <2>4, <2>7 DEF IndexKnows
<1>6. ASSUME ~Open, ~FinishOne, \A s \in Scopes : ~Erase(s), \A n \in 1 .. 3 : ~Commit /\ ~CommitDies(n),
             Written' \subseteq Written, batch' # None \/ batch = None => Written' = Written
      PROVE  Goal'
  <2>1. fp' = fp
    BY <1>6, IndexStays
  <2>2. ClaimsSound' /\ FactsSound'
    BY <1>0, <1>6, <2>1 DEF ClaimsSound, FactsSound
  <2>3. up' => up
    BY <1>6, Frame
  <2>4. IndexKnows'
    BY <1>0, <1>6, <2>1, <2>3 DEF IndexKnows
  <2> QED
    BY <2>2, <2>4
<1>7. FinishOne => Written' = Written \cup Produced(batch.cur)
  <2> SUFFICES ASSUME FinishOne PROVE Written' = Written \cup Produced(batch.cur)
    OBVIOUS
  <2>1. OnDisk' = OnDisk /\ batch # None
    BY DEF FinishOne, OnDisk
  <2> QED
    BY <2>1, FinishShape DEF Written
<1> QED
  BY <1>1, <1>2, <1>3, <1>4, <1>5, <1>6, <1>7, WrittenStep

\* Compiling again after crashes is idempotent: where the index of a dead batch
\* is rebuilt, and no user edits claims or works under a running batch, a fact
\* has one active claim however often its observations are compiled.
THEOREM OneClaim == Spec => [](Calm => OneClaimPerFact)
<1>1. Spec => [](QueueInv /\ LostInv /\ ErasedInv /\ OneInv)
  <2>1. Init => QueueInv /\ LostInv /\ ErasedInv /\ OneInv
    BY InitQueue, InitLost, InitErased, InitOne
  <2>2. (QueueInv /\ LostInv /\ ErasedInv /\ OneInv) /\ [Next]_vars
            => (QueueInv /\ LostInv /\ ErasedInv /\ OneInv)'
    BY QueueStep, LostStep, ErasedStep, OneStep
  <2> QED
    BY <2>1, <2>2, PTL DEF Spec
<1>2. OneInv => (Calm => OneClaimPerFact)
  BY DEF OneInv, FactsSound, OneClaimPerFact, Latest, Written, OnDisk
<1> QED
  BY <1>1, <1>2, PTL

=============================================================================
