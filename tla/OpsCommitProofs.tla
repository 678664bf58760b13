-------------------------- MODULE OpsCommitProofs --------------------------
(***************************************************************************)
(* What OpsCommit promises for any number of processes, operations,        *)
(* requests, epochs, crashes and failures; at the end, what FenceClients   *)
(* promises for any number of processes, operations and epochs.            *)
(***************************************************************************)
EXTENDS OpsCommit, FenceClients, FiniteSetTheorems, TLAPS

-----------------------------------------------------------------------------
(* Types.                                                                  *)

\* The files are finite, so the number of their lines is a number.
TypeInv == TypeOK /\ IsFiniteSet(art) /\ IsFiniteSet(log)

\* An idle recovery has its type.
LEMMA NoScanType == NoScan \in Scans
BY MaxEpochAssumption DEF NoScan, Scans, Tokens

\* An idle task has its type.
LEMMA NoTaskType == NoTask \in Tasks
<1>1. \E r \in Requests : [req |-> r, n |-> 1] \in Preps
  BY CommitAssumption DEF Preps
<1>2. (CHOOSE o \in Ops : TRUE) \in Ops /\ (CHOOSE r \in Requests : TRUE) \in Requests
  BY CommitAssumption
<1>3. (CHOOSE x \in Preps : TRUE) \in Preps
  BY <1>1
<1> QED
  BY <1>2, <1>3 DEF NoTask, Tasks

\* Appending a line keeps the surface well typed and finite, loses nothing and
\* puts the artifact there.
LEMMA AppendLineFacts ==
    ASSUME art \subseteq Lines, IsFiniteSet(art),
           NEW o \in Ops, NEW s \in Slots, NEW x \in Preps, AppendLine(o, s, x)
    PROVE  /\ art' \subseteq Lines /\ IsFiniteSet(art')
           /\ art \subseteq art'
           /\ Holds(art', o, s, x)
           /\ \A l \in art' : l \in art \/ l.op = o
<1> DEFINE c == Cardinality(Slot(art, o, s)) + 1
           l == [op |-> o, slot |-> s, prep |-> x, copy |-> c]
<1>1. IsFiniteSet(Slot(art, o, s))
  BY FS_Subset DEF Slot
<1>2. c \in Nat
  BY <1>1, FS_CardinalityType
<1> HIDE DEF c
<1>3. art' = art \cup {l} /\ l \in Lines
  BY <1>2 DEF AppendLine, Lines, c
<1>4. IsFiniteSet(art')
  BY <1>3, FS_AddElement
<1> QED
  BY <1>3, <1>4 DEF Holds

\* Appending an entry keeps the log well typed and finite, loses nothing and
\* adds an entry of exactly this operation, preparation and stamp.
LEMMA AppendEntryFacts ==
    ASSUME log \subseteq Entries, IsFiniteSet(log),
           NEW o \in Ops, NEW x \in Preps, NEW t \in Tokens, AppendEntry(o, x, t)
    PROVE  /\ log' \subseteq Entries /\ IsFiniteSet(log')
           /\ log \subseteq log'
           /\ Of(log', o) # {}
           /\ \A e \in log' : e \in log \/ (e.op = o /\ e.prep = x /\ e.stamp = t)
<1> DEFINE c == Cardinality(Of(log, o)) + 1
           e == [op |-> o, prep |-> x, stamp |-> t, copy |-> c]
<1>1. IsFiniteSet(Of(log, o))
  BY FS_Subset DEF Of
<1>2. c \in Nat
  BY <1>1, FS_CardinalityType
<1> HIDE DEF c
<1>3. log' = log \cup {e} /\ e \in Entries
  BY <1>2 DEF AppendEntry, Entries, c
<1>4. IsFiniteSet(log')
  BY <1>3, FS_AddElement
<1> QED
  BY <1>3, <1>4 DEF Of

\* What the two steps that write a commit signal do to the log.
LEMMA AppendFacts ==
    ASSUME TypeInv, NEW p \in Procs, Append(p)
    PROVE  /\ log' \subseteq Entries /\ IsFiniteSet(log')
           /\ Of(log', task[p].op) # {}
           /\ \A e \in log' : e \in log \/ (e.op = task[p].op /\ e.prep = task[p].prep)
<1>1. task[p].op \in Ops /\ task[p].prep \in Preps
  BY DEF TypeInv, TypeOK, Tasks
<1>2. Stamp(p) \in Tokens
  BY MaxEpochAssumption DEF TypeInv, TypeOK, Stamp, Tokens, NoToken
<1>3. AppendEntry(task[p].op, task[p].prep, Stamp(p))
  BY DEF Append
<1>4. log \subseteq Entries /\ IsFiniteSet(log)
  BY DEF TypeInv, TypeOK
<1> QED
  BY <1>1, <1>2, <1>3, <1>4, AppendEntryFacts

\* The same for recovery.
LEMMA ProjectFacts ==
    ASSUME TypeInv, NEW p \in Procs, Project(p)
    PROVE  /\ log' \subseteq Entries /\ IsFiniteSet(log')
           /\ \E i \in scan[p].cur :
                /\ i.op \in Ops
                /\ Of(log', i.op) # {}
                /\ \A e \in log' : e \in log \/ (e.op = i.op /\ e.prep = i.prep)
<1>1. PICK i \in scan[p].cur : AppendEntry(i.op, i.prep, i.stamp)
  BY DEF Project
<1>2. i.op \in Ops /\ i.prep \in Preps /\ i.stamp \in Tokens
  BY DEF TypeInv, TypeOK, Scans, Intents
<1>3. log \subseteq Entries /\ IsFiniteSet(log)
  BY DEF TypeInv, TypeOK
<1> QED
  BY <1>1, <1>2, <1>3, AppendEntryFacts

\* A handler's return keeps the types of the process.
LEMMA ReturnType ==
    ASSUME TypeOK, NEW p \in Procs, Return(p)
    PROVE  pc' \in [Procs -> PCs] /\ task' \in [Procs -> Tasks] /\ scan' \in [Procs -> Scans]
BY NoScanType, NoTaskType DEF TypeOK, Return, Goto, PCs

\* The artifacts of a kind lie on the three surfaces.
LEMMA ExpectedSlots == \A r \in Requests : Expected(KindOf[r]) \subseteq Slots
BY CommitAssumption DEF Expected, Slots, Kinds

\* So do the surfaces a retry passes to recovery.
LEMMA RetrySlots == \A r \in Requests : RetrySurfaces(KindOf[r]) \subseteq Slots
BY CommitAssumption DEF RetrySurfaces, Slots, Kinds

\* The recovery of open() has its type.
LEMMA OpenScanType ==
    ASSUME TypeOK, NEW p \in Procs, BeginOpenScan(p)
    PROVE  pc' \in [Procs -> PCs] /\ scan' \in [Procs -> Scans]
<1>1. [NoScan EXCEPT !.opening = TRUE, !.fenced = TRUE, !.surfaces = Slots] \in Scans
  BY NoScanType DEF Scans
<1> QED
  BY <1>1 DEF TypeOK, BeginOpenScan, Goto, PCs

\* What a handler prepares is a preparation.
LEMMA PreparedType ==
    ASSUME TypeOK, NEW p \in Procs PROVE Prepared(p) \subseteq Preps
<1>1. task[p].req \in Requests /\ task[p].held \subseteq Preps
  BY DEF TypeOK, Tasks
<1>2. CASE KindOf[task[p].req] # "observe" /\ task[p].held # {}
  BY <1>1, <1>2 DEF Prepared
<1>3. CASE ~(KindOf[task[p].req] # "observe" /\ task[p].held # {})
  <2>1. ASSUME NEW x \in Prepared(p) PROVE \E m \in 1 .. MaxPrep : x = [req |-> task[p].req, n |-> m]
    BY <1>3, <2>1 DEF Prepared
  <2> QED
    BY <1>1, <2>1 DEF Preps
<1> QED
  BY <1>2, <1>3

-----------------------------------------------------------------------------
\* The initial state is well typed.
LEMMA InitTypeInv == Init => TypeInv
<1> SUFFICES ASSUME Init PROVE TypeInv
  OBVIOUS
<1>1. IsFiniteSet(art) /\ IsFiniteSet(log)
  BY FS_EmptySet DEF Init
<1> QED
  BY <1>1, NoScanType, NoTaskType, MaxEpochAssumption
  DEF Init, TypeInv, TypeOK, FenceInit, FenceTypeOK, Tokens, NoToken, PCs

\* Every step of every handler and of recovery keeps the types.
LEMMA StepTypeInv == TypeInv /\ [Next]_vars => TypeInv'
<1> SUFFICES ASSUME TypeInv, [Next]_vars PROVE TypeInv'
  OBVIOUS
<1> USE MaxEpochAssumption, CommitAssumption DEF TypeInv, TypeOK, FenceTypeOK
<1>1. CASE UNCHANGED vars
  BY <1>1 DEF vars
<1> SUFFICES ASSUME NEW p \in Procs,
                    \/ Open(p) \/ ClaimFence(p) \/ Crash(p) \/ Fail(p)
                    \/ \E o \in Ops, r \in Requests : Begin(p, o, r)
                    \/ Mutation(p)
                    \/ Recovery(p)
             PROVE  TypeInv'
  BY <1>1 DEF Next
<1>2. CASE Open(p)
  <2>1. CASE OpenNewTerm(p)
    BY <2>1, OpenScanType DEF OpenNewTerm, Claim, Tokens, Epochs
  <2>2. CASE OpenSameTerm(p)
    BY <2>2, OpenScanType DEF OpenSameTerm, Claim, Tokens, Epochs
  <2>3. CASE OpenTokenless(p)
    BY <2>3, OpenScanType DEF OpenTokenless
  <2> QED
    BY <1>2, <2>1, <2>2, <2>3 DEF Open
<1>3. CASE ClaimFence(p)
  BY <1>3 DEF ClaimFence, Claim, Tokens, Epochs
<1>4. CASE Crash(p)
  BY <1>4, NoScanType, NoTaskType DEF Crash, Goto, PCs
<1>5. CASE Fail(p)
  BY <1>5, ReturnType DEF Fail
<1>6. ASSUME NEW o \in Ops, NEW r \in Requests, Begin(p, o, r) PROVE TypeInv'
  BY <1>6, NoTaskType DEF Begin, Goto, PCs, Tasks, envVars
<1>7. CASE Mutation(p)
  <2>1. CASE Check(p)
    <3>1. CASE Return(p)
      BY <2>1, <3>1, ReturnType DEF Check, envVars
    <3>2. CASE ~Return(p)
      BY <2>1, <3>2 DEF Check, Goto, PCs, envVars
    <3> QED
      BY <3>1, <3>2
  <2>2. CASE LookupNone(p)
    BY <2>2 DEF LookupNone, Goto, PCs, envVars
  <2>3. CASE LookupOther(p)
    BY <2>3, ReturnType DEF LookupOther, envVars
  <2>4. CASE LookupOwn(p)
    <3> DEFINE sc == [NoScan EXCEPT !.fenced = KindOf[task[p].req] \in Wired,
                                    !.surfaces = RetrySurfaces(KindOf[task[p].req])]
    <3>0. task[p] \in Tasks /\ task[p].req \in Requests
      BY DEF Tasks
    <3>d. (KindOf[task[p].req] \in Wired) \in BOOLEAN
      OBVIOUS
    <3>e. RetrySurfaces(KindOf[task[p].req]) \subseteq Slots
      BY <3>0, RetrySlots
    <3>a. sc \in Scans
      <4> DEFINE f == KindOf[task[p].req] \in Wired
                 u == RetrySurfaces(KindOf[task[p].req])
      <4>1. f \in BOOLEAN /\ u \in SUBSET Slots
        BY <3>d, <3>e
      <4> HIDE DEF f, u
      <4>2. [NoScan EXCEPT !.fenced = f, !.surfaces = u] \in Scans
        BY <4>1, NoScanType DEF Scans
      <4> QED
        BY <4>2 DEF f, u
    <3>1. scan' \in [Procs -> Scans]
      BY <2>4, <3>a DEF LookupOwn
    <3>b. PICK i \in Of(intents, task[p].op) : task' = [task EXCEPT ![p].held = {i.prep}]
      BY <2>4 DEF LookupOwn
    <3>c. i.prep \in Preps
      BY <3>b DEF Of, Intents
    <3>2. task' \in [Procs -> Tasks]
      BY <3>b, <3>c DEF Tasks
    <3> QED
      BY <2>4, <3>1, <3>2 DEF LookupOwn, Goto, PCs, envVars
  <2>5. CASE Recheck(p)
    <3>1. CASE Return(p)
      BY <2>5, <3>1, ReturnType DEF Recheck, envVars
    <3>2. CASE ~Return(p)
      BY <2>5, <3>2, NoScanType DEF Recheck, Goto, PCs, envVars
    <3> QED
      BY <3>1, <3>2
  <2>6. CASE Outdated(p)
    BY <2>6, ReturnType DEF Outdated, envVars
  <2>7. CASE Duplicate(p)
    BY <2>7, ReturnType DEF Duplicate, envVars
  <2>8. CASE Prepare(p)
    <3>1. PICK x \in Prepared(p) :
            /\ intents' = Persisted(task[p].op, x, Stamp(p))
            /\ task' = [task EXCEPT ![p].prep = x, ![p].left = Missing(p), ![p].held = {}]
      BY <2>8 DEF Prepare
    <3>2. x \in Preps
      BY PreparedType
    <3>3. Stamp(p) \in Tokens
      BY DEF Stamp, Tokens, NoToken
    <3>4. intents' \subseteq Intents
      BY <3>1, <3>2, <3>3 DEF Persisted, Intents, Tasks
    <3>5. Missing(p) \subseteq Slots
      BY ExpectedSlots DEF Missing, Tasks
    <3>6. task' \in [Procs -> Tasks]
      <4> DEFINE m == Missing(p)
      <4>1. x \in Preps /\ m \in SUBSET Slots /\ {} \in SUBSET Preps
        BY <3>2, <3>5
      <4>2. task' = [task EXCEPT ![p] = [@ EXCEPT !.prep = x, !.left = m, !.held = {}]]
        BY <3>1
      <4> HIDE DEF m
      <4>3. [task[p] EXCEPT !.prep = x, !.left = m, !.held = {}] \in Tasks
        BY <4>1 DEF Tasks
      <4> QED
        BY <4>2, <4>3
    <3> QED
      BY <2>8, <3>4, <3>6 DEF Prepare, Goto, PCs, envVars
  <2>9. CASE PrepareRefused(p)
    BY <2>9, ReturnType DEF PrepareRefused, envVars
  <2>10. CASE Write(p)
    <3>1. PICK s \in task[p].left :
            /\ AppendLine(task[p].op, s, task[p].prep)
            /\ task' = [task EXCEPT ![p].left = @ \ {s}]
      BY <2>10 DEF Write
    <3>2. task[p] \in Tasks
      OBVIOUS
    <3>3. art' \subseteq Lines /\ IsFiniteSet(art')
      BY <3>1, <3>2, AppendLineFacts DEF Tasks
    <3>4. task' \in [Procs -> Tasks]
      BY <3>1 DEF Tasks
    <3> QED
      BY <2>10, <3>3, <3>4 DEF Write, envVars
  <2>11. CASE Written(p)
    BY <2>11 DEF Written, Goto, PCs, envVars
  <2>12. CASE Gate(p)
    <3>1. highWater' \in Tokens /\ commits' \in [Ops -> Tokens]
      BY <2>12 DEF Gate, GuardCommit, InsertRow, fenceVars, Tokens, Tasks
    <3> QED
      BY <2>12, <3>1 DEF Gate, Goto, PCs, envVars
  <2>13. CASE GateRefused(p)
    BY <2>13, ReturnType DEF GateRefused, envVars
  <2>14. CASE Append(p)
    <3>1. log' \subseteq Entries /\ IsFiniteSet(log')
      BY <2>14, AppendFacts
    <3> QED
      BY <2>14, <3>1 DEF Append, Goto, PCs, envVars
  <2>15. CASE Remove(p)
    BY <2>15, ReturnType DEF Remove, RemoveIntent, envVars
  <2> QED
    BY <1>7, <2>1, <2>2, <2>3, <2>4, <2>5, <2>6, <2>7, <2>8, <2>9, <2>10, <2>11,
       <2>12, <2>13, <2>14, <2>15 DEF Mutation
<1>8. CASE Recovery(p)
  <2> USE DEF SetScan, Goto
  <2>0. scan[p] \in Scans
    OBVIOUS
  <2>1. CASE ScanLog(p)
    BY <2>1, <2>0 DEF ScanLog, Scans, PCs, envVars
  <2>2. CASE ScanArt(p)
    BY <2>2, <2>0 DEF ScanArt, Scans, PCs, envVars
  <2>3. CASE ScanIntents(p)
    <3>1. [scan[p] EXCEPT !.mark = IF scan[p].fenced THEN highWater ELSE 0,
                          !.todo = intents] \in Scans
      <4> DEFINE m == IF scan[p].fenced THEN highWater ELSE 0
      <4>1. m \in Tokens
        BY DEF Tokens
      <4> HIDE DEF m
      <4>2. [scan[p] EXCEPT !.mark = m, !.todo = intents] \in Scans
        BY <2>0, <4>1 DEF Scans
      <4> QED
        BY <4>2 DEF m
    <3> QED
      BY <2>3, <3>1 DEF ScanIntents, PCs, envVars
  <2>4. ASSUME NEW i \in scan[p].todo, Dispose(p, i) PROVE TypeInv'
    <3>1. i.op \in Ops /\ i \in Intents
      BY <2>0 DEF Scans, Intents
    <3> DEFINE next == [scan[p] EXCEPT !.todo = @ \ {i}]
    <3>a. next \in Scans
      BY <2>0 DEF Scans
    <3>b. /\ [next EXCEPT !.stale = @ \cup {i.op}] \in Scans
          /\ [next EXCEPT !.manual = @ \cup {i.op}] \in Scans
          /\ [next EXCEPT !.pending = @ \cup {i.op}] \in Scans
          /\ [next EXCEPT !.cur = {i}] \in Scans
      <4> HIDE DEF next
      <4> QED
        BY <3>1, <3>a DEF Scans
    <3>2. scan' \in [Procs -> Scans]
      BY <2>4, <3>a, <3>b DEF Dispose
    <3>3. intents' \subseteq Intents /\ pc' \in [Procs -> PCs]
      BY <2>4 DEF Dispose, RemoveIntent, PCs
    <3> QED
      BY <2>4, <3>2, <3>3 DEF Dispose, envVars
  <2>5. CASE Authorize(p)
    <3>1. PICK i \in scan[p].cur :
        \/ Goto(p, "project") /\ UNCHANGED <<fenceVars, scan>>
        \/ AuthorizeAtEpoch(i.op, i.stamp) /\ Goto(p, "project") /\ UNCHANGED scan
        \/ /\ SetScan(p, [scan[p] EXCEPT !.cur = {}, !.stale = @ \cup {i.op}])
           /\ Goto(p, "dispose")
           /\ UNCHANGED fenceVars
      BY <2>5 DEF Authorize
    <3>2. i.op \in Ops /\ i.stamp \in Tokens
      BY <2>0 DEF Scans, Intents
    <3>a. [scan[p] EXCEPT !.cur = {}, !.stale = @ \cup {i.op}] \in Scans
      BY <2>0, <3>2 DEF Scans
    <3>3. scan' \in [Procs -> Scans]
      BY <3>1, <3>a
    <3>4. highWater' \in Tokens /\ commits' \in [Ops -> Tokens]
      BY <3>1, <3>2 DEF AuthorizeAtEpoch, InsertRow, fenceVars
    <3> QED
      BY <2>5, <3>1, <3>3, <3>4 DEF Authorize, PCs, envVars
  <2>6. CASE Project(p)
    <3>1. log' \subseteq Entries /\ IsFiniteSet(log')
      BY <2>6, ProjectFacts
    <3> QED
      BY <2>6, <3>1 DEF Project, PCs, envVars
  <2>7. CASE Discard(p)
    <3>1. PICK i \in scan[p].cur :
            /\ RemoveIntent(i.op)
            /\ SetScan(p, [scan[p] EXCEPT !.cur = {}, !.done = @ \cup {i.op}])
      BY <2>7 DEF Discard
    <3>2. i.op \in Ops
      BY <2>0 DEF Scans, Intents
    <3> QED
      BY <2>7, <2>0, <3>1, <3>2 DEF Discard, RemoveIntent, Scans, PCs, envVars
  <2>8. CASE ScanDone(p)
    BY <2>8, NoScanType DEF ScanDone, PCs, envVars
  <2> QED
    BY <1>8, <2>1, <2>2, <2>3, <2>4, <2>5, <2>6, <2>7, <2>8 DEF Recovery
<1> QED
  BY <1>2, <1>3, <1>4, <1>5, <1>6, <1>7, <1>8

\* The state of the commit protocol keeps its type.
THEOREM TypeCorrect == Spec => []TypeOK
<1>1. TypeInv => TypeOK
  BY DEF TypeInv
<1> QED
  BY <1>1, InitTypeInv, StepTypeInv, PTL DEF Spec

-----------------------------------------------------------------------------
(* Commit signals are never ahead of their artifacts, and artifacts never  *)
(* without their intent.                                                   *)
(*                                                                         *)
(* Neither is inductive: a writer appends an entry on the strength of what *)
(* it wrote before, recovery on the strength of what it read before, and   *)
(* both may have been paused since.  The strengthening says what a process *)
(* between two of its steps may still rely on.                             *)

\* The steps of one process.
StepOf(p) ==
    \/ Open(p) \/ ClaimFence(p) \/ Crash(p) \/ Fail(p)
    \/ \E o \in Ops, r \in Requests : Begin(p, o, r)
    \/ Mutation(p)
    \/ Recovery(p)

\* An artifact of operation o can be attributed.
Cover(o) == Of(intents, o) # {} \/ Of(log, o) # {}

\* A preparation's expected set, but for the slots in `left`, is on disk.
OnDisk(o, x, left) ==
    \A s \in Expected(KindOf[x.req]) \ left : Holds(art, o, s, x)

\* What a mutation under way relies on.
TaskOK(p) ==
    /\ \A x \in task[p].held : task[p].held = {x} /\ x.req = task[p].req
    /\ pc[p] \in {"write", "gate", "append", "remove"} =>
        /\ Cover(task[p].op)
        /\ OnDisk(task[p].op, task[p].prep, task[p].left)
    /\ pc[p] \in {"gate", "append", "remove"} => task[p].left = {}
    /\ pc[p] = "remove" => Of(log, task[p].op) # {}

\* What a recovery under way relies on.
ScanOK(p) ==
    /\ scan[p].log \subseteq log
    /\ scan[p].art \subseteq art
    /\ \A i \in scan[p].cur : scan[p].cur = {i} /\ OnDisk(i.op, i.prep, {})
    /\ pc[p] = "discard" => \A i \in scan[p].cur : Of(log, i.op) # {}

CommitInv ==
    /\ TypeInv
    /\ CommitComplete
    /\ IntentCoversArtifacts
    /\ \A p \in Procs : TaskOK(p) /\ ScanOK(p)

\* Nothing is ever taken from a surface or from the operations log.
LEMMA Growth ==
    ASSUME TypeInv, NEW p \in Procs, StepOf(p)
    PROVE  art \subseteq art' /\ log \subseteq log'
<1> USE DEF TypeInv, TypeOK
<1>1. CASE Open(p) \/ ClaimFence(p) \/ Crash(p) \/ Fail(p)
  BY <1>1 DEF Open, OpenNewTerm, OpenSameTerm, OpenTokenless, ClaimFence, Crash, Fail
<1>2. ASSUME NEW o \in Ops, NEW r \in Requests, Begin(p, o, r) PROVE art \subseteq art' /\ log \subseteq log'
  BY <1>2 DEF Begin
<1>3. CASE Write(p)
  BY <1>3 DEF Write, AppendLine
<1>4. CASE Append(p)
  BY <1>4 DEF Append, AppendEntry
<1>5. CASE Project(p)
  BY <1>5 DEF Project, AppendEntry
<1>6. CASE Mutation(p) /\ ~Write(p) /\ ~Append(p)
  BY <1>6
  DEF Mutation, Check, LookupNone, LookupOther, LookupOwn, Recheck, Outdated,
      Duplicate, Prepare, PrepareRefused, Written, Gate, GateRefused, Remove
<1>7. CASE Recovery(p) /\ ~Project(p)
  BY <1>7
  DEF Recovery, ScanLog, ScanArt, ScanIntents, Dispose, Authorize, Discard, ScanDone
<1> QED
  BY <1>1, <1>2, <1>3, <1>4, <1>5, <1>6, <1>7 DEF StepOf

\* A step of p leaves the other processes where they are.
LEMMA Frame ==
    ASSUME TypeInv, NEW p \in Procs, StepOf(p), NEW q \in Procs, q # p
    PROVE  pc'[q] = pc[q] /\ task'[q] = task[q] /\ scan'[q] = scan[q]
<1> USE DEF TypeInv, TypeOK, Goto, Return, SetScan, BeginOpenScan
<1> DEFINE G == pc'[q] = pc[q] /\ task'[q] = task[q] /\ scan'[q] = scan[q]
<1>1. CASE Open(p)
  BY <1>1 DEF Open, OpenNewTerm, OpenSameTerm, OpenTokenless
<1>2. CASE ClaimFence(p) \/ Crash(p) \/ Fail(p)
  BY <1>2 DEF ClaimFence, Crash, Fail
<1>3. ASSUME NEW o \in Ops, NEW r \in Requests, Begin(p, o, r) PROVE G
  BY <1>3 DEF Begin
<1>4. CASE Mutation(p)
  <2>1. CASE Check(p) \/ LookupNone(p) \/ LookupOther(p)
    BY <2>1 DEF Check, LookupNone, LookupOther
  <2>2. CASE LookupOwn(p)
    BY <2>2 DEF LookupOwn
  <2>3. CASE Recheck(p) \/ Outdated(p) \/ Duplicate(p) \/ PrepareRefused(p) \/ GateRefused(p)
    BY <2>3 DEF Recheck, Outdated, Duplicate, PrepareRefused, GateRefused
  <2>4. CASE Prepare(p)
    BY <2>4 DEF Prepare
  <2>5. CASE Write(p) \/ Written(p)
    BY <2>5 DEF Write, Written
  <2>6. CASE Gate(p) \/ Append(p) \/ Remove(p)
    BY <2>6 DEF Gate, Append, Remove
  <2> QED
    BY <1>4, <2>1, <2>2, <2>3, <2>4, <2>5, <2>6 DEF Mutation
<1>5. CASE Recovery(p)
  <2>1. CASE ScanLog(p) \/ ScanArt(p) \/ ScanIntents(p)
    BY <2>1 DEF ScanLog, ScanArt, ScanIntents
  <2>2. ASSUME NEW i \in scan[p].todo, Dispose(p, i) PROVE G
    BY <2>2 DEF Dispose
  <2>3. CASE Authorize(p)
    BY <2>3 DEF Authorize
  <2>4. CASE Project(p) \/ Discard(p) \/ ScanDone(p)
    BY <2>4 DEF Project, Discard, ScanDone
  <2> QED
    BY <1>5, <2>1, <2>2, <2>3, <2>4 DEF Recovery
<1> QED
  BY <1>1, <1>2, <1>3, <1>4, <1>5 DEF StepOf

\* Recovery removes or projects only on what its scan proves.
LEMMA DispositionFacts ==
    ASSUME NEW sc, NEW i
    PROVE  /\ Disposition(sc, i) = "remove" => Of(sc.log, i.op) # {}
           /\ Disposition(sc, i) = "finalize" => Exact(sc, i)
BY DEF Disposition

\* An attributable artifact stays attributable: an intent goes only once the
\* commit signal is there.
LEMMA CoverStable ==
    ASSUME CommitInv, NEW p \in Procs, StepOf(p), NEW o \in Ops, Cover(o)
    PROVE  Cover(o)'
<1>0. log \subseteq log'
  BY Growth DEF CommitInv
<1>1. CASE intents \subseteq intents'
  BY <1>0, <1>1 DEF Cover, Of
<1>2. CASE Of(log, o) # {}
  BY <1>0, <1>2 DEF Cover, Of
<1>3. CASE ~(intents \subseteq intents') /\ Of(log, o) = {}
  <2> USE DEF CommitInv, TypeInv, TypeOK
  <2>0. TaskOK(p) /\ ScanOK(p)
    OBVIOUS
  <2>1. CASE Prepare(p)
    <3>1. PICK x \in Prepared(p) : intents' = Persisted(task[p].op, x, Stamp(p))
      BY <2>1 DEF Prepare
    <3> DEFINE i == [op |-> task[p].op, prep |-> x, stamp |-> Stamp(p)]
    <3>2. i.op = task[p].op /\ i \in intents'
      BY <3>1 DEF Persisted
    <3>3. \A j \in intents : j.op # task[p].op => j \in intents'
      BY <3>1 DEF Persisted, Of
    <3> QED
      BY <1>3, <3>2, <3>3 DEF Cover, Of
  <2>2. CASE Remove(p)
    BY <1>3, <2>0, <2>2 DEF Remove, RemoveIntent, TaskOK, Cover, Of
  <2>3. ASSUME NEW i \in scan[p].todo, Dispose(p, i) PROVE Cover(o)'
    <3>1. Disposition(scan[p], i) = "remove" /\ intents' = intents \ Of(intents, i.op)
      BY <1>3, <2>3 DEF Dispose, RemoveIntent
    <3>2. i.op # o
      BY <1>3, <2>0, <3>1, DispositionFacts DEF ScanOK, Of
    <3> QED
      BY <1>3, <3>1, <3>2 DEF Cover, Of
  <2>4. CASE Discard(p)
    BY <1>3, <2>0, <2>4 DEF Discard, RemoveIntent, ScanOK, Cover, Of
  <2>5. CASE Open(p) \/ ClaimFence(p) \/ Crash(p) \/ Fail(p)
    BY <1>3, <2>5 DEF Open, OpenNewTerm, OpenSameTerm, OpenTokenless, ClaimFence, Crash, Fail
  <2>6. ASSUME NEW q \in Ops, NEW r \in Requests, Begin(p, q, r) PROVE Cover(o)'
    BY <1>3, <2>6 DEF Begin
  <2>7. CASE Mutation(p) /\ ~Prepare(p) /\ ~Remove(p)
    BY <1>3, <2>7
    DEF Mutation, Check, LookupNone, LookupOther, LookupOwn, Recheck, Outdated,
        Duplicate, PrepareRefused, Write, Written, Gate, GateRefused, Append
  <2>8. CASE ScanLog(p) \/ ScanArt(p) \/ ScanIntents(p) \/ Authorize(p) \/ Project(p) \/ ScanDone(p)
    BY <1>3, <2>8 DEF ScanLog, ScanArt, ScanIntents, Authorize, Project, ScanDone
  <2> QED
    BY <2>1, <2>2, <2>3, <2>4, <2>5, <2>6, <2>7, <2>8 DEF StepOf, Recovery
<1> QED
  BY <1>1, <1>2, <1>3

\* What a paused process relies on survives the steps of the others.
LEMMA OthersKeep ==
    ASSUME CommitInv, NEW p \in Procs, StepOf(p), NEW q \in Procs, q # p
    PROVE  TaskOK(q)' /\ ScanOK(q)'
<1>1. pc'[q] = pc[q] /\ task'[q] = task[q] /\ scan'[q] = scan[q]
  BY Frame DEF CommitInv
<1>2. art \subseteq art' /\ log \subseteq log'
  BY Growth DEF CommitInv
<1>3. TaskOK(q) /\ ScanOK(q)
  BY DEF CommitInv
<1>4. task[q].op \in Ops
  BY DEF CommitInv, TypeInv, TypeOK, Tasks
<1>5. \A o \in Ops : Cover(o) => Cover(o)'
  BY CoverStable
<1>7. TaskOK(q)'
  BY <1>1, <1>2, <1>3, <1>4, <1>5 DEF TaskOK, Cover, OnDisk, Holds, Of
<1>8. ScanOK(q)'
  BY <1>1, <1>2, <1>3 DEF ScanOK, OnDisk, Holds, Of
<1> QED
  BY <1>7, <1>8

\* A prepared set of OBSERVE is its one evidence line.
LEMMA ObserveSlots == Expected("observe") = {"l0"}
BY DEF Expected

\* When a mutation persists its intent, what it will not write is on disk.
LEMMA PrepareSound ==
    ASSUME CommitInv, NEW p \in Procs, Prepare(p)
    PROVE  TaskOK(p)'
<1> USE DEF CommitInv, TypeInv, TypeOK
<1>0. TaskOK(p) /\ task[p] \in Tasks
  OBVIOUS
<1>1. PICK x \in Prepared(p) :
        /\ intents' = Persisted(task[p].op, x, Stamp(p))
        /\ task' = [task EXCEPT ![p].prep = x, ![p].left = Missing(p), ![p].held = {}]
  BY DEF Prepare
<1>2. x \in Preps /\ x.req = task[p].req
  <2>1. CASE x \in task[p].held
    BY <1>0, <2>1, PreparedType DEF TaskOK
  <2>2. CASE x \notin task[p].held
    <3>1. \E m \in 1 .. MaxPrep : x = [req |-> task[p].req, n |-> m]
      BY <2>2 DEF Prepared
    <3> QED
      BY <3>1, PreparedType
  <2> QED
    BY <2>1, <2>2
<1>3. /\ task'[p].op = task[p].op /\ task'[p].prep = x
      /\ task'[p].left = Missing(p) /\ task'[p].held = {}
  BY <1>0, <1>1 DEF Tasks
<1>4. art' = art /\ pc' = [pc EXCEPT ![p] = "write"]
  BY DEF Prepare, Goto
<1>5. \A s \in Expected(KindOf[x.req]) \ Missing(p) : Holds(art, task[p].op, s, x)
  <2> SUFFICES ASSUME NEW s \in Expected(KindOf[x.req]) \ Missing(p)
               PROVE  Holds(art, task[p].op, s, x)
    OBVIOUS
  <2>1. PICK y \in task[p].held : Holds(art, task[p].op, s, y)
    BY <1>2 DEF Missing
  <2>2. task[p].held = {y} /\ y.req = task[p].req
    BY <1>0, <2>1 DEF TaskOK
  <2>3. CASE KindOf[task[p].req] = "observe"
    <3>1. s = "l0"
      BY <1>2, <2>3, ObserveSlots
    <3> QED
      BY <2>1, <2>2, <2>3, <3>1 DEF Prepare, AlreadyObserved, Holds, Slot
  <2>4. CASE KindOf[task[p].req] # "observe"
    BY <2>1, <2>2, <2>4 DEF Prepared
  <2> QED
    BY <2>3, <2>4
<1>6. [op |-> task[p].op, prep |-> x, stamp |-> Stamp(p)] \in intents'
  BY <1>1 DEF Persisted
<1>7. Cover(task[p].op)'
  BY <1>1, <1>3, <1>6 DEF Cover, Of
<1> QED
  BY <1>3, <1>4, <1>5, <1>7 DEF TaskOK, OnDisk

\* Every step of a mutation leaves it with what it relies on.
LEMMA OwnTask ==
    ASSUME CommitInv, NEW p \in Procs, StepOf(p)
    PROVE  TaskOK(p)'
<1> USE DEF CommitInv, TypeInv, TypeOK
<1>0. TaskOK(p) /\ task[p] \in Tasks /\ task[p].op \in Ops
  BY DEF Tasks
<1>a. art \subseteq art' /\ log \subseteq log'
  BY Growth
<1>b. \A o \in Ops : Cover(o) => Cover(o)'
  BY CoverStable
<1>c. NoTask.held = {}
  BY DEF NoTask
<1>d. ASSUME task'[p] = task[p] \/ task'[p] = NoTask \/ task'[p].held = {},
             pc'[p] \notin {"write", "gate", "append", "remove"}
      PROVE  TaskOK(p)'
  BY <1>0, <1>c, <1>d DEF TaskOK
<1>e. ASSUME task'[p] = task[p], pc'[p] = pc[p] PROVE TaskOK(p)'
  BY <1>0, <1>a, <1>b, <1>e DEF TaskOK, OnDisk, Holds, Of, Cover
<1>1. CASE Open(p)
  BY <1>1, <1>d DEF Open, OpenNewTerm, OpenSameTerm, OpenTokenless, BeginOpenScan, Goto
<1>2. CASE ClaimFence(p)
  BY <1>2, <1>e DEF ClaimFence
<1>3. CASE Crash(p) \/ Fail(p)
  BY <1>3, <1>d DEF Crash, Fail, Return, Goto
<1>4. ASSUME NEW o \in Ops, NEW r \in Requests, Begin(p, o, r) PROVE TaskOK(p)'
  <2>1. task'[p].held = {} /\ pc'[p] = "check"
    BY <1>4, <1>c, NoTaskType DEF Begin, Goto, Tasks
  <2> QED
    BY <2>1, <1>d
<1>5. CASE Mutation(p)
  <2>1. CASE Check(p) \/ LookupNone(p) \/ LookupOther(p) \/ Recheck(p) \/ Outdated(p)
             \/ Duplicate(p) \/ PrepareRefused(p) \/ GateRefused(p) \/ Remove(p)
    <3>1. /\ task'[p] = task[p] \/ task'[p] = NoTask
          /\ pc'[p] \in {"idle", "lookup", "prepare"}
      BY <2>1 DEF Check, LookupNone, LookupOther, Recheck, Outdated, Duplicate,
                  PrepareRefused, GateRefused, Remove, Return, Goto
    <3> QED
      BY <3>1, <1>d
  <2>2. CASE LookupOwn(p)
    <3>1. PICK i \in Of(intents, task[p].op) :
            i.prep.req = task[p].req /\ task' = [task EXCEPT ![p].held = {i.prep}]
      BY <2>2 DEF LookupOwn
    <3>2. task'[p].held = {i.prep} /\ task'[p].req = task[p].req
      BY <1>0, <3>1 DEF Tasks
    <3>3. pc'[p] = "scanLog"
      BY <2>2 DEF LookupOwn, Goto
    <3> QED
      BY <3>1, <3>2, <3>3 DEF TaskOK
  <2>3. CASE Prepare(p)
    BY <2>3, PrepareSound
  <2>4. CASE Write(p)
    <3>1. PICK s \in task[p].left :
            /\ AppendLine(task[p].op, s, task[p].prep)
            /\ task' = [task EXCEPT ![p].left = @ \ {s}]
      BY <2>4 DEF Write
    <3>2. Holds(art', task[p].op, s, task[p].prep)
      BY <1>0, <3>1, AppendLineFacts DEF Tasks
    <3>3. /\ task'[p].op = task[p].op /\ task'[p].prep = task[p].prep
          /\ task'[p].held = task[p].held /\ task'[p].req = task[p].req
          /\ task'[p].left = task[p].left \ {s}
      BY <1>0, <3>1 DEF Tasks
    <3>4. pc[p] = "write" /\ pc'[p] = "write"
      BY <2>4 DEF Write
    <3>5. OnDisk(task[p].op, task[p].prep, task[p].left)
      BY <1>0, <3>4 DEF TaskOK
    <3>6. OnDisk(task[p].op, task[p].prep, task[p].left)'
      BY <1>a, <3>2, <3>3, <3>5 DEF OnDisk, Holds
    <3>7. Cover(task[p].op)'
      BY <1>0, <1>b, <3>3, <3>4 DEF TaskOK, Cover
    <3> QED
      BY <1>0, <3>3, <3>4, <3>6, <3>7 DEF TaskOK
  <2>5. CASE Written(p)
    <3>1. task' = task /\ art' = art /\ log' = log /\ intents' = intents
      BY <2>5 DEF Written
    <3>2. pc[p] = "write" /\ pc'[p] = "gate" /\ task[p].left = {}
      BY <2>5 DEF Written, Goto
    <3> QED
      BY <1>0, <3>1, <3>2 DEF TaskOK, OnDisk, Holds, Cover, Of
  <2>6. CASE Gate(p)
    <3>1. task' = task /\ art' = art /\ log' = log /\ intents' = intents
      BY <2>6 DEF Gate
    <3>2. pc[p] = "gate" /\ pc'[p] = "append"
      BY <2>6 DEF Gate, Goto
    <3> QED
      BY <1>0, <3>1, <3>2 DEF TaskOK, OnDisk, Holds, Cover, Of
  <2>7. CASE Append(p)
    <3>1. task' = task /\ art' = art /\ intents' = intents
      BY <2>7 DEF Append
    <3>2. pc[p] = "append" /\ pc'[p] = "remove"
      BY <2>7 DEF Append, Goto
    <3>3. Of(log', task[p].op) # {}
      BY <2>7, AppendFacts
    <3> QED
      BY <1>0, <1>b, <3>1, <3>2, <3>3 DEF TaskOK, OnDisk, Holds, Cover, Of
  <2> QED
    BY <1>5, <2>1, <2>2, <2>3, <2>4, <2>5, <2>6, <2>7 DEF Mutation
<1>6. CASE Recovery(p)
  <2>1. task' = task /\ pc'[p] \notin {"write", "gate", "append", "remove"}
    <3>1. CASE ScanLog(p) \/ ScanArt(p) \/ ScanIntents(p)
      BY <3>1 DEF ScanLog, ScanArt, ScanIntents, Goto
    <3>2. CASE \E i \in scan[p].todo : Dispose(p, i)
      BY <3>2 DEF Dispose, Goto
    <3>3. CASE Authorize(p)
      BY <3>3 DEF Authorize, Goto
    <3>4. CASE Project(p) \/ Discard(p) \/ ScanDone(p)
      BY <3>4 DEF Project, Discard, ScanDone, Goto
    <3> QED
      BY <1>6, <3>1, <3>2, <3>3, <3>4 DEF Recovery
  <2> QED
    BY <2>1, <1>d
<1> QED
  BY <1>1, <1>2, <1>3, <1>4, <1>5, <1>6 DEF StepOf

\* A set that is on disk stays there.
LEMMA OnDiskStable ==
    ASSUME art \subseteq art', NEW o, NEW x, NEW left, OnDisk(o, x, left)
    PROVE  OnDisk(o, x, left)'
BY DEF OnDisk, Holds

\* A set recovery found exact is on disk.
LEMMA ExactOnDisk ==
    ASSUME CommitInv, NEW p \in Procs, NEW i, Exact(scan[p], i)
    PROVE  OnDisk(i.op, i.prep, {})
<1>1. scan[p].art \subseteq art
  BY DEF CommitInv, ScanOK
<1> QED
  BY <1>1 DEF Exact, OnDisk, Holds

\* Every step of a recovery leaves it with what it relies on.
LEMMA OwnScan ==
    ASSUME CommitInv, NEW p \in Procs, StepOf(p)
    PROVE  ScanOK(p)'
<1> USE DEF CommitInv, TypeInv, TypeOK
<1>0. ScanOK(p) /\ scan[p] \in Scans
  OBVIOUS
<1>a. art \subseteq art' /\ log \subseteq log'
  BY Growth
<1>b. NoScan.log = {} /\ NoScan.art = {} /\ NoScan.cur = {} /\ NoScan \in Scans
  BY NoScanType DEF NoScan
<1>c. ASSUME scan'[p].log \subseteq log', scan'[p].art \subseteq art',
             scan'[p].cur = {} \/ (scan'[p].cur = scan[p].cur /\ pc'[p] # "discard")
      PROVE  ScanOK(p)'
  BY <1>0, <1>a, <1>c, OnDiskStable DEF ScanOK
<1>d. ASSUME scan'[p] = scan[p], pc'[p] = pc[p] \/ pc'[p] # "discard" PROVE ScanOK(p)'
  BY <1>0, <1>a, <1>d, OnDiskStable DEF ScanOK, Of
<1>e. scan[p].log \subseteq log' /\ scan[p].art \subseteq art'
  BY <1>0, <1>a DEF ScanOK
<1>f. ASSUME scan'[p] = NoScan PROVE ScanOK(p)'
  BY <1>b, <1>c, <1>f
<1>1. CASE Open(p)
  <2>1. scan'[p] = [NoScan EXCEPT !.opening = TRUE, !.fenced = TRUE, !.surfaces = Slots]
    BY <1>1 DEF Open, OpenNewTerm, OpenSameTerm, OpenTokenless, BeginOpenScan
  <2>2. scan'[p].log = {} /\ scan'[p].art = {} /\ scan'[p].cur = {}
    BY <2>1 DEF NoScan
  <2> QED
    BY <2>2, <1>c
<1>2. CASE ClaimFence(p) \/ (\E o \in Ops, r \in Requests : Begin(p, o, r))
  BY <1>2, <1>d DEF ClaimFence, Begin, Goto
<1>3. CASE Crash(p) \/ Fail(p)
  BY <1>3, <1>f DEF Crash, Fail, Return
<1>4. CASE Mutation(p)
  <2>1. CASE LookupOwn(p)
    <3>1. scan'[p] = [NoScan EXCEPT !.fenced = KindOf[task[p].req] \in Wired,
                                    !.surfaces = RetrySurfaces(KindOf[task[p].req])]
      BY <2>1 DEF LookupOwn
    <3>2. scan'[p].log = {} /\ scan'[p].art = {} /\ scan'[p].cur = {}
      BY <3>1 DEF NoScan
    <3> QED
      BY <3>2, <1>c
  <2>2. CASE ~LookupOwn(p)
    <3>1. \/ scan'[p] = NoScan
          \/ scan'[p] = scan[p] /\ (pc'[p] = pc[p] \/ pc'[p] # "discard")
      BY <1>4, <2>2
      DEF Mutation, Check, LookupNone, LookupOther, Recheck, Outdated, Duplicate,
          Prepare, PrepareRefused, Write, Written, Gate, GateRefused, Append, Remove,
          Return, Goto
    <3> QED
      BY <3>1, <1>f, <1>d
  <2> QED
    BY <2>1, <2>2
<1>5. CASE Recovery(p)
  <2> USE DEF SetScan, Goto
  <2>1. CASE ScanLog(p)
    <3>1. scan'[p] = [scan[p] EXCEPT !.log = log] /\ pc'[p] # "discard"
      BY <2>1 DEF ScanLog
    <3>2. scan'[p].log = log /\ scan'[p].art = scan[p].art /\ scan'[p].cur = scan[p].cur
      BY <3>1, <1>0 DEF Scans
    <3> QED
      BY <3>1, <3>2, <1>a, <1>c, <1>e
  <2>2. CASE ScanArt(p)
    <3> DEFINE A == {l \in art : l.slot \in scan[p].surfaces}
    <3>1. scan'[p] = [scan[p] EXCEPT !.art = A] /\ pc'[p] # "discard" /\ A \subseteq art
      BY <2>2 DEF ScanArt
    <3> HIDE DEF A
    <3>2. scan'[p].log = scan[p].log /\ scan'[p].art = A /\ scan'[p].cur = scan[p].cur
      BY <3>1, <1>0 DEF Scans
    <3> QED
      BY <3>1, <3>2, <1>a, <1>c, <1>e
  <2>3. CASE ScanIntents(p)
    <3> DEFINE m == IF scan[p].fenced THEN highWater ELSE 0
    <3>1. scan'[p] = [scan[p] EXCEPT !.mark = m, !.todo = intents] /\ pc'[p] # "discard"
      BY <2>3 DEF ScanIntents
    <3> HIDE DEF m
    <3>2. scan'[p].log = scan[p].log /\ scan'[p].art = scan[p].art /\ scan'[p].cur = scan[p].cur
      BY <3>1, <1>0 DEF Scans
    <3> QED
      BY <3>1, <3>2, <1>c, <1>e
  <2>4. ASSUME NEW i \in scan[p].todo, Dispose(p, i) PROVE ScanOK(p)'
    <3> DEFINE next == [scan[p] EXCEPT !.todo = @ \ {i}]
    <3>1. \/ scan'[p] = [next EXCEPT !.stale = @ \cup {i.op}] /\ pc' = pc
          \/ scan'[p] = [next EXCEPT !.manual = @ \cup {i.op}] /\ pc' = pc
          \/ scan'[p] = [next EXCEPT !.pending = @ \cup {i.op}] /\ pc' = pc
          \/ scan'[p] = next /\ pc' = pc
          \/ /\ scan'[p] = [next EXCEPT !.cur = {i}] /\ pc'[p] # "discard"
             /\ Disposition(scan[p], i) = "finalize"
      BY <2>4 DEF Dispose
    <3>2. pc[p] = "dispose"
      BY <2>4 DEF Dispose
    <3>3. /\ scan'[p].log = scan[p].log /\ scan'[p].art = scan[p].art /\ pc'[p] # "discard"
          /\ \/ scan'[p].cur = scan[p].cur
             \/ Disposition(scan[p], i) = "finalize" /\ scan'[p].cur = {i}
      BY <3>1, <3>2, <1>0 DEF Scans
    <3>4. CASE scan'[p].cur = scan[p].cur
      BY <3>3, <3>4, <1>c, <1>e
    <3>5. CASE Disposition(scan[p], i) = "finalize" /\ scan'[p].cur = {i}
      <4>1. OnDisk(i.op, i.prep, {})
        BY <3>5, DispositionFacts, ExactOnDisk
      <4>2. OnDisk(i.op, i.prep, {})'
        BY <4>1, <1>a, OnDiskStable
      <4> QED
        BY <3>3, <3>5, <4>2, <1>e DEF ScanOK
    <3> QED
      BY <3>3, <3>4, <3>5
  <2>5. CASE Authorize(p)
    <3>1. PICK i \in scan[p].cur :
            /\ pc'[p] # "discard"
            /\ \/ scan'[p] = scan[p]
               \/ scan'[p] = [scan[p] EXCEPT !.cur = {}, !.stale = @ \cup {i.op}]
      BY <2>5 DEF Authorize
    <3>2. /\ scan'[p].log = scan[p].log /\ scan'[p].art = scan[p].art
          /\ scan'[p].cur = {} \/ scan'[p].cur = scan[p].cur
      BY <3>1, <1>0 DEF Scans
    <3> QED
      BY <3>1, <3>2, <1>c, <1>e
  <2>6. CASE Project(p)
    <3>1. PICK i \in scan[p].cur : Of(log', i.op) # {}
      BY <2>6, ProjectFacts
    <3>4. scan[p].cur = {i}
      BY <1>0, <3>1 DEF ScanOK
    <3> QED
      BY <2>6, <3>1, <3>4, <1>0, <1>a, OnDiskStable DEF Project, ScanOK
  <2>7. CASE Discard(p)
    <3>1. PICK i \in scan[p].cur :
            scan'[p] = [scan[p] EXCEPT !.cur = {}, !.done = @ \cup {i.op}]
      BY <2>7 DEF Discard
    <3>2. /\ scan'[p].log = scan[p].log /\ scan'[p].art = scan[p].art
          /\ scan'[p].cur = {}
      BY <3>1, <1>0 DEF Scans
    <3> QED
      BY <3>2, <1>c, <1>e
  <2>8. CASE ScanDone(p)
    BY <2>8, <1>f, <1>d DEF ScanDone
  <2> QED
    BY <1>5, <2>1, <2>2, <2>3, <2>4, <2>5, <2>6, <2>7, <2>8 DEF Recovery
<1> QED
  BY <1>1, <1>2, <1>3, <1>4, <1>5 DEF StepOf

\* Signalling a set that is on disk keeps every signal behind its artifacts.
LEMMA SignalComplete ==
    ASSUME CommitComplete, art \subseteq art', NEW o, NEW x, OnDisk(o, x, {}),
           \A e \in log' : e \in log \/ (e.op = o /\ e.prep = x)
    PROVE  CommitComplete'
<1>1. ASSUME NEW e \in log', NEW s \in Expected(KindOf[e.prep.req])
      PROVE  Holds(art', e.op, s, e.prep)
  <2>1. CASE e \in log
    BY <2>1, <1>1 DEF CommitComplete, Holds
  <2>2. CASE e.op = o /\ e.prep = x
    BY <2>2, <1>1 DEF OnDisk, Holds
  <2> QED
    BY <2>1, <2>2
<1> QED
  BY <1>1 DEF CommitComplete

\* No step leaves a commit signal ahead of its artifacts.
LEMMA StepComplete ==
    ASSUME CommitInv, NEW p \in Procs, StepOf(p)
    PROVE  CommitComplete'
<1> USE DEF CommitInv, TypeInv, TypeOK
<1>0. TaskOK(p) /\ ScanOK(p) /\ task[p] \in Tasks /\ scan[p] \in Scans
  OBVIOUS
<1>a. art \subseteq art' /\ log \subseteq log'
  BY Growth
<1>1. CASE Append(p)
  <2>2. \A e \in log' : e \in log \/ (e.op = task[p].op /\ e.prep = task[p].prep)
    BY <1>1, AppendFacts
  <2>1. pc[p] = "append"
    BY <1>1 DEF Append
  <2>3. OnDisk(task[p].op, task[p].prep, {})
    BY <1>0, <2>1 DEF TaskOK
  <2> QED
    BY <2>2, <2>3, <1>a, SignalComplete
<1>2. CASE Project(p)
  <2>3. PICK i \in scan[p].cur :
            \A e \in log' : e \in log \/ (e.op = i.op /\ e.prep = i.prep)
    BY <1>2, ProjectFacts
  <2>4. OnDisk(i.op, i.prep, {})
    BY <1>0 DEF ScanOK
  <2> QED
    BY <2>3, <2>4, <1>a, SignalComplete
<1>3. CASE log' = log
  BY <1>3, <1>a DEF CommitComplete, Holds
<1>4. CASE Mutation(p) /\ ~Append(p)
  BY <1>3, <1>4
  DEF Mutation, Check, LookupNone, LookupOther, LookupOwn, Recheck, Outdated, Duplicate,
      Prepare, PrepareRefused, Write, Written, Gate, GateRefused, Remove
<1>5. CASE Recovery(p) /\ ~Project(p)
  BY <1>3, <1>5
  DEF Recovery, ScanLog, ScanArt, ScanIntents, Dispose, Authorize, Discard, ScanDone
<1>6. CASE \/ Open(p) \/ ClaimFence(p) \/ Crash(p) \/ Fail(p)
           \/ \E o \in Ops, r \in Requests : Begin(p, o, r)
  BY <1>3, <1>6
  DEF Open, OpenNewTerm, OpenSameTerm, OpenTokenless, ClaimFence, Crash, Fail, Begin
<1> QED
  BY <1>1, <1>2, <1>4, <1>5, <1>6 DEF StepOf

\* No step leaves an artifact that cannot be attributed.
LEMMA StepCovers ==
    ASSUME CommitInv, NEW p \in Procs, StepOf(p)
    PROVE  IntentCoversArtifacts'
<1> USE DEF CommitInv, TypeInv, TypeOK
<1>0. TaskOK(p) /\ task[p] \in Tasks /\ task[p].op \in Ops
  BY DEF Tasks
<1>a. \A o \in Ops : Cover(o) => Cover(o)'
  BY CoverStable
<1>b. \A l \in art : l.op \in Ops /\ Cover(l.op)
  BY DEF IntentCoversArtifacts, Cover, Lines
<1>1. \A l \in art' : l \in art \/ (pc[p] = "write" /\ l.op = task[p].op)
  <2>1. CASE Write(p)
    <3>1. PICK s \in task[p].left : AppendLine(task[p].op, s, task[p].prep)
      BY <2>1 DEF Write
    <3>2. s \in Slots /\ task[p].prep \in Preps
      BY <1>0 DEF Tasks
    <3> QED
      BY <1>0, <2>1, <3>1, <3>2, AppendLineFacts DEF Write
  <2>2. CASE Mutation(p) /\ ~Write(p)
    BY <2>2
    DEF Mutation, Check, LookupNone, LookupOther, LookupOwn, Recheck, Outdated, Duplicate,
        Prepare, PrepareRefused, Written, Gate, GateRefused, Append, Remove
  <2>3. CASE Recovery(p)
    BY <2>3
    DEF Recovery, ScanLog, ScanArt, ScanIntents, Dispose, Authorize, Project, Discard, ScanDone
  <2>4. CASE \/ Open(p) \/ ClaimFence(p) \/ Crash(p) \/ Fail(p)
             \/ \E o \in Ops, r \in Requests : Begin(p, o, r)
    BY <2>4
    DEF Open, OpenNewTerm, OpenSameTerm, OpenTokenless, ClaimFence, Crash, Fail, Begin
  <2> QED
    BY <2>1, <2>2, <2>3, <2>4 DEF StepOf
<1>2. \A l \in art' : l.op \in Ops /\ Cover(l.op)
  BY <1>0, <1>1, <1>b DEF TaskOK
<1> QED
  BY <1>2, <1>a DEF IntentCoversArtifacts, Cover

\* The invariant is inductive.
LEMMA StepCommitInv == CommitInv /\ [Next]_vars => CommitInv'
<1> SUFFICES ASSUME CommitInv, [Next]_vars PROVE CommitInv'
  OBVIOUS
<1>1. TypeInv'
  BY StepTypeInv DEF CommitInv
<1>2. CASE UNCHANGED vars
  BY <1>1, <1>2
  DEF vars, CommitInv, TaskOK, ScanOK, OnDisk, Cover, Holds, Of, CommitComplete,
      IntentCoversArtifacts
<1>3. ASSUME NEW p \in Procs, StepOf(p) PROVE CommitInv'
  <2>1. ASSUME NEW q \in Procs PROVE TaskOK(q)' /\ ScanOK(q)'
    BY <1>3, OthersKeep, OwnTask, OwnScan
  <2> QED
    BY <1>1, <1>3, <2>1, StepComplete, StepCovers DEF CommitInv
<1> QED
  BY <1>2, <1>3 DEF Next, StepOf

\* It holds initially.
LEMMA InitCommitInv == Init => CommitInv
<1> SUFFICES ASSUME Init PROVE CommitInv
  OBVIOUS
<1>1. TypeInv
  BY InitTypeInv
<1>2. ASSUME NEW p \in Procs PROVE TaskOK(p) /\ ScanOK(p)
  BY DEF Init, TaskOK, ScanOK, NoTask, NoScan
<1> QED
  BY <1>1, <1>2 DEF Init, CommitInv, CommitComplete, IntentCoversArtifacts

\* It is an invariant of the protocol.
THEOREM Invariance == Spec => []CommitInv
<1>1. QED
  BY InitCommitInv, StepCommitInv, PTL DEF Spec

\* A commit signal is never ahead of its artifacts, for any number of
\* processes, any interleaving of their handlers and recoveries, crashes and
\* failures, and whatever the fence admits (the handlers' artifacts-then-entry
\* order and recovery's exactness test).
THEOREM Complete == Spec => []CommitComplete
<1>1. CommitInv => CommitComplete
  BY DEF CommitInv
<1> QED
  BY <1>1, Invariance, PTL

\* Every uncommitted artifact resolves through an intent (intent.ts: written
\* first, removed last).
THEOREM Covered == Spec => []IntentCoversArtifacts
<1>1. CommitInv => IntentCoversArtifacts
  BY DEF CommitInv
<1> QED
  BY <1>1, Invariance, PTL

-----------------------------------------------------------------------------
(* The fence.  Recovery and writers act on tokens, stamps and scans they   *)
(* took earlier; the point is that all of those are behind the mark.       *)

\* Every token was claimed and every stamp copied from one.
EpochInv ==
    /\ TypeInv
    /\ \A p \in Procs : token[p] <= highWater
    /\ \A i \in intents : i.stamp <= highWater
    /\ \A p \in Procs : \A i \in scan[p].todo \cup scan[p].cur : i.stamp <= highWater

\* The mark only grows, and a token changes only by being claimed.
LEMMA MarkStep ==
    ASSUME TypeInv, NEW p \in Procs, StepOf(p)
    PROVE  /\ highWater' >= highWater
           /\ \A q \in Procs : token'[q] = token[q] \/ (token'[q] = highWater' /\ token'[q] # 0)
<1> USE MaxEpochAssumption DEF TypeInv, TypeOK, FenceTypeOK, Tokens, Epochs
<1> DEFINE G == /\ highWater' >= highWater
                /\ \A q \in Procs : token'[q] = token[q] \/ (token'[q] = highWater' /\ token'[q] # 0)
<1>0. ASSUME highWater' = highWater, token' = token PROVE G
  BY <1>0
<1>1. CASE OpenNewTerm(p) \/ ClaimFence(p)
  BY <1>1 DEF OpenNewTerm, ClaimFence, Claim
<1>2. CASE OpenSameTerm(p)
  BY <1>2 DEF OpenSameTerm, Claim
<1>3. CASE Gate(p)
  BY <1>3 DEF Gate, GuardCommit, fenceVars
<1>4. CASE Authorize(p)
  <2>1. highWater' = highWater /\ token' = token
    BY <1>4 DEF Authorize, AuthorizeAtEpoch, fenceVars
  <2> QED
    BY <2>1, <1>0
<1>5. CASE OpenTokenless(p) \/ Crash(p) \/ Fail(p) \/ (\E o \in Ops, r \in Requests : Begin(p, o, r))
  BY <1>5, <1>0 DEF OpenTokenless, Crash, Fail, Begin
<1>6. CASE Mutation(p) /\ ~Gate(p)
  <2>1. highWater' = highWater /\ token' = token
    BY <1>6
    DEF Mutation, Check, LookupNone, LookupOther, LookupOwn, Recheck, Outdated, Duplicate,
        Prepare, PrepareRefused, Write, Written, GateRefused, Append, Remove
  <2> QED
    BY <2>1, <1>0
<1>7. CASE Recovery(p) /\ ~Authorize(p)
  <2>1. highWater' = highWater /\ token' = token
    BY <1>7 DEF Recovery, ScanLog, ScanArt, ScanIntents, Dispose, Project, Discard, ScanDone
  <2> QED
    BY <2>1, <1>0
<1> QED
  BY <1>1, <1>2, <1>3, <1>4, <1>5, <1>6, <1>7 DEF StepOf, Open

\* A new intent carries the stamp of the process that prepared it.
LEMMA IntentStep ==
    ASSUME TypeInv, NEW p \in Procs, StepOf(p), NEW i \in intents'
    PROVE  i \in intents \/ (i.stamp = Stamp(p) /\ pc[p] # "down" /\ task[p].req \in Requests)
<1> USE DEF TypeInv, TypeOK
<1>1. CASE Prepare(p)
  BY <1>1 DEF Prepare, Persisted, Tasks
<1>2. CASE intents' \subseteq intents
  BY <1>2
<1>3. CASE Mutation(p) /\ ~Prepare(p)
  BY <1>2, <1>3
  DEF Mutation, Check, LookupNone, LookupOther, LookupOwn, Recheck, Outdated, Duplicate,
      PrepareRefused, Write, Written, Gate, GateRefused, Append, Remove, RemoveIntent
<1>4. CASE Recovery(p)
  BY <1>2, <1>4
  DEF Recovery, ScanLog, ScanArt, ScanIntents, Dispose, Authorize, Project, Discard,
      ScanDone, RemoveIntent
<1>5. CASE \/ Open(p) \/ ClaimFence(p) \/ Crash(p) \/ Fail(p)
           \/ \E o \in Ops, r \in Requests : Begin(p, o, r)
  BY <1>2, <1>5
  DEF Open, OpenNewTerm, OpenSameTerm, OpenTokenless, ClaimFence, Crash, Fail, Begin
<1> QED
  BY <1>1, <1>3, <1>4, <1>5 DEF StepOf

\* What a recovery works on, it read from the intents.
LEMMA ScanStep ==
    ASSUME TypeInv, NEW p \in Procs, StepOf(p), NEW q \in Procs
    PROVE  scan'[q].todo \cup scan'[q].cur \subseteq scan[q].todo \cup scan[q].cur \cup intents
<1> DEFINE G == scan'[q].todo \cup scan'[q].cur \subseteq scan[q].todo \cup scan[q].cur \cup intents
<1>1. CASE q # p
  BY <1>1, Frame
<1>2. CASE q = p
  <2> USE DEF TypeInv, TypeOK
  <2>0. scan[p] \in Scans
    OBVIOUS
  <2>a. ASSUME scan'[p] = scan[p] \/ scan'[p] = NoScan PROVE G
    BY <1>2, <2>a DEF NoScan
  <2>1. CASE Open(p)
    <3>1. scan'[p] = [NoScan EXCEPT !.opening = TRUE, !.fenced = TRUE, !.surfaces = Slots]
      BY <2>1 DEF Open, OpenNewTerm, OpenSameTerm, OpenTokenless, BeginOpenScan
    <3> QED
      BY <1>2, <3>1 DEF NoScan
  <2>2. CASE LookupOwn(p)
    <3>1. scan'[p] = [NoScan EXCEPT !.fenced = KindOf[task[p].req] \in Wired,
                                    !.surfaces = RetrySurfaces(KindOf[task[p].req])]
      BY <2>2 DEF LookupOwn
    <3>2. scan'[p].todo = {} /\ scan'[p].cur = {}
      BY <3>1 DEF NoScan
    <3> QED
      BY <1>2, <3>2
  <2>3. CASE \/ ClaimFence(p) \/ Crash(p) \/ Fail(p)
             \/ \E o \in Ops, r \in Requests : Begin(p, o, r)
    BY <2>3, <2>a DEF ClaimFence, Crash, Fail, Begin, Return
  <2>4. CASE Mutation(p) /\ ~LookupOwn(p)
    <3>1. scan'[p] = scan[p] \/ scan'[p] = NoScan
      BY <2>4
      DEF Mutation, Check, LookupNone, LookupOther, Recheck, Outdated, Duplicate,
          Prepare, PrepareRefused, Write, Written, Gate, GateRefused, Append, Remove, Return
    <3> QED
      BY <3>1, <2>a
  <2> USE DEF SetScan
  <2>5. CASE ScanLog(p)
    BY <1>2, <2>0, <2>5 DEF ScanLog, Scans
  <2>6. CASE ScanArt(p)
    <3> DEFINE A == {l \in art : l.slot \in scan[p].surfaces}
    <3>1. scan'[p] = [scan[p] EXCEPT !.art = A]
      BY <2>6 DEF ScanArt
    <3> HIDE DEF A
    <3> QED
      BY <1>2, <2>0, <3>1 DEF Scans
  <2>7. CASE ScanIntents(p)
    <3> DEFINE m == IF scan[p].fenced THEN highWater ELSE 0
    <3>1. scan'[p] = [scan[p] EXCEPT !.mark = m, !.todo = intents]
      BY <2>7 DEF ScanIntents
    <3> HIDE DEF m
    <3> QED
      BY <1>2, <2>0, <3>1 DEF Scans
  <2>8. ASSUME NEW i \in scan[p].todo, Dispose(p, i) PROVE G
    <3> DEFINE next == [scan[p] EXCEPT !.todo = @ \ {i}]
    <3>1. \/ scan'[p] = [next EXCEPT !.stale = @ \cup {i.op}]
          \/ scan'[p] = [next EXCEPT !.manual = @ \cup {i.op}]
          \/ scan'[p] = [next EXCEPT !.pending = @ \cup {i.op}]
          \/ scan'[p] = next
          \/ scan'[p] = [next EXCEPT !.cur = {i}]
      BY <2>8 DEF Dispose
    <3>2. /\ scan'[p].todo = scan[p].todo \ {i}
          /\ scan'[p].cur = scan[p].cur \/ scan'[p].cur = {i}
      BY <2>0, <3>1 DEF Scans
    <3> QED
      BY <1>2, <2>8, <3>2
  <2>9. CASE Authorize(p)
    <3>1. PICK i \in scan[p].cur :
            \/ scan'[p] = scan[p]
            \/ scan'[p] = [scan[p] EXCEPT !.cur = {}, !.stale = @ \cup {i.op}]
      BY <2>9 DEF Authorize
    <3> QED
      BY <1>2, <2>0, <3>1 DEF Scans
  <2>10. CASE Discard(p)
    <3>1. PICK i \in scan[p].cur :
            scan'[p] = [scan[p] EXCEPT !.cur = {}, !.done = @ \cup {i.op}]
      BY <2>10 DEF Discard
    <3> QED
      BY <1>2, <2>0, <3>1 DEF Scans
  <2>11. CASE Project(p) \/ ScanDone(p)
    BY <2>11, <2>a DEF Project, ScanDone
  <2> QED
    BY <2>1, <2>2, <2>3, <2>4, <2>5, <2>6, <2>7, <2>8, <2>9, <2>10, <2>11
    DEF StepOf, Recovery
<1> QED
  BY <1>1, <1>2

\* The invariant of the epochs is inductive.
LEMMA StepEpochInv == EpochInv /\ [Next]_vars => EpochInv'
<1> SUFFICES ASSUME EpochInv, [Next]_vars PROVE EpochInv'
  OBVIOUS
<1>0. TypeInv'
  BY StepTypeInv DEF EpochInv
<1>1. CASE UNCHANGED vars
  BY <1>0, <1>1 DEF vars, EpochInv
<1>2. ASSUME NEW p \in Procs, StepOf(p) PROVE EpochInv'
  <2>a. highWater \in Nat /\ highWater' \in Nat /\ token \in [Procs -> Nat]
    BY <1>0, MaxEpochAssumption DEF EpochInv, TypeInv, TypeOK, FenceTypeOK, Tokens
  <2>b. highWater' >= highWater
    BY <1>2, MarkStep DEF EpochInv
  <2>c. \A i \in Intents : i.stamp \in Nat
    BY MaxEpochAssumption DEF Intents, Tokens
  <2>1. \A q \in Procs : token'[q] <= highWater'
    BY <1>2, <2>a, <2>b, MarkStep DEF EpochInv
  <2>2. ASSUME NEW i \in intents' PROVE i.stamp <= highWater'
    <3>1. Stamp(p) <= highWater /\ Stamp(p) \in Nat
      BY <2>a DEF EpochInv, Stamp, NoToken
    <3>2. i \in intents \/ i.stamp = Stamp(p)
      BY <1>2, IntentStep DEF EpochInv
    <3>3. i.stamp <= highWater /\ i.stamp \in Nat
      BY <1>0, <2>c, <3>1, <3>2 DEF EpochInv, TypeInv, TypeOK
    <3> QED
      BY <2>a, <2>b, <3>3
  <2>3. ASSUME NEW q \in Procs, NEW i \in scan'[q].todo \cup scan'[q].cur
        PROVE  i.stamp <= highWater'
    <3>1. i \in scan[q].todo \cup scan[q].cur \cup intents
      BY <1>2, ScanStep DEF EpochInv
    <3>2. i \in Intents
      BY <1>0 DEF TypeInv, TypeOK, Scans
    <3>3. i.stamp <= highWater /\ i.stamp \in Nat
      BY <2>c, <3>1, <3>2 DEF EpochInv
    <3> QED
      BY <2>a, <2>b, <3>3
  <2> QED
    BY <1>0, <2>1, <2>2, <2>3 DEF EpochInv
<1> QED
  BY <1>1, <1>2 DEF Next, StepOf

\* It is an invariant of the protocol.
THEOREM EpochInvariance == Spec => []EpochInv
<1>1. Init => EpochInv
  BY InitTypeInv DEF Init, EpochInv, FenceInit, NoToken, NoScan
<1> QED
  BY <1>1, StepEpochInv, PTL DEF Spec

\* A commit is authorised only while its epoch is the mark, by the writer's
\* gate and by recovery alike, and the authorisation never changes: no epoch
\* behind the mark commits, not by resuming, not by recovery's finalisation
\* (fence.ts `guardCommit`, `authorizeAtEpoch`; recovery.ts
\* `finalizeRecovered`).
THEOREM NoStale == Spec => NoStaleCommit
<1> DEFINE A == \A o \in Ops : commits'[o] # commits[o]
                    => commits[o] = 0 /\ commits'[o] = highWater'
<1>1. ASSUME EpochInv, NEW p \in Procs, StepOf(p) PROVE A
  <2> USE <1>1, MaxEpochAssumption DEF EpochInv, TypeInv, TypeOK, FenceTypeOK, Tokens, Epochs
  <2>1. CASE Gate(p)
    BY <2>1 DEF Gate, GuardCommit, InsertRow, fenceVars
  <2>2. CASE Authorize(p)
    <3>1. PICK i \in scan[p].cur :
            UNCHANGED fenceVars \/ AuthorizeAtEpoch(i.op, i.stamp)
      BY <2>2 DEF Authorize
    <3>2. i.stamp <= highWater /\ i.stamp \in Nat /\ i.op \in Ops
      BY DEF Scans, Intents
    <3> QED
      BY <3>1, <3>2 DEF fenceVars, AuthorizeAtEpoch, InsertRow
  <2>3. CASE commits' = commits
    BY <2>3
  <2>4. CASE Open(p) \/ ClaimFence(p) \/ Crash(p) \/ Fail(p) \/ (\E o \in Ops, r \in Requests : Begin(p, o, r))
    BY <2>3, <2>4
    DEF Open, OpenNewTerm, OpenSameTerm, OpenTokenless, ClaimFence, Claim, Crash, Fail, Begin
  <2>5. CASE Mutation(p) /\ ~Gate(p)
    BY <2>3, <2>5
    DEF Mutation, Check, LookupNone, LookupOther, LookupOwn, Recheck, Outdated, Duplicate,
        Prepare, PrepareRefused, Write, Written, GateRefused, Append, Remove
  <2>6. CASE Recovery(p) /\ ~Authorize(p)
    BY <2>3, <2>6
    DEF Recovery, ScanLog, ScanArt, ScanIntents, Dispose, Project, Discard, ScanDone
  <2> QED
    BY <2>1, <2>2, <2>4, <2>5, <2>6 DEF StepOf
<1>2. EpochInv /\ [Next]_vars => [A]_vars
  BY <1>1 DEF Next, StepOf
<1> QED
  BY <1>2, EpochInvariance, PTL DEF Spec, NoStaleCommit

-----------------------------------------------------------------------------
(* A brain whose writers all hold epochs and whose handlers are all given  *)
(* the fence.                                                              *)

AllFenced == ~Tokenless /\ \A r \in Requests : KindOf[r] \in Wired

\* The states in which a process runs recovery.
Scanning == {"scanLog", "scanArt", "scanIntents", "dispose", "authorize", "project",
             "discard"}

\* What makes a commit signal authorised: writers have tokens, intents have
\* stamps, recoveries have the fence, and whoever is past its gate has a row.
AuthorOK(p) ==
    /\ pc[p] # "down" => token[p] # 0
    /\ pc[p] \in Scanning => scan[p].fenced
    /\ \A i \in scan[p].todo \cup scan[p].cur : i.stamp # 0
    /\ pc[p] = "append" => Authorized(task[p].op)
    /\ pc[p] = "project" => \A i \in scan[p].cur : Authorized(i.op)

AuthorInv ==
    /\ EpochInv
    /\ EntriesAuthorised
    /\ \A i \in intents : i.stamp # 0
    /\ \A p \in Procs : AuthorOK(p)
    /\ \A p \in Procs : \A i \in scan[p].cur : scan[p].cur = {i}

\* An authorisation is never withdrawn.
LEMMA AuthorizedStable ==
    ASSUME TypeInv, NEW p \in Procs, StepOf(p), NEW o \in Ops, Authorized(o)
    PROVE  Authorized(o)'
<1> USE MaxEpochAssumption DEF TypeInv, TypeOK, FenceTypeOK, Authorized
<1>1. CASE commits' = commits
  BY <1>1
<1>2. CASE Gate(p)
  BY <1>2 DEF Gate, GuardCommit, InsertRow, fenceVars
<1>3. CASE Authorize(p)
  BY <1>3 DEF Authorize, AuthorizeAtEpoch, InsertRow, fenceVars
<1>4. CASE Open(p) \/ ClaimFence(p) \/ Crash(p) \/ Fail(p) \/ (\E q \in Ops, r \in Requests : Begin(p, q, r))
  BY <1>1, <1>4
  DEF Open, OpenNewTerm, OpenSameTerm, OpenTokenless, ClaimFence, Claim, Crash, Fail, Begin
<1>5. CASE Mutation(p) /\ ~Gate(p)
  BY <1>1, <1>5
  DEF Mutation, Check, LookupNone, LookupOther, LookupOwn, Recheck, Outdated, Duplicate,
      Prepare, PrepareRefused, Write, Written, GateRefused, Append, Remove
<1>6. CASE Recovery(p) /\ ~Authorize(p)
  BY <1>1, <1>6
  DEF Recovery, ScanLog, ScanArt, ScanIntents, Dispose, Project, Discard, ScanDone
<1> QED
  BY <1>2, <1>3, <1>4, <1>5, <1>6 DEF StepOf

\* The pieces of AuthorOK that the process's own steps can disturb: it never
\* serves without a token, and it recovers with the fence.
LEMMA OwnFence ==
    ASSUME AllFenced, AuthorInv, NEW p \in Procs, StepOf(p)
    PROVE  /\ pc'[p] # "down" => token'[p] # 0
           /\ pc'[p] \in Scanning => scan'[p].fenced
<1> USE DEF AuthorInv, EpochInv, TypeInv, TypeOK, Scanning
<1>0. AuthorOK(p) /\ scan[p] \in Scans
  OBVIOUS
<1> DEFINE G == /\ pc'[p] # "down" => token'[p] # 0
                /\ pc'[p] \in Scanning => scan'[p].fenced
<1>a. ASSUME pc[p] # "down" PROVE token'[p] # 0
  BY <1>0, <1>a, MarkStep DEF AuthorOK
<1>1. CASE Open(p)
  <2>1. scan'[p] = [NoScan EXCEPT !.opening = TRUE, !.fenced = TRUE, !.surfaces = Slots]
    BY <1>1 DEF Open, OpenNewTerm, OpenSameTerm, OpenTokenless, BeginOpenScan
  <2>2. token'[p] # 0
    BY <1>1, MaxEpochAssumption
    DEF AllFenced, Open, OpenNewTerm, OpenSameTerm, OpenTokenless, NoToken, Tokens
  <2> QED
    BY <2>1, <2>2 DEF NoScan
<1>2. CASE Crash(p) \/ Fail(p) \/ (\E o \in Ops, r \in Requests : Begin(p, o, r))
  BY <1>2, <1>a DEF Crash, Fail, Begin, Return, Goto
<1>3. CASE ClaimFence(p)
  BY <1>3, <1>a, CommitAssumption DEF ClaimFence
<1>4. CASE LookupOwn(p)
  <2>1. task[p].req \in Requests /\ pc[p] # "down"
    BY <1>4 DEF LookupOwn, Tasks
  <2>2. scan'[p] = [NoScan EXCEPT !.fenced = KindOf[task[p].req] \in Wired,
                                  !.surfaces = RetrySurfaces(KindOf[task[p].req])]
    BY <1>4 DEF LookupOwn
  <2>3. scan'[p].fenced = (KindOf[task[p].req] \in Wired)
    BY <2>2 DEF NoScan
  <2> QED
    BY <1>a, <2>1, <2>3 DEF AllFenced
<1>5. CASE Mutation(p) /\ ~LookupOwn(p)
  <2>1. pc[p] # "down" /\ pc'[p] \notin Scanning
    BY <1>5
    DEF Mutation, Check, LookupNone, LookupOther, Recheck, Outdated, Duplicate,
        Prepare, PrepareRefused, Write, Written, Gate, GateRefused, Append, Remove,
        Return, Goto
  <2> QED
    BY <1>a, <2>1
<1>6. CASE Recovery(p)
  <2> USE DEF SetScan, Goto
  <2>1. pc[p] \in Scanning
    BY <1>6 DEF Recovery, ScanLog, ScanArt, ScanIntents, Dispose, Authorize, Project,
                Discard, ScanDone
  <2>a. scan[p].fenced
    BY <1>0, <2>1 DEF AuthorOK
  <2>2. CASE ScanDone(p)
    BY <1>a, <2>1, <2>2, <2>a DEF ScanDone
  <2>3. CASE ~ScanDone(p)
    <3>1. scan'[p].fenced = scan[p].fenced
      <4>1. CASE ScanLog(p)
        BY <1>0, <4>1 DEF ScanLog, Scans
      <4>2. CASE ScanArt(p)
        <5> DEFINE A == {l \in art : l.slot \in scan[p].surfaces}
        <5>1. scan'[p] = [scan[p] EXCEPT !.art = A]
          BY <4>2 DEF ScanArt
        <5> HIDE DEF A
        <5> QED
          BY <1>0, <5>1 DEF Scans
      <4>3. CASE ScanIntents(p)
        <5> DEFINE m == IF scan[p].fenced THEN highWater ELSE 0
        <5>1. scan'[p] = [scan[p] EXCEPT !.mark = m, !.todo = intents]
          BY <4>3 DEF ScanIntents
        <5> HIDE DEF m
        <5> QED
          BY <1>0, <5>1 DEF Scans
      <4>4. ASSUME NEW i \in scan[p].todo, Dispose(p, i) PROVE scan'[p].fenced = scan[p].fenced
        <5> DEFINE next == [scan[p] EXCEPT !.todo = @ \ {i}]
        <5>1. \/ scan'[p] = [next EXCEPT !.stale = @ \cup {i.op}]
              \/ scan'[p] = [next EXCEPT !.manual = @ \cup {i.op}]
              \/ scan'[p] = [next EXCEPT !.pending = @ \cup {i.op}]
              \/ scan'[p] = next
              \/ scan'[p] = [next EXCEPT !.cur = {i}]
          BY <4>4 DEF Dispose
        <5> QED
          BY <1>0, <5>1 DEF Scans
      <4>5. CASE Authorize(p)
        <5>1. PICK i \in scan[p].cur :
                \/ scan'[p] = scan[p]
                \/ scan'[p] = [scan[p] EXCEPT !.cur = {}, !.stale = @ \cup {i.op}]
          BY <4>5 DEF Authorize
        <5> QED
          BY <1>0, <5>1 DEF Scans
      <4>6. CASE Discard(p)
        <5>1. PICK i \in scan[p].cur :
                scan'[p] = [scan[p] EXCEPT !.cur = {}, !.done = @ \cup {i.op}]
          BY <4>6 DEF Discard
        <5> QED
          BY <1>0, <5>1 DEF Scans
      <4>7. CASE Project(p)
        BY <4>7 DEF Project
      <4> QED
        BY <1>6, <2>3, <4>1, <4>2, <4>3, <4>4, <4>5, <4>6, <4>7 DEF Recovery
    <3> QED
      BY <1>a, <2>1, <2>a, <3>1
  <2> QED
    BY <2>2, <2>3
<1> QED
  BY <1>1, <1>2, <1>3, <1>4, <1>5, <1>6 DEF StepOf

\* Whoever is past its gate has a row.
LEMMA OwnRow ==
    ASSUME AllFenced, AuthorInv, NEW p \in Procs, StepOf(p)
    PROVE  /\ pc'[p] = "append" => Authorized(task[p].op)'
           /\ pc'[p] = "project" => \A i \in scan'[p].cur : Authorized(i.op)'
<1> USE MaxEpochAssumption DEF AuthorInv, EpochInv, TypeInv, TypeOK, FenceTypeOK
<1>0. AuthorOK(p) /\ task[p] \in Tasks /\ scan[p] \in Scans
  OBVIOUS
<1> DEFINE G == /\ pc'[p] = "append" => Authorized(task[p].op)'
                /\ pc'[p] = "project" => \A i \in scan'[p].cur : Authorized(i.op)'
<1>1. CASE Gate(p)
  <2>1. task[p].req \in Requests /\ task[p].op \in Ops /\ token[p] # 0
    BY <1>0, <1>1 DEF Tasks, Gate, AuthorOK
  <2>2. GuardCommit(task[p].op, token[p])
    BY <1>1, <2>1 DEF Gate, AllFenced
  <2>3. commits'[task[p].op] # 0
    BY <2>1, <2>2 DEF GuardCommit, InsertRow, NoToken
  <2> QED
    BY <1>1, <2>3 DEF Gate, Goto, Authorized
<1>2. CASE Authorize(p)
  <2>1. PICK i \in scan[p].cur :
          \/ Authorized(i.op) /\ UNCHANGED <<fenceVars, scan>>
          \/ AuthorizeAtEpoch(i.op, i.stamp) /\ UNCHANGED scan
          \/ pc'[p] = "dispose"
    BY <1>0, <1>2 DEF Authorize, AuthorOK, Scanning, NoToken, Goto
  <2>2. scan[p].cur = {i} /\ i.op \in Ops /\ i.stamp \in Tokens
    BY <1>0 DEF Scans, Intents
  <2>3. pc'[p] \in {"project", "dispose"}
    BY <1>2 DEF Authorize, Goto
  <2>4. CASE Authorized(i.op) /\ UNCHANGED <<fenceVars, scan>>
    BY <2>2, <2>3, <2>4 DEF Authorized, fenceVars
  <2>5. CASE AuthorizeAtEpoch(i.op, i.stamp) /\ UNCHANGED scan
    BY <2>2, <2>3, <2>5 DEF Authorized, AuthorizeAtEpoch, InsertRow, Epochs
  <2> QED
    BY <2>1, <2>3, <2>4, <2>5
<1>3. CASE Mutation(p) /\ ~Gate(p)
  <2>1. pc'[p] \notin {"append", "project"}
    BY <1>3
    DEF Mutation, Check, LookupNone, LookupOther, LookupOwn, Recheck, Outdated, Duplicate,
        Prepare, PrepareRefused, Write, Written, GateRefused, Append, Remove, Return, Goto
  <2> QED
    BY <2>1
<1>4. CASE Recovery(p) /\ ~Authorize(p)
  <2>1. pc'[p] \notin {"append", "project"}
    BY <1>4
    DEF Recovery, ScanLog, ScanArt, ScanIntents, Dispose, Project, Discard, ScanDone, Goto
  <2> QED
    BY <2>1
<1>5. CASE \/ Open(p) \/ ClaimFence(p) \/ Crash(p) \/ Fail(p)
           \/ \E o \in Ops, r \in Requests : Begin(p, o, r)
  <2>1. pc'[p] \notin {"append", "project"}
    BY <1>5, CommitAssumption
    DEF Open, OpenNewTerm, OpenSameTerm, OpenTokenless, BeginOpenScan, ClaimFence, Crash,
        Fail, Begin, Return, Goto
  <2> QED
    BY <2>1
<1> QED
  BY <1>1, <1>2, <1>3, <1>4, <1>5 DEF StepOf

\* With every handler fenced the invariant is inductive.
LEMMA StepAuthorInv ==
    ASSUME AllFenced PROVE CommitInv /\ AuthorInv /\ [Next]_vars => AuthorInv'
<1> SUFFICES ASSUME CommitInv, AuthorInv, [Next]_vars PROVE AuthorInv'
  OBVIOUS
<1>0. EpochInv' /\ TypeInv' /\ CommitInv'
  BY StepEpochInv, StepCommitInv DEF AuthorInv, EpochInv
<1>1. CASE UNCHANGED vars
  BY <1>0, <1>1 DEF vars, AuthorInv, AuthorOK, EntriesAuthorised, Authorized
<1>2. ASSUME NEW p \in Procs, StepOf(p) PROVE AuthorInv'
  <2>a. TypeInv
    BY DEF AuthorInv, EpochInv
  <2>b. \A o \in Ops : Authorized(o) => Authorized(o)'
    BY <1>2, <2>a, AuthorizedStable
  <2>c. \A i \in intents' : i \in intents \/ i.stamp # 0
    <3> SUFFICES ASSUME NEW i \in intents', i \notin intents PROVE i.stamp # 0
      OBVIOUS
    <3>1. i.stamp = Stamp(p) /\ pc[p] # "down" /\ task[p].req \in Requests
      BY <1>2, <2>a, IntentStep
    <3>2. token[p] # 0
      BY <3>1 DEF AuthorInv, AuthorOK
    <3> QED
      BY <3>1, <3>2 DEF Stamp, AllFenced
  <2>1. \A i \in intents' : i.stamp # 0
    BY <2>c DEF AuthorInv
  <2>2. ASSUME NEW q \in Procs, NEW i \in scan'[q].todo \cup scan'[q].cur PROVE i.stamp # 0
    <3>1. i \in scan[q].todo \cup scan[q].cur \cup intents
      BY <1>2, <2>a, ScanStep
    <3> QED
      BY <3>1 DEF AuthorInv, AuthorOK
  <2>3. ASSUME NEW q \in Procs PROVE AuthorOK(q)'
    <3>1. CASE q = p
      BY <1>2, <2>2, <3>1, OwnFence, OwnRow DEF AuthorOK
    <3>2. CASE q # p
      <4>1. pc'[q] = pc[q] /\ task'[q] = task[q] /\ scan'[q] = scan[q]
        BY <1>2, <2>a, <3>2, Frame
      <4>2. AuthorOK(q) /\ task[q].op \in Ops /\ \A i \in scan[q].cur : i.op \in Ops
        BY <2>a DEF AuthorInv, TypeInv, TypeOK, Tasks, Scans, Intents
      <4>3. token'[q] = token[q] \/ token'[q] # 0
        BY <1>2, <2>a, MarkStep
      <4>4. pc'[q] = "append" => Authorized(task[q].op)'
        BY <2>b, <4>1, <4>2 DEF AuthorOK, Authorized
      <4>5. pc'[q] = "project" => \A i \in scan'[q].cur : Authorized(i.op)'
        BY <2>b, <4>1, <4>2 DEF AuthorOK
      <4> QED
        BY <2>2, <4>1, <4>2, <4>3, <4>4, <4>5 DEF AuthorOK
    <3> QED
      BY <3>1, <3>2
  <2>4. EntriesAuthorised'
    <3> USE DEF TypeInv, TypeOK
    <3>a. \A e \in log : e.op \in Ops /\ Authorized(e.op)
      BY <2>a DEF AuthorInv, EntriesAuthorised, Entries
    <3>1. CASE Append(p)
      <4>2. \A e \in log' : e \in log \/ e.op = task[p].op
        BY <2>a, <3>1, AppendFacts
      <4>3. task[p].op \in Ops /\ Authorized(task[p].op)
        BY <2>a, <3>1 DEF AuthorInv, AuthorOK, Append, Tasks
      <4> QED
        BY <2>b, <3>a, <4>2, <4>3 DEF EntriesAuthorised
    <3>2. CASE Project(p)
      <4>2. PICK i \in scan[p].cur : i.op \in Ops /\ \A e \in log' : e \in log \/ e.op = i.op
        BY <2>a, <3>2, ProjectFacts
      <4>4. Authorized(i.op)
        BY <3>2 DEF AuthorInv, AuthorOK, Project
      <4> QED
        BY <2>b, <3>a, <4>2, <4>4 DEF EntriesAuthorised
    <3>3. CASE log' = log
      BY <2>b, <3>3, <3>a DEF EntriesAuthorised
    <3>4. CASE Mutation(p) /\ ~Append(p)
      BY <3>3, <3>4
      DEF Mutation, Check, LookupNone, LookupOther, LookupOwn, Recheck, Outdated,
          Duplicate, Prepare, PrepareRefused, Write, Written, Gate, GateRefused, Remove
    <3>5. CASE Recovery(p) /\ ~Project(p)
      BY <3>3, <3>5
      DEF Recovery, ScanLog, ScanArt, ScanIntents, Dispose, Authorize, Discard, ScanDone
    <3>6. CASE \/ Open(p) \/ ClaimFence(p) \/ Crash(p) \/ Fail(p)
               \/ \E o \in Ops, r \in Requests : Begin(p, o, r)
      BY <3>3, <3>6
      DEF Open, OpenNewTerm, OpenSameTerm, OpenTokenless, ClaimFence, Crash, Fail, Begin
    <3> QED
      BY <1>2, <3>1, <3>2, <3>4, <3>5, <3>6 DEF StepOf
  <2>5. \A q \in Procs : \A i \in scan'[q].cur : scan'[q].cur = {i}
    BY <1>0 DEF CommitInv, ScanOK
  <2> QED
    BY <1>0, <2>1, <2>3, <2>4, <2>5 DEF AuthorInv
<1> QED
  BY <1>1, <1>2 DEF Next, StepOf

\* On a brain whose writers all hold epochs and whose handlers are all given
\* the fence, a commit signal exists only for an authorised operation, however
\* handlers and recoveries of different owners interleave (log.ts
\* `appendCommittedOpLogEntries`, recovery.ts `finalizeRecovered`).
THEOREM AllAuthorised == ASSUME AllFenced PROVE Spec => []EntriesAuthorised
<1>1. Init => CommitInv /\ AuthorInv
  <2> SUFFICES ASSUME Init PROVE CommitInv /\ AuthorInv
    OBVIOUS
  <2>1. CommitInv /\ TypeInv
    BY InitCommitInv DEF CommitInv
  <2>2. EpochInv
    BY <2>1 DEF Init, EpochInv, FenceInit, NoToken, NoScan
  <2> QED
    BY <2>1, <2>2 DEF Init, AuthorInv, AuthorOK, EntriesAuthorised, NoScan, Scanning
<1>2. (CommitInv /\ AuthorInv) /\ [Next]_vars => (CommitInv /\ AuthorInv)'
  BY StepCommitInv, StepAuthorInv
<1>3. CommitInv /\ AuthorInv => EntriesAuthorised
  BY DEF AuthorInv
<1> QED
  BY <1>1, <1>2, <1>3, PTL DEF Spec

\* On such a brain a writer passes its gate only while its token is the mark: a
\* process that slept through a handoff is refused (fence.ts `guardCommit`).
\* Where a handler is not given the fence this is false: a FORGET that is paused
\* across a handoff appends its signal behind the mark.
THEOREM GatesCurrent == ASSUME AllFenced PROVE Spec => GateCurrent
<1> DEFINE A == \A p \in Procs : pc[p] = "gate" /\ pc'[p] = "append" => token[p] = highWater
<1>1. ASSUME EpochInv, NEW p \in Procs, StepOf(p), NEW q \in Procs,
             pc[q] = "gate", pc'[q] = "append"
      PROVE  token[q] = highWater
  <2> USE <1>1, MaxEpochAssumption DEF EpochInv, TypeInv, TypeOK, FenceTypeOK, Tokens
  <2>1. q = p
    BY Frame
  <2>2. Gate(p)
    <3>1. CASE Mutation(p)
      BY <2>1, <3>1
      DEF Mutation, Check, LookupNone, LookupOther, LookupOwn, Recheck, Outdated,
          Duplicate, Prepare, PrepareRefused, Write, Written, GateRefused, Append, Remove,
          Return, Goto
    <3>2. CASE Recovery(p)
      BY <2>1, <3>2
      DEF Recovery, ScanLog, ScanArt, ScanIntents, Dispose, Authorize, Project, Discard,
          ScanDone
    <3>3. CASE \/ Open(p) \/ ClaimFence(p) \/ Crash(p) \/ Fail(p)
               \/ \E o \in Ops, r \in Requests : Begin(p, o, r)
      BY <2>1, <3>3
      DEF Open, OpenNewTerm, OpenSameTerm, OpenTokenless, ClaimFence, Crash, Fail, Begin,
          Return, Goto
    <3> QED
      BY <3>1, <3>2, <3>3 DEF StepOf
  <2>3. GuardCommit(task[p].op, token[p])
    BY <2>2 DEF Gate, AllFenced, Tasks
  <2> QED
    BY <2>1, <2>3 DEF GuardCommit
<1>2. EpochInv /\ [Next]_vars => [A]_vars
  BY <1>1 DEF Next, StepOf
<1> QED
  BY <1>2, EpochInvariance, PTL DEF Spec, GateCurrent

-----------------------------------------------------------------------------
(* The protocol of a single process implements AtomicOps.                  *)
(*                                                                         *)
(* With two processes it does not: a writer that was paused may append its *)
(* line or its entry after another process committed the id.  So the       *)
(* theorems have OneProcess as a hypothesis, and the invariant says what   *)
(* only a single process can rely on: that nothing moved between two of    *)
(* its steps.                                                              *)

OneProcess == \A p, q \in Procs : p = q

\* An id has one intent and one entry at most, and the lines of one preparation
\* at most: the intent's until it is committed, the entry's from then on.
DiskOK ==
    /\ \A i, j \in intents : i.op = j.op => i = j
    /\ \A e, f \in log : e.op = f.op => e = f
    /\ \A l \in art : l.copy = 1 /\ l.slot \in Expected(KindOf[l.prep.req])
    /\ \A l \in art, i \in intents : l.op = i.op /\ Of(log, l.op) = {} => l.prep = i.prep
    /\ \A l \in art, e \in log : l.op = e.op => l.prep = e.prep

\* The intent on disk for this id is of this preparation.
Planned(o, x) == \E i \in intents : i.op = o /\ i.prep = x

\* The handler is in the recovery it began because it found its own intent, or
\* at its second look.
Retrying(p) == pc[p] = "recheck" \/ (pc[p] \in Scanning /\ ~scan[p].opening)

\* What the handler found, nobody undid.
WriterOK(p) ==
    /\ pc[p] \in {"lookup", "prepare", "write", "gate", "append"} => Of(log, task[p].op) = {}
    /\ Of(log, task[p].op) = {} => \A x \in task[p].held : Planned(task[p].op, x)
    /\ Retrying(p) => task[p].held # {}
    /\ pc[p] = "prepare" =>
        /\ task[p].held = {} => Of(intents, task[p].op) = {}
        /\ KindOf[task[p].req] \in RefusesOnArtifact => Of(art, task[p].op) = {}
    /\ pc[p] \in {"write", "gate", "append"} => Planned(task[p].op, task[p].prep)
    /\ pc[p] = "write" =>
        /\ task[p].left \subseteq Expected(KindOf[task[p].prep.req])
        /\ \A s \in task[p].left : Slot(art, task[p].op, s) = {}

\* What the recovery read and has not disposed of is as it read it.
ReaderOK(p) ==
    /\ pc[p] \in {"scanArt", "scanIntents"} => scan[p].log = log
    /\ pc[p] \in {"dispose", "authorize", "project", "discard"} =>
        /\ scan[p].todo \subseteq intents
        /\ \A i \in scan[p].todo : Of(scan[p].log, i.op) = {} => Of(log, i.op) = {}
    /\ pc[p] \in {"authorize", "project", "discard"} =>
        \A i \in scan[p].cur : \A j \in scan[p].todo : j.op # i.op
    /\ pc[p] \in {"authorize", "project"} =>
        \A i \in scan[p].cur : i \in intents /\ Of(log, i.op) = {}

\* A commit that was authorised has its whole set on disk and its intent.
AuthOK ==
    \A o \in Ops : Authorized(o) /\ Of(log, o) = {} =>
        \E i \in intents : i.op = o /\ OnDisk(o, i.prep, {})

SingleInv ==
    /\ CommitInv
    /\ DiskOK
    /\ \A p \in Procs : WriterOK(p) /\ ReaderOK(p)
    /\ AuthOK

effectBar == [o \in Ops |-> EffectOf(o)]

\* The only change of effect there is.
EffectStep == \/ effectBar' = effectBar
              \/ \E o \in Ops, r \in Requests : Atomic!Commit(o, r)

\* A new brain satisfies the invariant and shows no effect.
LEMMA InitSingle == Init => SingleInv /\ Atomic!Init
<1> SUFFICES ASSUME Init PROVE SingleInv /\ Atomic!Init
  OBVIOUS
<1>1. CommitInv
  BY InitCommitInv
<1>2. NoTask.held = {} /\ intents = {} /\ art = {} /\ log = {}
  BY DEF Init, NoTask
<1>3. \A p \in Procs : pc[p] = "down" /\ task[p].held = {}
  BY <1>2 DEF Init
<1>4. \A p \in Procs : WriterOK(p) /\ ReaderOK(p)
  BY <1>3 DEF WriterOK, ReaderOK, Retrying, Scanning
<1>5. DiskOK /\ AuthOK
  BY <1>2 DEF DiskOK, AuthOK, Init, FenceInit, Authorized
<1>6. \A o \in Ops : EffectOf(o) = {}
  BY <1>2 DEF EffectOf, Of
<1> QED
  BY <1>1, <1>4, <1>5, <1>6 DEF SingleInv, Atomic!Init

-----------------------------------------------------------------------------
(* Steps that leave the files alone.                                       *)

Quiet == UNCHANGED <<intents, art, log>>

\* What is on disk is as consistent as before, and nobody sees a difference.
LEMMA QuietDisk ==
    ASSUME DiskOK, Quiet PROVE DiskOK' /\ effectBar' = effectBar
BY DEF DiskOK, Quiet, effectBar, EffectOf, Of

\* Where no row was written either, authorised commits are as recoverable.
LEMMA QuietAuth ==
    ASSUME AuthOK, Quiet, commits' = commits PROVE AuthOK'
BY DEF AuthOK, Quiet, Authorized, Of, OnDisk, Holds

\* A process between two calls relies on nothing.
LEMMA Resting ==
    ASSUME NEW p \in Procs, pc'[p] \in {"idle", "down"}, task'[p].held = {}
    PROVE  WriterOK(p)' /\ ReaderOK(p)'
BY DEF WriterOK, ReaderOK, Retrying, Scanning

\* Of a handler's return.
LEMMA Returned ==
    ASSUME TypeInv, NEW p \in Procs, Return(p)
    PROVE  WriterOK(p)' /\ ReaderOK(p)'
<1>1. NoTask.held = {}
  BY DEF NoTask
<1> QED
  BY <1>1, Resting DEF Return, Goto, TypeInv, TypeOK

\* The steps around a mutation, and those of a mutation and of a recovery that
\* read, refuse or return.
LEMMA QuietSteps ==
    ASSUME SingleInv, NEW p \in Procs, StepOf(p),
           ~Prepare(p), ~Write(p), ~Gate(p), ~Append(p), ~Remove(p),
           \A i \in scan[p].todo : ~Dispose(p, i),
           ~Authorize(p), ~Project(p), ~Discard(p)
    PROVE  Quiet /\ commits' = commits /\ WriterOK(p)' /\ ReaderOK(p)'
<1> USE DEF SingleInv, CommitInv, TypeInv, TypeOK, Retrying, Scanning
<1>0. /\ WriterOK(p) /\ ReaderOK(p) /\ TaskOK(p) /\ ScanOK(p)
      /\ task[p] \in Tasks /\ scan[p] \in Scans
  OBVIOUS
<1>a. NoTask.held = {}
  BY DEF NoTask
<1>b. ASSUME pc'[p] = "scanLog", scan'[p].opening, task'[p] = task[p], Quiet
      PROVE  WriterOK(p)' /\ ReaderOK(p)'
  BY <1>0, <1>b DEF WriterOK, ReaderOK, Quiet, Planned, Of
<1>1. CASE Open(p)
  <2>1. pc'[p] = "scanLog" /\ task'[p] = task[p] /\ Quiet /\ commits' = commits
    BY <1>1 DEF Open, OpenNewTerm, OpenSameTerm, OpenTokenless, BeginOpenScan, Goto, Quiet, Claim
  <2>2. scan'[p] = [NoScan EXCEPT !.opening = TRUE, !.fenced = TRUE, !.surfaces = Slots]
    BY <1>1 DEF Open, OpenNewTerm, OpenSameTerm, OpenTokenless, BeginOpenScan
  <2>3. scan'[p].opening
    BY <2>2, NoScanType DEF Scans
  <2> QED
    BY <2>1, <2>3, <1>b
<1>2. CASE ClaimFence(p)
  BY <1>0, <1>2 DEF ClaimFence, Claim, Quiet, WriterOK, ReaderOK, Planned, Of
<1>3. CASE Crash(p)
  BY <1>3, <1>a, Resting DEF Crash, Goto, Quiet
<1>4. CASE Fail(p)
  BY <1>4, Returned DEF Fail, Quiet
<1>5. ASSUME NEW o \in Ops, NEW r \in Requests, Begin(p, o, r)
      PROVE  Quiet /\ commits' = commits /\ WriterOK(p)' /\ ReaderOK(p)'
  <2>1. pc'[p] = "check" /\ Quiet /\ commits' = commits
    BY <1>5 DEF Begin, Goto, Quiet
  <2>2. task'[p] = [NoTask EXCEPT !.op = o, !.req = r]
    BY <1>5 DEF Begin
  <2>3. task'[p].held = {}
    BY <2>2, <1>a, NoTaskType DEF Tasks
  <2> QED
    BY <2>1, <2>3 DEF WriterOK, ReaderOK
<1>6. CASE Check(p)
  <2>1. CASE Return(p)
    BY <1>6, <2>1, Returned DEF Check, Quiet
  <2>2. CASE ~Return(p)
    BY <1>0, <1>6, <2>2 DEF Check, Goto, Quiet, WriterOK, ReaderOK, Planned, Of
  <2> QED
    BY <2>1, <2>2
<1>7. CASE LookupNone(p)
  <2>1. /\ pc[p] = "lookup" /\ Of(intents, task[p].op) = {}
        /\ pc'[p] = "prepare" /\ task'[p] = task[p] /\ Quiet /\ commits' = commits
    BY <1>7 DEF LookupNone, Goto, Quiet
  <2>2. Of(log, task[p].op) = {}
    BY <1>0, <2>1 DEF WriterOK
  <2>3. Of(art, task[p].op) = {}
    BY <2>1, <2>2 DEF IntentCoversArtifacts, Of
  <2> QED
    BY <1>0, <2>1, <2>2, <2>3 DEF Quiet, WriterOK, ReaderOK, Planned, Of
<1>8. CASE LookupOther(p) \/ Outdated(p) \/ Duplicate(p) \/ PrepareRefused(p) \/ GateRefused(p)
  BY <1>8, Returned
  DEF LookupOther, Outdated, Duplicate, PrepareRefused, GateRefused, Quiet
<1>9. CASE LookupOwn(p)
  <2>1. PICK i \in Of(intents, task[p].op) :
            i.prep.req = task[p].req /\ task' = [task EXCEPT ![p].held = {i.prep}]
    BY <1>9 DEF LookupOwn
  <2>2. task'[p].op = task[p].op /\ task'[p].held = {i.prep}
    BY <1>0, <2>1 DEF Tasks
  <2>3. pc'[p] = "scanLog" /\ Quiet /\ commits' = commits
    BY <1>9 DEF LookupOwn, Goto, Quiet
  <2> QED
    BY <2>1, <2>2, <2>3 DEF WriterOK, ReaderOK, Quiet, Planned, Of
<1>10. CASE Recheck(p)
  <2>1. CASE Return(p)
    BY <1>10, <2>1, Returned DEF Recheck, Quiet
  <2>2. CASE ~Return(p)
    <3>1. /\ pc[p] = "recheck" /\ Of(log, task[p].op) = {} /\ CanResume(p)
          /\ pc'[p] = "prepare" /\ task'[p] = task[p] /\ Quiet /\ commits' = commits
      BY <1>10, <2>2 DEF Recheck, Goto, Quiet
    <3>2. PICK x \in task[p].held : x.req = task[p].req /\ Planned(task[p].op, x)
      BY <1>0, <3>1 DEF WriterOK, TaskOK
    <3>3. \A l \in Of(art, task[p].op) : l.slot \in Expected(KindOf[task[p].req])
      BY <3>1, <3>2 DEF DiskOK, Planned, Of
    <3>4. Expected(KindOf[task[p].req]) \subseteq RetrySurfaces(KindOf[task[p].req])
      BY CommitAssumption DEF Expected, RetrySurfaces, Kinds, Tasks
    <3>5. KindOf[task[p].req] \in RefusesOnArtifact => Of(art, task[p].op) = {}
      BY <3>1, <3>3, <3>4 DEF CanResume, RefusesOnArtifact, WritesMissing, Slot, Of
    <3> QED
      BY <1>0, <3>1, <3>2, <3>5 DEF Quiet, WriterOK, ReaderOK, Planned, Of
  <2> QED
    BY <2>1, <2>2
<1>11. CASE Written(p)
  BY <1>0, <1>11 DEF Written, Goto, Quiet, WriterOK, ReaderOK, Planned, Of
<1>12. CASE ScanLog(p)
  BY <1>0, <1>12 DEF ScanLog, SetScan, Goto, Quiet, WriterOK, ReaderOK, Planned, Of, Scans
<1>13. CASE ScanArt(p)
  <2>1. /\ pc[p] = "scanArt" /\ pc'[p] = "scanIntents" /\ task'[p] = task[p]
        /\ Quiet /\ commits' = commits
    BY <1>13 DEF ScanArt, Goto, Quiet
  <2>2. scan'[p].log = scan[p].log /\ scan'[p].opening = scan[p].opening
    BY <1>0, <1>13 DEF ScanArt, SetScan, Scans
  <2> QED
    BY <1>0, <2>1, <2>2 DEF Quiet, WriterOK, ReaderOK, Planned, Of
<1>14. CASE ScanIntents(p)
  <2>1. /\ pc[p] = "scanIntents" /\ pc'[p] = "dispose" /\ task'[p] = task[p]
        /\ Quiet /\ commits' = commits
    BY <1>14 DEF ScanIntents, Goto, Quiet
  <2>2. /\ scan'[p].log = scan[p].log /\ scan'[p].todo = intents
        /\ scan'[p].opening = scan[p].opening
    BY <1>0, <1>14 DEF ScanIntents, SetScan, Scans
  <2> QED
    BY <1>0, <2>1, <2>2 DEF Quiet, WriterOK, ReaderOK, Planned, Of
<1>15. CASE ScanDone(p)
  <2>1. /\ pc[p] = "dispose" /\ task'[p] = task[p]
        /\ Quiet /\ commits' = commits
        /\ pc'[p] = "idle" \/ (pc'[p] = "recheck" /\ ~scan[p].opening)
    BY <1>15 DEF ScanDone, Goto, Quiet
  <2> QED
    BY <1>0, <2>1 DEF Quiet, WriterOK, ReaderOK, Planned, Of
<1> QED
  BY <1>1, <1>2, <1>3, <1>4, <1>5, <1>6, <1>7, <1>8, <1>9, <1>10, <1>11, <1>12, <1>13,
     <1>14, <1>15 DEF StepOf, Mutation, Recovery

-----------------------------------------------------------------------------
(* Steps that write.                                                       *)

\* Every kind has artifacts, and a handler that either refuses on them or
\* writes what is missing.
LEMMA KindFacts ==
    ASSUME NEW r \in Requests
    PROVE  /\ Expected(KindOf[r]) # {}
           /\ KindOf[r] \in RefusesOnArtifact \cup WritesMissing
           /\ KindOf[r] = "observe" => KindOf[r] \in RefusesOnArtifact
BY CommitAssumption DEF Expected, Kinds, RefusesOnArtifact, WritesMissing

\* How AuthOK is established after a step.
LEMMA AuthAfter ==
    ASSUME \A o \in Ops : commits'[o] # 0 /\ Of(log', o) = {} =>
                \E i \in intents' : i.op = o /\ OnDisk(o, i.prep, {})'
    PROVE  AuthOK'
BY DEF AuthOK, Authorized

\* Removing the intent of a committed id changes nothing that counts.
LEMMA Removal ==
    ASSUME SingleInv, NEW o, Of(log, o) # {}, intents' = intents \ Of(intents, o),
           UNCHANGED <<art, log, commits>>
    PROVE  DiskOK' /\ AuthOK' /\ effectBar' = effectBar
<1>1. DiskOK'
  BY DEF SingleInv, DiskOK, Of
<1>2. AuthOK'
  BY DEF SingleInv, AuthOK, Authorized, OnDisk, Holds, Of
<1>3. effectBar' = effectBar
  BY DEF effectBar, EffectOf, Of
<1> QED
  BY <1>1, <1>2, <1>3

\* The signal of a whole set is the atomic commit of its request.
LEMMA Signal ==
    ASSUME SingleInv, NEW o \in Ops, NEW x \in Preps, NEW t \in Tokens,
           AppendEntry(o, x, t), UNCHANGED <<intents, art, commits>>,
           Of(log, o) = {}, Planned(o, x), OnDisk(o, x, {})
    PROVE  DiskOK' /\ AuthOK' /\ Atomic!Commit(o, x.req)
<1> USE DEF SingleInv, CommitInv, TypeInv, TypeOK
<1> DEFINE c == Cardinality(Of(log, o)) + 1
           e == [op |-> o, prep |-> x, stamp |-> t, copy |-> c]
<1>1. log' = log \cup {e} /\ e.op = o /\ e.prep = x
  BY DEF AppendEntry
<1> HIDE DEF e
<1>2. \A f \in log : f.op # o
  BY DEF Of
<1>3. \A l \in Of(art, o) : l.prep = x /\ l.copy = 1 /\ l.slot \in Expected(KindOf[x.req])
  BY DEF DiskOK, Planned, Of
<1>4. DiskOK'
  BY <1>1, <1>2, <1>3 DEF DiskOK, Of
<1>5. AuthOK'
  <2>1. ASSUME NEW q \in Ops, commits'[q] # 0, Of(log', q) = {}
        PROVE  \E i \in intents' : i.op = q /\ OnDisk(q, i.prep, {})'
    <3>1. PICK i \in intents : i.op = q /\ OnDisk(q, i.prep, {})
      BY <1>1, <2>1 DEF AuthOK, Authorized, Of
    <3> QED
      BY <3>1, OnDiskStable
  <2> QED
    BY <2>1, AuthAfter
<1>6. Of(log', o) = {e} /\ \A q \in Ops : q # o => Of(log', q) = Of(log, q)
  BY <1>1, <1>2 DEF Of
<1>7. {[slot |-> l.slot, copy |-> l.copy] : l \in Of(art, o)}
        = {[slot |-> s, copy |-> 1] : s \in Expected(KindOf[x.req])}
  BY <1>3 DEF OnDisk, Holds, Of
<1>8. Cardinality({e}) = 1
  BY FS_Singleton
<1>9. x.req \in Requests
  BY DEF Preps
<1>10. EffectOf(o) = {}
  BY DEF EffectOf
<1>11. EffectOf(o)' = {Atomic!Whole(x.req)}
  <2>1. Atomic!Whole(x.req) = [req |-> x.req,
                               parts |-> {[slot |-> s, copy |-> 1] : s \in Expected(KindOf[x.req])},
                               signals |-> 1]
    BY <1>9 DEF Atomic!Whole
  <2> QED
    BY <1>1, <1>6, <1>7, <1>8, <2>1 DEF EffectOf
<1>12. \A q \in Ops : q # o => EffectOf(q)' = EffectOf(q)
  BY <1>6 DEF EffectOf
<1>13. Atomic!Commit(o, x.req)
  BY <1>10, <1>11, <1>12 DEF Atomic!Commit
<1> QED
  BY <1>4, <1>5, <1>13

\* What a step has to leave behind.
After(p) == DiskOK' /\ AuthOK' /\ WriterOK(p)' /\ ReaderOK(p)' /\ EffectStep

\* The intent: a retry replaces it only by itself, or when nothing of it was
\* written yet.
LEMMA PrepareKeeps ==
    ASSUME SingleInv, NEW p \in Procs, Prepare(p) PROVE After(p)
<1> USE DEF SingleInv, CommitInv, TypeInv, TypeOK
<1> DEFINE o == task[p].op
<1>0. WriterOK(p) /\ TaskOK(p) /\ task[p] \in Tasks /\ o \in Ops /\ task[p].req \in Requests
  BY DEF Tasks
<1>1. PICK x \in Prepared(p) :
        /\ intents' = Persisted(o, x, Stamp(p))
        /\ task' = [task EXCEPT ![p].prep = x, ![p].left = Missing(p), ![p].held = {}]
  BY DEF Prepare
<1>2. /\ task'[p].op = o /\ task'[p].prep = x
      /\ task'[p].left = Missing(p) /\ task'[p].held = {}
  BY <1>0, <1>1 DEF Tasks
<1>3. /\ pc[p] = "prepare" /\ pc'[p] = "write"
      /\ UNCHANGED <<art, log, commits>>
  BY DEF Prepare, Goto
<1>4. Of(log, o) = {}
  BY <1>0, <1>3 DEF WriterOK
<1>5. x.req = task[p].req
  <2>1. CASE x \in task[p].held
    BY <1>0, <2>1 DEF TaskOK
  <2>2. CASE x \notin task[p].held
    <3>1. \E m \in 1 .. MaxPrep : x = [req |-> task[p].req, n |-> m]
      BY <2>2 DEF Prepared
    <3> QED
      BY <3>1
  <2> QED
    BY <2>1, <2>2
<1>6. Of(art, o) # {} => task[p].held = {x}
  <2> SUFFICES ASSUME Of(art, o) # {} PROVE task[p].held = {x}
    OBVIOUS
  <2>1. Of(intents, o) # {}
    BY <1>4 DEF IntentCoversArtifacts, Of
  <2>2. task[p].held # {} /\ KindOf[task[p].req] # "observe"
    BY <1>0, <1>3, <2>1, KindFacts DEF WriterOK
  <2> QED
    BY <1>0, <2>2 DEF Prepared, TaskOK
<1>7. \A l \in Of(art, o) : l.prep = x
  <2> SUFFICES ASSUME NEW l \in Of(art, o) PROVE l.prep = x
    OBVIOUS
  <2>1. Planned(o, x)
    BY <1>0, <1>4, <1>6 DEF WriterOK
  <2> QED
    BY <1>4, <2>1 DEF DiskOK, Planned, Of
<1> DEFINE n == [op |-> o, prep |-> x, stamp |-> Stamp(p)]
<1>8. intents' = (intents \ Of(intents, o)) \cup {n} /\ n.op = o /\ n.prep = x
  BY <1>1 DEF Persisted
<1> HIDE DEF n
<1>9. DiskOK'
  BY <1>3, <1>7, <1>8 DEF DiskOK, Of
<1>10. Planned(task[p].op, task[p].prep)'
  BY <1>2, <1>8 DEF Planned
<1>11. Missing(p) \subseteq Expected(KindOf[x.req]) /\ \A s \in Missing(p) : Slot(art, o, s) = {}
  <2>1. Missing(p) \subseteq Expected(KindOf[x.req])
    BY <1>5 DEF Missing
  <2>2. ASSUME NEW s \in Missing(p), NEW l \in Slot(art, o, s) PROVE FALSE
    BY <1>6, <1>7 DEF Missing, Slot, Of, Holds
  <2> QED
    BY <2>1, <2>2
<1>12. WriterOK(p)'
  BY <1>2, <1>3, <1>4, <1>10, <1>11 DEF WriterOK, Retrying, Scanning, Of, Slot
<1>13. ReaderOK(p)'
  BY <1>3 DEF ReaderOK
<1>14. AuthOK'
  <2> SUFFICES ASSUME NEW q \in Ops, Authorized(q), Of(log, q) = {}
               PROVE  \E i \in intents' : i.op = q /\ OnDisk(q, i.prep, {})
    <3>1. ASSUME NEW q \in Ops, commits'[q] # 0, Of(log', q) = {}
          PROVE  \E i \in intents' : i.op = q /\ OnDisk(q, i.prep, {})'
      <4>1. PICK i \in intents' : i.op = q /\ OnDisk(q, i.prep, {})
        BY <1>3, <3>1 DEF Authorized
      <4> QED
        BY <1>3, <4>1, OnDiskStable
    <3> QED
      BY <3>1, AuthAfter
  <2>1. PICK i \in intents : i.op = q /\ OnDisk(q, i.prep, {})
    BY DEF AuthOK
  <2>2. CASE q # o
    BY <1>8, <2>1, <2>2 DEF Of
  <2>3. CASE q = o
    <3>1. Of(art, o) # {}
      <4>1. i.prep.req \in Requests
        BY DEF Intents, Preps
      <4> QED
        BY <2>1, <2>3, <4>1, KindFacts DEF OnDisk, Holds, Of
    <3>2. i.prep = x
      <4>1. PICK l \in art : l.op = o
        BY <3>1 DEF Of
      <4>2. l.prep = x
        BY <1>7, <4>1 DEF Of
      <4>3. l.op = i.op /\ Of(log, l.op) = {}
        BY <1>4, <2>1, <2>3, <4>1
      <4>4. \A m \in art, j \in intents : m.op = j.op /\ Of(log, m.op) = {} => m.prep = j.prep
        BY DEF DiskOK
      <4> QED
        BY <2>1, <4>1, <4>2, <4>3, <4>4
    <3> QED
      BY <1>8, <2>1, <2>3, <3>2
  <2> QED
    BY <2>2, <2>3
<1>15. effectBar' = effectBar
  BY <1>3 DEF effectBar, EffectOf, Of
<1> QED
  BY <1>9, <1>12, <1>13, <1>14, <1>15 DEF After, EffectStep

\* An artifact: the first line of its slot, of an id nobody has committed.
LEMMA WriteKeeps ==
    ASSUME SingleInv, NEW p \in Procs, Write(p) PROVE After(p)
<1> USE DEF SingleInv, CommitInv, TypeInv, TypeOK
<1>0. WriterOK(p) /\ task[p] \in Tasks
  OBVIOUS
<1>1. PICK s \in task[p].left : /\ AppendLine(task[p].op, s, task[p].prep)
                                /\ task' = [task EXCEPT ![p].left = @ \ {s}]
  BY DEF Write
<1>2. /\ task'[p].op = task[p].op /\ task'[p].prep = task[p].prep
      /\ task'[p].held = task[p].held /\ task'[p].left = task[p].left \ {s}
  BY <1>0, <1>1 DEF Tasks
<1>3. pc[p] = "write" /\ pc'[p] = "write" /\ UNCHANGED <<intents, log, commits>>
  BY DEF Write
<1>4. /\ Of(log, task[p].op) = {} /\ Planned(task[p].op, task[p].prep)
      /\ s \in Expected(KindOf[task[p].prep.req])
      /\ \A z \in task[p].left : Slot(art, task[p].op, z) = {}
  BY <1>0, <1>1, <1>3 DEF WriterOK
<1> DEFINE n == [op |-> task[p].op, slot |-> s, prep |-> task[p].prep, copy |-> 1]
<1>5. art' = art \cup {n}
  <2>1. Slot(art, task[p].op, s) = {}
    BY <1>4
  <2>2. Cardinality({}) + 1 = 1
    BY FS_EmptySet
  <2> QED
    BY <1>1, <2>1, <2>2 DEF AppendLine
<1>6. n.op = task[p].op /\ n.slot = s /\ n.prep = task[p].prep /\ n.copy = 1
  OBVIOUS
<1> HIDE DEF n
<1>7. DiskOK'
  BY <1>3, <1>4, <1>5, <1>6 DEF DiskOK, Planned, Of
<1>8. AuthOK'
  <2>1. ASSUME NEW q \in Ops, commits'[q] # 0, Of(log', q) = {}
        PROVE  \E i \in intents' : i.op = q /\ OnDisk(q, i.prep, {})'
    <3>1. PICK i \in intents : i.op = q /\ OnDisk(q, i.prep, {})
      BY <1>3, <2>1 DEF AuthOK, Authorized
    <3> QED
      BY <1>3, <1>5, <3>1, OnDiskStable
  <2> QED
    BY <2>1, AuthAfter
<1>9. \A z \in task'[p].left : Slot(art', task'[p].op, z) = {}
  BY <1>2, <1>4, <1>5, <1>6 DEF Slot
<1>10. WriterOK(p)'
  BY <1>0, <1>2, <1>3, <1>9 DEF WriterOK, Retrying, Scanning, Planned, Of
<1>11. ReaderOK(p)'
  BY <1>3 DEF ReaderOK
<1>12. \A q \in Ops : EffectOf(q)' = EffectOf(q)
  <2> TAKE q \in Ops
  <2>1. CASE q = task[p].op
    BY <1>3, <1>4, <2>1 DEF EffectOf
  <2>2. CASE q # task[p].op
    <3>1. Of(art', q) = Of(art, q)
      BY <1>5, <1>6, <2>2 DEF Of
    <3> QED
      BY <1>3, <3>1 DEF EffectOf
  <2> QED
    BY <2>1, <2>2
<1> QED
  BY <1>7, <1>8, <1>10, <1>11, <1>12 DEF After, EffectStep, effectBar

\* A row of the gate or of recovery: the set it authorises is on disk.
LEMMA RowKeeps ==
    ASSUME SingleInv, Quiet, NEW i \in intents, OnDisk(i.op, i.prep, {}),
           \A q \in Ops : q # i.op => commits'[q] = commits[q]
    PROVE  AuthOK'
<1>1. ASSUME NEW q \in Ops, commits'[q] # 0, Of(log', q) = {}
      PROVE  \E j \in intents' : j.op = q /\ OnDisk(q, j.prep, {})'
  <2>1. PICK j \in intents : j.op = q /\ OnDisk(q, j.prep, {})
    BY <1>1 DEF SingleInv, AuthOK, Authorized, Quiet
  <2> QED
    BY <2>1, OnDiskStable DEF Quiet
<1> QED
  BY <1>1, AuthAfter

\* The gate, the signal and the removal of the intent.
LEMMA CommitKeeps ==
    ASSUME SingleInv, NEW p \in Procs, Gate(p) \/ Append(p) \/ Remove(p) PROVE After(p)
<1> USE DEF SingleInv, CommitInv, TypeInv, TypeOK
<1>0. /\ WriterOK(p) /\ TaskOK(p) /\ task[p] \in Tasks
      /\ task[p].op \in Ops /\ task[p].prep \in Preps
  BY DEF Tasks
<1>1. CASE Gate(p)
  <2>1. pc[p] = "gate" /\ pc'[p] = "append" /\ Quiet /\ task'[p] = task[p]
    BY <1>1 DEF Gate, Goto, Quiet
  <2>2. \A q \in Ops : q # task[p].op => commits'[q] = commits[q]
    BY <1>1 DEF Gate, GuardCommit, InsertRow, fenceVars, FenceTypeOK
  <2>3. PICK i \in intents : i.op = task[p].op /\ i.prep = task[p].prep
    BY <1>0, <2>1 DEF WriterOK, Planned
  <2>4. OnDisk(i.op, i.prep, {})
    BY <1>0, <2>1, <2>3 DEF TaskOK
  <2>5. AuthOK'
    BY <2>1, <2>2, <2>3, <2>4, RowKeeps
  <2>6. WriterOK(p)' /\ ReaderOK(p)'
    BY <1>0, <2>1 DEF WriterOK, ReaderOK, Retrying, Scanning, Quiet, Planned, Of
  <2> QED
    BY <2>1, <2>5, <2>6, QuietDisk DEF After, EffectStep
<1>2. CASE Append(p)
  <2>1. pc[p] = "append" /\ pc'[p] = "remove" /\ task'[p] = task[p]
    BY <1>2 DEF Append, Goto
  <2>2. UNCHANGED <<intents, art, commits>> /\ AppendEntry(task[p].op, task[p].prep, Stamp(p))
    BY <1>2 DEF Append
  <2>3. /\ Of(log, task[p].op) = {} /\ Planned(task[p].op, task[p].prep)
        /\ OnDisk(task[p].op, task[p].prep, {})
    BY <1>0, <2>1 DEF WriterOK, TaskOK
  <2>4. Stamp(p) \in Tokens
    BY MaxEpochAssumption DEF Stamp, Tokens, NoToken
  <2>5. DiskOK' /\ AuthOK' /\ Atomic!Commit(task[p].op, task[p].prep.req)
    BY <1>0, <2>2, <2>3, <2>4, Signal
  <2>6. task[p].prep.req \in Requests
    BY <1>0 DEF Preps
  <2>7. Of(log', task[p].op) # {}
    BY <1>2, AppendFacts
  <2>8. WriterOK(p)' /\ ReaderOK(p)'
    BY <2>1, <2>7 DEF WriterOK, ReaderOK, Retrying, Scanning
  <2> QED
    BY <1>0, <2>5, <2>6, <2>8 DEF After, EffectStep
<1>3. CASE Remove(p)
  <2>1. /\ pc[p] = "remove" /\ UNCHANGED <<art, log, commits>> /\ Return(p)
        /\ intents' = intents \ Of(intents, task[p].op)
    BY <1>3 DEF Remove, RemoveIntent
  <2>2. Of(log, task[p].op) # {}
    BY <1>0, <2>1 DEF TaskOK
  <2> QED
    BY <2>1, <2>2, Removal, Returned DEF After, EffectStep
<1> QED
  BY <1>1, <1>2, <1>3

\* A step of recovery on one intent.
LEMMA DisposeKeeps ==
    ASSUME SingleInv, NEW p \in Procs, NEW i \in scan[p].todo, Dispose(p, i) PROVE After(p)
<1> USE DEF SingleInv, CommitInv, TypeInv, TypeOK
<1>0. WriterOK(p) /\ ReaderOK(p) /\ ScanOK(p) /\ scan[p] \in Scans
  OBVIOUS
<1>1. pc[p] = "dispose" /\ task' = task /\ UNCHANGED <<art, log, commits>>
  BY DEF Dispose
<1>2. i \in intents /\ scan[p].todo \subseteq intents
  BY <1>0, <1>1 DEF ReaderOK
<1> DEFINE next == [scan[p] EXCEPT !.todo = @ \ {i}]
<1>3. \/ /\ intents' = intents /\ pc' = pc
         /\ \/ scan'[p] = [next EXCEPT !.stale = @ \cup {i.op}]
            \/ scan'[p] = [next EXCEPT !.manual = @ \cup {i.op}]
            \/ scan'[p] = [next EXCEPT !.pending = @ \cup {i.op}]
      \/ /\ Disposition(scan[p], i) = "remove" /\ intents' = intents \ Of(intents, i.op)
         /\ scan'[p] = next /\ pc' = pc
      \/ /\ Disposition(scan[p], i) = "finalize" /\ intents' = intents
         /\ scan'[p] = [next EXCEPT !.cur = {i}] /\ pc'[p] = "authorize"
  BY DEF Dispose, SetScan, Goto, RemoveIntent
<1>4. /\ scan'[p].log = scan[p].log /\ scan'[p].todo = scan[p].todo \ {i}
      /\ scan'[p].opening = scan[p].opening
      /\ pc'[p] = "authorize" => scan'[p].cur = {i}
  BY <1>0, <1>1, <1>3 DEF Scans
<1>5. pc'[p] \in {"dispose", "authorize"}
  BY <1>1, <1>3
<1>6. \A j \in scan[p].todo \ {i} : j.op # i.op
  BY <1>2 DEF DiskOK
<1>7. pc'[p] = "authorize" => Of(log, i.op) = {}
  <2> SUFFICES ASSUME pc'[p] = "authorize" PROVE Of(log, i.op) = {}
    OBVIOUS
  <2>1. Disposition(scan[p], i) = "finalize"
    BY <1>1, <1>3
  <2>2. Of(scan[p].log, i.op) = {}
    BY <2>1 DEF Disposition
  <2> QED
    BY <1>0, <1>1, <2>2 DEF ReaderOK
<1>8. CASE intents' = intents
  <2>1. Quiet
    BY <1>1, <1>8 DEF Quiet
  <2>2. WriterOK(p)'
    BY <1>0, <1>1, <1>4, <1>5, <1>8 DEF WriterOK, Retrying, Scanning, Planned, Of
  <2>3. ReaderOK(p)'
    BY <1>0, <1>1, <1>2, <1>4, <1>5, <1>6, <1>7, <1>8 DEF ReaderOK, Of
  <2> QED
    BY <1>1, <2>1, <2>2, <2>3, QuietDisk, QuietAuth DEF After, EffectStep
<1>9. CASE intents' # intents
  <2>1. /\ Disposition(scan[p], i) = "remove" /\ intents' = intents \ Of(intents, i.op)
        /\ pc'[p] = "dispose"
    BY <1>1, <1>3, <1>9
  <2>2. Of(log, i.op) # {}
    BY <1>0, <2>1, DispositionFacts DEF ScanOK, Of
  <2>3. DiskOK' /\ AuthOK' /\ effectBar' = effectBar
    BY <1>1, <2>1, <2>2, Removal
  <2>4. WriterOK(p)'
    BY <1>0, <1>1, <1>4, <2>1, <2>2 DEF WriterOK, Retrying, Scanning, Planned, Of
  <2>5. ReaderOK(p)'
    BY <1>0, <1>1, <1>2, <1>4, <1>6, <2>1 DEF ReaderOK, Of
  <2> QED
    BY <2>3, <2>4, <2>5 DEF After, EffectStep
<1> QED
  BY <1>8, <1>9

\* The authorisation, the projection and the removal of the intent by recovery.
LEMMA FinalizeKeeps ==
    ASSUME SingleInv, NEW p \in Procs, Authorize(p) \/ Project(p) \/ Discard(p) PROVE After(p)
<1> USE DEF SingleInv, CommitInv, TypeInv, TypeOK
<1>0. WriterOK(p) /\ ReaderOK(p) /\ ScanOK(p) /\ scan[p] \in Scans
  OBVIOUS
<1>1. CASE Authorize(p)
  <2>1. PICK i \in scan[p].cur :
            /\ \/ scan'[p] = scan[p] /\ pc'[p] = "project"
               \/ /\ scan'[p] = [scan[p] EXCEPT !.cur = {}, !.stale = @ \cup {i.op}]
                  /\ pc'[p] = "dispose"
            /\ \A q \in Ops : q # i.op => commits'[q] = commits[q]
    BY <1>1
    DEF Authorize, SetScan, Goto, fenceVars, AuthorizeAtEpoch, InsertRow, FenceTypeOK
  <2>2. pc[p] = "authorize" /\ Quiet /\ task'[p] = task[p]
    BY <1>1 DEF Authorize, Quiet
  <2>3. i \in intents /\ OnDisk(i.op, i.prep, {})
    BY <1>0, <2>1, <2>2 DEF ReaderOK, ScanOK
  <2>4. AuthOK'
    BY <2>1, <2>2, <2>3, RowKeeps
  <2>5. /\ scan'[p].log = scan[p].log /\ scan'[p].todo = scan[p].todo
        /\ scan'[p].opening = scan[p].opening
        /\ pc'[p] = "project" => scan'[p].cur = scan[p].cur
    BY <1>0, <2>1 DEF Scans
  <2>6. pc'[p] \in {"project", "dispose"}
    BY <2>1
  <2>7. WriterOK(p)'
    BY <1>0, <2>2, <2>5, <2>6 DEF WriterOK, Retrying, Scanning, Planned, Of, Quiet
  <2>8. ReaderOK(p)'
    BY <1>0, <2>2, <2>5, <2>6 DEF ReaderOK, Of, Quiet
  <2> QED
    BY <2>2, <2>4, <2>7, <2>8, QuietDisk DEF After, EffectStep
<1>2. CASE Project(p)
  <2>1. PICK i \in scan[p].cur : AppendEntry(i.op, i.prep, i.stamp)
    BY <1>2 DEF Project
  <2>2. /\ pc[p] = "project" /\ pc'[p] = "discard" /\ task'[p] = task[p] /\ scan'[p] = scan[p]
        /\ UNCHANGED <<intents, art, commits>>
    BY <1>2 DEF Project, Goto
  <2>3. i \in intents /\ Of(log, i.op) = {} /\ OnDisk(i.op, i.prep, {}) /\ scan[p].cur = {i}
    BY <1>0, <2>1, <2>2 DEF ReaderOK, ScanOK
  <2>4. i.op \in Ops /\ i.prep \in Preps /\ i.stamp \in Tokens /\ i.prep.req \in Requests
    BY <2>3 DEF Intents, Preps
  <2>5. Planned(i.op, i.prep)
    BY <2>3 DEF Planned
  <2>6. DiskOK' /\ AuthOK' /\ Atomic!Commit(i.op, i.prep.req)
    BY <2>1, <2>2, <2>3, <2>4, <2>5, Signal
  <2>7. log \subseteq log' /\ \A e \in log' : e \in log \/ e.op = i.op
    BY <2>1, <2>4, AppendEntryFacts
  <2>8. WriterOK(p)'
    BY <1>0, <2>2, <2>7 DEF WriterOK, Retrying, Scanning, Planned, Of
  <2>9. ReaderOK(p)'
    BY <1>0, <2>2, <2>3, <2>7 DEF ReaderOK, Of
  <2> QED
    BY <2>4, <2>6, <2>8, <2>9 DEF After, EffectStep
<1>3. CASE Discard(p)
  <2>1. PICK i \in scan[p].cur :
            /\ intents' = intents \ Of(intents, i.op)
            /\ scan'[p] = [scan[p] EXCEPT !.cur = {}, !.done = @ \cup {i.op}]
    BY <1>3 DEF Discard, RemoveIntent, SetScan
  <2>2. /\ pc[p] = "discard" /\ pc'[p] = "dispose" /\ task'[p] = task[p]
        /\ UNCHANGED <<art, log, commits>>
    BY <1>3 DEF Discard, Goto
  <2>3. Of(log, i.op) # {}
    BY <1>0, <2>1, <2>2 DEF ScanOK
  <2>4. /\ scan'[p].log = scan[p].log /\ scan'[p].todo = scan[p].todo
        /\ scan'[p].opening = scan[p].opening
    BY <1>0, <2>1 DEF Scans
  <2>5. DiskOK' /\ AuthOK' /\ effectBar' = effectBar
    BY <2>1, <2>2, <2>3, Removal
  <2>6. WriterOK(p)'
    BY <1>0, <2>1, <2>2, <2>3, <2>4 DEF WriterOK, Retrying, Scanning, Planned, Of
  <2>7. ReaderOK(p)'
    BY <1>0, <2>1, <2>2, <2>4 DEF ReaderOK, Of
  <2> QED
    BY <2>5, <2>6, <2>7 DEF After, EffectStep
<1> QED
  BY <1>1, <1>2, <1>3

\* The invariant of the single process is inductive, and each of its steps is
\* the atomic commit of one request or leaves every effect as it was.
LEMMA StepSingle ==
    ASSUME OneProcess, SingleInv, [Next]_vars PROVE SingleInv' /\ EffectStep
<1>1. CommitInv'
  BY StepCommitInv DEF SingleInv
<1>2. CASE UNCHANGED vars
  <2>1. Quiet /\ commits' = commits /\ UNCHANGED <<pc, task, scan>>
    BY <1>2 DEF vars, Quiet
  <2>2. \A p \in Procs : WriterOK(p)' /\ ReaderOK(p)'
    BY <2>1 DEF SingleInv, Quiet, WriterOK, ReaderOK, Retrying, Planned, Of, Slot
  <2> QED
    BY <1>1, <2>1, <2>2, QuietDisk, QuietAuth DEF SingleInv, EffectStep
<1>3. ASSUME NEW p \in Procs, StepOf(p) PROVE SingleInv' /\ EffectStep
  <2>1. After(p)
    <3>1. CASE /\ ~Prepare(p) /\ ~Write(p) /\ ~Gate(p) /\ ~Append(p) /\ ~Remove(p)
               /\ \A i \in scan[p].todo : ~Dispose(p, i)
               /\ ~Authorize(p) /\ ~Project(p) /\ ~Discard(p)
      <4>1. Quiet /\ commits' = commits /\ WriterOK(p)' /\ ReaderOK(p)'
        BY <1>3, <3>1, QuietSteps
      <4> QED
        BY <4>1, QuietDisk, QuietAuth DEF SingleInv, After, EffectStep
    <3> QED
      BY <3>1, PrepareKeeps, WriteKeeps, CommitKeeps, DisposeKeeps, FinalizeKeeps
  <2>2. \A q \in Procs : WriterOK(q)' /\ ReaderOK(q)'
    BY <2>1 DEF After, OneProcess
  <2> QED
    BY <1>1, <2>1, <2>2 DEF SingleInv, After
<1> QED
  BY <1>2, <1>3 DEF Next, StepOf

\* Crashes, failed writes, retries and recovery notwithstanding, the handlers and
\* runRecovery of one process implement the atomic operation: an id takes effect
\* at most once, for one request, wholly and in one step, the append of its entry.
THEOREM AtomicCommits == ASSUME OneProcess PROVE Spec => AtomicCommit
<1>1. SingleInv /\ [Next]_vars => SingleInv' /\ EffectStep
  BY StepSingle
<1>2. EffectStep => [Atomic!Next]_([o \in Ops |-> EffectOf(o)])
  BY DEF EffectStep, Atomic!Next, effectBar
<1> QED
  BY <1>1, <1>2, InitSingle, PTL DEF Spec, AtomicCommit, Atomic!Spec

\* A commit the gate or recovery authorised is never lost while its entry is
\* missing: the intent is there and its set is whole and exact, so the next
\* runRecovery projects it.
THEOREM AuthorisedStays == ASSUME OneProcess PROVE Spec => []AuthorisedRecoverable
<1>1. SingleInv => AuthorisedRecoverable
  <2> SUFFICES ASSUME SingleInv, NEW o \in Ops, Authorized(o), Of(log, o) = {}
               PROVE  \E i \in Of(intents, o) :
                          Exact([NoScan EXCEPT !.fenced = TRUE, !.art = art], i)
    BY DEF AuthorisedRecoverable
  <2>1. PICK i \in intents : i.op = o /\ OnDisk(o, i.prep, {})
    BY DEF SingleInv, AuthOK
  <2>2. [NoScan EXCEPT !.fenced = TRUE, !.art = art].art = art
    BY DEF NoScan
  <2>3. ASSUME NEW s \in Expected(KindOf[i.prep.req])
        PROVE  Cardinality(Slot(art, i.op, s)) = 1 /\ Holds(art, i.op, s, i.prep)
    <3>1. PICK l \in art : l.op = o /\ l.slot = s /\ l.prep = i.prep
      BY <2>1, <2>3 DEF OnDisk, Holds
    <3>2. \A k \in Slot(art, o, s) : k = l
      <4> TAKE k \in Slot(art, o, s)
      <4>1. k \in Lines /\ l \in Lines /\ k.op = o /\ k.slot = s
        BY <3>1 DEF SingleInv, CommitInv, TypeInv, TypeOK, Slot
      <4>2. k.prep = i.prep /\ k.copy = 1 /\ l.copy = 1
        BY <2>1, <3>1, <4>1 DEF SingleInv, DiskOK, Slot
      <4> QED
        BY <3>1, <4>1, <4>2 DEF Lines
    <3>3. Slot(art, o, s) = {l}
      BY <3>1, <3>2 DEF Slot
    <3> QED
      BY <2>1, <3>1, <3>3, FS_Singleton DEF Holds
  <2> QED
    BY <2>1, <2>2, <2>3 DEF Exact, Of
<1>2. SingleInv /\ [Next]_vars => SingleInv'
  BY StepSingle
<1> QED
  BY <1>1, <1>2, InitSingle, PTL DEF Spec

-----------------------------------------------------------------------------
(* The fence among its clients.  FenceClients adds to the fence what each  *)
(* process holds between two database steps.  The invariant says how far a *)
(* token can be trusted while a process is paused: from the conditional    *)
(* update of guard() on, a token is never ahead of the mark, so a stamp    *)
(* never is either; and a refusal that waits to be recorded stays genuine  *)
(* because the mark only grows.                                            *)

\* Past the conditional update of guard() a token is not ahead of the mark.
TokensBehind ==
    \A p \in Clients : stage[p] \in {"reread", "prepare", "gate"} => fenceToken[p] <= highWater

\* Nor is any stamp, for it was copied from such a token.
StampsBehind == \A o \in Ops : stamp[o] <= highWater

\* What a refused process is about to record is genuine.
PendingGenuine ==
    \A p \in Clients : stage[p] = "refused" =>
        seen[p].token < seen[p].mark /\ seen[p].mark <= highWater

FenceInv == ClientsTypeOK /\ TokensBehind /\ StampsBehind /\ PendingGenuine /\ RefusalsGenuine

-----------------------------------------------------------------------------
\* The initial states satisfy the inductive invariant.
LEMMA InitFence == ClientsInit => FenceInv
BY MaxEpochAssumption
DEF ClientsInit, FenceInv, ClientsTypeOK, FenceInit, FenceTypeOK, TokensBehind, StampsBehind,
    PendingGenuine, RefusalsGenuine, Refusals, NoRefusal, NoToken, Tokens, Stages

\* Every step keeps the types (each database step of fence.ts stays within
\* the issued epochs).
LEMMA StepFenceType == ClientsTypeOK /\ [ClientsNext]_storeVars => ClientsTypeOK'
<1> SUFFICES ASSUME ClientsTypeOK, [ClientsNext]_storeVars PROVE ClientsTypeOK'
  OBVIOUS
<1> USE MaxEpochAssumption DEF ClientsTypeOK, FenceTypeOK, Tokens, Epochs, Stages, Refusals,
        NoRefusal, NoToken
<1>1. CASE UNCHANGED storeVars
  BY <1>1 DEF storeVars
<1>2. ASSUME NEW p \in Clients, NEW t \in Epochs, Adopt(p, t) PROVE ClientsTypeOK'
  <2>1. CASE Claim(t)
    BY <1>2, <2>1 DEF Adopt, Claim, ClaimRefused
  <2>2. CASE ClaimRefused(t)
    BY <1>2, <2>2 DEF Adopt, Claim, ClaimRefused, Refuse
  <2> QED
    BY <1>2, <2>1, <2>2 DEF Adopt
<1>3. ASSUME NEW p \in Clients, NEW t \in Epochs, Present(p, t) PROVE ClientsTypeOK'
  BY <1>3 DEF Present
<1>4. ASSUME NEW p \in Clients, NEW o \in Ops, GuardRead(p, o) PROVE ClientsTypeOK'
  BY <1>4 DEF GuardRead, Refuse
<1>5. ASSUME NEW p \in Clients, NEW o \in Ops, Recover(p, o) PROVE ClientsTypeOK'
  BY <1>5 DEF Recover, AuthorizeAtEpoch, InsertRow, clientVars
<1>6. ASSUME NEW p \in Clients, GuardUpdate(p) PROVE ClientsTypeOK'
  BY <1>6 DEF GuardUpdate, GuardAdvance
<1>7. ASSUME NEW p \in Clients, GuardReread(p) PROVE ClientsTypeOK'
  <2>1. stage' \in [Clients -> Stages]
    BY <1>7 DEF GuardReread, Refuse
  <2>2. [token |-> fenceToken[p], mark |-> highWater] \in Refusals
    OBVIOUS
  <2>3. seen' \in [Clients -> Refusals]
    <3>1. seen' = seen \/ seen' = [seen EXCEPT ![p] = [token |-> fenceToken[p], mark |-> highWater]]
      BY <1>7 DEF GuardReread, Refuse
    <3> QED
      BY <2>2, <3>1
  <2> QED
    BY <1>7, <2>1, <2>3 DEF GuardReread
<1>8. ASSUME NEW p \in Clients, StampIntent(p) PROVE ClientsTypeOK'
  BY <1>8 DEF StampIntent
<1>9. ASSUME NEW p \in Clients, CommitGate(p) PROVE ClientsTypeOK'
  BY <1>9 DEF CommitGate, GuardCommit, InsertRow, Refuse, fenceVars
<1>10. ASSUME NEW p \in Clients, RecordRefusal(p) PROVE ClientsTypeOK'
  BY <1>10 DEF RecordRefusal
<1> QED
  BY <1>1, <1>2, <1>3, <1>4, <1>5, <1>6, <1>7, <1>8, <1>9, <1>10 DEF ClientsNext

\* No step moves the mark back.
LEMMA StepMark == FenceInv /\ [ClientsNext]_storeVars => highWater' >= highWater
<1> SUFFICES ASSUME FenceInv, [ClientsNext]_storeVars PROVE highWater' >= highWater
  OBVIOUS
<1> USE MaxEpochAssumption DEF FenceInv, ClientsTypeOK, FenceTypeOK, Tokens, Epochs
<1>1. CASE UNCHANGED storeVars
  BY <1>1 DEF storeVars
<1>2. ASSUME NEW p \in Clients, NEW t \in Epochs, Adopt(p, t) PROVE highWater' >= highWater
  BY <1>2 DEF Adopt, Claim, ClaimRefused
<1>3. ASSUME NEW p \in Clients, GuardUpdate(p) PROVE highWater' >= highWater
  BY <1>3 DEF GuardUpdate, GuardAdvance
<1>4. ASSUME NEW p \in Clients, CommitGate(p) PROVE highWater' >= highWater
  BY <1>4 DEF CommitGate, GuardCommit, fenceVars
<1>5. ASSUME NEW p \in Clients, NEW o \in Ops, Recover(p, o) PROVE highWater' >= highWater
  BY <1>5 DEF Recover, AuthorizeAtEpoch
<1> QED
  BY <1>1, <1>2, <1>3, <1>4, <1>5
  DEF ClientsNext, Present, GuardRead, GuardReread, StampIntent, RecordRefusal

\* Every step keeps the inductive invariant.
LEMMA StepFence == FenceInv /\ [ClientsNext]_storeVars => FenceInv'
<1> SUFFICES ASSUME FenceInv, [ClientsNext]_storeVars PROVE FenceInv'
  OBVIOUS
<1>0. ClientsTypeOK' /\ highWater' >= highWater
  BY StepFenceType, StepMark DEF FenceInv
<1> USE <1>0, MaxEpochAssumption
    DEF FenceInv, ClientsTypeOK, FenceTypeOK, Tokens, Epochs, Stages, Refusals, NoRefusal, NoToken,
        TokensBehind, StampsBehind, PendingGenuine, RefusalsGenuine
<1>1. CASE UNCHANGED storeVars
  BY <1>1 DEF storeVars
<1>2. ASSUME NEW p \in Clients, NEW t \in Epochs, Adopt(p, t) PROVE FenceInv'
  <2>1. CASE Claim(t)
    <3>1. /\ highWater' = t
          /\ fenceToken' = [fenceToken EXCEPT ![p] = t]
          /\ UNCHANGED <<stage, seen, stamp, refusal>>
      BY <1>2, <2>1 DEF Adopt, Claim, ClaimRefused
    <3>2. TokensBehind'
      BY <3>1
    <3>3. StampsBehind' /\ PendingGenuine' /\ RefusalsGenuine'
      BY <3>1
    <3> QED
      BY <3>2, <3>3
  <2>2. CASE ClaimRefused(t)
    BY <1>2, <2>2 DEF Adopt, Claim, ClaimRefused, Refuse
  <2> QED
    BY <1>2, <2>1, <2>2 DEF Adopt
<1>3. ASSUME NEW p \in Clients, NEW t \in Epochs, Present(p, t) PROVE FenceInv'
  BY <1>3 DEF Present
<1>4. ASSUME NEW p \in Clients, NEW o \in Ops, GuardRead(p, o) PROVE FenceInv'
  BY <1>4 DEF GuardRead, Refuse, GuardAccepts, GuardRefuses
<1>5. ASSUME NEW p \in Clients, NEW o \in Ops, Recover(p, o) PROVE FenceInv'
  BY <1>5 DEF Recover, AuthorizeAtEpoch, clientVars
<1>6. ASSUME NEW p \in Clients, GuardUpdate(p) PROVE FenceInv'
  BY <1>6 DEF GuardUpdate, GuardAdvance
<1>7. ASSUME NEW p \in Clients, GuardReread(p) PROVE FenceInv'
  BY <1>7 DEF GuardReread, Refuse, GuardRefuses
<1>8. ASSUME NEW p \in Clients, StampIntent(p) PROVE FenceInv'
  BY <1>8 DEF StampIntent
<1>9. ASSUME NEW p \in Clients, CommitGate(p) PROVE FenceInv'
  BY <1>9 DEF CommitGate, GuardCommit, GuardCommitRefused, Refuse, fenceVars
<1>10. ASSUME NEW p \in Clients, RecordRefusal(p) PROVE FenceInv'
  BY <1>10 DEF RecordRefusal
<1> QED
  BY <1>1, <1>2, <1>3, <1>4, <1>5, <1>6, <1>7, <1>8, <1>9, <1>10 DEF ClientsNext

\* The inductive invariant is an invariant of the clients.
THEOREM FenceInvariance == ClientsSpec => []FenceInv
<1>1. QED
  BY InitFence, StepFence, PTL DEF ClientsSpec

-----------------------------------------------------------------------------
\* The fence's state and its clients' keep their types.
THEOREM FenceTypeCorrect == ClientsSpec => []ClientsTypeOK
<1>1. FenceInv => ClientsTypeOK
  BY DEF FenceInv
<1> QED
  BY <1>1, FenceInvariance, PTL

\* The persisted mark never moves back (fence.ts, `claim`, `guard`,
\* `guardCommit`).
THEOREM MarkStays == ClientsSpec => MarkMonotone
<1>1. FenceInv /\ [ClientsNext]_storeVars => [highWater' >= highWater]_storeVars
  BY StepMark
<1> QED
  BY <1>1, FenceInvariance, PTL DEF ClientsSpec, MarkMonotone

\* A commit authorisation is recorded only while its epoch is the mark, and
\* is never replaced (fence.ts, `guardCommit`, `authorizeAtEpoch`).
THEOREM RowsCurrent == ClientsSpec => RowsAtTheMark
<1> DEFINE Rows == \A o \in Ops : commits'[o] # commits[o]
                        => commits[o] = 0 /\ commits'[o] = highWater'
<1>1. ASSUME FenceInv, ClientsNext PROVE Rows
  <2> USE <1>1, MaxEpochAssumption
      DEF FenceInv, ClientsTypeOK, FenceTypeOK, Tokens, Epochs, NoToken
  <2>1. ASSUME NEW p \in Clients, CommitGate(p) PROVE Rows
    BY <2>1 DEF CommitGate, GuardCommit, InsertRow, fenceVars
  <2>2. ASSUME NEW p \in Clients, NEW q \in Ops, Recover(p, q) PROVE Rows
    BY <2>2 DEF Recover, AuthorizeAtEpoch, InsertRow, StampsBehind, Authorized
  <2>3. ASSUME NEW p \in Clients, NEW t \in Epochs, Adopt(p, t) PROVE Rows
    BY <2>3 DEF Adopt, Claim
  <2>4. ASSUME NEW p \in Clients, GuardUpdate(p) PROVE Rows
    BY <2>4 DEF GuardUpdate, GuardAdvance
  <2> QED
    BY <2>1, <2>2, <2>3, <2>4
    DEF ClientsNext, Present, GuardRead, GuardReread, StampIntent, RecordRefusal
<1>2. FenceInv /\ [ClientsNext]_storeVars => [Rows]_storeVars
  BY <1>1
<1> QED
  BY <1>2, FenceInvariance, PTL DEF ClientsSpec, RowsAtTheMark

\* guard() lets a mutation begin only at an instant when the caller's token is
\* the mark, although it is not a transaction (fence.ts, `guard`).
THEOREM GuardCurrent == ClientsSpec => GuardSound
<1> DEFINE Sound == \A p \in Clients : stage[p] \in {"idle", "reread"} /\ stage'[p] = "prepare"
                        => fenceToken[p] = highWater
<1>1. ASSUME FenceInv, ClientsNext PROVE Sound
  <2> USE <1>1, MaxEpochAssumption DEF FenceInv, ClientsTypeOK, FenceTypeOK, Tokens, Epochs, Stages
  <2>1. ASSUME NEW p \in Clients, NEW o \in Ops, GuardRead(p, o) PROVE Sound
    BY <2>1 DEF GuardRead, Refuse, GuardAccepts
  <2>2. ASSUME NEW p \in Clients, GuardReread(p) PROVE Sound
    BY <2>2 DEF GuardReread, Refuse, GuardRefuses, TokensBehind
  <2>3. ASSUME NEW p \in Clients, NEW t \in Epochs, Adopt(p, t) PROVE Sound
    BY <2>3 DEF Adopt, Refuse
  <2>4. ASSUME NEW p \in Clients, CommitGate(p) PROVE Sound
    BY <2>4 DEF CommitGate, Refuse
  <2> QED
    BY <2>1, <2>2, <2>3, <2>4
    DEF ClientsNext, Present, Recover, clientVars, GuardUpdate, StampIntent, RecordRefusal
<1>2. ASSUME UNCHANGED storeVars PROVE Sound
  BY <1>2 DEF storeVars
<1>3. FenceInv /\ [ClientsNext]_storeVars => [Sound]_storeVars
  BY <1>1, <1>2
<1> QED
  BY <1>3, FenceInvariance, PTL DEF ClientsSpec, GuardSound

\* The audited refusal is genuine (fence.ts, `recordRefusal`).
THEOREM GenuineRefusals == ClientsSpec => []RefusalsGenuine
<1>1. FenceInv => RefusalsGenuine
  BY DEF FenceInv
<1> QED
  BY <1>1, FenceInvariance, PTL
=============================================================================
