------------------------------- MODULE Fence -------------------------------
(***************************************************************************)
(* The persisted writer fence of one brain: the SQLite row `writer_fence`  *)
(* and the table `writer_fence_commits` (src/src/storage/fence.ts,         *)
(* ADR-0007 and ADR-0010).                                                 *)
(*                                                                         *)
(* Every operator below is ONE database step: a statement, or one          *)
(* IMMEDIATE transaction.  The modules that extend this one say in which   *)
(* order the processes that share the database take those steps.           *)
(*                                                                         *)
(* An epoch is a positive integer.  NoToken (0) stands for `null`: a       *)
(* writer opened without a fencing token, or an intent without a stamp.    *)
(***************************************************************************)
EXTENDS Integers

CONSTANTS
    Ops,        \* operation ids
    MaxEpoch    \* bound on the epochs the ownership arbiter issues

ASSUME MaxEpochAssumption == MaxEpoch \in Nat

VARIABLES
    highWater,  \* writer_fence.high_water, 0 = never fenced
    commits     \* writer_fence_commits: operation id -> epoch, 0 = no row

fenceVars == <<highWater, commits>>

NoToken == 0
Epochs  == 1 .. MaxEpoch
Tokens  == 0 .. MaxEpoch

\* The constructor's INSERT OR IGNORE of the one row, on a new database.
FenceInit ==
    /\ highWater = 0
    /\ commits = [o \in Ops |-> 0]

FenceTypeOK ==
    /\ highWater \in Tokens
    /\ commits \in [Ops -> Tokens]

Authorized(o) == commits[o] # 0

-----------------------------------------------------------------------------
(* claim(): register an ownership term; equal is idempotent.               *)

Claim(t) ==
    /\ t \in Epochs
    /\ t >= highWater
    /\ highWater' = t
    /\ UNCHANGED commits

ClaimRefused(t) ==
    /\ t \in Epochs
    /\ t < highWater

-----------------------------------------------------------------------------
(* guard(): the check at the mutation boundary.  It is not a transaction:  *)
(* a read, then for a newer token a conditional update and a second read.  *)

\* readRow() lets the writer proceed with nothing more to do.
GuardAccepts(t) == t = highWater

\* A mutant of GuardRefuses: equal is no longer idempotent.
GuardRefusesEqual(t) == t <= highWater

\* readRow() refuses: no token on a fenced brain, or a token behind the mark.
GuardRefuses(t) == t < highWater

\* A mutant of GuardAdvance: no `WHERE high_water < ?`.
GuardAdvanceUnconditional(t) ==
    /\ highWater' = t
    /\ UNCHANGED commits

\* UPDATE ... WHERE high_water < token: a concurrent higher claim wins.
GuardAdvance(t) ==
    /\ highWater' = IF highWater < t THEN t ELSE highWater
    /\ UNCHANGED commits

-----------------------------------------------------------------------------
(* guardCommit(): the writer's commit gate, one IMMEDIATE transaction.     *)

\* INSERT OR IGNORE INTO writer_fence_commits
InsertRow(o, t) ==
    commits' = [commits EXCEPT ![o] = IF @ = 0 THEN t ELSE @]

GuardCommit(o, t) ==
    /\ t >= highWater
    /\ highWater' = t
    /\ IF t = NoToken THEN UNCHANGED commits ELSE InsertRow(o, t)

GuardCommitRefused(t) == t < highWater

-----------------------------------------------------------------------------
(* authorizeAtEpoch(): recovery's gate for a set prepared under `t`.       *)
(* Atomic with the mark, which it never advances.                          *)

\* A mutant of AuthorizeAtEpoch: the mark is not re-checked.
AuthorizeUnchecked(o, t) ==
    /\ t \in Epochs
    /\ InsertRow(o, t)
    /\ UNCHANGED highWater

AuthorizeAtEpoch(o, t) ==
    /\ t \in Epochs
    /\ t >= highWater
    /\ InsertRow(o, t)
    /\ UNCHANGED highWater

AuthorizeRefused(t) == t \notin Epochs \/ t < highWater
=============================================================================
