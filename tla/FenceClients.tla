---------------------------- MODULE FenceClients ----------------------------
(***************************************************************************)
(* Clients of one brain's FenceStore, in several processes.  A client      *)
(* claims an epoch, guards a mutation at its boundary, stamps the          *)
(* mutation's intent and passes the commit gate; recovery, in any process, *)
(* authorises the sets that other processes prepared.  The point is the    *)
(* interleaving: guard() is three database steps and a refusal is recorded *)
(* by a statement of its own, so a process may be paused between any two.  *)
(*                                                                         *)
(* SmartwareCore (src/src/core.ts) claims every token before it uses it.   *)
(* FenceStore does not rely on that: guard() and guardCommit() accept a    *)
(* token the mark has not reached, and this module presents such tokens.   *)
(***************************************************************************)
EXTENDS Fence

CONSTANT Clients     \* the processes that have the brain open

VARIABLES
    fenceToken, \* SmartwareCore.fenceToken of each process
    stage,      \* where the process is
    work,       \* the operation id it is mutating
    seen,       \* the token and the mark its refused step compared
    stamp,      \* operation id -> epoch stamped into its intent, 0 = none
    refusal     \* writer_fence.last_refusal_token / last_refusal_high_water

storeVars == <<highWater, commits, fenceToken, stage, work, seen, stamp, refusal>>

clientVars == <<fenceToken, stage, work, seen, stamp, refusal>>

Stages == {"idle", "advance", "reread", "prepare", "gate", "refused"}

Refusals  == [token : Tokens, mark : Tokens]
NoRefusal == [token |-> 0, mark |-> 0]

ClientsTypeOK ==
    /\ FenceTypeOK
    /\ fenceToken \in [Clients -> Tokens]
    /\ stage \in [Clients -> Stages]
    /\ work \in [Clients -> Ops]
    /\ seen \in [Clients -> Refusals]
    /\ stamp \in [Ops -> Tokens]
    /\ refusal \in Refusals

ClientsInit ==
    /\ FenceInit
    /\ fenceToken = [p \in Clients |-> NoToken]
    /\ stage = [p \in Clients |-> "idle"]
    /\ work \in [Clients -> Ops]
    /\ stamp = [o \in Ops |-> NoToken]
    /\ seen = [p \in Clients |-> NoRefusal]
    /\ refusal = NoRefusal

-----------------------------------------------------------------------------
\* A step of process p is refused: it remembers what it compared.
Refuse(p, t) ==
    /\ seen' = [seen EXCEPT ![p] = [token |-> t, mark |-> highWater]]
    /\ stage' = [stage EXCEPT ![p] = "refused"]

\* The caller of the store holds a token nobody claimed yet.
Present(p, t) ==
    /\ stage[p] = "idle"
    /\ fenceToken' = [fenceToken EXCEPT ![p] = t]
    /\ UNCHANGED <<highWater, commits, stage, work, seen, stamp, refusal>>

\* adoptFenceToken(), at open or from claimFence(): claim, then remember.
\* claimFence() is synchronous, so it can also run while a mutation awaits.
Adopt(p, t) ==
    /\ stage[p] \in {"idle", "prepare", "gate"}
    /\ \/ /\ Claim(t)
          /\ fenceToken' = [fenceToken EXCEPT ![p] = t]
          /\ UNCHANGED <<stage, work, seen, stamp, refusal>>
       \/ /\ stage[p] = "idle"
          /\ ClaimRefused(t)
          /\ Refuse(p, t)
          /\ UNCHANGED <<highWater, commits, fenceToken, work, stamp, refusal>>

\* guard()'s first read.
GuardRead(p, o) ==
    /\ stage[p] = "idle"
    /\ work' = [work EXCEPT ![p] = o]
    /\ \/ /\ GuardAccepts(fenceToken[p])
          /\ stage' = [stage EXCEPT ![p] = "prepare"]
          /\ UNCHANGED seen
       \/ /\ GuardRefuses(fenceToken[p])
          /\ Refuse(p, fenceToken[p])
       \/ /\ fenceToken[p] > highWater
          /\ stage' = [stage EXCEPT ![p] = "advance"]
          /\ UNCHANGED seen
    /\ UNCHANGED <<highWater, commits, fenceToken, stamp, refusal>>

\* The conditional update of a newer token.
GuardUpdate(p) ==
    /\ stage[p] = "advance"
    /\ GuardAdvance(fenceToken[p])
    /\ stage' = [stage EXCEPT ![p] = "reread"]
    /\ UNCHANGED <<fenceToken, work, seen, stamp, refusal>>

\* A mutant of GuardReread: the guard trusts its own update.
GuardRereadBlind(p) ==
    /\ stage[p] = "reread"
    /\ stage' = [stage EXCEPT ![p] = "prepare"]
    /\ UNCHANGED <<highWater, commits, fenceToken, work, seen, stamp, refusal>>

\* The read that follows the update.
GuardReread(p) ==
    /\ stage[p] = "reread"
    /\ \/ /\ GuardRefuses(fenceToken[p])
          /\ Refuse(p, fenceToken[p])
       \/ /\ ~GuardRefuses(fenceToken[p])
          /\ stage' = [stage EXCEPT ![p] = "prepare"]
          /\ UNCHANGED seen
    /\ UNCHANGED <<highWater, commits, fenceToken, work, stamp, refusal>>

\* The handler stamps its intent with mutationFence().stamp().
StampIntent(p) ==
    /\ stage[p] = "prepare"
    /\ stamp' = [stamp EXCEPT ![work[p]] = fenceToken[p]]
    /\ stage' = [stage EXCEPT ![p] = "gate"]
    /\ UNCHANGED <<highWater, commits, fenceToken, work, seen, refusal>>

\* mutationFence().guardCommit(): the token is read again here.
CommitGate(p) ==
    /\ stage[p] = "gate"
    /\ \/ /\ GuardCommit(work[p], fenceToken[p])
          /\ stage' = [stage EXCEPT ![p] = "idle"]
          /\ UNCHANGED seen
       \/ /\ GuardCommitRefused(fenceToken[p])
          /\ Refuse(p, fenceToken[p])
          /\ UNCHANGED fenceVars
    /\ UNCHANGED <<fenceToken, work, stamp, refusal>>

\* recordRefusal(), then the ProtocolError; the process serves on.
RecordRefusal(p) ==
    /\ stage[p] = "refused"
    /\ refusal' = seen[p]
    /\ seen' = [seen EXCEPT ![p] = NoRefusal]
    /\ stage' = [stage EXCEPT ![p] = "idle"]
    /\ UNCHANGED <<highWater, commits, fenceToken, work, stamp>>

\* finalizeRecovered() in any process: no row yet and a stamped intent.
Recover(p, o) ==
    /\ stage[p] = "idle"
    /\ stamp[o] # NoToken
    /\ ~Authorized(o)
    /\ AuthorizeAtEpoch(o, stamp[o])
    /\ UNCHANGED clientVars

ClientsNext ==
    \E p \in Clients :
        \/ \E t \in Epochs : Adopt(p, t) \/ Present(p, t)
        \/ \E o \in Ops : GuardRead(p, o) \/ Recover(p, o)
        \/ GuardUpdate(p)
        \/ GuardReread(p)
        \/ StampIntent(p)
        \/ CommitGate(p)
        \/ RecordRefusal(p)

ClientsSpec == ClientsInit /\ [][ClientsNext]_storeVars

-----------------------------------------------------------------------------
(* What the store promises its clients.                                    *)

\* The persisted mark never moves back, whatever the claims, the conditional
\* updates of guard() and the gates of several processes do between each
\* other's steps (fence.ts, `claim`, `guard`, `guardCommit`).
MarkMonotone == [][highWater' >= highWater]_storeVars

\* A commit authorisation is recorded only at the instant its epoch IS the
\* mark, and a recorded one is never replaced.  The rows in the order they
\* were inserted therefore carry non-decreasing epochs, and no authorisation
\* of an old epoch lands after a newer owner took over -- neither through the
\* writer's gate nor through recovery's (fence.ts, `guardCommit`,
\* `authorizeAtEpoch`).
RowsAtTheMark ==
    [][\A o \in Ops : commits'[o] # commits[o]
            => commits[o] = 0 /\ commits'[o] = highWater']_storeVars

\* guard() returns normally only at an instant when the caller's token is the
\* mark itself: a claim that slips in between its read, its update and its
\* second read is noticed (fence.ts, `guard`).
GuardSound ==
    [][\A p \in Clients : stage[p] \in {"idle", "reread"} /\ stage'[p] = "prepare"
            => fenceToken[p] = highWater]_storeVars

\* The audited refusal is genuine although it is recorded by a later
\* statement: its token was behind the mark it names, and that mark was
\* really reached (fence.ts, `recordRefusal`).
RefusalsGenuine ==
    refusal # NoRefusal => refusal.token < refusal.mark /\ refusal.mark <= highWater
=============================================================================
