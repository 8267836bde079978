-------------------------------- MODULE Relay --------------------------------
(***************************************************************************)
(* A relayer as a whole: the listener of a source chain (EthListener) and  *)
(* the writer of a destination chain (EthWriter) in one process.           *)
(* router.Send of the listener starts the writer's goroutine, Chain.Stop   *)
(* stops both, and when the process ends both end; what survives is the    *)
(* blockstore, the two chains and the pool of the account.                 *)
(*                                                                         *)
(* The relayer Self has its listener here.  The other relayers vote too,   *)
(* on the same contract; of their listeners only this is assumed, which    *)
(* EthListener shows: they deliver deposits of irreversible blocks.        *)
(***************************************************************************)
EXTENDS Integers, FiniteSets, Sequences

CONSTANTS Deposits, MaxHeight, MaxLogs, MaxReorg, Handler, Routed,
          BlockRetryLimit, Confirmations, StartBlock, FreshStart,
          LatestBlockFlag, MaxStarts

CONSTANTS Relayers, Hashes, Threshold, Expires, MaxHandlerFailures, Tasks,
          Data, TxRetryLimit, RpcAnswers, MaxDrops, MaxCrashes, NoTask

CONSTANT Self  \* the relayer whose listener is modelled

VARIABLES chain, final, lpc, currentBlock, retry, depositLogs, next, stored,
          lstop, starts, from, sent, lost, delivered

VARIABLES status, votes, handlerFailures, pc, op, tries, optsLock, nonce,
          mined, pool, stop, drops, crashes, resolved, clobbered

VARIABLE alive  \* "yes" when there is a process of Self

listenerVars == <<chain, final, lpc, currentBlock, retry, depositLogs, next,
                  stored, lstop, starts, from, sent, lost, delivered>>
writerVars == <<status, votes, handlerFailures, pc, op, tries, optsLock, nonce,
                mined, pool, stop, drops, crashes, resolved, clobbered>>
vars == <<chain, final, lpc, currentBlock, retry, depositLogs, next, stored,
          lstop, starts, from, sent, lost, delivered, status, votes,
          handlerFailures, pc, op, tries, optsLock, nonce, mined, pool, stop,
          drops, crashes, resolved, clobbered, alive>>

\* The type of the message follows from the handler of the deposit.
Type == [d \in Deposits |-> IF Handler[d] \in {"erc20", "erc721", "generic"}
                            THEN Handler[d] ELSE "unknown"]

L == INSTANCE EthListener WITH pc <- lpc, stop <- lstop
W == INSTANCE EthWriter WITH Messages <- Deposits

ASSUME RelayAssumption ==
    /\ Self \in Relayers
    \* one task for each delivery an incarnation may make
    /\ {Self} \X Routed \X (1 .. BlockRetryLimit) \subseteq Tasks

\* What listener and writer assume of their constants.
ASSUME PartsAssumption ==
    /\ L!SourceChainAssumption
    /\ L!ListenerAssumption
    /\ L!ConfirmationsAssumption
    /\ W!ContractAssumption
    /\ W!WriterAssumption

Init ==
    /\ L!Init
    /\ W!Init
    /\ alive = "no"

\* The deposits that can no longer be reverted.
Irreversible ==
    {d \in Deposits : \E h \in 1 .. final : \E i \in DOMAIN L!Logs(h) : L!Logs(h)[i] = d}
-----------------------------------------------------------------------------
(* Steps of the process of Self.                                           *)

Start ==
    /\ alive = "no"
    /\ L!Start
    /\ alive' = "yes"
    /\ UNCHANGED writerVars

\* router.Send: the writer of the destination gets a goroutine of its own.
Route ==
    /\ L!AtLog
    /\ L!Log \in Routed
    /\ L!Send
    /\ W!ResolveMessage(<<Self, L!Log, delivered[L!Log] + 1>>)
    /\ UNCHANGED alive

\* Whatever else pollBlocks does with a block, a send to nobody included.
ReadBlock ==
    /\ L!BlockStep
    /\ UNCHANGED delivered
    /\ UNCHANGED <<writerVars, alive>>

\* pollBlocks at the top of its loop.
Poll == L!PollTop /\ UNCHANGED <<writerVars, alive>>

PollFails == L!LatestBlockFails /\ UNCHANGED <<writerVars, alive>>

\* Chain.Stop, for the chain of the listener and for that of the writer.
CoreStop ==
    /\ alive = "yes"
    /\ L!CoreStop
    /\ W!CoreStop(Self)
    /\ UNCHANGED alive

\* The process ends: after a stop, after an error, or by a crash.
ProcessEnds ==
    /\ alive = "yes"
    /\ alive' = "no"
    /\ W!Crash(Self)
    /\ \/ L!Crash
       \/ lpc = "down" /\ UNCHANGED listenerVars
-----------------------------------------------------------------------------
\* A writer's step, of Self or of another relayer.
Write(t) == W!TaskStep(t) /\ UNCHANGED <<listenerVars, alive>>

\* The listener of another relayer delivers a deposit.
OthersRoute ==
    /\ \E t \in Tasks : t[1] # Self /\ t[2] \in Irreversible /\ W!ResolveMessage(t)
    /\ UNCHANGED <<listenerVars, alive>>

\* The processes of the other relayers end and start again.  That one is
\* stopped needs no step: nothing makes its goroutines go on.
OthersFail ==
    /\ \E r \in Relayers \ {Self} : W!Crash(r)
    /\ UNCHANGED <<listenerVars, alive>>

SourceStep == L!ChainStep /\ UNCHANGED <<writerVars, alive>>

DestinationStep ==
    /\ \/ \E r \in Relayers : W!MineTx(r) \/ W!DropTx(r)
       \/ W!Cancel
    /\ UNCHANGED <<listenerVars, alive>>

Next ==
    \/ Start
    \/ Route
    \/ ReadBlock
    \/ Poll
    \/ PollFails
    \/ CoreStop
    \/ ProcessEnds
    \/ \E t \in Tasks : Write(t)
    \/ OthersRoute
    \/ OthersFail
    \/ SourceStep
    \/ DestinationStep

Spec == Init /\ [][Next]_vars

(* The goroutines of Self run: the listener's, with the fairness           *)
(* EthListener assumes, and those of its writer.                           *)
FairSpec ==
    /\ Spec
    /\ WF_vars(Poll)
    /\ WF_vars(Route \/ ReadBlock)
    /\ \A t \in Tasks : t[1] = Self => WF_vars(Write(t))
-----------------------------------------------------------------------------
(* The refinement: what is irreversible, who was given what, and what was  *)
(* executed are the three variables of the promise.                        *)
Promise == INSTANCE BridgePromise WITH
    Messages <- Deposits,
    settled <- Irreversible,
    attested <- resolved,
    effects <- {p \in W!Proposals : status[p] = "executed"}

\* The system keeps the promise: however the two chains move, RPCs fail,
\* processes stop, crash and resume, a deposit takes effect at most once, and
\* only when a quorum was given it after it had become irreversible.
KeepsPromise == Promise!Spec

\* A deposit in a block the blockstore has left behind, which this relayer is
\* responsible for.
Processed(d) ==
    /\ d \in L!Supported \ lost
    /\ \E h \in from .. stored - 1 : \E i \in DOMAIN L!Logs(h) :
          /\ L!Logs(h)[i] = d
          /\ ~L!Excused(h, i)

Voted(d) ==
    \E h \in Hashes :
        \/ status[<<d, h>>] \in {"passed", "executed", "cancelled"}
        \/ Self \in votes[<<d, h>>]
        \/ \E i \in DOMAIN pool[Self] : pool[Self][i].proposal = <<d, h>>

BeingVoted(d) == \E t \in Tasks : t[1] = Self /\ t[2] = d /\ pc[t] # "idle"

\* The listener has left d behind, and its goroutines ended with their process.
EndedWithProcess(d) ==
    /\ d \in sent
    /\ ~BeingVoted(d)
    /\ \E h \in from .. currentBlock - 1 : \E i \in DOMAIN L!Logs(h) : L!Logs(h)[i] = d

\* What excuses this relayer: the process is down or was stopped, it crashed too
\* late for the listener to send d again, the listener gave up before it sent d,
\* a goroutine of d gave up, or the node dropped a vote.
Hindered(d) ==
    \/ lpc = "down"
    \/ lpc = "halted" /\ ~BeingVoted(d)
    \/ EndedWithProcess(d)
    \/ stop[Self] = "closed"
    \/ drops > 0
    \/ \E t \in Tasks : t[1] = Self /\ t[2] = d /\ pc[t] \in {"gaveUp", "fatal"}

\* From the source chain to the destination chain: a deposit that is and stays
\* due is voted for by this relayer, or decided without it, unless hindered.
\* A block whose second log fails after the first was sent, and the message
\* that is therefore routed twice, do not lose it; nor does a crash before the
\* block was left behind, for the restarted listener sends it again.
EventuallyVoted ==
    \A d \in L!Supported : L!Due(d) ~> Voted(d) \/ ~L!Due(d) \/ Hindered(d)

\* README.md:111: the blockstore records "the last block the relayer
\* processed, so it can pick up where it left off".  The goroutines of the
\* deposits of earlier blocks may still be under way, and end with the process.
PicksUpWhereItLeftOff == \A d \in Deposits : Processed(d) => Voted(d) \/ BeingVoted(d)
=============================================================================
