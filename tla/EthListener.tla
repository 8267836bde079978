----------------------------- MODULE EthListener -----------------------------
(***************************************************************************)
(* One Ethereum listener (chains/ethereum/listener.go, events.go) and the  *)
(* start and stop of the chain it belongs to (chain.go).  pollBlocks walks *)
(* the source chain block by block, at a distance of Confirmations from    *)
(* the head, and hands every deposit it finds to the router.  The process  *)
(* may stop or crash between any two steps; a later start resumes from the *)
(* blockstore.                                                             *)
(*                                                                         *)
(* Every RPC is a step that may fail.  Logs are read one per step, so the  *)
(* chain may move and the process may crash between two messages of one    *)
(* block.                                                                  *)
(***************************************************************************)
EXTENDS SourceChain

CONSTANTS Handler,          \* [Deposits -> Handlers]: what the log resolves to
          Routed,           \* deposits whose destination has a writer registered
          BlockRetryLimit,  \* listener.go: 5
          Confirmations,    \* cfg.blockConfirmations
          StartBlock,       \* cfg.startBlock
          FreshStart,       \* --fresh: ignore the blockstore
          LatestBlockFlag,  \* --latest: start at the head
          MaxStarts         \* bound: how often the process is started

(* What getDepositEventsForBlock meets: a log it cannot unpack; a resource *)
(* of one of the three configured handlers, or of none of them; "short" is *)
(* an ERC20 deposit whose calldata has fewer than 84 bytes.                *)
Handlers == {"undecodable", "erc20", "short", "erc721", "generic", "unrecognised"}

\* The handlers of events.go that turn a log into a message.
Recognised == {"erc20", "erc721", "generic"}

ASSUME ListenerAssumption ==
    /\ Handler \in [Deposits -> Handlers]
    /\ Routed \subseteq Deposits
    /\ BlockRetryLimit \in Nat \ {0}
    /\ Confirmations \in Nat
    /\ StartBlock \in Nat
    /\ FreshStart \in BOOLEAN
    /\ LatestBlockFlag \in BOOLEAN
    /\ MaxStarts \in Nat

\* The operator's part of the contract: wait at least as long as the chain
\* may reorganise.
ASSUME ConfirmationsAssumption == Confirmations >= MaxReorg

VARIABLES
    pc,            \* where pollBlocks is
    currentBlock,  \* the block being, or about to be, processed
    retry,         \* attempts left before the listener gives up
    depositLogs,   \* the logs FilterLogs returned for currentBlock
    next,          \* the position in depositLogs of the next log to handle
    stored,        \* the block in the blockstore; 0 when there is none
    stop,          \* the stop channel: "open" or "closed"
    starts,        \* how often the process has been started
    from,          \* history: the first block this relayer answers for
    sent,          \* history: deposits handed to a writer, by any incarnation
    lost,          \* history: generic deposits sent as an empty message
    delivered      \* history: how often this incarnation sent each deposit

listenerVars == <<pc, currentBlock, retry, depositLogs, next, stored, stop,
                  starts, from, sent, lost, delivered>>
vars == <<chain, final, pc, currentBlock, retry, depositLogs, next, stored,
          stop, starts, from, sent, lost, delivered>>

history == <<sent, lost, delivered>>
process == <<stored, stop, starts, from>>

Init ==
    /\ ChainInit
    /\ pc = "down"
    /\ currentBlock = StartBlock
    /\ retry = BlockRetryLimit
    /\ depositLogs = << >>
    /\ next = 1
    /\ stored = 0
    /\ stop = "open"
    /\ starts = 0
    /\ from = StartBlock
    /\ sent = {}
    /\ lost = {}
    /\ delivered = [d \in Deposits |-> 0]
-----------------------------------------------------------------------------
(* The process: InitializeChain and Start, Stop, and a crash.              *)

\* mutant of ResumeBlock: the blockstore is not consulted
ResumeAtStart == StartBlock

\* setupBlockstore: resume at the stored block when it is beyond the configured one.
ResumeBlock == IF ~FreshStart /\ stored > StartBlock THEN stored ELSE StartBlock

Start ==
    /\ pc = "down"
    /\ starts < MaxStarts
    /\ pc' = "poll"
    /\ currentBlock' = IF LatestBlockFlag THEN Height ELSE ResumeBlock
    /\ from' = IF LatestBlockFlag THEN Height ELSE StartBlock
    /\ retry' = BlockRetryLimit
    /\ depositLogs' = << >>
    /\ next' = 1
    /\ stop' = "open"
    /\ starts' = starts + 1
    /\ delivered' = [d \in Deposits |-> 0]
    /\ UNCHANGED <<chainVars, stored, sent, lost>>

\* Chain.Stop: the core closes the stop channel, after a signal or an error.
CoreStop ==
    /\ pc # "down"
    /\ stop = "open"
    /\ stop' = "closed"
    /\ UNCHANGED <<chainVars, pc, currentBlock, retry, depositLogs, next,
                   stored, starts, from, history>>

\* The process ends, whatever the listener was doing.
Crash ==
    /\ pc # "down"
    /\ pc' = "down"
    /\ UNCHANGED <<chainVars, currentBlock, retry, depositLogs, next, process,
                   history>>
-----------------------------------------------------------------------------
(* pollBlocks: the top of the loop.                                        *)

Terminate ==
    /\ pc = "poll"
    /\ stop = "closed"
    /\ pc' = "down"
    /\ UNCHANGED <<chainVars, currentBlock, retry, depositLogs, next, process,
                   history>>

\* Retries exceeded: ErrFatalPolling on sysErr, and pollBlocks returns.
FatalPolling ==
    /\ pc = "poll"
    /\ stop = "open"
    /\ retry = 0
    /\ pc' = "halted"
    /\ UNCHANGED <<chainVars, currentBlock, retry, depositLogs, next, process,
                   history>>

Polling == pc = "poll" /\ stop = "open" /\ retry > 0

LatestBlockFails ==
    /\ Polling
    /\ retry' = retry - 1
    /\ UNCHANGED <<chainVars, pc, currentBlock, depositLogs, next, process,
                   history>>

\* mutants of Confirmed: one block too early, one block too late
ConfirmedEarly(h) == Height - h >= Confirmations - 1
ConfirmedLate(h) == Height - h > Confirmations

\* (latest - current) < blockConfirmations: sleep and poll again.
Confirmed(h) == Height - h >= Confirmations

LatestBlockReady ==
    /\ Polling
    /\ Confirmed(currentBlock)
    /\ pc' = "filter"
    /\ UNCHANGED <<chainVars, currentBlock, retry, depositLogs, next, process,
                   history>>
-----------------------------------------------------------------------------
(* getDepositEventsForBlock.                                               *)

\* mutant of BlockFails: the retry is not counted
BlockFailsUncounted ==
    /\ pc' = "poll"
    /\ depositLogs' = << >>
    /\ next' = 1
    /\ UNCHANGED <<chainVars, currentBlock, retry, process, history>>

\* Any error it returns: one retry less, and back to the top of the loop.
BlockFails ==
    /\ pc' = "poll"
    /\ retry' = retry - 1
    /\ depositLogs' = << >>
    /\ next' = 1
    /\ UNCHANGED <<chainVars, currentBlock, process, history>>

\* mutant of FilterLogsFails: the error is swallowed
FilterLogsFailsSilently ==
    /\ pc = "filter"
    /\ pc' = "store"
    /\ UNCHANGED <<chainVars, currentBlock, retry, depositLogs, next, process,
                   history>>

FilterLogsFails == pc = "filter" /\ BlockFails

FilterLogs ==
    /\ pc = "filter"
    /\ pc' = "logs"
    /\ depositLogs' = Logs(currentBlock)
    /\ next' = 1
    /\ UNCHANGED <<chainVars, currentBlock, retry, process, history>>

AtLog == pc = "logs" /\ next <= Len(depositLogs)
Log == depositLogs[next]

NextLog ==
    /\ next' = next + 1
    /\ UNCHANGED <<chainVars, pc, currentBlock, retry, depositLogs, process>>

\* UnpackDepositEventLog fails: the log is left out of depositLogs.
SkipUndecodable ==
    /\ AtLog
    /\ Handler[Log] = "undecodable"
    /\ NextLog
    /\ UNCHANGED history

HandlerLookupFails ==
    /\ AtLog
    /\ Handler[Log] # "undecodable"
    /\ BlockFails

\* An unknown handler: getDepositEventsForBlock returns nil at once, so the
\* rest of the block counts as processed.
UnrecognisedHandler ==
    /\ AtLog
    /\ Handler[Log] = "unrecognised"
    /\ pc' = "store"
    /\ UNCHANGED <<chainVars, currentBlock, retry, depositLogs, next, process,
                   history>>

\* handleErc20DepositedEvent rejects the calldata.
ShortCalldata ==
    /\ AtLog
    /\ Handler[Log] = "short"
    /\ BlockFails

\* handleErc721DepositedEvent: GetDepositRecord fails.
Erc721RecordFails ==
    /\ AtLog
    /\ Handler[Log] = "erc721"
    /\ BlockFails

\* handleGenericDepositedEvent: GetDepositRecord fails, the error is dropped
\* and an empty message goes to the router in place of the deposit.
GenericRecordFails ==
    /\ AtLog
    /\ Handler[Log] = "generic"
    /\ lost' = lost \cup {Log}
    /\ NextLog
    /\ UNCHANGED <<sent, delivered>>

\* router.Send; an unknown destination is only logged.
Send ==
    /\ AtLog
    /\ Handler[Log] \in Recognised
    /\ IF Log \in Routed
       THEN /\ sent' = sent \cup {Log}
            /\ delivered' = [delivered EXCEPT ![Log] = @ + 1]
       ELSE UNCHANGED <<sent, delivered>>
    /\ NextLog
    /\ UNCHANGED lost

BlockDone ==
    /\ pc = "logs"
    /\ next > Len(depositLogs)
    /\ pc' = "store"
    /\ UNCHANGED <<chainVars, currentBlock, retry, depositLogs, next, process,
                   history>>

\* StoreBlock, whose failure is only logged; then the next block.
StoreBlock ==
    /\ pc = "store"
    /\ stored' \in {currentBlock, stored}
    /\ pc' = "poll"
    /\ currentBlock' = currentBlock + 1
    /\ retry' = BlockRetryLimit
    /\ depositLogs' = << >>
    /\ next' = 1
    /\ UNCHANGED <<chainVars, stop, starts, from, history>>
-----------------------------------------------------------------------------
HandleLog ==
    \/ SkipUndecodable
    \/ HandlerLookupFails
    \/ UnrecognisedHandler
    \/ ShortCalldata
    \/ Erc721RecordFails
    \/ GenericRecordFails
    \/ Send

PollTop ==
    \/ Terminate
    \/ FatalPolling
    \/ LatestBlockReady

BlockStep ==
    \/ FilterLogsFails
    \/ FilterLogs
    \/ HandleLog
    \/ BlockDone
    \/ StoreBlock

ChainStep == ChainNext /\ UNCHANGED listenerVars

Next ==
    \/ ChainStep
    \/ Start
    \/ CoreStop
    \/ Crash
    \/ LatestBlockFails
    \/ PollTop
    \/ BlockStep

Spec == Init /\ [][Next]_vars

(* The goroutine runs, and an RPC answers or fails; at the top of the loop *)
(* one that could succeed is not delayed for ever (its failures are        *)
(* counted by retry).  Nothing is assumed of the chain, of the core, or of *)
(* whether a process that is down is started again.                        *)
FairSpec == Spec /\ WF_vars(PollTop) /\ WF_vars(BlockStep)
-----------------------------------------------------------------------------
\* Every variable has its type, in particular retry never drops below 0.
TypeOK ==
    /\ chain \in Seq(Seq(Deposits))
    /\ final \in Nat
    /\ pc \in {"down", "poll", "filter", "logs", "store", "halted"}
    /\ currentBlock \in Nat
    /\ retry \in 0 .. BlockRetryLimit
    /\ depositLogs \in Seq(Deposits)
    /\ next \in Nat \ {0}
    /\ stored \in Nat
    /\ stop \in {"open", "closed"}
    /\ starts \in Nat
    /\ from \in Nat
    /\ sent \subseteq Deposits
    /\ lost \subseteq Deposits
    /\ delivered \in [Deposits -> Nat]

(* What the code itself lets go of: the log at position i of block h does  *)
(* not decode, has no writer, went out as an empty message, or comes after *)
(* (or is) one with an unrecognised handler.                               *)
Excused(h, i) ==
    \/ Handler[Logs(h)[i]] = "undecodable"
    \/ Logs(h)[i] \notin Routed
    \/ Logs(h)[i] \in lost
    \/ \E j \in 1 .. i : Handler[Logs(h)[j]] = "unrecognised"

DoneUpTo(h, n) == \A i \in 1 .. n : Logs(h)[i] \in sent \/ Excused(h, i)

Done(h) == DoneUpTo(h, Len(Logs(h)))

\* No deposit is skipped: whatever fails, and however often the process
\* crashes and resumes from the blockstore, every deposit of the blocks
\* pollBlocks has left behind was handed to its writer, unless excused.
\* An ERC20 deposit with short calldata is never excused: no block that
\* reaches one is ever left behind.
NoSkip == \A h \in from .. currentBlock - 1 : Done(h)

\* A deposit handed to a writer lies in a block that no reorganisation will
\* revert, although the head moves between LatestBlock, FilterLogs and Send.
ConfirmedOnly ==
    \A d \in sent : \E h \in 1 .. final : \E i \in DOMAIN Logs(h) : Logs(h)[i] = d

\* A block that is retried sends again what it had already sent, but one
\* incarnation never sends a deposit more than BlockRetryLimit times.
RedeliveryBound == \A d \in Deposits : delivered[d] <= BlockRetryLimit

\* The blockstore never moves back, over restarts too, unless it is ignored.
StoredNeverRegresses ==
    [][~FreshStart /\ ~LatestBlockFlag => stored' >= stored]_vars

\* The deposit is in a block this relayer answers for, deep enough, and no
\* other log of its block excuses it.
Due(d) ==
    \E h \in from .. Height - Confirmations : \E i \in DOMAIN Logs(h) :
        Logs(h)[i] = d /\ ~Excused(h, i)

\* The deposits whose type and destination are supported.
Supported == {d \in Routed : Handler[d] \in Recognised}

\* A deposit that is and stays due is handed to its writer, or the listener
\* has given up (ErrFatalPolling) or its process has ended.
EventuallySent ==
    \A d \in Supported :
        Due(d) ~> (d \in sent \/ ~Due(d) \/ pc \in {"halted", "down"})
-----------------------------------------------------------------------------
(* What a comment in listener.go says, and the code does not do.           *)

\* listener.go:219: "handle their deposit event if handler is recognized".
RecognisedIsHandled ==
    \A h \in from .. currentBlock - 1 : \A i \in DOMAIN Logs(h) :
        Handler[Logs(h)[i]] \in Recognised
            => Logs(h)[i] \in sent \cup lost \/ Logs(h)[i] \notin Routed
=============================================================================
