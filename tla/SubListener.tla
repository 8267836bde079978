----------------------------- MODULE SubListener -----------------------------
(***************************************************************************)
(* One Substrate listener (chains/substrate/listener.go, events.go) with   *)
(* the start and stop of its chain (chain.go) and the metadata of its      *)
(* connection.  pollBlocks reads one finalised block after the other and   *)
(* hands its transfers to the router; it decodes a block with the metadata *)
(* the connection holds, which are those of the latest runtime when they   *)
(* were fetched: at the start, and after a block with a CodeUpdated event. *)
(*                                                                         *)
(* SourceChain is the chain, final its finalised head.                     *)
(***************************************************************************)
EXTENDS SourceChain, FiniteSets

CONSTANTS Kind,             \* [Deposits -> Kinds]: the type of an event
          Routed,           \* events whose destination has a writer registered
          BlockRetryLimit,  \* listener.go: 5
          StartBlock,       \* parseStartBlock
          FreshStart,       \* --fresh: ignore the blockstore
          LatestBlockFlag,  \* --latest: start at the best block
          MaxStarts         \* bound: how often the process is started

Kinds == {"fungible", "nonFungible", "generic", "codeUpdated"}

ASSUME ListenerAssumption ==
    /\ Kind \in [Deposits -> Kinds]
    /\ Routed \subseteq Deposits
    /\ BlockRetryLimit \in Nat \ {0}
    /\ StartBlock \in Nat
    /\ FreshStart \in BOOLEAN
    /\ LatestBlockFlag \in BOOLEAN
    /\ MaxStarts \in Nat

VARIABLES
    pc,            \* where pollBlocks is
    currentBlock,  \* the block being, or about to be, processed
    retry,         \* attempts left before the listener gives up
    events,        \* the events of the block whose hash was read
    meta,          \* conn.meta: the version of the runtime it belongs to
    stored,        \* the block in the blockstore; 0 when there is none
    stop,          \* the stop channel: "open" or "closed"
    starts,        \* how often the process has been started
    from,          \* history: the first block this relayer answers for
    sent,          \* history: transfers handed to a writer, by any incarnation
    delivered,     \* history: how often this incarnation sent each of them
    behind         \* history: were metadata fetched that the next block may
                   \* not fit, or could they not be fetched?

listenerVars == <<pc, currentBlock, retry, events, meta, stored, stop, starts,
                  from, sent, delivered, behind>>
vars == <<chainVars, listenerVars>>
process == <<stored, stop, starts, from>>
history == <<sent, delivered, behind>>

HasCodeUpdated(block) == \E i \in DOMAIN block : Kind[block[i]] = "codeUpdated"

\* The runtime that encodes block h: an upgrade takes effect in the next block.
Version(h) == Cardinality({g \in DOMAIN chain : g < h /\ HasCodeUpdated(chain[g])})

\* GetMetadataLatest: the metadata of the best block's state.
LatestVersion == Version(Height + 1)

\* Whether metadata just fetched may not fit h, the next block to be read:
\* they are of another runtime, or h follows blocks that may be reverted.
Behind(version, h) ==
    IF version = Version(h) /\ h <= final + 1 THEN "no" ELSE "yes"

Init ==
    /\ ChainInit
    /\ pc = "down"
    /\ currentBlock = StartBlock
    /\ retry = BlockRetryLimit
    /\ events = << >>
    /\ meta = 0
    /\ stored = 0
    /\ stop = "open"
    /\ starts = 0
    /\ from = StartBlock
    /\ sent = {}
    /\ delivered = [d \in Deposits |-> 0]
    /\ behind = "no"
-----------------------------------------------------------------------------
(* The process.                                                            *)

\* checkBlockstore: the stored block is read once more.
ResumeBlock == IF ~FreshStart /\ stored > StartBlock THEN stored ELSE StartBlock

FirstBlock == IF LatestBlockFlag THEN Height ELSE ResumeBlock

\* InitializeChain and listener.start, which refuses a block beyond the head.
Start ==
    /\ pc = "down"
    /\ starts < MaxStarts
    /\ FirstBlock <= Height
    /\ pc' = "poll"
    /\ currentBlock' = FirstBlock
    /\ from' = IF LatestBlockFlag THEN Height ELSE StartBlock
    /\ retry' = BlockRetryLimit
    /\ events' = << >>
    /\ meta' = LatestVersion
    /\ behind' = Behind(LatestVersion, FirstBlock)
    /\ stop' = "open"
    /\ starts' = starts + 1
    /\ delivered' = [d \in Deposits |-> 0]
    /\ UNCHANGED <<chainVars, stored, sent>>

\* Chain.Stop
CoreStop ==
    /\ pc # "down"
    /\ stop = "open"
    /\ stop' = "closed"
    /\ UNCHANGED <<chainVars, pc, currentBlock, retry, events, meta, stored,
                   starts, from, history>>

\* The process ends, whatever the listener was doing.
Crash ==
    /\ pc # "down"
    /\ pc' = "down"
    /\ UNCHANGED <<chainVars, currentBlock, retry, events, meta, process, history>>
-----------------------------------------------------------------------------
(* pollBlocks.                                                             *)

Goto(label) ==
    /\ pc' = label
    /\ UNCHANGED <<chainVars, currentBlock, meta, process>>

Terminate ==
    /\ pc = "poll"
    /\ stop = "closed"
    /\ Goto("down")
    /\ UNCHANGED <<retry, events, history>>

\* Retries exceeded: an error on sysErr, and pollBlocks returns.
FatalPolling ==
    /\ pc = "poll"
    /\ stop = "open"
    /\ retry = 0
    /\ Goto("halted")
    /\ UNCHANGED <<retry, events, history>>

Polling == pc = "poll" /\ stop = "open" /\ retry > 0

\* An error: one retry less, and back to the top of the loop.
Fails ==
    /\ Goto("poll")
    /\ retry' = retry - 1
    /\ events' = << >>
    /\ UNCHANGED history

\* GetFinalizedHead or GetHeader
FinalizedFails == Polling /\ Fails

\* mutants of Finalized: the best block in place of the finalised one; the
\* block below it only
KnownBlock(h) == h <= Height
BelowFinalized(h) == h < final

Finalized(h) == h <= final

\* currentBlock is finalised; otherwise sleep and poll again.
FinalizedReady ==
    /\ Polling
    /\ Finalized(currentBlock)
    /\ Goto("blockHash")
    /\ UNCHANGED <<retry, events, history>>

\* The hash fixes which block is read, whatever happens to the chain.
GetBlockHash ==
    /\ pc = "blockHash"
    /\ Goto("events")
    /\ events' = Logs(currentBlock)
    /\ UNCHANGED <<retry, history>>

\* ErrBlockNotReady: sleep and poll again; this one is not counted.
BlockNotReady ==
    /\ pc = "blockHash"
    /\ Goto("poll")
    /\ UNCHANGED <<retry, events, history>>

GetBlockHashFails == pc = "blockHash" /\ Fails

Decodes == meta = Version(currentBlock)

\* mutant of ProcessEventsFails: a block that does not decode is passed over
ProcessEventsPasses ==
    /\ pc = "events"
    /\ Goto("store")
    /\ UNCHANGED <<retry, events, history>>

\* GetStorage fails, or the records do not decode.
ProcessEventsFails == pc = "events" /\ Fails

Transfers == {d \in Routed : Kind[d] # "codeUpdated"
                             /\ \E i \in DOMAIN events : events[i] = d}

\* handleEvents: one kind after the other goes to the router, whose errors
\* are only logged; a CodeUpdated event comes last.
ProcessEvents ==
    /\ pc = "events"
    /\ Decodes
    /\ Goto(IF HasCodeUpdated(events) THEN "metadata" ELSE "store")
    /\ sent' = sent \cup Transfers
    /\ delivered' = [d \in Deposits |->
                        IF d \in Transfers THEN delivered[d] + 1 ELSE delivered[d]]
    /\ UNCHANGED <<retry, events, behind>>

\* mutant of UpdateMetadata: the event is ignored
KeepMetadata ==
    /\ pc = "metadata"
    /\ Goto("store")
    /\ UNCHANGED <<retry, events, history>>

UpdateMetadata ==
    /\ pc = "metadata"
    /\ pc' = "store"
    /\ meta' = LatestVersion
    /\ behind' = Behind(LatestVersion, currentBlock + 1)
    /\ UNCHANGED <<chainVars, currentBlock, retry, events, process, sent, delivered>>

\* mutant of UpdateMetadataFails: the block is retried
UpdateMetadataRetried == pc = "metadata" /\ Fails

\* The error is only logged.
UpdateMetadataFails ==
    /\ pc = "metadata"
    /\ Goto("store")
    /\ behind' = "yes"
    /\ UNCHANGED <<retry, events, sent, delivered>>

\* StoreBlock, whose failure is only logged; then the next block.
StoreBlock ==
    /\ pc = "store"
    /\ stored' \in {currentBlock, stored}
    /\ pc' = "poll"
    /\ currentBlock' = currentBlock + 1
    /\ retry' = BlockRetryLimit
    /\ events' = << >>
    /\ UNCHANGED <<chainVars, meta, stop, starts, from, history>>

PollTop ==
    \/ Terminate
    \/ FatalPolling
    \/ FinalizedReady

BlockStep ==
    \/ GetBlockHash
    \/ GetBlockHashFails
    \/ ProcessEvents
    \/ ProcessEventsFails
    \/ UpdateMetadata
    \/ UpdateMetadataFails
    \/ StoreBlock

ChainStep == ChainNext /\ UNCHANGED listenerVars

Next ==
    \/ ChainStep
    \/ Start
    \/ CoreStop
    \/ Crash
    \/ FinalizedFails
    \/ BlockNotReady
    \/ PollTop
    \/ BlockStep

Spec == Init /\ [][Next]_vars

(* The goroutine runs and every RPC answers or fails.  A finalised block    *)
(* has a hash, so that BlockNotReady is not the answer for ever: the step   *)
(* that reads it is strongly fair.                                          *)
FairSpec == Spec /\ WF_vars(PollTop) /\ WF_vars(BlockStep)
                 /\ SF_vars(GetBlockHash \/ GetBlockHashFails)
-----------------------------------------------------------------------------
\* Every variable has its type.
TypeOK ==
    /\ chain \in Seq(Seq(Deposits))
    /\ final \in Nat
    /\ pc \in {"down", "poll", "blockHash", "events", "metadata", "store", "halted"}
    /\ currentBlock \in Nat
    /\ retry \in 0 .. BlockRetryLimit
    /\ events \in Seq(Deposits)
    /\ meta \in Nat
    /\ stored \in Nat
    /\ stop \in {"open", "closed"}
    /\ starts \in Nat
    /\ from \in Nat
    /\ sent \subseteq Deposits
    /\ delivered \in [Deposits -> Nat]
    /\ behind \in {"no", "yes"}

Due(d) == d \in Routed /\ Kind[d] # "codeUpdated"

\* No transfer is skipped: of the blocks pollBlocks has left behind, all
\* transfers to a known destination were handed to their writer, over
\* failures, crashes, restarts and runtime upgrades.
NoSkip ==
    \A h \in from .. currentBlock - 1 : \A i \in DOMAIN Logs(h) :
        Due(Logs(h)[i]) => Logs(h)[i] \in sent

\* A transfer handed to a writer lies in a finalised block, although the chain
\* moves between GetFinalizedHead, GetBlockHash and GetStorage.
FinalizedOnly ==
    \A d \in sent : \E h \in 1 .. final : \E i \in DOMAIN Logs(h) : Logs(h)[i] = d

\* One incarnation sends a transfer once: nothing fails between handleEvents
\* and the next block.
SentOncePerStart == \A d \in Deposits : delivered[d] <= 1

\* The metadata fit the block that is read next, unless they were too new when
\* they were fetched, were fetched for a block whose ancestors could still
\* change, or could not be fetched: an upgrade is noticed before the first
\* block that needs it.
MetadataFits ==
    behind = "no" /\ pc \in {"poll", "blockHash", "events"}
        => meta = Version(currentBlock)

\* The blockstore never moves back, over restarts too, unless it is ignored.
StoredNeverRegresses ==
    [][~FreshStart /\ ~LatestBlockFlag => stored' >= stored]_vars

\* A transfer in a finalised block that this relayer answers for is handed to
\* its writer, or the listener has given up, was stopped or crashed.
EventuallySent ==
    \A d \in Deposits :
        (Due(d) /\ \E h \in from .. final : \E i \in DOMAIN Logs(h) : Logs(h)[i] = d)
            ~> (d \in sent \/ pc \in {"halted", "down"})

=============================================================================
