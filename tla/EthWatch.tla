------------------------------- MODULE EthWatch ------------------------------
(***************************************************************************)
(* watchThenExecute (chains/ethereum/writer_methods.go): the goroutine     *)
(* that follows the destination chain, from the block that was the head    *)
(* before the vote, until it meets the event that finalises the proposal;  *)
(* with WaitForBlock (connections/ethereum/connection.go).  It changes     *)
(* nothing but the relayer's health: when it cannot wait it reports        *)
(* ErrFatalQuery, and the core ends the relayer.                           *)
(*                                                                         *)
(* The core (external: core.Start of chainbridge-utils) receives a single  *)
(* value: an error of some goroutine, or a signal.  Then it stops the      *)
(* chains and returns, so that sysErr, which has no buffer, blocks whoever *)
(* sends on it next until the process is gone.                             *)
(*                                                                         *)
(* SourceChain stands for the destination chain: its "deposits" are the    *)
(* ProposalEvents of the bridge contract.                                  *)
(***************************************************************************)
EXTENDS SourceChain

CONSTANTS Matching,                \* events of this proposal with a final status
          ExecuteBlockWatchLimit,  \* writer_methods.go: 100
          BlockRetryLimit,         \* listener.go: 5
          BlockConfirmations,      \* cfg.blockConfirmations
          RpcAnswers               \* {"ok"}, or {"ok", "error"}

WatchAssumption ==
    /\ Matching \subseteq Deposits
    /\ ExecuteBlockWatchLimit \in Nat \ {0}
    /\ BlockRetryLimit \in Nat \ {0}
    /\ BlockConfirmations \in Nat
    /\ RpcAnswers \in {{"ok"}, {"ok", "error"}}

\* The operator's part of the configuration: reorganisations are not deeper
\* than the confirmations that are waited for.
ConfirmationsAssumption == BlockConfirmations >= MaxReorg

VARIABLES
    pc,           \* where the goroutine is
    watched,      \* i: the blocks looked at so far
    latestBlock,  \* the block it waits for or reads
    waitRetrys,   \* failed calls of WaitForBlock for this block
    stop,         \* the writer's stop channel: "open", "ending" when the core
                  \* has received what ends the relayer, or "closed"
    connStop,     \* the connection's, closed after it
    firstBlock,   \* history: where it started
    unread        \* history: blocks FilterLogs failed for

watchVars == <<pc, watched, latestBlock, waitRetrys, stop, connStop, firstBlock, unread>>
vars == <<chainVars, watchVars>>

Returned == {"found", "limit", "stopped", "fatal"}

Init ==
    /\ ChainInit
    /\ pc = "idle"
    /\ watched = 0
    /\ latestBlock = 0
    /\ waitRetrys = 0
    /\ stop = "open"
    /\ connStop = "open"
    /\ firstBlock = 0
    /\ unread = {}

\* go watchThenExecute(m, latestBlock)
Watch ==
    /\ pc = "idle"
    /\ pc' = "loop"
    /\ latestBlock' = Height
    /\ firstBlock' = Height
    /\ UNCHANGED <<chainVars, watched, waitRetrys, stop, connStop, unread>>

Goto(label) ==
    /\ pc' = label
    /\ UNCHANGED <<chainVars, watched, latestBlock, stop, connStop, firstBlock, unread>>

LimitReached ==
    /\ pc = "loop"
    /\ watched = ExecuteBlockWatchLimit
    /\ Goto("limit")
    /\ UNCHANGED waitRetrys

Stopped ==
    /\ pc = "loop"
    /\ watched < ExecuteBlockWatchLimit
    /\ stop = "closed"
    /\ Goto("stopped")
    /\ UNCHANGED waitRetrys

\* mutant of Loop: no limit
LoopForEver ==
    /\ pc = "loop"
    /\ stop # "closed"
    /\ Goto("wait")
    /\ waitRetrys' = 0

Loop ==
    /\ pc = "loop"
    /\ watched < ExecuteBlockWatchLimit
    /\ stop # "closed"
    /\ Goto("wait")
    /\ waitRetrys' = 0

\* WaitForBlock returns an error: it is called again at once, and the last
\* failure is reported.
WaitFails ==
    /\ pc = "wait"
    /\ waitRetrys' = waitRetrys + 1
    /\ Goto(IF waitRetrys + 1 = BlockRetryLimit THEN "report" ELSE "wait")

\* w.sysErr <- ErrFatalQuery, while the core still receives
ReportFatal ==
    /\ pc = "report"
    /\ stop = "open"
    /\ pc' = "fatal"
    /\ stop' = "ending"
    /\ UNCHANGED <<chainVars, watched, latestBlock, waitRetrys, connStop, firstBlock, unread>>

LatestBlockFails == "error" \in RpcAnswers /\ WaitFails

\* mutant of ConnectionTerminated: the attempt is not counted
TerminatedUncounted ==
    /\ pc = "wait"
    /\ connStop = "closed"
    /\ UNCHANGED vars

ConnectionTerminated == connStop = "closed" /\ WaitFails

\* mutant of Reached: the delay is forgotten
ReachedAtOnce(h) == Height >= h

\* currBlock - delay >= targetBlock
Reached(h) == Height - BlockConfirmations >= h

\* Until then WaitForBlock polls, which is a stuttering step.
WaitForBlock ==
    /\ pc = "wait"
    /\ connStop = "open"
    /\ Reached(latestBlock)
    /\ Goto("filter")
    /\ UNCHANGED waitRetrys

NextBlock ==
    /\ pc' = "loop"
    /\ latestBlock' = latestBlock + 1
    /\ watched' = watched + 1
    /\ UNCHANGED <<chainVars, waitRetrys, stop, connStop, firstBlock>>

Matches(block) == \E i \in DOMAIN block : block[i] \in Matching

\* mutant of FilterLogs: only the first event of the block is compared
FilterLogsFirstOnly ==
    /\ pc = "filter"
    /\ IF Logs(latestBlock) # << >> /\ Logs(latestBlock)[1] \in Matching
       THEN Goto("found") /\ UNCHANGED waitRetrys
       ELSE NextBlock /\ UNCHANGED unread

FilterLogs ==
    /\ pc = "filter"
    /\ IF Matches(Logs(latestBlock))
       THEN Goto("found") /\ UNCHANGED waitRetrys
       ELSE NextBlock /\ UNCHANGED unread

\* The error of FilterLogs is overwritten by that of abi.JSON: no events.
FilterLogsFails ==
    /\ pc = "filter"
    /\ "error" \in RpcAnswers
    /\ NextBlock
    /\ unread' = unread \cup {latestBlock}

\* The core receives a signal, or the error of another goroutine.
CoreEnds ==
    /\ stop = "open"
    /\ stop' = "ending"
    /\ UNCHANGED <<chainVars, pc, watched, latestBlock, waitRetrys, connStop,
                   firstBlock, unread>>

\* Chain.Stop closes the writer's channel, and then the connection.
CoreStop ==
    /\ stop = "ending"
    /\ stop' = "closed"
    /\ UNCHANGED <<chainVars, pc, watched, latestBlock, waitRetrys, connStop,
                   firstBlock, unread>>

Close ==
    /\ stop = "closed"
    /\ connStop = "open"
    /\ connStop' = "closed"
    /\ UNCHANGED <<chainVars, pc, watched, latestBlock, waitRetrys, stop,
                   firstBlock, unread>>

Step ==
    \/ LimitReached
    \/ Stopped
    \/ Loop
    \/ ConnectionTerminated
    \/ ReportFatal
    \/ WaitForBlock
    \/ FilterLogs
    \/ FilterLogsFails

Shutdown == CoreStop \/ Close

ChainStep == ChainNext /\ UNCHANGED watchVars

Next == Watch \/ Step \/ LatestBlockFails \/ CoreEnds \/ Shutdown \/ ChainStep

Spec == Init /\ [][Next]_vars

\* The goroutine runs, an RPC answers, and a stop that has begun completes; it
\* is not assumed that LatestBlock fails some day.
FairSpec == Spec /\ WF_vars(Step) /\ WF_vars(Shutdown)
-----------------------------------------------------------------------------
\* Every variable has its type.
TypeOK ==
    /\ chain \in Seq(Seq(Deposits))
    /\ final \in Nat
    /\ pc \in {"idle", "loop", "wait", "report", "filter"} \cup Returned
    /\ watched \in 0 .. ExecuteBlockWatchLimit
    /\ latestBlock \in Nat
    /\ waitRetrys \in 0 .. BlockRetryLimit
    /\ stop \in {"open", "ending", "closed"}
    /\ connStop \in {"open", "closed"}
    /\ firstBlock \in Nat
    /\ unread \subseteq Nat

\* The watch ends with "found" only at an event no reorganisation reverts.
FoundIsFinal ==
    pc = "found" => latestBlock \in 1 .. final /\ Matches(Logs(latestBlock))

\* It does not pass an event by: the blocks it has left behind hold none, now
\* or after any reorganisation, except those FilterLogs failed for.
NothingPassedBy ==
    \A h \in firstBlock .. latestBlock - 1 : Matches(Logs(h)) => h \in unread

\* Once the connection is closed the goroutine neither reads nor waits for a
\* block any more, also for one that would not come: it returns, or has nothing
\* left but the send of its error, which is lost when the relayer is ending.
CloseEndsWaiting == (connStop = "closed" /\ pc # "idle") ~> pc \in Returned \cup {"report"}

\* As the connection's stop channel is documented (connection.go:43): every
\* routine exits when it is closed.
CloseEndsWatch == (connStop = "closed" /\ pc # "idle") ~> pc \in Returned
=============================================================================
