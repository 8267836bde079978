------------------------------- MODULE Helpers -------------------------------
(***************************************************************************)
(* What is around listeners and writers: the watch for an event, the gas   *)
(* price, the client of tests and deployment, amounts on their way, the    *)
(* keystore, the start of the process.  They share no state, so that there *)
(* is nothing to interleave: one of them, which is chosen at the start,    *)
(* does its steps.  The gas price is the module this one extends, the      *)
(* others are instances.                                                   *)
(***************************************************************************)
EXTENDS GasPrice, FiniteSets, Sequences

(* EthWatch *)
CONSTANTS Deposits, MaxHeight, MaxLogs, MaxReorg, Matching,
          ExecuteBlockWatchLimit, BlockRetryLimit, BlockConfirmations
(* EthClient *)
CONSTANTS Goroutines, Programs, ReceiptPolls, Nobody
(* Amounts *)
CONSTANTS Base, Differences, MaxInt, MaxUint, Supply, MaxTransfers
(* Keystore *)
CONSTANTS Addresses, Processes, MaxCommands
(* Startup *)
CONSTANTS ConfiguredChains, Configs, Types, Ids, Opts, Keys, ContractIds,
          StartBlocks, MaxBlock, MaxStarts, NoChain

VARIABLE part  \* "watch", "gas", "client", "amounts", "keys" or "startup"

VARIABLES chain, final, wpc, watched, latestBlock, waitRetrys, wstop,
          connStop, firstBlock, unread
VARIABLES program, cpc, call, section, tx, polls, nonceLock, optsNonce, mined,
          pool, reverted, leaked
VARIABLES difference, wallets, locked, minted, inFlight, deposits, executed,
          stuck
VARIABLES directory, files, kpc, command, address, elsewhere, commands,
          reported, overwritten
VARIABLES config, spc, next, flags, writers, polling, block, latest, stored,
          starts, handled, waived

watchVars == <<chain, final, wpc, watched, latestBlock, waitRetrys, wstop,
    connStop, firstBlock, unread>>
gasVars == vars
clientVars == <<program, cpc, call, section, tx, polls, nonceLock, optsNonce,
    mined, pool, reverted, leaked>>
amountsVars == <<difference, wallets, locked, minted, inFlight, deposits,
    executed, stuck>>
keysVars == <<directory, files, kpc, command, address, elsewhere, commands,
    reported, overwritten>>
startupVars == <<config, spc, next, flags, writers, polling, block, latest,
    stored, starts, handled, waived>>
allVars == <<part, watchVars, gasVars, clientVars, amountsVars, keysVars, startupVars>>

Watch == INSTANCE EthWatch WITH pc <- wpc, stop <- wstop
Client == INSTANCE EthClient WITH pc <- cpc
Amount == INSTANCE Amounts
Key == INSTANCE Keystore WITH pc <- kpc
Start == INSTANCE Startup WITH pc <- spc

ASSUME HelpersAssumption ==
    /\ Watch!SourceChainAssumption
    /\ Watch!WatchAssumption
    /\ Watch!ConfirmationsAssumption
    /\ GasAssumption
    /\ RangeAssumption
    /\ Client!ClientAssumption
    /\ Amount!AmountsAssumption
    /\ Key!KeystoreAssumption
    /\ Start!StartupAssumption

\* A part that is not chosen has a single initial state.
HelpersInit ==
    /\ part \in {"watch", "gas", "client", "amounts", "keys", "startup"}
    /\ Watch!Init
    /\ Init
    /\ Client!Init
    /\ part # "client" => program = CHOOSE p \in Programs : TRUE
    /\ Amount!Init
    /\ part # "amounts" => difference = 0
    /\ Key!Init
    /\ Start!Init
    /\ part # "startup" => config = CHOOSE f \in Configs : TRUE

WatchNext ==
    /\ part = "watch" /\ Watch!Next
    /\ UNCHANGED <<part, gasVars, clientVars, amountsVars, keysVars, startupVars>>

GasNext ==
    /\ part = "gas" /\ Next
    /\ UNCHANGED <<part, watchVars, clientVars, amountsVars, keysVars, startupVars>>

ClientNext ==
    /\ part = "client" /\ Client!Next
    /\ UNCHANGED <<part, watchVars, gasVars, amountsVars, keysVars, startupVars>>

AmountNext ==
    /\ part = "amounts" /\ Amount!Next
    /\ UNCHANGED <<part, watchVars, gasVars, clientVars, keysVars, startupVars>>

KeysNext ==
    /\ part = "keys" /\ Key!Next
    /\ UNCHANGED <<part, watchVars, gasVars, clientVars, amountsVars, startupVars>>

StartupNext ==
    /\ part = "startup" /\ Start!Next
    /\ UNCHANGED <<part, watchVars, gasVars, clientVars, amountsVars, keysVars>>

HelpersNext ==
    \/ WatchNext
    \/ GasNext
    \/ ClientNext
    \/ AmountNext
    \/ KeysNext
    \/ StartupNext

\* The fairness of EthWatch.
WatchProgress ==
    /\ part = "watch" /\ Watch!Step
    /\ UNCHANGED <<part, gasVars, clientVars, amountsVars, keysVars, startupVars>>

WatchShutdown ==
    /\ part = "watch" /\ Watch!Shutdown
    /\ UNCHANGED <<part, gasVars, clientVars, amountsVars, keysVars, startupVars>>

HelpersSpec == HelpersInit /\ [][HelpersNext]_allVars

FairSpec ==
    /\ HelpersSpec
    /\ WF_allVars(WatchProgress)
    /\ WF_allVars(WatchShutdown)
-----------------------------------------------------------------------------
(* The properties, which are stated with the modules they are about; those *)
(* of GasPrice are meant as they are.                                      *)

\* Every variable of every part has its type.
PartsTypeOK ==
    /\ part = "watch" => Watch!TypeOK
    /\ part = "gas" => TypeOK
    /\ part = "client" => Client!TypeOK
    /\ part = "amounts" => Amount!TypeOK
    /\ part = "keys" => Key!TypeOK
    /\ part = "startup" => Start!TypeOK

\* The watch ends only at an event no reorganisation reverts.
FoundIsFinal == part = "watch" => Watch!FoundIsFinal

\* The watch misses no event but in blocks whose query failed.
NothingPassedBy == part = "watch" => Watch!NothingPassedBy

\* When the connection is closed the watch waits no longer.
CloseEndsWaiting == (part = "watch") => Watch!CloseEndsWaiting

\* A transaction of the shared client is sent with the nonce that is next.
NonceIsPending == part = "client" => Client!NonceIsPending

\* Tokens that were minted are backed by locked ones.
Backed == part = "amounts" => Amount!Backed

\* A transfer loses less than a unit of the coarser token.
LossIsBounded == part = "amounts" => Amount!LossIsBounded

\* A key that was reported stays in the keystore.
ReportedIsStored == part = "keys" => Key!ReportedIsStored

\* When a listener polls, every chain of the file is ready to be written to.
ReadyBeforePolling == part = "startup" => Start!ReadyBeforePolling

\* No listener passes over a block because of another chain's blockstore.
ResumesOwnBlock == part = "startup" => Start!ResumesOwnBlock
=============================================================================
