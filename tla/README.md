# Formal model of the ChainBridge relayer

ChainBridge relays deposits between chains. A deposit into the bridge contract
of a source chain emits an event; every relayer that sees it votes for a
proposal on the destination chain, and the vote that reaches the threshold
executes the proposal. The relayer (`src/`) is one Go process per operator,
with one listener and one writer per configured chain.

This directory holds TLA+ models of the relayer's own logic, the TLC
configurations that check them on small instances, and theorems about them that
TLAPS checks for every value of the constants. The sections "Plan" and "Not
modelled" say what is missing.

## 1. Inventory

### Parts and how they interact

| Part | Code | State | Operations |
| --- | --- | --- | --- |
| Ethereum listener | `chains/ethereum/listener.go`, `events.go` | `currentBlock`, `retry`, the blockstore | `pollBlocks`, `getDepositEventsForBlock`, three event handlers |
| Ethereum chain | `chains/ethereum/chain.go` | the stop channel, the start block | `setupBlockstore`, `InitializeChain`, `Start`, `Stop` |
| Ethereum writer | `chains/ethereum/writer.go`, `writer_methods.go` | none of its own; per message a retry counter | `ResolveMessage`, `create...Proposal`, `voteProposal`, `executeProposal`, `watchThenExecute` |
| Ethereum connection | `connections/ethereum/connection.go` | `optsLock`, `opts.Nonce`, gas price | `LockAndUpdateOpts`, `UnlockOpts`, `LatestBlock`, `WaitForBlock`, gas estimation |
| Gas station | `connections/ethereum/egs` | none | `FetchGasPrice` |
| Substrate listener | `chains/substrate/listener.go`, `events.go` | block, retry, blockstore, subscriptions | `pollBlocks`, `processEvents`, `handleEvents`, `submitMessage` |
| Substrate writer | `chains/substrate/writer.go`, `types.go` | none; a retry counter | `ResolveMessage`, `proposalValid` |
| Substrate connection | `chains/substrate/connection.go` | cached nonce, metadata | `SubmitTx`, `watchSubmission` |
| Core and router | `chainbridge-utils` (outside `src/`), `cmd/chainbridge/main.go` | registered writers, `sysErr` | route a message in a goroutine, stop all chains on an error |
| Bridge contracts | outside `src/` | proposals, votes | vote, execute, cancel |
| Contract bindings | `bindings/` (generated) | the iterator, goroutine and subscription of an event | `Filter`, `Next`, `Close`, `Watch`, `Parse` of every event |
| Start | `cmd/chainbridge/main.go`, `config`, both `config.go` and `chain.go` | the options, the writers registered | `run`, `GetConfig`, `parseChainConfig`, `InitializeChain`, `Start` |
| Accounts | `cmd/chainbridge/account.go` | the files of the keystore | `generate`, three kinds of `import`, `list` |
| Amounts | `events.go`, `proposal_data.go`, `shared/ethereum/deposit.go` | none | from calldata through decimals to proposal data |
| Shared clients | `shared/ethereum`, `shared/substrate` | the test client's nonce lock | used by tests and deployment |
| Metrics, deployment, e2e | `docs/metrics.md`, `.deployment`, `e2e`, `scripts` | none that matters while relaying | |

A listener calls `router.Send` for each deposit. The router starts a goroutine
that runs the destination writer's `ResolveMessage`. All these goroutines share
one account: its transact opts under `optsLock`, and its pending transactions
in the node. A fatal error of any part goes to `sysErr`, after which the core
calls `Chain.Stop`, which closes the stop channel the loops read. The only
state that survives a restart is the blockstore, the chains and the node's
transaction pool.

### What is hard

* The source chain is reorganised between any two reads of it.
* Every RPC may fail; a submission may fail for the client and succeed in the
  node; a pending transaction may be dropped.
* A block is retried from its first log when a later log fails, so deposits
  are delivered more than once; a restart repeats the stored block.
* Many goroutines read a proposal's state, then act on it, while other relayers
  vote, execute and cancel.
* The nonce is read and used in two steps under a lock with six places that
  release it.
* Relayers may be configured differently, and so hash different data.
* The process may be stopped by the core, or crash, anywhere.
* The process starts several chains, and any step of the start may fail; ids of
  chains are cut to 8 bits, and name the files of the blockstore.
* Amounts are divided and multiplied by powers of ten that went through a float
  and an int64.
* The user of a binding, its goroutine and the node's subscription race when one
  of them ends; commands on the keystore are interrupted between two writes.
* A Substrate chain forks above its finalised head and upgrades its runtime,
  which changes how blocks and calls are encoded; the connection caches a nonce
  and the metadata.

`PROJECT.json` lists these as hazards, each at the line where it bites.

### What makes each part correct

* Listener: it sends only what can no longer be reverted (`ConfirmedOnly`),
  leaves nothing out (`NoSkip`), repeats a bounded number of times
  (`RedeliveryBound`), never moves its blockstore back (`StoredNeverRegresses`)
  and gets to every deposit (`EventuallySent`).
* Writer and connection: the lock is kept and released (`LockDiscipline`,
  `EveryTaskReturns`), no vote pushes another one out of the pool
  (`NoNonceReuse`), a quorum's proposal gets decided (`EventuallyDecided`).
* Substrate listener: the same (`FinalizedOnly`, `NoSkip`, `SentOncePerStart`,
  `StoredNeverRegresses`, `EventuallySent`), with metadata that fit the block
  it reads (`MetadataFits`).
* Substrate writer and connection: a nonce is never used twice (`FreshNonce`) or
  left unused for nothing (`OnlyLossMakesGap`), goroutines end
  (`EveryTaskReturnsOrGap`) and a quorum's proposal is approved
  (`EventuallyApproved`).
* Gas price: the opts are consistent and within the limits (`OneKindOfPrice`,
  `PriceWithinLimits`, `FeeCapFollowsLimit`).
* Relayers together: what takes effect was computed by a quorum (`Attested`),
  once per deposit on Ethereum (`AtMostOneExecuted`); on Substrate twice only
  if relayers have encoded it twice (`TwiceApprovedTwiceEncoded`).
* Listener, router and writer together: a deposit is irreversible before it is
  relayed and relayed by a quorum before it takes effect (`KeepsPromise`), and
  none is lost between them (`EventuallyVoted`).
* Watch: it ends at a final event and misses none (`FoundIsFinal`,
  `NothingPassedBy`), and stops reading and waiting when the connection is closed
  (`CloseEndsWaiting`).
* Bindings: events are given in order and completely, or an error is reported,
  and calls return (`InOrder`, `CompleteUnlessFailed`, `CallsReturn`).
* Amounts: what was minted stays backed (`Backed`), a transfer loses less than a
  unit (`LossIsBounded`).
* Keystore: a key that was reported stays (`ReportedIsStored`).
* Start: no listener polls before every chain is ready (`ReadyBeforePolling`),
  none resumes from another chain's block (`ResumesOwnBlock`).
* Shared client: nonces are fresh (`NonceIsPending`); only an error between lock
  and unlock keeps the lock (`LockIsGivenBack`).

## 2. Modules

| Module | Models | Proofs |
| --- | --- | --- |
| `SourceChain` | the source chain: blocks of deposits, bounded reorganisation (external) | `SourceChainProofs`: lemmas both listeners' proofs use |
| `EthListener` | one Ethereum listener with the start and stop of its chain | `EthListenerProofs` |
| `BridgeContract` | the destination contract: proposals, votes, failure, expiry (external) | |
| `EthWriter` | the Ethereum writers and connections of all relayers, on one destination chain | `EthWriterProofs` |
| `BridgePromise` | abstract: settled, attested, in effect | |
| `Relay` | a whole relayer: `EthListener` and `EthWriter` in one process, beside other relayers | `RelayProofs` |
| `SubListener` | one Substrate listener with the start and stop of its chain and the metadata of its connection | `SubListenerProofs` |
| `SubstrateNode` | the Substrate node and bridge pallet (external) | |
| `SubWriter` | the Substrate writers and connections of all relayers, on one destination chain | `SubWriterProofs` |
| `ContractEvents` | the events of all contract bindings | |
| `EventBinding` | what a binding does with one event: iterator and watch | `EventBindingProofs` |
| `EthWatch` | `watchThenExecute` and `WaitForBlock` | `HelpersProofs` |
| `GasPrice` | the prices of `LockAndUpdateOpts`, the gas station | `HelpersProofs` |
| `Amounts` | the amount of a transfer through deposit data, decimals and proposal data | `HelpersProofs` |
| `Keystore` | the account commands on the keystore directory | `HelpersProofs` |
| `Startup` | the `run` command: configuration, initialisation and start of the chains | `HelpersProofs` |
| `EthClient` | the shared Ethereum client of tests and deployment | `HelpersProofs` |
| `Helpers` | `EthWatch`, `GasPrice`, `EthClient`, `Amounts`, `Keystore` and `Startup`, one at a time: they share nothing | `HelpersProofs` |
| `MCEthListener`, `MCEthWriter`, `MCRelay`, `MCSubListener`, `MCSubWriter`, `MCEventBinding`, `MCHelpers` | instances for TLC | |

Operators whose comment says "mutant of" are deliberate mistakes. They are not
part of any specification; each is kept next to the definition it would replace
and shows that some property notices the mistake.

### SourceChain and EthListener

`chain[h]` is the sequence of deposits in block `h`. `Mine` appends a block,
`Reorg` cuts blocks off, and `final` is the height below which `MaxReorg` says
nothing is reverted. A deposit that was reverted may be mined again.

`pc` follows `pollBlocks`: `poll` is the top of the loop, `filter` the call of
`FilterLogs`, `logs` the loop over the events, `store` the call of
`StoreBlock`; `halted` is after `ErrFatalPolling`, `down` after the goroutine or
the process has ended. One action is one RPC with what the code does with its
answer, so a reorganisation, a stop or a crash fits between any two of them:

| Action | Code |
| --- | --- |
| `Start` | `InitializeChain` with `setupBlockstore` (`ResumeBlock`) or `--latest`, then `Start` |
| `CoreStop`, `Terminate` | `Chain.Stop`; the select on `l.stop` |
| `FatalPolling` | `retry == 0` |
| `LatestBlockFails`, `LatestBlockReady` | `LatestBlock`, the comparison with `blockConfirmations` |
| `FilterLogsFails`, `FilterLogs` | the query of one block |
| `SkipUndecodable`, `HandlerLookupFails`, `UnrecognisedHandler` | unpacking; the lookup of the handler; the early return |
| `ShortCalldata`, `Erc721RecordFails`, `GenericRecordFails`, `Send` | the handlers of `events.go` and `router.Send` |
| `BlockDone`, `StoreBlock` | the end of the loop; the blockstore, whose failure is ignored |

The code unpacks all logs before it handles the first one. Skipping an
undecodable log when it is reached has the same effect, as unpacking has no
other. A poll that finds the block not yet confirmed changes nothing and is a
stuttering step. A deposit is a model value whose `Handler` says what the code
meets in its log. `from`, `sent`, `lost` and `delivered` are history variables:
no action reads them.

### BridgeContract and EthWriter

`BridgeContract` is what `writer_methods.go` and its tests expect of the
contract: a proposal is keyed by deposit and data hash; the vote that reaches
the threshold runs the handler; if that reverts, the proposal stays passed;
voting on a passed proposal executes it; an expired one can be cancelled.

A task of `EthWriter` is one goroutine: a relayer, a message and a number, so
that one message can be delivered several times. `pc` follows `create...Proposal`
and the retry loop that `voteProposal` and `executeProposal` share (`op` says
which). One action is one contract read, one wait, or one submission:

| Action | Code |
| --- | --- |
| `ResolveMessage` | the switch on the type |
| `CheckComplete`, `CheckVoted` | the two reads of `shouldVote`; a failed one counts as no |
| `CheckPassed` | `proposalIsPassed`; ERC20 returns, ERC721 and generic execute |
| `LatestBlock` | the read before `watchThenExecute`; its error gives up |
| `StopLoop`, `EnterLoop`, `FatalTx` | the select on `w.stop`; the limit and `ErrFatalTx` |
| `LockOpts`, `UpdateOpts`, `UpdateOptsFails` | `LockAndUpdateOpts`; on an error a vote is retried and an execution abandoned |
| `Submit`, `SubmitFails` | the transaction and `UnlockOpts`; after an error the node may have it or not |
| `Recheck` | `proposalIsComplete` or `proposalIsFinalized` before the next attempt |

`pool` is the node's queue of the account's pending transactions, `mined` the
nonce on chain. `Accept` is what the node does with a nonce that is next, too
high, still pending (it replaces the transaction) or used. `MineTx` runs the
first pending transaction on the contract, `DropTx` forgets the last one,
`Crash` ends one relayer's process and all its goroutines but not its pool.
`resolved` and `clobbered` are history variables.

`watchThenExecute` does not change the contract, the account or the opts: it
returns without executing anything, so leaving it out changes none of the
properties of `EthWriter`. It can end the relayer through `ErrFatalQuery`;
`CoreStop`, which may happen at any time, covers that.

### Relay and BridgePromise

`Relay` has the variables of both modules and composes their actions; it adds
only `alive`, whether there is a process. `Route` is the conjunction of the
listener's `Send` and the writer's `ResolveMessage` of a task that did not run
yet: `router.Send`, which starts a goroutine. `ReadBlock` and `Poll` are the
other steps of the listener, `Write` those of a writer, `CoreStop` and
`ProcessEnds` stop and end both parts at once, and `Start` begins a new
incarnation; what survives is the blockstore, the chains and the pool. A block
that is read again routes its deposits again, as tasks of their own. The relayer
`Self` has its listener; of the others' listeners it is assumed that they deliver
irreversible deposits (`OthersRoute`), which is what `ConfirmedOnly` says of any
listener. The others crash and come back (`OthersFail`); stopping one would only
take away steps that it need not take.

`EventuallyVoted` excuses a deposit whose goroutines ended with their process
only when the listener had left its block behind by then (`EndedWithProcess`):
that is the loss of `relay_lost_votes`. A crash before that is no excuse, as the
stored block is read again.

`BridgePromise` has three sets that only grow: `settled` deposits, `attested`
pairs of relayer and deposit, `effects`. The refinement maps them to the
deposits of blocks at or below `final`, to `resolved`, and to the executed
proposals. A step of `Relay` is one step of the promise or a stutter.

### ContractEvents and EventBinding

The generator gives every event of every contract the same declarations, which
differ in the name of the event and its arguments: `ContractEvents` is that
table, in the order of the files. `EventBinding` is the machine they share, for
an event chosen at the start:

| Action | Code |
| --- | --- |
| `CallNext`, `NextFailed`, `NextLog`, `NextErr`, `NextExhausted`, `Close`, `Closed` | `Next` of the iterator with its two selects, `Close` |
| `WatchLog`, `WatchErr`, `WatchQuit`, `WatchReturns`, `Receive`, `Unsubscribe`, `Unsubscribed` | the goroutine of `Watch`, the user's sink and the subscription |
| `Emit`, `Produce`, `SubscriptionEnds`, `SubscriptionFails`, `ReceiveErr` | the node and its subscription |

The logs of the contract are the sequence `emitted`; `sent` is how far the
subscription has got, and the channel (`logs`), what the goroutine holds (`held`)
and what the user was given (`got`) are positions in it.
A contract may emit an event of the same signature with other indexed arguments
(`Transfer` of ERC20 and ERC721): the node's query does not tell them apart,
unpacking does. The relayer itself queries with `ethclient.FilterLogs`; the
bindings' iterators serve tests and tools.

### EthWatch

One goroutine of `watchThenExecute`. `SourceChain` stands for the destination
chain, its "deposits" for the events of the bridge contract. `loop` is the top
of the loop with its select, `wait` a call of `WaitForBlock`, `filter` the
query. While the block is not there `WaitForBlock` polls, a stuttering step;
`LatestBlockFails` and `ConnectionTerminated` are its two errors, and both count
as an attempt (`WaitFails`). `report` is the send of `ErrFatalQuery` on `sysErr`.

`sysErr` has no buffer (`main.go:169`), and the core, which is outside `src/`,
receives from it once: `ReportFatal` is the send that it receives, `CoreEnds` is
whatever else makes it end, a signal or the error of another goroutine. From then
on (`stop = "ending"`) a send waits for the end of the process. `Chain.Stop`
follows in two actions, `CoreStop` and `Close`, because the goroutine may see one
channel closed and the other not.

The listeners and the writers report their own errors on the same channel. Their
modules do not have the core, so the send is the last thing they do: "halted" and
"fatal" mean that a goroutine reports, and what it does if nobody receives is
nothing at all. `EveryTaskReturns` and `EveryTaskReturnsOrGap` are about waiting for
the chain and for locks, not about that send.

### GasPrice

`LockAndUpdateOpts` as one connection repeats it while blocks arrive, the first
of them before London: `HeaderByNumber` chooses the branch, `EstimateGasLondon`
sets the two caps, `FetchGasPrice`, `SuggestGasPrice` and `SafeEstimateGas` the
legacy price, and `UpdateFails` is any RPC that fails, after which the opts keep
what they had been given. `EthWriter` has all this as one step. Prices are in
units of 10^8 wei, the unit of the gas station.

### SubListener

The same chain module with `final` as the finalised head. A deposit's `Kind` is
the type of its event, one of which is `CodeUpdated`: `Version(h)` counts the
upgrades before block `h`, and metadata of another version do not decode it.

| Action | Code |
| --- | --- |
| `Start` | `InitializeChain` with `checkBlockstore` or `--latest`, `Connect`, `listener.start` |
| `Terminate`, `FatalPolling` | the select on `l.stop`; `retry == 0` |
| `FinalizedFails`, `FinalizedReady` | `GetFinalizedHead`, `GetHeader` and the comparison |
| `GetBlockHash`, `BlockNotReady`, `GetBlockHashFails` | the hash, which fixes what is read; `ErrBlockNotReady`; any other error |
| `ProcessEventsFails`, `ProcessEvents` | `GetStorage`, the decoding, `handleEvents` with `submitMessage` |
| `UpdateMetadata`, `UpdateMetadataFails` | `updateMetatdata`, after the transfers of the block |
| `StoreBlock` | the blockstore, and the next block |

`behind` is a history variable: metadata were fetched which may not fit the next
block, or could not be fetched. They fit when the version of the node's best
block is that of the next block and no block before the next one can still be
reverted (`h <= final + 1`): an upgrade in a block that a fork takes away again
leaves the connection with metadata of a runtime that never was final.
`MetadataFits` excuses exactly that, for every later block it reads.

### SubstrateNode and SubWriter

`SubstrateNode` is what the connection depends on: storage read at the best
block, a pool that keeps an extrinsic whose turn has not come, blocks that are
retracted, extrinsics that are dropped or become invalid, runtime upgrades. A
vote is stored under the deposit and the encoded call, hence under the version
of the runtime whose metadata encoded it.

A task of `SubWriter` is a goroutine, as in `EthWriter`:

| Action | Code |
| --- | --- |
| `ResolveMessage`, `CreateProposal`, `CreateProposalFails` | the switch on the type and the metadata the call is encoded with; `resolveResourceId` |
| `IgnoreProposal`, `AcknowledgeProposal`, `ProposalValidFails`, `GiveUp` | `proposalValid` and the retry loop |
| `GetRuntimeVersion`, `GetRuntimeVersionFails` | the version the extrinsic is signed for |
| `LockNonce`, `UpdateNonce`, `GetLatestNonceFails`, `SignFails` | `nonceLock`, the comparison with the account, the signature; the second error comes after the nonce was raised |
| `Submit`, `SubmitFails` | `SubmitAndWatchExtrinsic`, `c.nonce++`, the unlock; after an error the node may have it or not |
| `Status`, `SubscriptionFails`, `StopWatch` | the select of `watchSubmission` |
| `UpdateMetadata` | the listener's call of `updateMetatdata` |

A submission that watches an extrinsic which is neither included nor dropped
waits for ever: `Gap` says when that must happen. `lost` is a history variable,
and so is `encoded`, the calls each relayer has encoded in any incarnation. It is
there because a message that is delivered again, by a block that is read again or
by a restart, is encoded again: if the runtime was upgraded in between the relayer
votes under another key, and may get the message approved a second time. Nothing
in the relayer excludes that. What `TwiceApprovedTwiceEncoded` says is that it takes
such a redelivery, of as many relayers as two quorums must have in common: an
upgrade alone, while votes are under way, does not do it.

### Amounts

A deposit locks tokens of the source chain (`Lock`) or burns those of the
destination chain (`Burn`); relaying it mints or releases what `Convert` leaves.
`Multipliers` is `int64(math.Pow(10, n))` with the sign dropped by `Bytes`: exact
while it fits, the least or the greatest int64 beyond. An amount of more than 32
bytes is not cut but displaces the recipient (`Malformed`). The base and the
widths are constants, small in the run.

### Keystore

A process is a run of the accounts command: `KeystoreDir`, then `OpenFile` (with
`O_EXCL`) or `WriteFile` (`importKey`, which truncates), then `Write`. `Fails` is
an error or an interruption anywhere, in particular at the prompt for the new
password, when the file exists and is empty. `importPrivKey` ignores the error of
`keystoreDir` and writes elsewhere.

### Startup

`Run` reads the file; `InitializeChain` is one chain's, with `parseChainConfig`
(`Accepted` says which options it takes, and what may be written for them), the
check of the id against the contract, `setupBlockstore` and `AddChain`, which
registers the writer; `StartChain` begins with the first chain when all are
initialised. `ProcessEnds` is every error and every end. `PollBlock` is a whole
round of a listener; the details are in `EthListener` and `SubListener`. A file
of the blockstore is named by relayer address and chain id, an `uint8`. Two
chains whose ids agree in 8 bits share one if they share the key; `ResumesOwnBlock`
excuses exactly that, and nothing in the code excludes it.

### EthClient

An operation of `shared/ethereum` is a sequence of sections, one transaction
each: `<<"locked">>` for `RegisterResource`, four of them for `DeployContracts`,
and `<<"locked", "bumped">>` for `FundErc20Handler`, which adds one to
`Opts.Nonce` without the lock. That addition is a read and a write. The
operations with equal sections are one constant (`Erc20AddMinter` stands for
`Erc20Mint` and `Erc20Approve`, too). `Receipt`, `NotFound` and `ReceiptFails`
are the cases of `WaitForTx`; `program` is what the goroutines call, chosen at the
start; `leaked` says whether an operation has returned
with the lock, which an error after `LockNonceAndUpdate` makes it do: then every
later call waits for ever. That is how the code is written, and no property
contradicts it.

## 3. Runs

The instances replace the limits of the code (5 block retries, 10 transaction
retries) by 1 or 2: one retry is enough to be in the middle of the retries, two
to exhaust them after a success.

| Run | Instance | Checks |
| --- | --- | --- |
| `listener` | five deposits: a generic one, an ERC721 one without a writer, a short calldata, an undecodable log, an unrecognised handler; 3 blocks of up to 2 logs; reorganisation depth 1 = confirmations; 2 starts; with fairness | `NoSkip`, `ConfirmedOnly`, `RedeliveryBound`, `StoredNeverRegresses`, `EventuallySent` |
| `relay` | two relayers that must agree, one of them with its listener; an ERC721 deposit and a log with a short calldata, in one block or in two; 2 blocks of up to 2 logs, read up to twice; reorganisation, a failing handler, a stop, a crash of either relayer, 2 starts; with fairness | `KeepsPromise`, `EventuallyVoted` |
| `writer` | one relayer, two goroutines for one generic message, threshold 1; failing RPCs, lost replies, a drop, a failing handler; 2 attempts; with fairness | `LockDiscipline`, `NoNonceReuse`, `EveryTaskReturns`, `EventuallyDecided` |
| `writer_quorum` | three relayers, threshold 2, one with other data, one ERC20 message delivered twice to one of them, expiry, a failing handler, a crash | `Attested`, `AtMostOneExecuted` |
| `sub_listener` | two transfers and an upgrade in 4 blocks, forks of one block, 2 starts; with fairness | `NoSkip`, `FinalizedOnly`, `SentOncePerStart`, `MetadataFits`, `EventuallySent` |
| `sub_nonce` | one relayer, one message delivered twice, one runtime upgrade; failing RPCs and signatures, lost replies, a dropped extrinsic, a retracted block, a stop, a crash; the two deliveries are symmetric | `FreshNonce`, `OnlyLossMakesGap`, `TwiceApprovedTwiceEncoded` |
| `sub_votes` | two relayers, threshold 2, one message, one runtime upgrade; failing reads and signatures, lost replies, a retracted block; with fairness | `TwiceApprovedTwiceEncoded`, `EveryTaskReturnsOrGap`, `EventuallyApproved` |
| `bindings` | every event of the bindings, every query over two values, up to two logs: the event's own, those of the same signature, one of another; a channel of one; with fairness | `InOrder`, `CompleteUnlessFailed`, `CallsReturn` |
| `helpers` | one of six machines that share no state, chosen at the start (`part`) | `PartsTypeOK` and the properties below |

The parts of `helpers`:

| Part | Instance | Checks |
| --- | --- | --- |
| `watch` | two events, one of them final; 5 blocks; delay = reorganisation depth = 1; limits 3 and 2; with fairness | `FoundIsFinal`, `NothingPassedBy`, `CloseEndsWaiting` |
| `gas` | limits 2 and 10 gwei, prices around the limits and their halves, a multiplier, a gas station | `OneKindOfPrice`, `PriceWithinLimits`, `FeeCapFollowsLimit` |
| `client` | two goroutines with two operations each, or one with four, among them `FundErc20Handler`; two polls | `NonceIsPending` |
| `amounts` | base 2, differences from -4 to 3 where 2^3 fits the integers and 2^4 does not, a supply of 10, four transfers in either direction | `Backed`, `LossIsBounded` |
| `keys` | two addresses, two commands at a time, four in all | `ReportedIsStored` |
| `startup` | six files of two chains: two good ones with one key, a Substrate one, ids that agree in 8 bits, a wrong contract, a misspelt option, a bad value; a file without chains, which is valid; 2 blocks; 2 starts with any flags | `ReadyBeforePolling`, `ResumesOwnBlock` |

A part that is not chosen has one initial state and does nothing, so the run is
the union of six small ones. The type invariants of all modules are theorems;
`PartsTypeOK` checks those of the six parts as well.

Depth of reorganisation equal to the confirmations is the tightest case the
operator may configure; with a block less `ConfirmedOnly` fails, which the
mutant `ConfirmedEarly` shows. Three blocks are one below, one at and one above
the block being read; two logs per block are the least for a failure in the
middle of a block. Two goroutines are the least that can share an account, and
three relayers with a threshold of two the least where a majority and a
dissenter exist. `writer` has every failure on one account and two attempts per
goroutine; `writer_quorum` has several accounts and reads that succeed, so that
its state space stays small; what they leave to each other does not interact,
as votes meet only in the contract. The Substrate runs are split the same way:
the nonce needs two goroutines of one account and every failure; the votes need
two accounts. Both have the upgrade: in `sub_nonce` the message is delivered
twice, so that it can be approved in both encodings, and must have been encoded
in both; in `sub_votes` each relayer has it once, so that two approvals would need
both relayers to vote twice for what they encoded once. In
`gas` every comparison of the code has prices on both sides and at equality.
In `relay` a threshold of two makes both relayers necessary, so
that an effect shows that both were given the deposit; an executed proposal needs
the failing handler not to have been the end of it. Two logs per block let the
second one fail after the first was sent, and two attempts send it twice before
the listener gives up; with two starts the stored block is read again. In `bindings` a channel of
one is full as soon as it holds a log, and two logs are the least that can be out
of order or half delivered. Deadlock is checked in the listener runs: a listener can
always be restarted or crash within the bounds, and a halted one can still be
ended. The other runs switch it off, because a system whose goroutines have all
returned, or whose bound on starts is used up, is meant to stop.

Three runs are expected to fail. Each checks what a comment says against what
the code does, and is a finding in `PROJECT.json`:

| Run | The comment says | The code does |
| --- | --- | --- |
| `listener_unrecognised` | handle the deposits whose handler is recognised (`listener.go:219`) | drop the rest of the block at the first that is not |
| `relay_lost_votes` | the blockstore records the last processed block, to pick up where the relayer left off (`README.md:111`) | a block is stored when its messages were handed to goroutines; a crash before their votes loses them |
| `watch_stop` | all routines exit when the connection's stop channel is closed (`connection.go:43`) | a watch whose block can no longer come reports that on a channel nobody receives from any more |

The modules follow the code, not its comments, in these places too. They have
no run; the definition named shows what the code does:

| Definition | The comment says | The code does |
| --- | --- | --- |
| `EthListener!GenericRecordFails` | a block that fails to parse is retried (`listener.go:113`) | a generic record that cannot be read becomes an empty message |
| `EthListener!FatalPolling`, `SubListener!FatalPolling` | no more retries: go to the next block (`listener.go:125`; Substrate `listener.go:110`) | report an error and stop polling |
| `EthWriter!CheckPassed` | true if the proposal is complete (`writer_methods.go:95`) | false if it is executed or cancelled |
| `EthWriter!CheckPassed` | a passed proposal is ready to be executed (`writer_methods.go:105`) | an ERC20 proposal that stays passed is not executed |
| `EthWatch!FilterLogsFails` | the query of a block will be retried (`writer_methods.go:200`) | its error is overwritten and the block passed over |
| `GasPrice!ParsePrice` | at least 10 gwei (`egs.go:103`) | at least 0.1 gwei |
| `GasPrice!FetchGasPriceFails` | fetching price data is reattempted (`egs.go:17`) | the first error is returned |
| `SubWriter!SubmitFails` | the cached nonce is the account's latest (`connection.go:28`) | it also counts submissions that failed |
| `SubWriter!Looping` | the stop channel is observed in all loops (`connection.go:30`) | the retry loop of the writer does not look at it |
| `Startup!Accepted` | the three handlers are required (`README.md:83`) | none is; an absent one is the zero address |
| `Startup!Accepted` | `useExtendedCall` is an option of Ethereum chains (`README.md:93`) | an Ethereum chain with it is refused, as with any unknown option; a Substrate chain takes it, and ignores unknown ones |
| `Keystore!KeystoreDirFails` | an error of the directory is an error (as in the other imports) | `importPrivKey` ignores it (`account.go:150`) |
| `EthClient!NotFound` | wait until there is a receipt (`client.go:84`) | success after ten polls without one |

`NoSkip` and `EventuallyDecided` say what they excuse (`Excused`, `Hindered`):
exactly the losses above, votes dropped by the node, a crash or stop, and the
votes given up after an error of `LatestBlock`.

### Fairness

`EthListener!FairSpec` is weakly fair to the top of the loop and to the steps
inside a block: the goroutine is scheduled by the Go runtime and every RPC
returns, with an answer or an error. It is not fair to `LatestBlockFails`, to
the chain, to `Start` or to the core. `EthWriter!FairSpec` is weakly fair to the
steps of every goroutine and to mining. Weak fairness for the lock is enough:
Go's mutex admits a waiter that has waited long enough, and in the model a task
takes the lock at most `TxRetryLimit` times, so it cannot be taken away for ever.

`Relay!FairSpec` gives the relayer with the listener what those two give: weak
fairness for the top of the loop, for the steps inside a block, and for the
writer's goroutines. Neither chain and no other relayer owes anything.
`EventBinding!FairSpec` is weakly fair to the goroutine of a watch, to a call of
`Next`, and to the node's subscription, which delivers what it has and ends when
it is told to; not to the user, who need not read the sink, nor to the contract.

`SubListener!FairSpec` is like that of `EthListener`, and strongly fair to
reading a block's hash: a block below the finalised head has one, so a node
cannot answer "not ready" for ever. `SubWriter!FairSpec` is weakly fair to every
goroutine, to the inclusion of the extrinsic whose turn it is and to the
rejection of one that has become invalid. `EthWatch!FairSpec` is weakly fair to
the goroutine, but not to failures of `LatestBlock`, and to `Shutdown`: the core that
has received an error or a signal stops the chain. In `helpers` only the watch has
fairness; the other parts have safety properties alone.

## 4. Theorems

All theorems are `Spec => []P`, an action property or a refinement, with the
constants unconstrained except for the named assumptions of the modules:
`SourceChainAssumption`, `ListenerAssumption`, `ConfirmationsAssumption`
(`Confirmations >= MaxReorg`, the operator's part), `ContractAssumption` (in
particular, finitely many relayers), `WriterAssumption`, and those of `Relay`.
`Relay` collects those of its parts, and `HelpersAssumption` those of its six
(`SourceChainAssumption` and `ConfirmationsAssumption` again, `GasAssumption` and
`RangeAssumption`, that is `MinGasPrice <= MaxGasPrice`, and one for each other
part); `EventBinding` has `BindingAssumption`. Two conjuncts of
`AmountsAssumption` say of powers what the provers do not know, `Base ^ 0 = 1` and
that the powers in use are positive numbers; both hold for every natural base
above 1, and TLC evaluates them on its instance. None of the bounds of the runs is needed: chains, deposits, retries,
restarts, goroutines, relayers and pools are arbitrary.

**`EthListenerProofs`** proves `TypeOK`, `ConfirmedOnly`, `NoSkip`,
`StoredNeverRegresses` and `RedeliveryBound`. `NoSkip` alone is not inductive: a
reorganisation could change a block that was left behind, and a restart could
start beyond a block that was not finished. `IInv` adds that the cursor never
passes `final + 1` (`CursorInv`), that what has been read and handled of the
current block agrees with the chain (`ProcessingInv`), that every block up to the
stored one is done (`StoreInv`), and that a running listener is not behind the
blockstore (`ResumeInv`). The argument is that confirmations put the current
block at or below `final`, that `Mine` and `Reorg` leave the logs there alone
(`MineStable`, `ReorgStable` of `SourceChainProofs`), and that what is done stays
done (`DoneStable`). `RedeliveryBound` counts: a deposit is in one place of the
chain (`UniqueInv`), which is not beyond the current block once it was sent
(`PlaceInv`), so only attempts at one block send it, and each delivery that is
repeated has cost a retry (`AttemptInv`: deliveries and retries left add up to at
most `BlockRetryLimit`, or one more while the block is being handled).

**`EthWriterProofs`** proves `TypeOK`, `LockDiscipline` and `NoNonceReuse` from
`OptsInv`. Its strengthenings are `TriesInv` (a task inside the loop has an
attempt left) and `NonceInv`: a task about to submit has a nonce that is not
below the pending one. Only the holder of the lock raises the pending nonce;
mining moves a transaction from pending to mined and dropping lowers it. `Attested` and
`AtMostOneExecuted` follow from `VotesInv`, which follows a vote from the
delivered message (`TaskInv`) through the pool (`PoolInv`) to the contract
(`VotersInv`, `QuorumInv`); for the second, the voters of two different hashes
of one message are disjoint, and two disjoint sets of `Threshold` relayers do
not fit into fewer than `2 * Threshold` of them (`DisjointSets`).

**`RelayProofs`** proves that the composition implements its parts and the promise
(`ListenerWithin`, `WriterWithin`, `PromiseIsKept`). Every step of `Relay` is a
step of `EthListener` or leaves its variables alone; the same holds of the
writers, where a task must be free when a deposit is routed: `RedeliveryBound`
provides it. All invariants of the two modules then hold of the composition and
carry the refinement: the listener's when a deposit is routed (its block is at or
below `final`), `VotesInv` and `AtMostOneExecuted` when a proposal is executed.

**`SubListenerProofs`** proves `TypeOK`, `NoSkip`, `FinalizedOnly`,
`SentOncePerStart`, `MetadataFits` and `StoredNeverRegresses` with one `IInv`: the
block being read is finalised and its events are the chain's; blocks behind the
cursor and up to the stored one are done; what this incarnation sent lies below
the block it reads next (`PlaceInv`); the metadata fit the next block unless
`behind` (`MetadataInv`). The last needs that the number of upgrades below a
finalised block does not change under a fork. It does change for a block above
`final + 1`, which is why `behind` covers metadata fetched at such a time.

**`SubWriterProofs`** proves `TypeOK`, `NonceLockDiscipline`, `FreshNonce`,
`OnlyLossMakesGap` and `TwiceApprovedTwiceEncoded`. `LockInv` ties the draft of the task
that submits to the connection's nonce, `BestInv` says what a retracted block
takes back, and `BelowInv` keeps all nonces of the pool below the next one while
no process was restarted. `CallInv` follows an encoded call from a goroutine
through pool, block and retraction to the voters: whoever votes for a call has
encoded it, in this or in an earlier incarnation, so nothing is assumed about
deliveries or crashes. Two sets of `Threshold` relayers share at least
`2 * Threshold - |Relayers|` of them (`SharedElements`), and these have encoded both
calls.

**`HelpersProofs`** proves every invariant of the run `helpers` from `PartsInv`,
the conjunction of one inductive invariant for each part. A step is one of its
part and leaves the others alone (`PartsStep`), so each is proved on its own:

* `WatchInv` (`FoundIsFinal`, `NothingPassedBy`): a block that was waited for is at
  or below `final`, as in the listener, so what a query has seen stays.
* `GasInv` (`OneKindOfPrice`, `PriceWithinLimits`, `FeeCapFollowsLimit`): until a
  header with a base fee was read the opts are those of a legacy transaction
  within the limits, and there is no way back.
* `ClientInv` (`NonceIsPending`): the pool is an interval from the account's nonce
  to some `n`, unless the programs exclude it (`Good`), and `n` is what the holder
  of the lock sends with. That the `CHOOSE` of `PendingNonce` is this `n` needs
  that an interval has as many members as its length (`PendingIsPendingNonce`).
  `LockIsGivenBack`, which no run checks, says that a lock that is taken is held by
  somebody between lock and unlock, unless an operation has returned an error with
  it.
* `AmountInv` (`Backed`, `LossIsBounded`): what is locked, less what is minted, less
  what is under way, never becomes negative and grows by less than a coarse
  unit per transfer. The sum over the transfers under way is a fold, whose
  recursion the provers cannot unfold: `SumsExist` and `SumOfOneMore` show that a
  running total exists for every finite set and what one member more does to it.
* `KeysInv` (`ReportedIsStored`): `O_EXCL` creates only files that are absent, and
  `overwritten` and `elsewhere` name what the other two ways of writing do.
* `StartInv` (`ReadyBeforePolling`, `ResumesOwnBlock`): the chains before `next` have
  passed their checks, and the router's writer for their id sends to a contract
  with their contract id; neither a listener nor the file of its blockstore is
  beyond what the chain has handled or waived, unless the file is shared.

Induction over numbers appears in two lemmas about sets (`LeastNumber`,
`Induction`), which need no operator as a parameter.

**`EventBindingProofs`** proves `TypeOK`, `InOrder` and `CompleteUnlessFailed`
for every event of the table, any query, logs and capacity. `DataInv` follows a log from the
subscription to the user: what was given comes before what is held, and that
before what is in the channel (`Ordered`); all of it matched, and what was given
or is held could be unpacked (`Sound`); as long as nothing has failed nothing that was sent
is missing (`Covered`), hence there is no gap (`NothingSkipped`), and afterwards the
user is given nothing more. `ControlInv` ties `it.done`, the channel of errors and
the answer of `Next` together. That a log which matches and unpacks is what was
asked for (`Answers`) depends on the table: name and number of indexed arguments
determine an event (`SameSignature`). `CallsAreNotStuck` is the safety part of
`CallsReturn`, stated without `ENABLED`: while a call waits, the guard of one of
the fair steps holds, whatever the channel holds and whoever reads the sink.

`RelayProofs` ends with `DepositsTakeEffect`, which draws the promise together
with the contract's part: an executed proposal is about a deposit no
reorganisation reverts, `Threshold` relayers that were given it computed the very
data, and when that is a majority no other data were executed.

Only model-checked: the liveness properties (`EventuallySent` of both listeners,
`EventuallyVoted`, `EveryTaskReturns`, `EventuallyDecided`,
`EveryTaskReturnsOrGap`, `EventuallyApproved`, `CallsReturn`, `CloseEndsWaiting`),
which need fairness and `ENABLED`, beyond the prover. Every
invariant and every action property that a passing run checks is a theorem, and
so is the refinement.

## 5. Plan

Done: listeners and writers of both kinds, their connections and prices, the
composed relayer and its promise, the bindings, amounts, accounts, the start of
the process, the shared Ethereum client. What could follow:

1. The Substrate pair in `Relay`: `SubListener` and `SubWriter` against
   `BridgePromise`.
2. `SubClient`: `SubmitTx` and `BatchSubmit` of the shared Substrate client on
   `SubstrateNode`.

## 6. Not modelled

* The bytes of messages and proposals: a deposit, a message and a hash are
  model values. `Amounts` has the amount of a transfer; recipients and metadata
  are copied.
* Time and intervals: a sleep is a step that may come late. The float of the
  gas multiplier is a fraction.
* A block or an extrinsic that meets metadata of another runtime is an error;
  an upgrade that changes nothing the bridge uses would not be noticed. A call
  encoded for an older runtime can still be voted on, under a key of its own.
* A vote against a proposal, which no relayer casts; finality of a vote, which
  the code does not wait for.
* What is read from an option of the configuration is a constant of the other
  modules; how numbers and addresses are written is left out. So are the flags
  that choose paths, the log level, metrics and health: gauges nothing reads back.
* `decimals` entries with upper-case letters in the resource id never match, as
  the code looks them up in lower case; `Amounts` has a difference that applies.
* The core and the router beyond what is said above; the contracts beyond what
  the writer depends on; other users of the relayer's account.
* Transactions with a nonce that is too high are lost when they arrive,
  where a node may keep them for a while.
* The wrappers of calls, transactions and sessions in `bindings/`, which keep no
  state; the shared Substrate client, which tests use and which submits with a
  nonce it has read once; `e2e`, `scripts`, `.deployment`.
