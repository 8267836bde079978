------------------------------- MODULE Startup -------------------------------
(***************************************************************************)
(* The run command (cmd/chainbridge/main.go): it reads the configuration   *)
(* file, initialises the chains in their order, and starts them when the   *)
(* last one is initialised.  Any error ends the process; a later start     *)
(* resumes from the blockstore, which has a file for each relayer address  *)
(* and chain id.  What a listener does with a block is one step here.      *)
(***************************************************************************)
EXTENDS Integers, Sequences

CONSTANTS ConfiguredChains,
          Configs,      \* sequences of chains: what the file may list
          Types,        \* [ConfiguredChains -> STRING]: the field type
          Ids,          \* [ConfiguredChains -> Nat]: the field id
          Opts,         \* the field opts: to an option's name, what is written
          Keys,         \* [ConfiguredChains -> addresses]: the field from
          ContractIds,  \* [ConfiguredChains -> 0 .. 255]: of its bridge contract
          StartBlocks,  \* [ConfiguredChains -> Nat]: the option startBlock
          MaxBlock,     \* bound: the last block of every chain
          MaxStarts,    \* bound: starts of the process
          NoChain

\* What the file and the contracts are.
StartupAssumption ==
    /\ \A c \in ConfiguredChains :
          ContractIds[c] \in 0 .. 255 /\ Ids[c] \in Nat /\ StartBlocks[c] \in Nat
    /\ Configs \subseteq Seq(ConfiguredChains)
    /\ NoChain \notin ConfiguredChains

VARIABLES
    config,    \* the chains of the file
    pc,        \* "down", "initialize", "start" or "running"
    next,      \* index of the chain that is next to be initialised or started
    flags,     \* of this start: a subset of {"fresh", "latest"}
    writers,   \* the router: [0 .. 255 -> a chain or NoChain]
    polling,   \* chains whose listener was started
    block,     \* [ConfiguredChains -> Nat]: the next block of its listener
    latest,    \* [ConfiguredChains -> Nat]: the latest block of its node
    stored,    \* the blockstore: from names of files to blocks
    starts,
    handled,   \* history: [ConfiguredChains -> blocks its listener handled]
    waived     \* history: [ConfiguredChains -> blocks the operator passes over]

vars == <<config, pc, next, flags, writers, polling, block, latest, stored,
          starts, handled, waived>>

\* msg.ChainId is an uint8.
ChainId(c) == Ids[c] % 256

\* mutant of StoreFile: the chain id is not part of the file's name
StoreFileOfKey(c) == <<Keys[c], 0>>

StoreFile(c) == <<Keys[c], ChainId(c)>>
StoreFiles == {StoreFile(c) : c \in ConfiguredChains}

\* What may be written for the options of an Ethereum chain: nothing ("empty"),
\* a "text" that is not of the option's kind, or a "value".  Addresses are not
\* checked; an unusable egsSpeed counts as average.
Accepted ==
    LET number == {"value"}
        address == {"empty", "text", "value"}
        withDefault == {"empty", "value"}
    IN  [bridge |-> address \ {"empty"},
         erc20Handler |-> address, erc721Handler |-> address, genericHandler |-> address,
         maxGasPrice |-> number, minGasPrice |-> number, gasLimit |-> number,
         gasMultiplier |-> number, http |-> number, startBlock |-> number,
         blockConfirmations |-> withDefault, blockSuccessRetryInterval |-> withDefault,
         egsApiKey |-> {"text", "value"}, egsSpeed |-> {"empty", "text", "value"}]

ParseChainConfig(c) ==
    /\ "bridge" \in DOMAIN Opts[c]
    /\ \A o \in DOMAIN Opts[c] : o \in DOMAIN Accepted /\ Opts[c][o] \in Accepted[o]

\* Substrate: other options are ignored; one that cannot be parsed is a panic.
ParseSubstrateOpts(c) ==
    \A o \in {"startBlock", "useExtendedCall"} \cap DOMAIN Opts[c] : Opts[c][o] = "value"

CanInitialize(c) ==
    /\ \/ Types[c] = "ethereum" /\ ParseChainConfig(c)
       \/ Types[c] = "substrate" /\ ParseSubstrateOpts(c)
    /\ ContractIds[c] = ChainId(c)

Larger(a, b) == IF a > b THEN a ELSE b

\* InitializeChain with setupBlockstore or checkBlockstore.
StartBlock(c) ==
    IF "latest" \in flags THEN latest[c]
    ELSE IF "fresh" \in flags THEN StartBlocks[c]
    ELSE Larger(StartBlocks[c], stored[StoreFile(c)])

NoWriters == [id \in 0 .. 255 |-> NoChain]

Init ==
    /\ config \in Configs
    /\ pc = "down"
    /\ next = 1
    /\ flags = {}
    /\ writers = NoWriters
    /\ polling = {}
    /\ block = [c \in ConfiguredChains |-> 0]
    /\ latest = [c \in ConfiguredChains |-> 0]
    /\ stored = [f \in StoreFiles |-> 0]
    /\ starts = 0
    /\ handled = [c \in ConfiguredChains |-> {}]
    /\ waived = [c \in ConfiguredChains |-> {}]
-----------------------------------------------------------------------------
\* run: the file is read and validated; nothing else has happened yet.  A file
\* without chains is valid: there is nothing to initialise and to start.
Run ==
    /\ pc = "down"
    /\ starts < MaxStarts
    /\ starts' = starts + 1
    /\ pc' = IF config = << >> THEN "running" ELSE "initialize"
    /\ flags' \in SUBSET {"fresh", "latest"}
    /\ UNCHANGED <<config, next, writers, polling, block, latest, stored, handled, waived>>

\* mutant of Advance: the loop ends a chain too early
AdvanceEarly ==
    IF next + 1 >= Len(config)
    THEN next' = 1 /\ pc' = (IF pc = "initialize" THEN "start" ELSE "running")
    ELSE next' = next + 1 /\ pc' = pc

\* The last chain is followed by c.Start, which begins with the first again.
Advance ==
    IF next = Len(config)
    THEN next' = 1 /\ pc' = (IF pc = "initialize" THEN "start" ELSE "running")
    ELSE next' = next + 1 /\ pc' = pc

\* InitializeChain succeeds, and AddChain registers the writer with the router.
InitializeChain ==
    LET c == config[next] IN
    /\ pc = "initialize"
    /\ CanInitialize(c)
    /\ block' = [block EXCEPT ![c] = StartBlock(c)]
    /\ waived' = [waived EXCEPT ![c] = @ \cup
            IF "latest" \in flags THEN 0 .. latest[c] - 1 ELSE 0 .. StartBlocks[c] - 1]
    /\ writers' = [writers EXCEPT ![ChainId(c)] = c]
    /\ Advance
    /\ UNCHANGED <<config, flags, polling, latest, stored, starts, handled>>

\* Chain.Start: the listener of Substrate refuses a block that does not exist.
StartChain ==
    LET c == config[next] IN
    /\ pc = "start"
    /\ Types[c] = "substrate" => block[c] <= latest[c]
    /\ polling' = polling \cup {c}
    /\ Advance
    /\ UNCHANGED <<config, flags, writers, block, latest, stored, starts, handled, waived>>

\* An error: of the keystore, the blockstore, the connection, a contract, the id,
\* the type, the options; or a listener that cannot be started.  A fatal error
\* of a listener or writer, a signal, a crash.
ProcessEnds ==
    /\ pc # "down"
    /\ pc' = "down"
    /\ next' = 1
    /\ flags' = {}
    /\ writers' = NoWriters
    /\ polling' = {}
    /\ block' = [c \in ConfiguredChains |-> 0]
    /\ UNCHANGED <<config, latest, stored, starts, handled, waived>>

MineBlock(c) ==
    /\ latest[c] < MaxBlock
    /\ latest' = [latest EXCEPT ![c] = @ + 1]
    /\ UNCHANGED <<config, pc, next, flags, writers, polling, block, stored, starts, handled, waived>>

\* One round of pollBlocks: its deposits are sent, the block is stored.
PollBlock(c) ==
    /\ c \in polling
    /\ block[c] <= latest[c]
    /\ handled' = [handled EXCEPT ![c] = @ \cup {block[c]}]
    /\ stored' = [stored EXCEPT ![StoreFile(c)] = block[c]]
    /\ block' = [block EXCEPT ![c] = @ + 1]
    /\ UNCHANGED <<config, pc, next, flags, writers, polling, latest, starts, waived>>

\* The other chains of the file are not looked at.
Listed == {config[i] : i \in DOMAIN config}

Next ==
    \/ Run
    \/ InitializeChain
    \/ StartChain
    \/ ProcessEnds
    \/ \E c \in Listed : MineBlock(c) \/ PollBlock(c)

Spec == Init /\ [][Next]_vars
-----------------------------------------------------------------------------
\* Every variable has its type.
TypeOK ==
    /\ config \in Configs
    /\ pc \in {"down", "initialize", "start", "running"}
    /\ next = 1 \/ next \in DOMAIN config
    /\ flags \subseteq {"fresh", "latest"}
    /\ writers \in [0 .. 255 -> ConfiguredChains \cup {NoChain}]
    /\ polling \subseteq ConfiguredChains
    /\ block \in [ConfiguredChains -> Nat]
    /\ latest \in [ConfiguredChains -> Nat]
    /\ stored \in [StoreFiles -> Nat]
    /\ starts \in Nat
    /\ handled \in [ConfiguredChains -> SUBSET Nat]
    /\ waived \in [ConfiguredChains -> SUBSET Nat]

\* When any listener polls, every chain of the file has passed its checks and
\* has a writer, which sends to a bridge contract with the chain's id: whatever
\* the first message is, no configured destination is missing or mistaken, and
\* no option of an Ethereum chain was overlooked.
ReadyBeforePolling ==
    polling # {} =>
        \A c \in Listed :
            LET w == writers[ChainId(c)] IN
            /\ w # NoChain
            /\ ContractIds[w] = ContractIds[c]
            /\ ContractIds[c] = ChainId(c)
            /\ Types[c] = "ethereum" => DOMAIN Opts[c] \subseteq DOMAIN Accepted

\* Two chains of the file with the same key whose ids agree in the last 8 bits.
Shared(c) == \E d \in Listed \ {c} : Keys[d] = Keys[c] /\ ChainId(d) = ChainId(c)

\* Through failed starts, crashes and restarts with any flags, a chain never
\* passes over a block because of what another chain of the file has stored.
ResumesOwnBlock ==
    \A c \in polling :
        Shared(c) \/ 0 .. block[c] - 1 \subseteq handled[c] \cup waived[c]
=============================================================================
