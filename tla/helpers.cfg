CONSTANTS
    \* The watch: a matching event and another one; reorganisations as deep as
    \* the confirmations; more blocks than the watch limit.
    e1 = e1
    e2 = e2
    Deposits = {e1, e2}
    MaxHeight = 5
    MaxLogs = 2
    MaxReorg = 1
    Matching = {e1}
    ExecuteBlockWatchLimit = 3
    BlockRetryLimit = 2
    BlockConfirmations = 1
    RpcAnswers = {"ok", "error"}
    \* The gas price: a multiplier of 1.5; limits of 2 and 10 gwei.
    Prices <- MCPrices
    StationSpeeds <- MCStation
    UseStation = TRUE
    MinGasPrice = 20
    MaxGasPrice = 100
    MultiplierNum = 3
    MultiplierDen = 2
    \* The client: two goroutines, two polls for a receipt.
    g1 = g1
    g2 = g2
    Nobody = Nobody
    Goroutines = {g1, g2}
    Programs <- MCPrograms
    ReceiptPolls = 2
    \* Amounts: base 2, integers of 4 bits and 5 bits.
    Base = 2
    Differences <- MCDifferences
    MaxInt = 8
    MaxUint = 15
    Supply = 10
    MaxTransfers = 4
    \* The keystore: two addresses, two commands at a time.
    Addresses = {a1, a2}
    Processes = {p1, p2}
    MaxCommands = 4
    \* The start: blocks up to height two, two starts.
    c1 = c1
    c2 = c2
    c3 = c3
    c257 = c257
    cSub = cSub
    cMisnamed = cMisnamed
    cMistyped = cMistyped
    ConfiguredChains = {c1, c2, c3, c257, cSub, cMisnamed, cMistyped}
    Configs <- MCConfigs
    Types <- MCTypes
    Ids <- MCIds
    Opts <- MCOpts
    Keys <- MCKeys
    ContractIds <- MCContractIds
    StartBlocks <- MCStartBlocks
    MaxBlock = 2
    MaxStarts = 2
    NoChain = NoChain
SPECIFICATION FairSpec
INVARIANTS
    PartsTypeOK
    FoundIsFinal
    NothingPassedBy
    OneKindOfPrice
    PriceWithinLimits
    FeeCapFollowsLimit
    NonceIsPending
    Backed
    LossIsBounded
    ReportedIsStored
    ReadyBeforePolling
    ResumesOwnBlock
PROPERTIES
    CloseEndsWaiting
\* Every part may come to its end.
CHECK_DEADLOCK FALSE
