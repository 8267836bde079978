\* Two relayers that must agree; a deposit, and a log that cannot be read, in one
\* block or in two: in one, the deposit's block is read again and the deposit is
\* sent twice; a reorganisation, a failing handler, a crash of either relayer and
\* a restart.
CONSTANTS
    d1 = d1
    d2 = d2
    r1 = r1
    r2 = r2
    h1 = h1
    NoTask = NoTask
    Deposits = {d1, d2}
    MaxHeight = 2
    MaxLogs = 2
    MaxReorg = 1
    Handler <- MCHandler
    Routed = {d1}
    BlockRetryLimit = 2
    Confirmations = 1
    StartBlock = 0
    FreshStart = FALSE
    LatestBlockFlag = FALSE
    MaxStarts = 2
    Relayers = {r1, r2}
    Hashes = {h1}
    Threshold = 2
    Expires = FALSE
    MaxHandlerFailures = 1
    Tasks <- MCTasks
    Data <- AgreeingData
    TxRetryLimit = 1
    RpcAnswers = {"ok"}
    MaxDrops = 0
    MaxCrashes = 1
    Self = r1
SPECIFICATION FairSpec
PROPERTIES
    KeepsPromise
    EventuallyVoted
CHECK_DEADLOCK FALSE
