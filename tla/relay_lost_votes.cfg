\* One deposit, four blocks, a crash while its vote is still under way.
CONSTANTS
    d1 = d1
    d2 = d2
    r1 = r1
    r2 = r2
    h1 = h1
    NoTask = NoTask
    Deposits = {d1}
    MaxHeight = 3
    MaxLogs = 1
    MaxReorg = 1
    Handler <- MCHandler
    Routed = {d1}
    BlockRetryLimit = 1
    Confirmations = 1
    StartBlock = 0
    FreshStart = FALSE
    LatestBlockFlag = FALSE
    MaxStarts = 2
    Relayers = {r1, r2}
    Hashes = {h1}
    Threshold = 2
    Expires = FALSE
    MaxHandlerFailures = 0
    Tasks <- MCTasks
    Data <- AgreeingData
    TxRetryLimit = 1
    RpcAnswers = {"ok"}
    MaxDrops = 0
    MaxCrashes = 1
    Self = r1
SPECIFICATION Spec
INVARIANTS
    PicksUpWhereItLeftOff
