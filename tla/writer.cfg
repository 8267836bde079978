\* Two goroutines of one relayer for one message it was given twice, on one
\* account: lost replies, a dropped transaction, a failing handler.
CONSTANTS
    r1 = r1
    r2 = r2
    r3 = r3
    m1 = m1
    m2 = m2
    h1 = h1
    h2 = h2
    NoTask = NoTask
    Relayers = {r1}
    Messages = {m2}
    Hashes = {h1}
    Threshold = 1
    Expires = FALSE
    MaxHandlerFailures = 1
    Tasks <- OptsTasks
    Type <- MCType
    Data <- AgreeingData
    TxRetryLimit = 2
    RpcAnswers = {"ok", "error"}
    MaxDrops = 1
    MaxCrashes = 0
SPECIFICATION FairSpec
\* Every task may have returned, and nothing is pending.
CHECK_DEADLOCK FALSE
INVARIANTS
    LockDiscipline
    NoNonceReuse
PROPERTIES
    EveryTaskReturns
    EventuallyDecided
