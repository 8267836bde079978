\* Three relayers, one of which computes other data; one of them delivers twice;
\* a failing handler, a crash.
CONSTANTS
    r1 = r1
    r2 = r2
    r3 = r3
    m1 = m1
    m2 = m2
    h1 = h1
    h2 = h2
    NoTask = NoTask
    Relayers = {r1, r2, r3}
    Messages = {m1}
    Hashes = {h1, h2}
    Threshold = 2
    Expires = TRUE
    MaxHandlerFailures = 1
    Tasks <- QuorumTasks
    Type <- MCType
    Data <- DisagreeingData
    TxRetryLimit = 1
    RpcAnswers = {"ok"}
    MaxDrops = 0
    MaxCrashes = 1
SPECIFICATION Spec
\* Every task may have returned, and nothing is pending.
CHECK_DEADLOCK FALSE
INVARIANTS
    Attested
    AtMostOneExecuted
