\* Logs that cannot be read, a destination without a writer; a crash and a restart;
\* reorganisations of one block, exactly as deep as the confirmations.
CONSTANTS
    d1 = d1
    d2 = d2
    d3 = d3
    d4 = d4
    d5 = d5
    Deposits = {d1, d2, d3, d4, d5}
    MaxHeight = 3
    MaxLogs = 2
    MaxReorg = 1
    Handler <- MCHandler
    Routed = {d1, d3, d4, d5}
    BlockRetryLimit = 2
    Confirmations = 1
    StartBlock = 1
    FreshStart = FALSE
    LatestBlockFlag = FALSE
    MaxStarts = 2
SPECIFICATION FairSpec
INVARIANTS
    NoSkip
    ConfirmedOnly
    RedeliveryBound
PROPERTIES
    StoredNeverRegresses
    EventuallySent
