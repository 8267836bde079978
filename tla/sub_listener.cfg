\* Two transfers, an upgrade, reorganisations of one block, a crash and a
\* restart.
CONSTANTS
    d1 = d1
    d2 = d2
    d3 = d3
    u1 = u1
    u2 = u2
    Deposits = {d1, d2, u1}
    MaxHeight = 4
    MaxLogs = 2
    MaxReorg = 1
    Kind <- MCKindOneUpgrade
    Routed = {d1, u1, d2}
    BlockRetryLimit = 2
    StartBlock = 1
    FreshStart = FALSE
    LatestBlockFlag = FALSE
    MaxStarts = 2
SPECIFICATION FairSpec
INVARIANTS
    NoSkip
    FinalizedOnly
    SentOncePerStart
    MetadataFits
PROPERTIES
    EventuallySent
