\* The comment in getDepositEventsForBlock: recognised deposits are handled.
CONSTANTS
    d1 = d1
    d2 = d2
    d3 = d3
    d4 = d4
    d5 = d5
    Deposits = {d1, d2, d3, d4}
    MaxHeight = 3
    MaxLogs = 2
    MaxReorg = 1
    Handler <- MCThreeHandlers
    Routed = {d1, d2, d3, d4}
    BlockRetryLimit = 2
    Confirmations = 1
    StartBlock = 1
    FreshStart = FALSE
    LatestBlockFlag = FALSE
    MaxStarts = 1
SPECIFICATION Spec
INVARIANTS
    RecognisedIsHandled
