\* Two relayers that must agree, one message, a runtime upgrade and a retracted
\* block.
SPECIFICATION FairSpec
CONSTANTS
    r1 = r1
    r2 = r2
    m1 = m1
    first = first
    second = second
    Deliveries = {first}
    NoTask = NoTask
    Relayers = {r1, r2}
    Messages = {m1}
    Threshold = 2
    MaxUpgrades = 1
    MaxDrops = 0
    MaxRetractions = 1
    Tasks <- VoteTasks
    UnknownMessages = {}
    BlockRetryLimit = 2
    ReadAnswers = {"ok", "error"}
    SubmitAnswers = {"ok", "error"}
    MaxStops = 0
    MaxCrashes = 0
PROPERTIES
    EveryTaskReturnsOrGap
    EventuallyApproved
INVARIANTS
    TwiceApprovedTwiceEncoded
CHECK_DEADLOCK FALSE
