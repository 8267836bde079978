\* One relayer and a message that is delivered twice, an upgrade in between or not;
\* a retracted block, a dropped extrinsic, a stop and a crash.
SPECIFICATION Spec
CONSTANTS
    r1 = r1
    r2 = r2
    m1 = m1
    first = first
    second = second
    Deliveries = {first, second}
    NoTask = NoTask
    Relayers = {r1}
    Messages = {m1}
    Threshold = 1
    MaxUpgrades = 1
    MaxDrops = 1
    MaxRetractions = 1
    Tasks <- NonceTasks
    UnknownMessages = {}
    BlockRetryLimit = 2
    ReadAnswers = {"ok", "error"}
    SubmitAnswers = {"ok", "error"}
    MaxStops = 1
    MaxCrashes = 1
SYMMETRY DeliverySymmetry
INVARIANTS
    FreshNonce
    OnlyLossMakesGap
    TwiceApprovedTwiceEncoded
CHECK_DEADLOCK FALSE
