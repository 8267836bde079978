\* The comment on the connection's stop channel (connections/ethereum/connection.go):
\* all routines exit when it is closed.
CONSTANTS
    Deposits = {e1, e2}
    Matching = {e1}
    MaxHeight = 3
    MaxLogs = 1
    MaxReorg = 1
    ExecuteBlockWatchLimit = 2
    BlockRetryLimit = 2
    BlockConfirmations = 1
    RpcAnswers = {"ok", "error"}
SPECIFICATION FairSpec
PROPERTIES
    CloseEndsWatch
CHECK_DEADLOCK FALSE
