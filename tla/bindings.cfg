\* Every event of the bindings, every query over two values, up to two logs.
CONSTANTS
    v1 = v1
    v2 = v2
    Values = {v1, v2}
    Emittable <- MCEmittable
    Capacity = 1
    MaxLogs = 2
SPECIFICATION FairSpec
INVARIANTS
    InOrder
    CompleteUnlessFailed
PROPERTIES
    CallsReturn
\* A watch that was unsubscribed has nothing left to do.
CHECK_DEADLOCK FALSE
