SPECIFICATION Spec
CONSTANTS
    Writer = {w1, w2}
    MaxPuts = 2
INVARIANTS
    NoLostWakeup
PROPERTIES
    FifoDelivery
\* The reader waits for ever once every item has been taken.
CHECK_DEADLOCK FALSE
