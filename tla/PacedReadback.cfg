SPECIFICATION FairSpec
CONSTANTS
    Readbacks = {state, next_state}
    Large = {}
    Size <- Sizes
    Buffers = {b1, b2, b3, b4, b5}
    Depth = 2
    UnusedKept = 2
    MaxStep = 0
INVARIANT ReadbackInvariant
INVARIANT PoolIsBounded
PROPERTY KeepsDelivering
