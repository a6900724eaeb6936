SPECIFICATION FairSpec
CONSTANTS
    Readbacks = {state}
    Large = {}
    Size <- Sizes
    Buffers = {b1, b2, b3, b4}
    Depth = 3
    UnusedKept = 2
    MaxStep = 3
PROPERTY KeepsThePromise
PROPERTY UnusedIsRetired
