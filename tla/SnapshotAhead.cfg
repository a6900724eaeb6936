SPECIFICATION Spec
CONSTANTS
    Readbacks = {1, 2}
    Depth = 3
    MaxStep = 2
    Limit = 3
    LoneWait = 1
    SurplusFrames = 2
    None = none
PROPERTY PaintedNeverGoesBack
