SPECIFICATION FairSpec
CONSTANTS
    Readbacks = {1, 2}
    Depth = 3
    MaxStep = 1
    Limit = 3
    LoneWait = 1
    SurplusFrames = 2
    None = none
INVARIANT PictureIsOfOneRun
INVARIANT PictureInvariant
PROPERTY PlayedOutNeverGoesBack
PROPERTY LastCopyIsShown
