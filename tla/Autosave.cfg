SPECIFICATION FairSpec
CONSTANTS
    Documents = {default, tour, example, scene, large}
    Default = default
    Examples = {tour, example}
    Linkable = {default, tour, example, scene}
    MaxEdits = 4
    None = none
    Broken = broken
INVARIANT QuietMeansKept
INVARIANT AwayMeansKept
INVARIANT AutosaveInvariant
PROPERTY StopSaysSaved
PROPERTY LeftOpenEndsKept
