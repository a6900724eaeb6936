SPECIFICATION Spec
CONSTANTS
    Documents = {default, tour, example, scene, large}
    Default = default
    Examples = {tour, example}
    Linkable = {default, tour, example, scene}
    MaxEdits = 2
    None = none
    Broken = broken
INVARIANT NoLinkLeftBehind
