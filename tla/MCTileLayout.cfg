SPECIFICATION Spec
CONSTANT FrameSizes <- MCFrameSizes
INVARIANTS
    TypeOK
    TilesWithinLimits
    NoSplitLost
    LayoutAcceptable
PROPERTY Terminates
