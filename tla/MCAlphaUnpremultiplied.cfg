SPECIFICATION Spec
CONSTANTS
    WordSize <- MCWordSize
    MinTileSide <- MCMinTileSide
    KnownPrimaries <- MCKnownPrimaries
    Files <- ClaimFiles
INVARIANT
    AlphaUnpremultiplied
