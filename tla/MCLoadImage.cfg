SPECIFICATION Spec
CONSTANTS
    WordSize <- MCWordSize
    MinTileSide <- MCMinTileSide
    KnownPrimaries <- MCKnownPrimaries
    Files <- MCFiles
INVARIANTS
    TypeOK
    ResourcesInOrder
    NothingLeftBehind
    ErrorsCleared
    PlanesComplete
    CropInsideImage
    CropAsLibavif
    DisplayedAsStored
PROPERTIES
    ImplementsContract
    Terminates
