SPECIFICATION Spec
CONSTANTS
    Encoders <- MCEncoders
    ColorPrimaries <- MCColorPrimaries
    Requests <- MCRequests
INVARIANTS
    TypeOK
    ResourcesInOrder
    NothingLeftBehind
    BufferFits
    DeclaredColourMatchesPixels
    ErrorsCleared
    ProtocolKept
    QuantizersOrdered
    EncodedFileIsTheRequest
PROPERTIES
    ImplementsContract
    Terminates
