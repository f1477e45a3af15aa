SPECIFICATION RoundTripSpec
CONSTANTS
    Encoders <- MCEncoders
    ColorPrimaries <- MCColorPrimaries
    Requests <- MCRequests
    WordSize <- MCWordSize
    MinTileSide <- MCMinTileSide
    GraySamples <- MCGraySamples
INVARIANTS
    ImportedIsExported
    SamplesSurvive
