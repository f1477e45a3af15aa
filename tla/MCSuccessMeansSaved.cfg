SPECIFICATION Spec
CONSTANTS
    Encoders <- MCEncoders
    ColorPrimaries <- MCColorPrimaries
    Requests <- ClaimRequests
INVARIANT SuccessMeansSaved
