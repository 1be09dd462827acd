CONSTANTS
    Dim = 2
    NPhi = 4
    NQp = 4
    Phi <- MCPhi
    DPhi <- MCDPhi
    JxW <- MCJxW
    VelocityFields <- MCVelocityFields
    Solutions <- MCSolutions
    Rates <- MCRates
    MaxCalls = 1
SPECIFICATION Spec
INVARIANT TangentConsistent
INVARIANT TravellingSolutionResidualZero
INVARIANT ResidualFinite
