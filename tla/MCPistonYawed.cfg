CONSTANTS
    NPhi = 1
    DPhi <- MCDPhi
    NQp = 2
    JxW <- MCJxW
    Phi <- MCPhi
    VelVec <- MCFlowYawed
    Cx = 1
    Ct = 2
    DCx = 1
    DCt = 3
    Solutions <- MCSolutions
    Velocities <- MCVelocities
    MaxCalls = 1
SPECIFICATION Spec
INVARIANT PistonJacobianConsistent
