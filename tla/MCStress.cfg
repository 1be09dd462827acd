CONSTANTS
    NPhi <- MCNPhi
    NQp <- MCNQp
    DPhi <- MCDPhi
    BendOp <- MCBendOp
    Mat <- MCMat
    DMat <- MCDMat
    H = 2
    DH = 1
    Off = 1
    DOff = 1
    ThermalLoad = TRUE
    Temp = 3
    DTemp = 1
    RefTemp = 1
    DRefTemp = 1
    Alpha = 1
    DAlpha = 0
    IfBending = TRUE
    IfVk = TRUE
    Solutions <- MCSolutions
    Sensitivities <- MCSensitivities
SPECIFICATION Spec
INVARIANT TypeOK
INVARIANT RecordsMatchPoints
INVARIANT StressDataConsistent
