CONSTANTS
    NPhi <- MCNPhi
    NQp <- MCNQp
    DPhi <- MCDPhi
    JxW <- MCJxW
    MatA <- MCMatA
    MatB <- MCMatB
    MatD <- MCMatD
    DMatA <- MCDMatA
    DMatB <- MCDMatB
    DMatD <- MCDMatD
    BendOp <- MCBendOp
    IfBending = TRUE
    IfVk = TRUE
    DependsOnP = TRUE
    DrillPenalty = 1
    IfPrestressed = TRUE
    PreA <- MCPreA
    PreB <- MCPreB
    DPreA <- MCDPreA
    DPreB <- MCDPreB
    ExpA <- MCExpA
    ExpB <- MCExpB
    DExpA <- MCDExpA
    DExpB <- MCDExpB
    Temp = 3
    RefTemp = 1
    DTemp = 1
    DRefTemp = 1
    SideNQp = 1
    SidePhi <- MCSidePhi
    SideJxW <- MCSideJxW
    SideNormal <- MCSideNormal
    Press = 2
    Thick = 1
    DPress = 1
    DThick = 1
    Solutions <- MCSolutions
    Sensitivities <- MCSensitivities
    MaxCalls = 1
SPECIFICATION ContextSpec
INVARIANT LoadSensitivityConsistent
