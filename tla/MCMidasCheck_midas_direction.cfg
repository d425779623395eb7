\* Midas with a 64 s spacing and a 640 s timespan; targets scaled as in MCPowChain.
CONSTANTS
    ByteBits = 4
    TargetBits = 28
    powLimit <- MCLimit
    posLimit <- MCLimit
    hybridPowLimit <- MCLimit
    OrigMainPosLimit <- MCLimit
    nPowTargetSpacing = 64
    nPosTargetSpacing = 64
    nHybridPowTargetSpacing = 64
    nHybridPosTargetSpacing = 64
    nPosTargetSpacingMidas = 64
    nPosTargetTimespanMidas = 640
    nMinimumDifficultyBlocks = 0
    MidasStartHeight = 4
    DGWDifficultyStartHeight = 6
    POSStartHeight = 3
    POSPOWStartHeight = 100
    fPowNoRetargeting = FALSE
    fPowAllowMinDifficultyBlocks = FALSE
    Network = "main"
    DGWPastBlocks = 2
    HybridPastBlocks = 2
    Offsets <- MCOffsets
    Avgs <- MCAvgs
    Bits <- MCBits
    Schedule = 10000
SPECIFICATION Spec
INVARIANT MidasCorrectsTowardDesired
