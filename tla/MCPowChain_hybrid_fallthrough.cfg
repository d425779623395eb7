\* Hybrid era from height 3 while PoS retargeting starts above height 5.
CONSTANTS
    ByteBits = 4
    TargetBits = 28
    powLimit <- MCLimitHybrid
    posLimit <- MCLimitHybrid
    hybridPowLimit <- MCLimitHybrid
    OrigMainPosLimit <- MCLimitHybrid
    nPowTargetSpacing = 64
    nPosTargetSpacing = 64
    nHybridPowTargetSpacing = 64
    nHybridPosTargetSpacing = 64
    nPosTargetSpacingMidas = 64
    nPosTargetTimespanMidas = 640
    nMinimumDifficultyBlocks = 1
    MidasStartHeight = 0
    DGWDifficultyStartHeight = 0
    POSStartHeight = 5
    POSPOWStartHeight = 3
    fPowNoRetargeting = FALSE
    fPowAllowMinDifficultyBlocks = TRUE
    Network = "test"
    DGWPastBlocks = 2
    HybridPastBlocks = 2
    GenesisTime = 1000
    Deltas <- MCDeltasHybrid
    Hashes <- MCHashes
    GarbageBits <- MCGarbage
    MaxHeight = 6
SPECIFICATION Spec
INVARIANT NextWorkDefined
