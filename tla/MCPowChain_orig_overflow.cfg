\* Legacy era only, PoW blocks, ceilings with the code's 20-bit headroom; a pause of about six days.
CONSTANTS
    ByteBits = 4
    TargetBits = 28
    powLimit <- MCLimitHeadroom
    posLimit <- MCLimitHeadroom
    hybridPowLimit <- MCLimitHeadroom
    OrigMainPosLimit <- MCLimitHeadroom
    nPowTargetSpacing = 64
    nPosTargetSpacing = 64
    nHybridPowTargetSpacing = 64
    nHybridPosTargetSpacing = 64
    nPosTargetSpacingMidas = 64
    nPosTargetTimespanMidas = 640
    nMinimumDifficultyBlocks = 0
    MidasStartHeight = 100
    DGWDifficultyStartHeight = 100
    POSStartHeight = 100
    POSPOWStartHeight = 100
    fPowNoRetargeting = FALSE
    fPowAllowMinDifficultyBlocks = FALSE
    Network = "main"
    DGWPastBlocks = 2
    HybridPastBlocks = 2
    GenesisTime = 1000
    Deltas <- MCDeltasOrigPause
    Hashes <- MCHashes
    GarbageBits <- MCGarbage
    MaxHeight = 4
SPECIFICATION Spec
INVARIANT OrigStepMovesTowardSpacing
