\* Violation run: OrigFallsBackToCeiling.
CONSTANTS
    ByteBits = 4
    TargetBits = 28
    powLimit <- MCLimitEras
    posLimit <- MCLimitEras
    hybridPowLimit <- MCLimitEras
    OrigMainPosLimit <- MCLimitEras
    nPowTargetSpacing = 64
    nPosTargetSpacing = 64
    nHybridPowTargetSpacing = 64
    nHybridPosTargetSpacing = 64
    nPosTargetSpacingMidas = 64
    nPosTargetTimespanMidas = 640
    nMinimumDifficultyBlocks = 0
    MidasStartHeight = 4
    DGWDifficultyStartHeight = 6
    POSStartHeight = 3
    POSPOWStartHeight = 100
    fPowNoRetargeting = FALSE
    fPowAllowMinDifficultyBlocks = FALSE
    Network = "main"
    DGWPastBlocks = 2
    HybridPastBlocks = 2
    GenesisTime = 1000
    Deltas <- MCDeltasEras
    Hashes <- MCHashes
    GarbageBits <- MCGarbage
    MaxHeight = 9
SPECIFICATION Spec
INVARIANT OrigFallsBackToCeiling
