\* Dark Gravity Wave from height 1 on main, PoW only; windows of 2; blocks on schedule or late.
CONSTANTS
    ByteBits = 4
    TargetBits = 28
    powLimit <- MCLimitEras
    posLimit <- MCLimitEras
    hybridPowLimit <- MCLimitEras
    OrigMainPosLimit <- MCLimitEras
    nPowTargetSpacing = 64
    nPosTargetSpacing = 64
    nHybridPowTargetSpacing = 64
    nHybridPosTargetSpacing = 64
    nPosTargetSpacingMidas = 64
    nPosTargetTimespanMidas = 640
    nMinimumDifficultyBlocks = 0
    MidasStartHeight = 0
    DGWDifficultyStartHeight = 1
    POSStartHeight = 100
    POSPOWStartHeight = 100
    fPowNoRetargeting = FALSE
    fPowAllowMinDifficultyBlocks = FALSE
    Network = "main"
    DGWPastBlocks = 2
    HybridPastBlocks = 2
    GenesisTime = 1000
    Deltas <- MCDeltasEras
    Hashes <- MCHashes
    GarbageBits <- MCGarbage
    MaxHeight = 6
SPECIFICATION Spec
INVARIANT DGWOnScheduleKeepsTarget
