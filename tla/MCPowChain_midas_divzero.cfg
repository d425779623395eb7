\* Orig -> Midas -> Dark Gravity Wave on main, PoS from height 3.
CONSTANTS
    ByteBits = 4
    TargetBits = 28
    powLimit <- MCLimitMidas
    posLimit <- MCLimitMidas
    hybridPowLimit <- MCLimitMidas
    OrigMainPosLimit <- MCLimitMidas
    nPowTargetSpacing = 64
    nPosTargetSpacing = 64
    nHybridPowTargetSpacing = 64
    nHybridPosTargetSpacing = 64
    nPosTargetSpacingMidas = 64
    nPosTargetTimespanMidas = 640
    nMinimumDifficultyBlocks = 0
    MidasStartHeight = 1
    DGWDifficultyStartHeight = 100
    POSStartHeight = 100
    POSPOWStartHeight = 100
    fPowNoRetargeting = FALSE
    fPowAllowMinDifficultyBlocks = FALSE
    Network = "main"
    DGWPastBlocks = 2
    HybridPastBlocks = 2
    GenesisTime = 1000
    Deltas <- MCDeltasMidasBackward
    Hashes <- MCHashes
    GarbageBits <- MCGarbage
    MaxHeight = 11
SPECIFICATION Spec
INVARIANT NextWorkDefined
