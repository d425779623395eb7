\* Testnet: Orig, Midas, DGW window, the testnet exception, then PoS; a PoS ceiling below the PoW one.
CONSTANTS
    ByteBits = 4
    TargetBits = 28
    powLimit <- MCLimitEras
    posLimit <- MCPosLimitTest
    hybridPowLimit <- MCLimitEras
    OrigMainPosLimit <- MCLimitEras
    nPowTargetSpacing = 64
    nPosTargetSpacing = 64
    nHybridPowTargetSpacing = 64
    nHybridPosTargetSpacing = 64
    nPosTargetSpacingMidas = 64
    nPosTargetTimespanMidas = 640
    nMinimumDifficultyBlocks = 0
    MidasStartHeight = 1
    DGWDifficultyStartHeight = 3
    POSStartHeight = 10
    POSPOWStartHeight = 100
    fPowNoRetargeting = FALSE
    fPowAllowMinDifficultyBlocks = FALSE
    Network = "test"
    DGWPastBlocks = 3
    HybridPastBlocks = 2
    GenesisTime = 1000
    Deltas <- MCDeltasEras
    Hashes <- MCHashes
    GarbageBits <- MCGarbage
    MaxHeight = 12
SPECIFICATION Spec
INVARIANT PowBlocksSolvable
INVARIANT StakeTargetsWithinPosLimit
