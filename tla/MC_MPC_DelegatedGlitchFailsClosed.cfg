CONSTANTS
    PCs = {0, 1, 2}
    SpmPC = 1
    InvalidPC = invalid
    Mems <- MCMems
    MemCfg <- MCMemCfg
    Word = 16
    SeBlockSize = 2
    RramBlockSize = 2
    RramBlocks = 2
    StaticTables <- MCStaticTables
    FixedCfgs <- MCFixedCfgs
    MaxFixed = 5
    Assets <- MCAssets
    IsolationLevel = 3
    FihOn = TRUE
    FihHigh = TRUE
    GateReset <- MCGateReset
    GateResets <- MCGateResets
    CacheDefault <- MCCacheDefault
    Parts <- MCParts
    SecurePC <- MCSecurePC
    NonSecurePC <- MCNonSecurePC
    NsAgent <- MCNsAgent
    CheckBases = {0, 1, 2, 3, 4, 5, 6, 7}
    CheckSizes = {1, 2, 3, 4}
    GlitchVals <- MCGlitchVals
SPECIFICATION Spec
INVARIANT DelegatedGlitchFailsClosed
