SPECIFICATION Spec
CONSTANTS
    LogKChunk = 2
    LOG_K = 8
    LogKVirtualChunk = 4
    LogRegisters = 2
    NumLookupTables = 2
    SequentialSortVars = 5
    OtherLogT = 6
    MaxSteals = 1
    LogTs = {4, 5}
    RamLogK = 5
    BytecodeLogK = 3
    AdviceSizes = {0, 1, 2, 3, 4, 5, 6}
    OpeningIds <- MCOpeningIds
    Configs <- MCConfigs
INVARIANTS
    ProofNeverPanics
    SidesAgree
    TrueOpenings
    KernelsMatch
    ClaimWeightsMatch
    AppendedOnce
    EveryClaimUsed
    OpenedAtUnifiedPoint
    OwnMatrix
CHECK_DEADLOCK FALSE
