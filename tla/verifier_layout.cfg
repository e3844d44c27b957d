SPECIFICATION Spec
CONSTANTS
    LogKChunk = 2
    LOG_K = 8
    LogKVirtualChunk = 4
    LogRegisters = 2
    NumLookupTables = 2
    SequentialSortVars = 5
    OtherLogT = 6
    MaxSteals = 0
    LogTs = {4}
    RamLogK = 5
    BytecodeLogK = 3
    AdviceSizes = {0, 3}
    OpeningIds <- MCOpeningIds
    Configs <- MCConfigs
INVARIANT
    LayoutComesFromProof
CHECK_DEADLOCK FALSE
