SPECIFICATION MCSpec
CONSTANTS
    Cpu <- MCCpu
    BootCpu <- MCBootCpu
    Pc <- MCPc
    ResetPc = 0
    Index <- MCIndex
    Value <- Opcodes
    Zero = 0
    BootMemory <- MCBootMemory
    Cycle <- MCCycle
    PcOf <- MCPcOf
    FetchSet <- MCFetchSet
    DataSet <- MCDataSet
    Exec <- MCExec
    MaxCycles = 5
    MaxCheckpoints = 3
    Interval = 2
INVARIANTS
    ReplayMatchesTrace
    ReplayInvariant
    ChunksAreIntervals
    ReplaysRebuildTrace
PROPERTIES
    EveryReplayEnds
CHECK_DEADLOCK FALSE
