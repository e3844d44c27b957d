SPECIFICATION ProofSpec
CONSTANTS
    XLEN = 16
    Values <- MCValues
    CornerValues <- MCCornerValues
    Patterns <- MCPatterns
    Offsets <- MCOffsets
    Deltas <- MCDeltas
    FieldSize = 32749
    Phases = {4, 8}
    Challenges <- MCChallenges
    Gamma = 12345
    EqCycle = 777
    Sample <- MCSample
INVARIANTS
    InputsVirtualized
CHECK_DEADLOCK FALSE
