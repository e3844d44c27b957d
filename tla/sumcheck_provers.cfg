SPECIFICATION Spec
CONSTANTS
    FieldSize = 32749
    ParThreshold = 2
    MaxTableSize = 16
    RegisterCount = 4
    WordBytes = 2
    RamStart = 64
    Instances <- MCInstances
    Challenges <- MCChallenges
INVARIANTS
    RoundsTrue
    OpeningsTrue
    ConstraintsAgree
    OnChainAgrees
    AlgorithmsAgree
CHECK_DEADLOCK FALSE
