SPECIFICATION TraceSpec
CONSTANTS
    Word <- MCWord
    LongMod = 4
    LowWord <- MCLowWord
    HighWord <- MCHighWord
    SignExtend <- MCSignExtend
    Join <- MCJoin
    WordAddr = {1, 2, 3}
    DoubleAddr = {2}
    Rd = {5, 6}
INVARIANTS
    AssertionHolds
    NoStaleReservation
PROPERTIES
    TraceImplementsExec
