SPECIFICATION Spec
CONSTANTS
    Item = {a, b}
    BatchSize = 2
    ChannelDepth = 1
    MaxItems = 5
INVARIANTS
    OkMeansComplete
    FileHasNoGap
    BoundedBacklog
PROPERTIES
    WritesTraceFile
    FinalizeReturns
CHECK_DEADLOCK FALSE
