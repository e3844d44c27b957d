SPECIFICATION Spec
CONSTANTS
    Emulator = {e1, e2}
    InstrRegs = {40, 41}
    InlineRegs = {48, 49, 50}
    Instruction <- MCInstruction
    MaxExpansions = 2
INVARIANTS
    ExpansionMatchesBytecode
CHECK_DEADLOCK FALSE
