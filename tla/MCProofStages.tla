---------------------------- MODULE MCProofStages ----------------------------
EXTENDS ProofStages

CONSTANTS LogTs, RamLogK, BytecodeLogK, AdviceSizes

SumcheckIds ==
    {"SpartanOuter", "SpartanProductVirtualization", "InstructionClaimReduction", "SpartanShift",
     "InstructionInputVirtualization", "RegistersClaimReduction", "RamReadWriteChecking",
     "RamRafEvaluation", "RamOutputCheck", "RegistersReadWriteChecking", "RamValCheck",
     "InstructionReadRaf", "RamRaClaimReduction", "RegistersValEvaluation", "BytecodeReadRaf",
     "Booleanity", "RamHammingBooleanity", "RamRaVirtualization", "InstructionRaVirtualization",
     "IncClaimReduction", "HammingWeightClaimReduction", "AdviceClaimReductionCyclePhase",
     "AdviceClaimReduction"}

MCOpeningIds ==
    [poly : Polynomials([bytecode_log_K |-> BytecodeLogK, ram_log_K |-> RamLogK]),
     sumcheck : SumcheckIds]

Sizes(log_T, p1, p2, q1, q2, trusted, untrusted, layout) ==
    [log_T |-> log_T, ram_log_K |-> RamLogK, bytecode_log_K |-> BytecodeLogK,
     p1 |-> p1, p2 |-> p2, q1 |-> q1, q2 |-> q2,
     trusted |-> trusted, untrusted |-> untrusted, layout |-> layout]

\* Every split of read-write checking into phases, one advice.
PhaseConfigs ==
    LET log_T == Min(LogTs)
    IN  {Sizes(log_T, p1, p2, p1, Min({p2, LogRegisters}), 3, 0, "CycleMajor") :
            p1 \in 0 .. log_T, p2 \in 0 .. RamLogK}

\* Every advice that fits the matrix, of either kind, and some of both, in both
\* layouts, with the default phases.
AdvicePairs == (AdviceSizes \X {0}) \cup ({0} \X AdviceSizes) \cup {<<3, 5>>, <<6, 2>>}
AdviceConfigs ==
    {Sizes(log_T, log_T, RamLogK, log_T, LogRegisters, a[1], a[2], layout) :
        log_T \in LogTs, a \in AdvicePairs, layout \in Layouts}

MCConfigs ==
    {c \in PhaseConfigs \cup AdviceConfigs :
        /\ c.p1 + c.p2 > 0
        /\ \A kind \in AdviceKinds : FitsMatrix(c, kind)}

==============================================================================
