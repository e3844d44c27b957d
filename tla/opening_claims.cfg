SPECIFICATION Spec
CONSTANTS
    p1 = p1
    p2 = p2
    p3 = p3
    q1 = q1
    pmid = pmid
    r1 = r1
    r2 = r2
    none = none
    Key <- MCKey
    PolyOf <- MCPolyOf
    Point <- MCPoint
    NoPoint = none
    Claim = {0, 1}
    Zero = 0
    Intermediate = {pmid}
    OpenPoints = {r1, r2}
    Evaluations <- MCEvaluations
    MaxSteps = 6
    MaxForgedSteps = 4
SYMMETRY MCSymmetry
INVARIANTS
    HonestNeverPanics
    TranscriptsAgree
    ReadsTrueOpening
    OneAbsorbedClaimPerPoint
    AliasesEnd
CHECK_DEADLOCK FALSE
