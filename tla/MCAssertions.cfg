SPECIFICATION Spec
CONSTANTS
    None = None
    NaN = NaN
    Roots <- MCRoots
    Responses <- MCResponses
    MaxOps = {3, 16}
    Complexities = {2, 5, 9, 100}
INVARIANTS
    RejectionNamesCulprit
    ErrorNamesItsLeaf
    GasNeverFlipsVerdict
    FailureDataExplain
    CutBodyNeverJudged
    VerdictIsTheMeaning
CHECK_DEADLOCK FALSE
