CONSTANTS
    Var <- MCVar
    Value <- MCValue
    Drawn = {"0", "1"}
    Inputs <- MCInputs
    Functions <- MCFunctions
    Modes = {"NORMAL", "BMC", "K_INDUCTION"}
    MaxUnwind = 3
SPECIFICATION ExecutionSpec
INVARIANTS
    ExecutionTypeOK
    SSAAgrees
    SingleAssignment
    ContinuationExact
    AssertionsKept
    FailureReported
    NonterminationIsReal
    NonterminationIsFound
PROPERTIES
    AnalysisEnds
    RefinesSource
CHECK_DEADLOCK FALSE
