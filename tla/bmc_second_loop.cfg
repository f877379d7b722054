CONSTANTS
    Var <- MCVar
    Value <- MCValue
    Drawn = {"0", "1"}
    Inputs <- MCInputs
    Functions <- MCSecondLoopFails
    Modes = {"NORMAL", "BMC", "K_INDUCTION"}
    MaxUnwind = 3
SPECIFICATION ExecutionSpec
INVARIANT FailureReported
CHECK_DEADLOCK FALSE
