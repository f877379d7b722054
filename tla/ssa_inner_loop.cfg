CONSTANTS
    Var <- MCVar
    Value <- MCValue
    Drawn = {"0", "1"}
    Inputs <- MCInputs
    Functions <- MCLoopAfterInnerLoop
    Modes = {"NORMAL", "BMC", "K_INDUCTION"}
    MaxUnwind = 3
SPECIFICATION ExecutionSpec
INVARIANT SSAAgrees
CHECK_DEADLOCK FALSE
