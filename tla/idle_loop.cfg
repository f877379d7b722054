CONSTANTS
    Top = 2
    Rows = 4
    Min <- MCMin
    Max = 2
    InRow <- MCInRow
    Systems <- IdleOnly
    Loops <- LoopsOf
    Iterations <- IterationsOf
    Probes <- MCProbes
    CommandLines <- MCCommandLines
    MaxElements = 2
    MaxIterations = 2
    CoeffBound <- MCCoeffBound
SPECIFICATION ArgumentSpec
INVARIANT ArgumentIsProof
CHECK_DEADLOCK FALSE
