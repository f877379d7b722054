CONSTANTS
    Top = 2
    Rows = 4
    Min <- MCMin
    Max = 2
    InRow <- MCInRow
    Systems <- MCSystems
    Loops <- LoopsOf
    Iterations <- IterationsOf
    Probes <- MCProbes
    CommandLines <- MCCommandLines
    MaxElements = 2
    MaxIterations = 2
    CoeffBound <- MCCoeffBound
SPECIFICATION ArgumentSpec
INVARIANTS
    SolverTypeOK
    SearchImproves
    CoversExecutions
    EnumerationIsExact
    ArgumentIsProof
    RankingIsFound
PROPERTIES
    Answers
    SolversRefine
CHECK_DEADLOCK FALSE
