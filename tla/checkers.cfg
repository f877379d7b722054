CONSTANTS
    Top = 3
    p = p
    q = q
    main = main
    State <- Values
    Property = {p, q}
    AfterLoop = {q}
    Function = {main}
    AssertsOf <- MCAssertsOf
    Trivial = {}
    Formulas = {}
    Template <- MCTemplate
    SolverMayFail = FALSE
    CommandLines <- MCCommandLines
    Programs <- MCPrograms
SPECIFICATION CheckersSpec
INVARIANTS
    ProofIsSound
    CounterexampleIsReal
    PassIsNeverFirstToFail
    BaseCase
    BoundedLoopsAreDecided
PROPERTIES
    Stops
CHECK_DEADLOCK FALSE
