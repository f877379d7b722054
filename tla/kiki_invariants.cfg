CONSTANTS
    Top = 3
    p = p
    q = q
    main = main
    State <- Values
    Property = {p, q}
    AfterLoop = {q}
    Function = {main}
    AssertsOf <- MCAssertsOf
    Trivial = {}
    Formulas = {}
    Template <- MCTemplate
    SolverMayFail = FALSE
    CommandLines <- KikiCommandLines
    Programs <- KikiPrograms
SPECIFICATION CheckersSpec
INVARIANTS
    ProofIsSound
CHECK_DEADLOCK FALSE
