CONSTANTS
    f = f
    g = g
    a = a
    b = b
    c = c
    t = t
    Property = {a, b, c, t}
    Function = {f, g}
    AssertsOf <- MCAssertsOf
    Trivial <- MCTrivial
    Formulas <- MCFormulas
    CommandLines <- MCCommandLines
    SolverMayFail = TRUE
SPECIFICATION CheckSpec
INVARIANTS
    PassIsAlwaysProved
CHECK_DEADLOCK FALSE
