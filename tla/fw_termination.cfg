CONSTANTS
    Largest = 2
    main = main
    f = f
    g = g
    ext = ext
    Fun = {main, f, g}
    External = {ext}
    Entry = main
    Value <- Values
    CommandLines <- EndsOnly
    Programs <- BehindCallsOnly
    ContextShape <- MCContextShape
    TransformerShape <- MCTransformerShape
SPECIFICATION AnalysisSpec
INVARIANTS
    ReportIsSound
CHECK_DEADLOCK FALSE
