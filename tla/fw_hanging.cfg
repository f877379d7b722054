CONSTANTS
    Largest = 2
    main = main
    f = f
    g = g
    ext = ext
    Fun = {main, f, g}
    External = {ext}
    Entry = main
    Value <- Values
    CommandLines <- DefaultOnly
    Programs <- HangingOnly
    ContextShape <- MCContextShape
    TransformerShape <- MCTransformerShape
SPECIFICATION AnalysisSpec
INVARIANTS
    PassIsSound
CHECK_DEADLOCK FALSE
