CONSTANTS
    Largest = 2
    main = main
    f = f
    g = g
    ext = ext
    Fun = {main, f, g}
    External = {ext}
    Entry = main
    Value <- Values
    CommandLines <- MCCommandLines
    Programs <- MCPrograms
    ContextShape <- MCContextShape
    TransformerShape <- MCTransformerShape
SPECIFICATION AnalysisSpec
INVARIANTS
    SummarizerTypeOK
    SummariesCover
    ContextsCover
    PassHoldsIfCallsReturn
    NoFrameTwice
    ReportIsSound
    VerdictsAreSound
    NeverReturnsIsReal
PROPERTIES
    SummariesOnlyImprove
    Summarized
CHECK_DEADLOCK FALSE
