SPECIFICATION Spec
CONSTANTS
    None = None
    MaxTime = 6
    Series <- MCSeries
INVARIANTS
    SplitsSeries
    CancelsOnlyFinished
PROPERTIES
    TakesEverythingDue
    FiniteSeriesEnds
