SPECIFICATION FairSpec
CONSTANTS
    Attempt = {a1, a2}
    Thresholds <- Levels
    Missing = Missing
    Corrupt = Corrupt
    None = None
    MaxResumes = 2
    MaxMishaps = 2
INVARIANTS CountIsTrailingFailures ResultsStayInTheirEra RecordTellsTheHistory
PROPERTIES ImplementsLatch EverySpawnedAttemptIsSettled
CHECK_DEADLOCK FALSE
