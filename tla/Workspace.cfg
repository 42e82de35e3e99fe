SPECIFICATION FairSpec
CONSTANTS
    d1 = d1
    d2 = d2
    Deletions <- TwoDeletions
    Cleanup = Cleanup
    Creator = Creator
    Resizer = Resizer
    Nobody = Nobody
    MaxCreations = 2
    Domains = 2
    MaxTries = 2
    MaxMishaps = 1
INVARIANTS ResizeExcludesDeletion NamesGoBeforeInstances MarkersFollowWork
PROPERTIES WorkspaceGoesLast ExitTellsTheOutcome EveryScriptEnds
CHECK_DEADLOCK FALSE
