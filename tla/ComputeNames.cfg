SPECIFICATION FairSpecOfOne
CONSTANTS
    n1 = n1
    n2 = n2
    h1 = h1
    h2 = h2
    Node <- Two
    Created <- One
    Host <- Names
    Other = Other
    None = None
    MaxStops = 1
    MaxChanges = 2
PROPERTIES NothingLeftInDns AliasesSurvive ForeignRecordsSurvive SynchronizedNamesAgree PlansEnd
CHECK_DEADLOCK FALSE
