SPECIFICATION FairSpec
CONSTANTS
    n1 = n1
    n2 = n2
    n3 = n3
    Node <- Three
    First <- One
    None = None
    MaxStops = 2
    MaxLost = 1
INVARIANTS NeverBothPending
PROPERTIES OnlyCommittedRemovals RemovalIsComplete RemovalsEnd
CHECK_DEADLOCK FALSE
