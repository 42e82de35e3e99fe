SPECIFICATION FairSpec
CONSTANTS
    n1 = n1
    n2 = n2
    n3 = n3
    Node <- Three
    First <- Two
    Scratch <- WithVolume
    None = None
    Least = 1
    MaxStops = 2
INVARIANTS StaleSizeIsOwed NoVolumeForgotten
PROPERTIES OnlyCommittedMembersLeave ImplementsCommittedResize InterruptedWorkEnds
