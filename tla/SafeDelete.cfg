SPECIFICATION FairSpec
CONSTANTS
    n1 = n1
    n2 = n2
    n3 = n3
    Node <- TwoNodes
    Initial <- TwoNodes
    Nobody = Nobody
    Admin = Admin
    Manual = Manual
    MaxPasses = 1
    MaxFaults = 1
    MaxActs = 1
INVARIANTS DeletionFindsNoJob DeletionStaysFenced WithdrawnPassLeavesNoDrain
PROPERTIES PriorDrainsSurvive EveryPassEnds
