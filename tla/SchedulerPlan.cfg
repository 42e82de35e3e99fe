SPECIFICATION PlanSpec
CONSTANTS
    j1 = j1
    j2 = j2
    j3 = j3
    Job <- Jobs
    Wants <- Sizes
    MaxClusterCount = 2
    MaxClusterSize = 2
    MaxNumberNodes = 3
    NoJob = NoJob
    MaxCreations = 3
    Prompt = TRUE
SYMMETRY Symmetry
INVARIANTS NamesAreFresh ClustersWithinCount
PROPERTIES NodesWithinLimit NoCreationUnasked
