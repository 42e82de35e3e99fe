SPECIFICATION FairSpec
CONSTANTS
    Job <- Jobs
    User <- Users
    OwnerOf <- Submitters
    None = None
    MaxRuns = 1
    MaxMishaps = 1
INVARIANTS AcknowledgedIsDesired
PROPERTIES CorrectionKeepsRunningJobs TagFollowsAllocation
