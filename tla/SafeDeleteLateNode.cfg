SPECIFICATION Spec
CONSTANTS
    n1 = n1
    n2 = n2
    n3 = n3
    Node <- WithSpare
    Initial <- OneMember
    Nobody = Nobody
    Admin = Admin
    Manual = Manual
    MaxPasses = 1
    MaxFaults = 0
    MaxActs = 1
PROPERTIES NoJobInDeletedCluster

