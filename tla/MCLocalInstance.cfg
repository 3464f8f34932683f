\* Three starts of one node, three inodes, two crashes.
SPECIFICATION FairSpec
CONSTANTS
    Proc = {p1, p2, p3}
    Inode = {i1, i2, i3}
    None = None
    MaxCrashes = 2
INVARIANTS OneInstance EndpointKept
PROPERTY StaleIsRecovered
