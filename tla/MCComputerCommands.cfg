\* Two nodes, a user, two package contents of which one is kept.
SPECIFICATION CommandsSpec
CONSTANTS
    Node = {n1, n2}
    User = {u1}
    Sha = {a, b}
    Keep = 1
    MaxRows = 2
    MaxUploads = 2
    MaxFaults = 2
SYMMETRY Symmetry
INVARIANTS ServedOnceInOrder OutcomeIsTrue
PROPERTY NeededIsKept
