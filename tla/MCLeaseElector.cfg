\* Two processes, one of which may crash and be stopped; two epochs.
SPECIFICATION FairSpec
CONSTANTS
    Node = {n1, n2}
    NoNode = NoNode
    LeaseMs = 2
    FailSafeMs = 1
    OperationMs = 1
    Punctual = FALSE
    Mortal = {n1}
    Stoppable = {n1}
    MaxEpoch = 2
    MaxLate = 1
INVARIANTS OneWorkload LeaderCovered
PROPERTIES ImplementsFencedOwner Takeover
