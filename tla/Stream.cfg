CONSTANTS
    g1 = g1
    c1 = c1
    c2 = c2
    NulName = NulName
    Groups = {g1}
    Consumers = {c1, c2}
    ClaimLists <- DistinctLists
    ClaimOpts <- MCClaimOpts
    MaxId = 2
    MaxPending = 2
SPECIFICATION Spec
INVARIANTS MemExact OneOwner GroupDelivers ReplyFramed
SYMMETRY MCSymmetry
