SPECIFICATION QueueFairSpec
CONSTANTS
    w1 = w1
    w2 = w2
    w3 = w3
    j1 = j1
    j2 = j2
    Job = {j1, j2}
    Worker = {w1, w2, w3}
    WorkerId = {w1, w2, w3}
    IdOf <- MCIdOf
    NoOwner = NoOwner
    MaxAttempts = 2
INVARIANTS
    QueueTypeOK
    OvertakenIsFenced
    HolderPassesFence
    WaitingRowsAreClaimable
PROPERTIES
    LiveLeaseIsRespected
    EveryLeaseEnds
