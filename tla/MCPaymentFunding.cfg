SPECIFICATION FairSpec
CONSTANTS
    w1 = w1
    w2 = w2
    r1 = r1
    g1 = g1
    t1 = t1
    t2 = t2
    Job = {r1}
    Worker = {w1, w2}
    WorkerId = {w1, w2}
    IdOf <- MCIdOf
    NoOwner = NoOwner
    MaxAttempts = 2
    Request = {g1}
    Script = {}
    Tx = {t1, t2}
    Genuine <- MCGenuine
    NoTx = NoTx
    LatePayment = TRUE
    MaxCrashes = 0
INVARIANTS
    FundingIsBacked
    OpenRunIsWatched
PROPERTIES
    ImplementsLifecycle
    ImplementsQueue
    EveryRunSettles
    SettledRunsLeaveQueue
