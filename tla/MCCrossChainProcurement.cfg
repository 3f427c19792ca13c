SPECIFICATION FairSpec
CONSTANTS
    Job = {r1}
    Worker = {w1, w2}
    WorkerId = {w1, w2}
    IdOf <- MCIdOf
    NoOwner = NoOwner
    MaxAttempts = 2
    Price = {2, 3}
    Ceiling = 2
    PolicyCost = 1
    Budget = {0, 1}
    Delivery = {1, 2}
    MaxFaults = 2

INVARIANTS
    BridgeIsSentOnce
    OneAuthorizationPerRun
    FundedBeforePaid
    CompletedIsPaid
PROPERTIES
    ImplementsStates
    EveryJobEnds
CHECK_DEADLOCK FALSE
