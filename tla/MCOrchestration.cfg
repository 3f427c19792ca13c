SPECIFICATION Spec
CONSTANTS
    Job = {r1}
    Worker = {w1, w2}
    WorkerId = {w1, w2}
    IdOf <- MCIdOf
    NoOwner = NoOwner
    MaxAttempts = 2
    Script = {}
    Proposal <- MCProposal
    Mandatory = {"payment-proof-replay"}
    Price = {1, 2}
    Ceiling = 2
    Remote = {}
    ProofOf <- MCProofOf
    ProviderSigns = TRUE
    MaxExpired = 0
    MaxForeign = 0
    MaxPauses = 0
    MaxCrashes = 0
    MaxOverruns = 1

SYMMETRY MCSymmetry
INVARIANTS
    TypeOK
    OnePurchasePerRun
    BudgetIsConserved
    VerdictIsEarned
    DeliveredIsAttested
    CompletedIsDelivered
PROPERTIES
    ImplementsLifecycle
CHECK_DEADLOCK FALSE
