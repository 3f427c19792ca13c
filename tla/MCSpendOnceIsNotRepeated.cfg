SPECIFICATION Spec
CONSTANTS
    Job = {r1}
    Worker = {w1}
    WorkerId = {w1}
    IdOf <- MCIdOf
    NoOwner = NoOwner
    MaxAttempts = 2
    Script = {}
    Proposal <- MCProposal
    Mandatory = {"payment-proof-replay"}
    Price = {1}
    Ceiling = 2
    Remote = {}
    ProofOf <- MCProofOf
    ProviderSigns = TRUE
    MaxExpired = 0
    MaxForeign = 0
    MaxPauses = 0
    MaxCrashes = 1
    MaxOverruns = 1


PROPERTY
    SpendOnceIsNotRepeated
CHECK_DEADLOCK FALSE
