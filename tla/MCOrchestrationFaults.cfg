SPECIFICATION FairSpec
CONSTANTS
    Job = {r1}
    Worker = {w1}
    WorkerId = {w1}
    IdOf <- MCIdOf
    NoOwner = NoOwner
    MaxAttempts = 2
    Script = {s1}
    Proposal <- MCProposal
    Mandatory = {"payment-proof-replay"}
    Price = {1}
    Ceiling = 2
    Remote = {}
    ProofOf <- MCProofOf
    ProviderSigns = TRUE
    MaxExpired = 1
    MaxForeign = 1
    MaxPauses = 1
    MaxCrashes = 1
    MaxOverruns = 1
PROPERTIES
    SettlesOnce
    EveryJobEnds
CHECK_DEADLOCK FALSE
