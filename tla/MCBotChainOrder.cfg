SPECIFICATION FairSpec
CONSTANTS
    Creator = {c1, c2}
    Submitter = {s1, s2}
    Reconciler = {p1, p2}
    OrderId = {o1, o2}
    Hash = {h1, h2}
    Paying = {h1}
    NoId = NoId
    NoHash = NoHash
INVARIANTS
    TypeOK
    ProofMatchesSubmission
PROPERTIES
    SubmittedPaymentIsFunded
