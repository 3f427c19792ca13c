SPECIFICATION Spec
CONSTANTS
    w1 = w1
    w2 = w2
    r1 = r1
    r2 = r2
    g1 = g1
    t1 = t1
    t2 = t2
    Job = {r1, r2}
    Worker = {w1, w2}
    WorkerId = {w1, w2}
    IdOf <- MCIdOf
    NoOwner = NoOwner
    MaxAttempts = 1
    Request = {g1}
    Script = {}
    Tx = {t1}
    Genuine <- MCGenuine
    NoTx = NoTx
    LatePayment = TRUE
    MaxCrashes = 1
SYMMETRY WorkersAndRuns
INVARIANTS
    OneTransferOneRun
