SPECIFICATION Spec
CONSTANTS
    w1 = w1
    r1 = r1
    g1 = g1
    s1 = s1
    t1 = t1
    t2 = t2
    Job = {r1}
    Worker = {w1}
    WorkerId = {w1}
    IdOf <- MCIdOf
    NoOwner = NoOwner
    MaxAttempts = 2
    Request = {g1}
    Script = {s1}
    Tx = {t1}
    Genuine <- MCGenuine
    NoTx = NoTx
    LatePayment = FALSE
    MaxCrashes = 0
PROPERTIES
    LostExpiryIsANoOp
