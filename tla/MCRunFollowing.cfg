SPECIFICATION FairSpec
CONSTANTS
    Run = {r1, r2}
    NoRun = NoRun
    Reached = {"PAYMENT_REQUIRED", "FUNDED", "ANALYZING", "EVIDENCE_BUILDING", "ATTESTING", "DELIVERED_PASS", "EXPIRED"}
    Poll = {p1, p2}
    MaxFaults = 1
INVARIANTS
    ProgressIsOfShownRun
PROPERTIES
    HeardTransferIsLast
    DeliveredIsShown
