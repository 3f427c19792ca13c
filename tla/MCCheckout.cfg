SPECIFICATION Spec
CONSTANTS
    Registration <- MCRegistration
    MaxOnboardings = 1
    Terms <- MCTerms
    Budget = 100
    Request = {g1, g2}
    NoRequest = NoRequest
    MaxQuotes = 2
    MaxOrders = 2
    MaxFaults = 2
INVARIANTS
    OneRunPerQuote
    AskedAsQuoted
    AnsweredOrderIsStored
    QuotedTargetWasRegistered
CHECK_DEADLOCK FALSE
