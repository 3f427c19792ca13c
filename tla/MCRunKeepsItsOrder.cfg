SPECIFICATION Spec
CONSTANTS
    Creator = {c1, c2}
    Submitter = {s1}
    Reconciler = {}
    OrderId = {o1, o2}
    Hash = {h1}
    Paying = {h1}
    NoId = NoId
    NoHash = NoHash
PROPERTIES
    RunKeepsItsOrder
