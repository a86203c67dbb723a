SPECIFICATION WireSpec
CONSTANTS
    c1 = c1
    c2 = c2
    k1 = k1
    k2 = k2
    k3 = k3
    Clients = {c1, c2}
    Keys = {k1, k2}
    IssuedBy <- MCIssuedBy
    NoKey = NoKey
    MaxLinks = 2
    Schemas = {2}
    LateFlows = {"tick"}
    MaxFaults = 1
    MaxQueue = 3
INVARIANT MarksAreTrue
CHECK_DEADLOCK FALSE
