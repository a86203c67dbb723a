SPECIFICATION LogSpec
CONSTANTS
    k1 = k1
    k2 = k2
    k3 = k3
    OutboxKeys = {k1, k2, k3}
    p = p
    q = q
    Writers = {p}
    MaxLines = 4
    MaxKills = 1
    TornKills = FALSE
INVARIANTS ReadersAgree
PROPERTIES LogImplementsQueue
