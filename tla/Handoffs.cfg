SPECIFICATION HandoffSpec
CONSTANTS
    h1 = h1
    h2 = h2
    c1 = c1
    c2 = c2
    Servers = {s1, s2}
    HKeys = {h1}
    Refs = {c1}
    RefOf <- OneRefOf
    Actors = {x, y}
    NoActor = NoActor
    Ttls = {1, Never}
    Never = Never
    MaxTime = 2
    MaxCalls = 3
INVARIANTS ClaimsAreTimely BeginHonoured
