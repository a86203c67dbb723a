SPECIFICATION Spec
CONSTANTS
    a = a
    u = u
    w = w
    NoWorkspace = NoWorkspace
    Keys = {a, u}
    OutboxKeys = {a, u}
    Appends = {a}
    Refusing = {}
    Requires <- NoRequires
    Tolerated = {}
    Workspaces = {w}
    WorkspaceOf <- MCWorkspaceOf
    MaxCopies = 2
    Nodes = {n1}
    MaxReplayBatch = 2
    CheckpointEvery = 2
    MaxCalls = 2
    MaxIssuers = 4
    Faults = {"disconnect", "outage", "projection"}
    MaxFaults = 3
INVARIANTS ServedExactly CacheMatchesNative
