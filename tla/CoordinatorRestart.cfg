SPECIFICATION Spec
CONSTANTS
    a = a
    u = u
    w = w
    NoWorkspace = NoWorkspace
    Keys = {a, u}
    OutboxKeys = {a, u}
    Appends = {a}
    Refusing = {}
    Requires <- NoRequires
    Tolerated = {}
    Workspaces = {w}
    WorkspaceOf <- MCWorkspaceOf
    MaxCopies = 2
    Nodes = {n1}
    MaxReplayBatch = 1
    CheckpointEvery = 2
    MaxCalls = 1
    MaxIssuers = 4
    Faults = {"crash"}
    MaxFaults = 2
INVARIANTS AckedWritesServed
