SPECIFICATION Spec
CONSTANTS
    a = a
    u = u
    w = w
    NoWorkspace = NoWorkspace
    Keys = {a, u}
    OutboxKeys = {a, u}
    Appends = {a}
    Refusing = {}
    Requires <- NoRequires
    Tolerated = {}
    Workspaces = {w}
    WorkspaceOf <- MCWorkspaceOf
    MaxCopies = 2
    Nodes = {n1, n2}
    MaxReplayBatch = 1
    CheckpointEvery = 2
    MaxCalls = 1
    MaxIssuers = 4
    Faults = {}
    MaxFaults = 0
PROPERTIES LedgerCommittedFinal
