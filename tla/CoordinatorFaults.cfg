SPECIFICATION FairSpec
CONSTANTS
    a = a
    u = u
    w = w
    NoWorkspace = NoWorkspace
    Keys = {a, u}
    OutboxKeys = {a, u}
    Appends = {a}
    Refusing = {u}
    Requires <- NoRequires
    Tolerated = {}
    Workspaces = {w}
    WorkspaceOf <- MCWorkspaceOf
    MaxCopies = 2
    Nodes = {n1}
    MaxReplayBatch = 1
    CheckpointEvery = 2
    MaxCalls = 2
    MaxIssuers = 4
    Faults = {"crash", "disconnect", "lost_reply", "outage", "projection",
              "file_write", "log_full", "audit_full"}
    MaxFaults = 2
INVARIANTS TypeOK
PROPERTIES AckContract OutboxDrains
