SPECIFICATION Spec
CONSTANTS
    a = a
    u = u
    w = w
    NoWorkspace = NoWorkspace
    Keys = {a, u}
    OutboxKeys = {a, u}
    Appends = {a}
    Refusing = {u}
    Requires <- ChainRequires
    Tolerated = {}
    Workspaces = {w}
    WorkspaceOf <- MCWorkspaceOf
    MaxCopies = 2
    Nodes = {n1, n2}
    MaxReplayBatch = 1
    CheckpointEvery = 2
    MaxCalls = 2
    MaxIssuers = 2
    Faults = {"crash", "disconnect", "lost_reply", "outage", "projection",
              "file_write", "log_full"}
    MaxFaults = 1
SYMMETRY MCSymmetry
INVARIANTS FlagImpliesPublished AckedAccounted RejectedRecorded
