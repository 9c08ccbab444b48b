\* Two nodes, a spec edit, a crash or a lost hint.
SPECIFICATION HistorySpec
CONSTANTS
    n1 = n1
    n2 = n2
    Nodes = {n1, n2}
    NoNode = none
    baseEnv = baseEnv
    Envs = {baseEnv}
    Workloads = {}
    DependsOn <- Independent
    CatalogEnvs = {}
    Malformed = {}
    RealizeSlots = 1
    MaxGen = 2
    MaxRev = 0
    FaultKinds = {"crash", "hint"}
    MaxFaults = 1
\* Edits, advances and faults are bounded: the agents come to rest.
CHECK_DEADLOCK FALSE
SYMMETRY Symmetry
INVARIANTS
    EntryBacked
    LostOnlyIfTakenBack
PROPERTIES
    RootMonotone
    KeepsPromise
