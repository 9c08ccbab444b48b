\* Two nodes, no fault at all.
SPECIFICATION Spec
CONSTANTS
    n1 = n1
    n2 = n2
    Nodes = {n1, n2}
    NoNode = none
    baseEnv = baseEnv
    appEnv = appEnv
    Envs = {baseEnv}
    Workloads = {}
    DependsOn <- Independent
    CatalogEnvs = {}
    Malformed = {}
    RealizeSlots = 1
    MaxGen = 1
    MaxRev = 0
    FaultKinds = {"crash", "hint", "realise", "roll", "publish"}
    MaxFaults = 0
\* Edits, advances and faults are bounded: the agents come to rest.
CHECK_DEADLOCK FALSE
PROPERTIES
    EntriesKept
