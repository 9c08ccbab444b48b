\* One node, a crash in a redundant realise.
SPECIFICATION Spec
CONSTANTS
    n1 = n1
    Nodes = {n1}
    NoNode = none
    baseEnv = baseEnv
    appEnv = appEnv
    Envs = {baseEnv}
    Workloads = {}
    DependsOn <- Independent
    CatalogEnvs = {}
    Malformed = {}
    RealizeSlots = 1
    MaxGen = 1
    MaxRev = 1
    FaultKinds = {"crash"}
    MaxFaults = 1
\* Edits, advances and faults are bounded: the agents come to rest.
CHECK_DEADLOCK FALSE
INVARIANTS
    HintOverwritten
