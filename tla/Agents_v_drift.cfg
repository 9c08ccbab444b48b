\* Two nodes, a catalog env pinned before the second revision.
SPECIFICATION SpecPinnedFirst
CONSTANTS
    n1 = n1
    n2 = n2
    Nodes = {n1, n2}
    NoNode = none
    baseEnv = baseEnv
    appEnv = appEnv
    Envs = {baseEnv}
    Workloads = {}
    DependsOn <- Independent
    CatalogEnvs = {baseEnv}
    Malformed = {}
    RealizeSlots = 1
    MaxGen = 1
    MaxRev = 2
    FaultKinds = {"crash", "hint", "realise", "roll", "publish"}
    MaxFaults = 0
\* Edits, advances and faults are bounded: the agents come to rest.
CHECK_DEADLOCK FALSE
INVARIANTS
    NoNodeDrift
