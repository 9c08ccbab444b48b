\* One node, a crash or a failed roll in a redundant realise.
SPECIFICATION Spec
CONSTANTS
    n1 = n1
    w1 = w1
    Nodes = {n1}
    NoNode = none
    baseEnv = baseEnv
    appEnv = appEnv
    Envs = {baseEnv}
    Workloads = {w1}
    DependsOn <- Independent
    CatalogEnvs = {baseEnv}
    Malformed = {}
    RealizeSlots = 1
    MaxGen = 1
    MaxRev = 2
    FaultKinds = {"crash", "hint", "realise", "roll", "publish"}
    MaxFaults = 1
\* Edits, advances and faults are bounded: the agents come to rest.
CHECK_DEADLOCK FALSE
INVARIANTS
    FailureMadeGood
