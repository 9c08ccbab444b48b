\* One node, an edit during a realise, then a failed roll.
SPECIFICATION Spec
CONSTANTS
    n1 = n1
    w1 = w1
    Nodes = {n1}
    NoNode = none
    baseEnv = baseEnv
    appEnv = appEnv
    Envs = {baseEnv}
    Workloads = {w1}
    DependsOn <- Independent
    CatalogEnvs = {}
    Malformed = {}
    RealizeSlots = 1
    MaxGen = 2
    MaxRev = 0
    FaultKinds = {"roll"}
    MaxFaults = 1
\* Edits, advances and faults are bounded: the agents come to rest.
CHECK_DEADLOCK FALSE
INVARIANTS
    FailureMadeGood
