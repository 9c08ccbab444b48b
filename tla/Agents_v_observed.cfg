\* One node, an edit while the reconcile waits for its slot.
SPECIFICATION Spec
CONSTANTS
    n1 = n1
    Nodes = {n1}
    NoNode = none
    baseEnv = baseEnv
    appEnv = appEnv
    Envs = {baseEnv}
    Workloads = {}
    DependsOn <- Independent
    CatalogEnvs = {}
    Malformed = {}
    RealizeSlots = 1
    MaxGen = 2
    MaxRev = 0
    FaultKinds = {"crash", "hint", "realise", "roll", "publish"}
    MaxFaults = 0
\* Edits, advances and faults are bounded: the agents come to rest.
CHECK_DEADLOCK FALSE
INVARIANTS
    ObservedGenerationExact
