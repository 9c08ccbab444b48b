\* One node, a relock of an env whose manifest does not change.
SPECIFICATION Spec
CONSTANTS
    n1 = n1
    Nodes = {n1}
    NoNode = none
    baseEnv = baseEnv
    appEnv = appEnv
    Envs = {baseEnv}
    Workloads = {}
    DependsOn <- Independent
    CatalogEnvs = {}
    Malformed = {}
    RealizeSlots = 1
    MaxGen = 1
    MaxRev = 1
    FaultKinds = {"crash", "hint", "realise", "roll", "publish"}
    MaxFaults = 0
\* Edits, advances and faults are bounded: the agents come to rest.
CHECK_DEADLOCK FALSE
INVARIANTS
    RelockHonoured
