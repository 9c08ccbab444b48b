\* Two nodes, a relock of an env that is up, no fault.
SPECIFICATION DeliverySpecUp
CONSTANTS
    Nodes = {n1, n2}
    NoNode = none
    baseEnv = baseEnv
    Envs = {baseEnv}
    Workloads = {w1}
    DependsOn <- Independent
    CatalogEnvs = {baseEnv}
    Malformed = {}
    RealizeSlots = 1
    MaxGen = 1
    MaxRev = 2
    FaultKinds = {"crash", "hint", "realise", "roll", "publish"}
    MaxFaults = 0
\* Edits, advances and faults are bounded: the agents come to rest.
CHECK_DEADLOCK FALSE
SYMMETRY Symmetry
INVARIANTS
    PodsFresh
