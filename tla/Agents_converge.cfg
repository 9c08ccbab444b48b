\* Two envs, one of a catalog and on top of the other, one slot, two faults.
SPECIFICATION ConvergeSpec
CONSTANTS
    n1 = n1
    Nodes = {n1}
    NoNode = none
    baseEnv = baseEnv
    appEnv = appEnv
    Envs = {baseEnv, appEnv}
    Workloads = {w1}
    DependsOn <- AppOnBase
    CatalogEnvs = {appEnv}
    Malformed = {2}
    RealizeSlots = 1
    MaxGen = 3
    MaxRev = 1
    FaultKinds = {"crash", "realise", "roll", "publish"}
    MaxFaults = 2
\* Edits, advances and faults are bounded: the agents come to rest.
CHECK_DEADLOCK FALSE
INVARIANTS
    NoLostWork
PROPERTIES
    Converges
