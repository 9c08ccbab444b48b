\* One node: relocks of a catalog env with a consumer, an edit, a fault.
SPECIFICATION DeliverySpec
CONSTANTS
    Nodes = {n1}
    NoNode = none
    baseEnv = baseEnv
    Envs = {baseEnv}
    Workloads = {w1}
    DependsOn <- Independent
    CatalogEnvs = {baseEnv}
    Malformed = {}
    RealizeSlots = 1
    MaxGen = 2
    MaxRev = 2
    FaultKinds = {"crash", "hint", "realise", "roll", "publish"}
    MaxFaults = 1
\* Edits, advances and faults are bounded: the agents come to rest.
CHECK_DEADLOCK FALSE
INVARIANTS
    TypeOK
    SlotsAccounted
    PinDelivered
    PodsFresh
