\* Two nodes, app includes base: both arrive, or are served and app is edited.
SPECIFICATION DepsSpec
CONSTANTS
    n1 = n1
    n2 = n2
    Nodes = {n1, n2}
    NoNode = none
    baseEnv = baseEnv
    appEnv = appEnv
    Envs = {baseEnv, appEnv}
    Workloads = {w1}
    DependsOn <- AppOnBase
    CatalogEnvs = {}
    Malformed = {}
    RealizeSlots = 1
    MaxGen = 2
    MaxRev = 0
    FaultKinds = {"crash", "hint", "realise", "roll", "publish"}
    MaxFaults = 1
\* Edits, advances and faults are bounded: the agents come to rest.
CHECK_DEADLOCK FALSE
SYMMETRY Symmetry
INVARIANTS
    DepsMaterialisedSomewhere
PROPERTIES
    TreesFirst
