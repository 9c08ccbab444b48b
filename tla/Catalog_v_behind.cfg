\* Two agents.
SPECIFICATION SpecUpAndRunning
CONSTANTS
    c1 = c1
    s1 = s1
    s2 = s2
    Managers = {m1, m2}
    Sources = {s1}
    Catalogs = {c1}
    SourceOf <- OwnSource
    NoName = none
    Envs = {e1}
    MaxRev = 2
    MaxLag = 2
    FaultKinds = {}
    MaxFaults = 0
\* Artifacts, envs and faults are bounded: the reconcilers come to rest.
CHECK_DEADLOCK FALSE
INVARIANTS
    StampFollowsStatus
