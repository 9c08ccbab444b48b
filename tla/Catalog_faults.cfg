\* One agent: an env from nothing, or two that are up; a second artifact, any fault.
SPECIFICATION FairSpecEither
CONSTANTS
    c1 = c1
    s1 = s1
    s2 = s2
    Managers = {m1}
    Sources = {s1}
    Catalogs = {c1}
    SourceOf <- OwnSource
    NoName = none
    Envs = {e1, e2}
    MaxRev = 2
    MaxLag = 2
    FaultKinds = {"crash", "call", "dns"}
    MaxFaults = 1
\* Artifacts, envs and faults are bounded: the reconcilers come to rest.
CHECK_DEADLOCK FALSE
INVARIANTS
    TypeOK
    StampFollowsStatus
PROPERTIES
    EnvsCatchUp
