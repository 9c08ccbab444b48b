\* Two catalogs in one namespace.
SPECIFICATION FairSpec
CONSTANTS
    c1 = c1
    s1 = s1
    s2 = s2
    Managers = {m1}
    Sources = {s1, s2}
    Catalogs = {c1, c2}
    SourceOf <- OwnSource
    NoName = none
    Envs = {e1}
    MaxRev = 1
    MaxLag = 1
    FaultKinds = {}
    MaxFaults = 0
\* Artifacts, envs and faults are bounded: the reconcilers come to rest.
CHECK_DEADLOCK FALSE
PROPERTIES
    RelocksEnd
