\* One gate that restarts, a pod that needs two envs: liveness.
SPECIFICATION FairSpec
CONSTANTS
    n1 = n1
    n2 = n2
    a = a
    b = b
    p1 = p1
    Nodes = {n1, n2}
    Envs = {a, b}
    Managers = {m1}
    Pods = {p1}
    NoKey = none
    Refs <- BothRefs
    Terms <- Either
    Narrowings = {{n1}}
    MaxGen = 1
    MaxTouch = 0
    MaxRestart = 1
\* A released pod needs nothing more, and the envs are bounded.
CHECK_DEADLOCK FALSE
INVARIANTS
    ReleasedOntoRoots
PROPERTIES
    GateOpens
