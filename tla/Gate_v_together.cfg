\* A pod that needs two envs, one of which is edited between the lookups.
SPECIFICATION HistorySpec
CONSTANTS
    n1 = n1
    n2 = n2
    a = a
    b = b
    p1 = p1
    Nodes = {n1}
    Envs = {a, b}
    Managers = {m1}
    Pods = {p1}
    NoKey = none
    Refs <- BothRefs
    Terms <- Anywhere
    Narrowings = {}
    MaxGen = 2
    MaxTouch = 0
    MaxRestart = 0
\* A released pod needs nothing more, and the envs are bounded.
CHECK_DEADLOCK FALSE
INVARIANTS
    ClearedTogether
