\* A pod is created before the env it opts into.
SPECIFICATION AdmissionSpec
CONSTANTS
    a = a
    b = b
    p1 = p1
    c1 = c1
    c2 = c2
    Nodes = {n1}
    Envs = {a, b}
    Managers = {m1}
    NoManager = nobody
    Pods = {p1, p2}
    Placed = {p2}
    Readable = {a, b}
    Claims <- SharedStore
    NoKey = none
    Refs <- BothOrA
    Terms <- Anywhere
    Narrowings = {}
    MaxGen = 1
    MaxTouch = 0
    MaxRestart = 0
    MaxReject = 0
\* A released pod needs nothing more, and the envs are bounded.
CHECK_DEADLOCK FALSE
INVARIANTS
    InjectedWhenReleased
