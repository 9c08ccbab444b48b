\* p1 needs two envs, p2 has a node already; they share a claim.
SPECIFICATION AdmissionFairSpec
CONSTANTS
    a = a
    b = b
    p1 = p1
    c1 = c1
    c2 = c2
    Nodes = {n1}
    Envs = {a, b}
    Managers = {m1}
    NoManager = nobody
    Pods = {p1, p2}
    Placed = {p2}
    Readable = {a, b}
    Claims <- SharedStore
    NoKey = none
    Refs <- BothOrA
    Terms <- Anywhere
    Narrowings = {}
    MaxGen = 1
    MaxTouch = 0
    MaxRestart = 1
    MaxReject = 1
\* A released pod needs nothing more, and the envs are bounded.
CHECK_DEADLOCK FALSE
INVARIANTS
    AdmissionTypeOK
    ReleasedOntoRoots
    ClaimsThere
PROPERTIES
    GateOpens
    Admitted
