\* A pod its author ties to n2.
SPECIFICATION Spec
CONSTANTS
    n1 = n1
    n2 = n2
    a = a
    b = b
    p1 = p1
    Nodes = {n1, n2}
    Envs = {a}
    Managers = {m1}
    Pods = {p1}
    NoKey = none
    Refs <- OneRef
    Terms <- OnlyN2
    Narrowings = {}
    MaxGen = 1
    MaxTouch = 0
    MaxRestart = 0
\* A released pod needs nothing more, and the envs are bounded.
CHECK_DEADLOCK FALSE
INVARIANTS
    ReleasedSchedulable
