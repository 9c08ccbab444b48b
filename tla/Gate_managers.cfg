\* Two gates race for a pod another controller narrows; one restarts.
SPECIFICATION Spec
CONSTANTS
    n1 = n1
    n2 = n2
    a = a
    b = b
    p1 = p1
    Nodes = {n1, n2}
    Envs = {a}
    Managers = {m1, m2}
    Pods = {p1}
    NoKey = none
    Refs <- OneRef
    Terms <- Anywhere
    Narrowings = {{n1}}
    MaxGen = 1
    MaxTouch = 1
    MaxRestart = 1
\* A released pod needs nothing more, and the envs are bounded.
CHECK_DEADLOCK FALSE
SYMMETRY Symmetry
INVARIANTS
    TypeOK
    ReleasedOntoRoots
PROPERTIES
    NothingUndone
