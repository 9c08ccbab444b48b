\* Two controllers, one upgrade, three restarts, three writes by others.
SPECIFICATION Spec
CONSTANTS
    c1 = c1
    c2 = c2
    Controllers = {c1, c2}
    MaxVersion = 2
    MaxStarts = 3
    MaxWrites = 3
\* EnsureBase runs once per start.
CHECK_DEADLOCK FALSE
SYMMETRY Symmetry
INVARIANTS
    TypeOK
    RolloutPropagates
PROPERTIES
    ForkKept
