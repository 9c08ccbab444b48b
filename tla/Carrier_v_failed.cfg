\* A controller that is alone, and a call of EnsureBase that fails once: nothing
\* tries again before the next start.
SPECIFICATION Spec
CONSTANTS
    Controllers = {c1}
    c1 = c1
    c2 = c2
    MaxVersion = 2
    MaxStarts = 1
    MaxWrites = 0
CHECK_DEADLOCK FALSE
INVARIANTS
    RolloutPropagatesAnyway
