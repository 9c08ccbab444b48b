\* A build that outlives its timeout races the retry.
SPECIFICATION Spec
CONSTANTS
    Self = n1
    d1 = d1
    Envs = {e1}
    NoEnv = none
    Dirs = {d1}
    DirOf <- OneDir
    ImageEnvs = {}
    Procs = {p1, p2, p3}
    NoProc = noproc
    MaxGen = 2
    MaxFaults = 1
SYMMETRY Symmetry
INVARIANTS
    TreeConsistent
