\* Two FloxEnvs of two namespaces with the same folder and name.
SPECIFICATION Spec
CONSTANTS
    Self = n1
    d1 = d1
    Envs = {e1, e2}
    NoEnv = none
    Dirs = {d1}
    DirOf <- OneDir
    ImageEnvs = {}
    Procs = {p1, p2}
    NoProc = noproc
    MaxGen = 1
    MaxFaults = 0
SYMMETRY Symmetry
INVARIANTS
    TreeWhole
