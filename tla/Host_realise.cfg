\* One image env, edited once; failures, timeouts, crashes, orphaned builds.
SPECIFICATION Spec
CONSTANTS
    Self = n1
    d1 = d1
    Envs = {e1}
    NoEnv = none
    Dirs = {d1}
    DirOf <- OneDir
    ImageEnvs = {e1}
    Procs = {p1, p2, p3}
    NoProc = noproc
    MaxGen = 2
    MaxFaults = 2
SYMMETRY Symmetry
INVARIANTS
    TypeOK
    CalmRealiseHeals
    ReportCovered
PROPERTIES
    KeepsContract
