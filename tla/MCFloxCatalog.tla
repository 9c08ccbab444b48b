--------------------------- MODULE MCFloxCatalog ---------------------------
(* Instances of FloxCatalog for TLC.                                        *)
EXTENDS FloxCatalog, TLC

CONSTANTS c1, s1, s2

\* Each catalog has a source of its own.
OwnSource == [c \in Catalogs |-> IF c = c1 THEN s1 ELSE s2]

\* A cluster that has come up: every env is pinned at the first revision, and
\* the event of its last build has just enqueued the catalog everywhere.
First == [of |-> s1, n |-> 1]

UpAndRunning ==
    /\ src     = [s \in Sources |-> 1]
    /\ env     = [e \in Envs |-> [ann |-> First, phase |-> "Realized"]]
    /\ token   = [e \in Envs |-> First]
    /\ taken   = token
    /\ status  = [c \in Catalogs |->
                    [rev |-> First, plan |-> [e \in Envs |-> "Realizing"],
                     ready |-> TRUE]]
    /\ scache  = [m \in Managers |-> src]
    /\ ccache  = [m \in Managers |-> status]
    /\ ecache  = [m \in Managers |-> env]
    /\ inbox   = [m \in Managers |-> [e \in Envs |-> <<>>]]
    /\ queue   = [m \in Managers |-> Catalogs]
    /\ delayed = [m \in Managers |-> {}]
    /\ work    = [m \in Managers |-> NoWork]
    /\ faults  = 0

SpecUpAndRunning == UpAndRunning /\ [][Next]_vars

FairSpecUpAndRunning == SpecUpAndRunning /\ Fairness

\* From nothing with one env to come, or up and running with all of them.
FirstEnvOnly ==
    \A e \in Envs :
        env[e] = NoEnv /\ env'[e] # NoEnv => \A f \in Envs : env[f] = NoEnv

FairSpecEither ==
    (Init \/ UpAndRunning) /\ [][Next /\ FirstEnvOnly]_vars /\ Fairness
=============================================================================
