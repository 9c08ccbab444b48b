-------------------------- MODULE MCFloxEnvAgents --------------------------
(* Instances of FloxEnvAgents for TLC.                                      *)
EXTENDS FloxEnvAgents, TLC

\* Nodes are alike.
Symmetry == Permutations(Nodes)

\* No env depends on another.
Independent == [e \in Envs |-> {}]

CONSTANTS baseEnv, appEnv

\* The application env includes the base env.
AppOnBase == [e \in Envs |-> IF e = appEnv THEN {baseEnv} ELSE {}]

\* The catalog advances past its first revision only once the env is pinned:
\* a cluster that has come up before the second commit arrives.
PinnedFirst == rev > 1 => \A e \in Envs : api[e].lock # NoLock

SpecPinnedFirst == Init /\ [][Next /\ PinnedFirst']_vars
-----------------------------------------------------------------------------
(* Instances of two envs start from states the agents reach in which no     *)
(* reconcile is under way.                                                  *)

\* An env applied and edited up to generation g.
Applied(g) == [NewCR EXCEPT !.gen = g]

\* An env pinned and realised at generation g by every node, `by` the last.
Pin(g) == [gen |-> g, rev |-> rev]

Served(g, by) ==
    SetReady([Applied(g) EXCEPT
                 !.ann      = rev,
                 !.token    = rev,
                 !.lock     = Pin(g),
                 !.realized = [n \in Nodes |-> [gen |-> g, path |-> Pin(g)]]],
             "Realized", by)

\* Every informer has caught up, and the envs without a pin are enqueued.
AtRest ==
    /\ cache   = [n \in Nodes |-> api]
    /\ fcache  = [n \in Nodes |-> 0]
    /\ queue   = [n \in Nodes |-> {e \in Envs : api[e].lock = NoLock}]
    /\ delayed = [n \in Nodes |-> {}]
    /\ pc      = [n \in Nodes |-> [e \in Envs |-> "idle"]]
    /\ local   = [n \in Nodes |-> [e \in Envs |-> NewCR]]
    /\ job     = [n \in Nodes |-> [e \in Envs |-> NoJob]]
    /\ slots   = [n \in Nodes |-> 0]
    /\ disk    = [n \in Nodes |-> [e \in Envs |-> api[e].lock]]
    /\ root    = disk
    /\ stamp   = [e \in Envs |-> [w \in Workloads |-> api[e].lock]]
    /\ wcache  = [n \in Nodes |-> stamp]

\* Both envs have been applied in their last form, and nothing fails any more.
BothApplied ==
    /\ rev    = 0
    /\ api    = [e \in Envs |-> Applied(MaxGen)]
    /\ faults = MaxFaults
    /\ AtRest

\* ... and some agent has marked them Pending.
BothPending ==
    /\ rev    = 0
    /\ api    = [e \in Envs |-> SetReady(Applied(MaxGen), "Pending", NoNode)]
    /\ faults = MaxFaults
    /\ AtRest

\* Both are served; one more edit of the application, and faults, may come.
BothServed ==
    /\ rev    = 0
    /\ \E by \in Nodes :
          api = [e \in Envs |-> Served(IF e = appEnv THEN 1 ELSE MaxGen, by)]
    /\ faults = 0
    /\ AtRest

\* The base env is served, re-locked at the first revision; the application
\* has been applied, its edits and the faults are to come.
BaseServed ==
    /\ rev    = 1
    /\ \E by \in Nodes :
          api = [e \in Envs |-> IF e = appEnv THEN Applied(1) ELSE Served(MaxGen, by)]
    /\ faults = 0
    /\ AtRest

DepsSpec     == (BothPending \/ BothServed) /\ [][Next]_vars
ConvergeSpec == (BothApplied \/ BaseServed) /\ [][Next]_vars /\ Fairness
=============================================================================
