-------------------------- MODULE ConsumerDelivery --------------------------
(***************************************************************************)
(* What the node agents do to the pods that consume an env                 *)
(* (internal/controller/floxenv_restart.go): FloxEnvAgents composed with   *)
(* the workload controllers and the runtime plugin.                        *)
(*                                                                         *)
(* Every workload has one pod per node.  A pod is replaced when the marker *)
(* on its template changes, and a container resolves its env when it       *)
(* starts, through the GC-root of its node.  Which closure a pod runs is   *)
(* known to nobody but the node: the agents only see templates.            *)
(***************************************************************************)
EXTENDS FloxEnvAgents

VARIABLE pods   \* pods[n][e][w]: w's pod on n, which consumes e

podVars == <<vars, pods>>
-----------------------------------------------------------------------------
\* The marker of the template a pod was made from, the tree it has mounted.
NoPod == [there |-> FALSE, marker |-> NoLock, tree |-> NoLock]

DeliveryInit ==
    /\ Init
    /\ pods = [n \in Nodes |-> [e \in Envs |-> [w \in Workloads |-> NoPod]]]

\* A pod of the current template starts, in place of one of an older template
\* if there is one; the gate holds it back until the node has the env.
StartPod(n, e, w) ==
    /\ root[n][e] # NoLock
    /\ ~pods[n][e][w].there \/ pods[n][e][w].marker # stamp[e][w]
    /\ pods' = [pods EXCEPT ![n][e][w] =
                   [there |-> TRUE, marker |-> stamp[e][w], tree |-> root[n][e]]]
    /\ UNCHANGED vars

\* A container restarts within its pod.
RestartContainer(n, e, w) ==
    /\ pods[n][e][w].there
    /\ pods[n][e][w].tree # root[n][e]
    /\ pods' = [pods EXCEPT ![n][e][w].tree = root[n][e]]
    /\ UNCHANGED vars

PodStep(n, e, w) == StartPod(n, e, w) \/ RestartContainer(n, e, w)

DeliveryNext ==
    \/ Next /\ UNCHANGED pods
    \/ \E n \in Nodes, e \in Envs, w \in Workloads : PodStep(n, e, w)

DeliverySpec == DeliveryInit /\ [][DeliveryNext]_podVars
-----------------------------------------------------------------------------
(* Properties.                                                              *)

\* Every roll has been carried out.
RolledOut(n, e, w) == pods[n][e][w].there => pods[n][e][w].marker = stamp[e][w]

\* A re-lock reaches the pods: once the agents are at rest, with an exact
\* status, and the rolls they asked for are done, no pod is left on an old closure.
PodsFresh ==
    \A e \in Envs, w \in Workloads :
        (\A n \in Nodes : Settled(n, e) /\ Exact(n, e) /\ RolledOut(n, e, w)) =>
            \A n \in Nodes :
                pods[n][e][w].there => pods[n][e][w].tree = root[n][e]
=============================================================================
