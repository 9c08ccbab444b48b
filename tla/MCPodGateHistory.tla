-------------------------- MODULE MCPodGateHistory --------------------------
(* PodGate with a record of when a node really had all of a pod's envs.     *)
EXTENDS MCPodGate

VARIABLE cleared    \* cleared[p]: nodes that had them at one same instant

HistoryInit == Init /\ cleared = [p \in Pods |-> {}]

\* A watch delivers the events of a kind in the order they happened, so an env
\* moves only when the caches have caught up with the others.
InOrder ==
    \A m \in Managers, e, f \in Envs :
        e = f \/ ecache[m][e] = Current(e) \/ ecache[m][f] = Current(f)

HistoryNext ==
    /\ Next
    /\ InOrder'
    /\ cleared' = [p \in Pods |-> cleared[p] \cup {n \in Nodes : Clears(n, p)'}]

HistorySpec == HistoryInit /\ [][HistoryNext]_<<vars, cleared>>

\* A pod leaves the gate for nodes where, at some instant, every env it
\* references was realised at its current generation: the lookups of the
\* references, one after the other, amount to one decision.
ClearedTogether ==
    \A p \in Pods :
        IsReleased(p) /\ Refs[p] # <<>> => Allowed(pod[p].terms) \subseteq cleared[p]
=============================================================================
