-------------------------- MODULE NodeRealization --------------------------
(***************************************************************************)
(* What the node agents promise to whoever reads status.realized: the pod  *)
(* gate, and the people looking at the Ready column.                       *)
(*                                                                         *)
(* A node with an entry has a tree under its plugin-facing GC-root, and a  *)
(* root, once there, stays and never goes back to an older manifest.       *)
(* Nothing is promised about WHICH generation the tree of an entry is for, *)
(* nor that an entry stays: agents overwrite one another's entries.        *)
(*                                                                         *)
(* FloxEnvAgents implements this specification; PodGate is built on it.    *)
(***************************************************************************)
EXTENDS Integers

CONSTANTS Nodes, Envs

VARIABLES
    gen,    \* gen[e]: metadata.generation; 0 while the FloxEnv is not created
    entry,  \* entry[e][n]: observedGeneration of n's entry; 0: no entry
    root    \* root[n][e]: the generation of the tree n's GC-root points at

rvars == <<gen, entry, root>>

RealizationType ==
    /\ gen   \in [Envs -> Nat]
    /\ entry \in [Envs -> [Nodes -> Nat]]
    /\ root  \in [Nodes -> [Envs -> Nat]]

RealizationInit ==
    /\ gen   \in [Envs -> {0, 1}]
    /\ entry = [e \in Envs |-> [n \in Nodes |-> 0]]
    /\ root  = [n \in Nodes |-> [e \in Envs |-> 0]]

\* The FloxEnv is created, or its spec edited.
Edit(e) ==
    /\ gen' = [gen EXCEPT ![e] = @ + 1]
    /\ UNCHANGED <<entry, root>>

\* An agent points its GC-root at the tree of manifest generation g.
Realise(n, e, g) ==
    /\ g \in 1 .. gen[e]
    /\ root[n][e] <= g
    /\ root' = [root EXCEPT ![n][e] = g]
    /\ UNCHANGED <<gen, entry>>

\* A status patch replaces the whole list: each entry it holds names a node
\* that has a root and a generation that has existed.
Reportable(e) ==
    {m \in [Nodes -> 0 .. gen[e]] :
        \A n \in Nodes : m[n] > 0 => root[n][e] > 0}

Report(e) ==
    /\ \E m \in Reportable(e) : entry' = [entry EXCEPT ![e] = m]
    /\ UNCHANGED <<gen, root>>

RealizationNext ==
    \E e \in Envs :
        \/ Edit(e)
        \/ \E n \in Nodes, g \in 1 .. gen[e] : Realise(n, e, g)
        \/ Report(e)

RealizationSpec == RealizationInit /\ [][RealizationNext]_rvars
=============================================================================
