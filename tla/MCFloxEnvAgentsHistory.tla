----------------------- MODULE MCFloxEnvAgentsHistory -----------------------
(* Instances of FloxEnvAgentsHistory for TLC.                               *)
EXTENDS FloxEnvAgentsHistory, TLC

CONSTANT baseEnv

\* Nodes are alike.
Symmetry == Permutations(Nodes)

\* No env depends on another.
Independent == [e \in Envs |-> {}]
=============================================================================
