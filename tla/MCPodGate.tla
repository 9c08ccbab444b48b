----------------------------- MODULE MCPodGate -----------------------------
(* Instances of PodGate for TLC.                                            *)
EXTENDS PodGate, TLC

CONSTANTS a, b, n1, n2, p1

\* The gates are alike.
Symmetry == Permutations(Managers)

\* p1 needs both envs and any other pod lost its annotations; every pod needs
\* env a.
BothRefs == [p \in Pods |-> IF p = p1 THEN <<a, b>> ELSE <<>>]
OneRef   == [p \in Pods |-> <<a>>]

\* Pods free to go anywhere, and pods their author ties to one node of two
\* alternatives, or to n2.
Anywhere == [p \in Pods |-> {}]
Either   == [p \in Pods |-> {{n1}, {n1, n2}}]
OnlyN2   == [p \in Pods |-> {{n2}}]
=============================================================================
