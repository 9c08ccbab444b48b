--------------------------- MODULE MCPodAdmission ---------------------------
(* Instances of PodAdmission for TLC.                                       *)
EXTENDS PodAdmission, TLC

CONSTANTS a, b, p1, c1, c2

\* p1 opts into both envs, any other pod into env a.
BothOrA == [p \in Pods |-> IF p = p1 THEN <<a, b>> ELSE <<a>>]

\* Pods free to go anywhere.
Anywhere == [p \in Pods |-> {}]

\* All build in the store c1, p1 also in c2.
SharedStore == [p \in Pods |-> IF p = p1 THEN {c1, c2} ELSE {c1}]
=============================================================================
