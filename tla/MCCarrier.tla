----------------------------- MODULE MCCarrier -----------------------------
(* Instances of Carrier for TLC.                                            *)
EXTENDS Carrier, TLC

CONSTANTS c1, c2

\* Controllers are alike.
Symmetry == Permutations(Controllers)
=============================================================================
