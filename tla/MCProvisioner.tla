--------------------------- MODULE MCProvisioner ---------------------------
(* Instances of Provisioner for TLC.                                        *)
EXTENDS Provisioner, TLC

CONSTANT d1

\* Builds are alike.
Symmetry == Permutations(Procs)

\* One directory: the env's own, or shared by all of Envs, which then have
\* the same folder and name in two namespaces.
OneDir == [e \in Envs |-> d1]
=============================================================================
