------------------------- MODULE MCConsumerDelivery -------------------------
(* Instances of ConsumerDelivery for TLC.                                   *)
EXTENDS ConsumerDelivery, TLC

CONSTANT baseEnv

\* No env depends on another.
Independent == [e \in Envs |-> {}]

\* Nodes are alike.
Symmetry == Permutations(Nodes)

\* A cluster that has come up: every node serves each env pinned at the first
\* revision, the consumers' pods run, and nothing is under way.
Pinned == [gen |-> 1, rev |-> 1]

PinnedCR(by) ==
    SetReady([NewCR EXCEPT !.ann      = 1,
                           !.token    = 1,
                           !.lock     = Pinned,
                           !.realized = [n \in Nodes |-> [gen |-> 1, path |-> Pinned]]],
             "Realized", by)

InitUp ==
    /\ rev     = 1
    /\ fcache  = [n \in Nodes |-> 1]
    /\ \E by \in Nodes : api = [e \in Envs |-> PinnedCR(by)]
    /\ cache   = [n \in Nodes |-> api]
    /\ queue   = [n \in Nodes |-> {}]
    /\ delayed = [n \in Nodes |-> {}]
    /\ pc      = [n \in Nodes |-> [e \in Envs |-> "idle"]]
    /\ local   = [n \in Nodes |-> [e \in Envs |-> NewCR]]
    /\ job     = [n \in Nodes |-> [e \in Envs |-> NoJob]]
    /\ slots   = [n \in Nodes |-> 0]
    /\ disk    = [n \in Nodes |-> [e \in Envs |-> Pinned]]
    /\ root    = disk
    /\ stamp   = [e \in Envs |-> [w \in Workloads |-> Pinned]]
    /\ wcache  = [n \in Nodes |-> stamp]
    /\ faults  = 0
    /\ pods    = [n \in Nodes |-> [e \in Envs |-> [w \in Workloads |->
                    [there |-> TRUE, marker |-> Pinned, tree |-> Pinned]]]]

DeliverySpecUp == InitUp /\ [][DeliveryNext]_podVars
=============================================================================
