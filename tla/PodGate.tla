------------------------------ MODULE PodGate ------------------------------
(***************************************************************************)
(* The pod gate (internal/controller/podgate_controller.go): releases a    *)
(* SchedulingGated pod onto the nodes where every FloxEnv it references is *)
(* realised.                                                               *)
(*                                                                         *)
(* There is no leader election: every manager started with the webhook     *)
(* runs a gate, with informer caches and a workqueue of its own, and one   *)
(* worker.  The references of a pod are looked up one after the other, so  *)
(* the caches move between two lookups; the only thing that orders the     *)
(* managers is the resourceVersion the final Update carries.               *)
(*                                                                         *)
(* The FloxEnvs' side is NodeRealization, which FloxEnvAgents implements.  *)
(* A pod's required node affinity is the set of its terms (OR), each term  *)
(* the set of nodes it matches; no term at all matches every node.         *)
(***************************************************************************)
EXTENDS NodeRealization, Sequences

CONSTANTS
    Managers,   \* the processes that run a gate reconciler
    Pods,       \* pods carrying the gate when they are created
    NoKey,      \* no pod: an idle worker
    Refs,       \* RefsFromAnnotations(pod): a sequence of envs, no duplicate
    Terms,      \* the node affinity a pod is created with
    Narrowings, \* the terms another controller may add while a pod is gated
    MaxGen,     \* bound: spec edits stop at this generation
    MaxTouch,   \* bound on the writes of other controllers to a pod
    MaxRestart  \* bound on restarts of managers

ASSUME KeyAssumption   == NoKey \notin Pods
ASSUME RefsAssumption  == Refs \in [Pods -> Seq(Envs)]
ASSUME TermsAssumption == Terms \in [Pods -> SUBSET (SUBSET Nodes)]
ASSUME NarrowingsAssumption == Narrowings \subseteq SUBSET Nodes
ASSUME GateBoundAssumption ==
    MaxGen \in Nat /\ MaxTouch \in Nat /\ MaxRestart \in Nat

VARIABLES
    pod,        \* pod[p]: the pod on the API server
    ecache,     \* ecache[m][e]: m's informer copy of a FloxEnv
    pcache,     \* pcache[m][p]: m's informer copy of a pod
    queue,      \* queue[m]: m's workqueue
    delayed,    \* delayed[m]: back-off adds after a failed Update
    work,       \* work[m]: the reconcile m's worker is in
    touches,    \* writes by other controllers so far
    restarts    \* restarts so far

gvars == <<pod, ecache, pcache, queue, delayed, work, touches, restarts>>
vars  == <<rvars, gvars>>
-----------------------------------------------------------------------------
Pod   == [rv : Nat, gated : BOOLEAN, terms : SUBSET (SUBSET Nodes)]
NoPod == [rv |-> 0, gated |-> FALSE, terms |-> {}]

EnvCopy == [gen : Nat, entry : [Nodes -> Nat]]
Current(e) == [gen |-> gen[e], entry |-> entry[e]]

\* What the worker holds: the pod it read, the references looked up so far
\* and the nodes that passed them all.
Work   == [key : Pods \cup {NoKey}, copy : Pod, done : Nat,
           eligible : SUBSET Nodes]
NoWork == [key |-> NoKey, copy |-> NoPod, done |-> 0, eligible |-> {}]

\* The nodes the scheduler may choose.
Allowed(terms) == IF terms = {} THEN Nodes ELSE UNION terms

ReadyNodes(env) == {n \in Nodes : env.entry[n] > 0 /\ env.entry[n] = env.gen}

\* Mutant: a pod without a term is left without one.
NarrowTermsOnly(terms, nodes) == {t \cap nodes : t \in terms}

\* narrowToNodes: the requirement is added to each term.
NarrowToNodes(terms, nodes) ==
    IF terms = {} THEN {nodes} ELSE {t \cap nodes : t \in terms}

RefSet(p) == {Refs[p][i] : i \in 1 .. Len(Refs[p])}

\* Mutant: an empty spec.folder is not defaulted, so no reference matches.
NoWaiter(m, e) == {}

\* gatedPodsForEnv, over the pods of m's own cache.
GatedPodsForEnv(m, e) == {p \in Pods : pcache[m][p].gated /\ e \in RefSet(p)}
-----------------------------------------------------------------------------
Init ==
    /\ RealizationInit
    /\ pod      = [p \in Pods |-> NoPod]
    /\ ecache   = [m \in Managers |-> [e \in Envs |-> Current(e)]]
    /\ pcache   = [m \in Managers |-> pod]
    /\ queue    = [m \in Managers |-> {}]
    /\ delayed  = [m \in Managers |-> {}]
    /\ work     = [m \in Managers |-> NoWork]
    /\ touches  = 0
    /\ restarts = 0
-----------------------------------------------------------------------------
(* The surroundings.                                                        *)

\* The FloxEnvs change as NodeRealization lets them.
EnvChange ==
    /\ \E e \in Envs :
          \/ gen[e] < MaxGen /\ Edit(e)
          \/ \E n \in Nodes, g \in 1 .. gen[e] : Realise(n, e, g)
          \/ Report(e)
    /\ UNCHANGED gvars

\* Admission has added the gate (injectFloxWait).
CreatePod(p) ==
    /\ pod[p] = NoPod
    /\ pod' = [pod EXCEPT ![p] = [rv |-> 1, gated |-> TRUE, terms |-> Terms[p]]]
    /\ UNCHANGED <<rvars, ecache, pcache, queue, delayed, work, touches, restarts>>

\* Another controller writes the pod; while it is gated it may narrow it too.
TouchPod(p) ==
    /\ pod[p] # NoPod
    /\ touches < MaxTouch
    /\ touches' = touches + 1
    /\ \E terms \in {pod[p].terms} \cup
           {NarrowToNodes(pod[p].terms, t) : t \in
               IF pod[p].gated THEN Narrowings ELSE {}} :
         pod' = [pod EXCEPT ![p].rv = @ + 1, ![p].terms = terms]
    /\ UNCHANGED <<rvars, ecache, pcache, queue, delayed, work, restarts>>

\* The FloxEnv informer catches up, and the watch wakes the waiters.
DeliverEnv(m, e) ==
    /\ ecache[m][e] # Current(e)
    /\ ecache' = [ecache EXCEPT ![m][e] = Current(e)]
    /\ queue'  = [queue EXCEPT ![m] = @ \cup GatedPodsForEnv(m, e)]
    /\ UNCHANGED <<rvars, pod, pcache, delayed, work, touches, restarts>>

\* The pod informer catches up; gatedOnly lets through pods with the gate.
DeliverPod(m, p) ==
    /\ pcache[m][p] # pod[p]
    /\ pcache' = [pcache EXCEPT ![m][p] = pod[p]]
    /\ queue'  = [queue EXCEPT ![m] = IF pod[p].gated THEN @ \cup {p} ELSE @]
    /\ UNCHANGED <<rvars, pod, ecache, delayed, work, touches, restarts>>

FireDelayed(m, p) ==
    /\ p \in delayed[m]
    /\ delayed' = [delayed EXCEPT ![m] = @ \ {p}]
    /\ queue'   = [queue EXCEPT ![m] = @ \cup {p}]
    /\ UNCHANGED <<rvars, pod, ecache, pcache, work, touches, restarts>>

\* The process dies and comes back: fresh caches, every gated pod enqueued.
Restart(m) ==
    /\ restarts < MaxRestart
    /\ restarts' = restarts + 1
    /\ ecache'  = [ecache EXCEPT ![m] = [e \in Envs |-> Current(e)]]
    /\ pcache'  = [pcache EXCEPT ![m] = pod]
    /\ queue'   = [queue EXCEPT ![m] = {p \in Pods : pod[p].gated}]
    /\ delayed' = [delayed EXCEPT ![m] = {}]
    /\ work'    = [work EXCEPT ![m] = NoWork]
    /\ UNCHANGED <<rvars, pod, touches>>
-----------------------------------------------------------------------------
(* Reconcile.                                                               *)

Done(m) == work' = [work EXCEPT ![m] = NoWork]

\* The worker takes p and reads it from its cache: a pod without the gate, or
\* gone, is none of its business.
Take(m, p) ==
    /\ p \in queue[m]
    /\ work[m] = NoWork
    /\ queue' = [queue EXCEPT ![m] = @ \ {p}]
    /\ work'  = IF pcache[m][p].gated
                THEN [work EXCEPT ![m] = [key |-> p, copy |-> pcache[m][p],
                                          done |-> 0, eligible |-> {}]]
                ELSE work
    /\ UNCHANGED <<rvars, pod, ecache, pcache, delayed, touches, restarts>>

\* A List of the FloxEnvs for the next reference, which is then looked up in it.
LookedUp(m) == ecache[m][Refs[work[m].key][work[m].done + 1]]

\* Mutant: the first reference alone decides.
FirstRefOnly(m) ==
    IF work[m].done = 0 THEN ReadyNodes(LookedUp(m)) ELSE work[m].eligible

StillEligible(m) ==
    IF work[m].done = 0
    THEN ReadyNodes(LookedUp(m))
    ELSE work[m].eligible \cap ReadyNodes(LookedUp(m))

MoreRefs(m) == work[m] # NoWork /\ work[m].done < Len(Refs[work[m].key])

Blocked(m) == LookedUp(m).gen = 0 \/ StillEligible(m) = {}

CheckRef(m) ==
    /\ MoreRefs(m)
    /\ ~Blocked(m)
    /\ work' = [work EXCEPT ![m].done = @ + 1,
                            ![m].eligible = StillEligible(m)]
    /\ UNCHANGED <<rvars, pod, ecache, pcache, queue, delayed, touches, restarts>>

\* No such FloxEnv, or no node left: return without a requeue.
StayGated(m) ==
    /\ MoreRefs(m)
    /\ Blocked(m)
    /\ Done(m)
    /\ UNCHANGED <<rvars, pod, ecache, pcache, queue, delayed, touches, restarts>>

\* Mutant: the object written has lost its resourceVersion.
WithoutVersion(copy, nodes) ==
    [gated |-> FALSE,
     terms |-> IF nodes = {} THEN copy.terms
                             ELSE NarrowToNodes(copy.terms, nodes)]

\* release on the copy the reconcile read: without nodes (a pod that refers to
\* no env) it only drops the gate.
Released(copy, nodes) ==
    [rv    |-> copy.rv + 1,
     gated |-> FALSE,
     terms |-> IF nodes = {} THEN copy.terms
                             ELSE NarrowToNodes(copy.terms, nodes)]

AtRelease(m) == work[m] # NoWork /\ ~MoreRefs(m)

\* Mutant: the Update carries no resourceVersion.
AnyVersion(m) == TRUE

\* The API server takes an Update made from the version it holds.
UpToDate(m) == pod[work[m].key].rv = work[m].copy.rv

Release(m) ==
    /\ AtRelease(m)
    /\ UpToDate(m)
    /\ pod' = [pod EXCEPT ![work[m].key] = Released(work[m].copy, work[m].eligible)]
    /\ Done(m)
    /\ UNCHANGED <<rvars, ecache, pcache, queue, delayed, touches, restarts>>

\* A conflict is returned as an error: back-off and retry.
ReleaseConflicts(m) ==
    /\ AtRelease(m)
    /\ ~UpToDate(m)
    /\ delayed' = [delayed EXCEPT ![m] = @ \cup {work[m].key}]
    /\ Done(m)
    /\ UNCHANGED <<rvars, pod, ecache, pcache, queue, touches, restarts>>
-----------------------------------------------------------------------------
Worker(m) ==
    \/ \E p \in Pods : Take(m, p)
    \/ CheckRef(m)
    \/ StayGated(m)
    \/ Release(m)
    \/ ReleaseConflicts(m)

Next ==
    \/ EnvChange
    \/ \E p \in Pods : CreatePod(p) \/ TouchPod(p)
    \/ \E m \in Managers :
          \/ \E e \in Envs : DeliverEnv(m, e)
          \/ \E p \in Pods : DeliverPod(m, p) \/ FireDelayed(m, p)
          \/ Restart(m)
          \/ Worker(m)

Spec == Init /\ [][Next]_vars

\* Informers deliver, back-offs end, and the worker takes the keys it is given
\* in turn; envs, pods, other controllers and restarts owe nothing.
Fairness ==
    \A m \in Managers :
        /\ \A e \in Envs : WF_vars(DeliverEnv(m, e))
        /\ \A p \in Pods :
              /\ WF_vars(DeliverPod(m, p))
              /\ WF_vars(FireDelayed(m, p))
              /\ SF_vars(Take(m, p))
        /\ WF_vars(CheckRef(m) \/ StayGated(m) \/ Release(m) \/ ReleaseConflicts(m))

FairSpec == Spec /\ Fairness
-----------------------------------------------------------------------------
(* Properties.                                                              *)

\* Every variable keeps its type.
TypeOK ==
    /\ RealizationType
    /\ pod      \in [Pods -> Pod]
    /\ ecache   \in [Managers -> [Envs -> EnvCopy]]
    /\ pcache   \in [Managers -> [Pods -> Pod]]
    /\ queue    \in [Managers -> SUBSET Pods]
    /\ delayed  \in [Managers -> SUBSET Pods]
    /\ work     \in [Managers -> Work]
    /\ touches  \in Nat
    /\ restarts \in Nat

IsReleased(p) == pod[p].rv > 0 /\ ~pod[p].gated

\* A pod that has left the gate can only be scheduled to nodes where every env
\* it references has a GC-root to mount, however old the caches its release
\* was decided from and whoever released it.
ReleasedOntoRoots ==
    \A p \in Pods :
        IsReleased(p) /\ Refs[p] # <<>> =>
            \A n \in Allowed(pod[p].terms), e \in RefSet(p) : root[n][e] > 0

\* Redundant gates never undo: no write puts a gate back, or gives a pod a
\* node that its author, another controller or another gate had ruled out.
NothingUndone ==
    [][\A p \in Pods :
          pod[p] # NoPod =>
              /\ ~pod[p].gated => ~pod'[p].gated
              /\ Allowed(pod'[p].terms) \subseteq Allowed(pod[p].terms)]_vars

\* The node has every env of the pod realised at its current generation.
Clears(n, p) ==
    \A e \in RefSet(p) : gen[e] > 0 /\ entry[e][n] = gen[e]

\* A gated pod is not forgotten: once some node has all its envs realised for
\* good, the gate goes, with no polling anywhere.
GateOpens ==
    \A p \in Pods, n \in Nodes :
        <>[](pod[p].rv > 0 /\ Clears(n, p)) => <>[](~pod[p].gated)

\* A pod that has left the gate has a node to run on.
ReleasedSchedulable ==
    \A p \in Pods : IsReleased(p) => Allowed(pod[p].terms) # {}
=============================================================================
