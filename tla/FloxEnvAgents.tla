--------------------------- MODULE FloxEnvAgents ---------------------------
(***************************************************************************)
(* The FloxEnv node agents (internal/controller/floxenv_controller.go,     *)
(* floxenv_restart.go, driving internal/provisioner/exec.go).              *)
(*                                                                         *)
(* Every node runs one agent.  An agent reads FloxEnvs from its informer   *)
(* cache, which lags the API server, runs up to 100 reconciles at once but *)
(* never two of one env, and publishes what it did with JSON merge patches *)
(* against the copy it read.  A reconcile is modelled step by step between *)
(* its API calls and host effects: those are the points where another      *)
(* node's agent, an editor, a catalog advance or a crash can interleave.   *)
(*                                                                         *)
(* A lock is abstracted to the manifest generation it locks and the        *)
(* revision its flake inputs resolved to; the store path of an env subtree *)
(* is determined by its lock, so the lock stands for it too.               *)
(***************************************************************************)
EXTENDS Integers, FiniteSets

CONSTANTS
    Nodes,          \* the cluster nodes, one agent on each
    NoNode,         \* the absent node name in a condition
    Envs,           \* the FloxEnvs (one namespace)
    Workloads,      \* the workloads whose pod template consumes each env
    DependsOn,      \* spec.dependsOn, a function on Envs
    CatalogEnvs,    \* the envs with a floxcatalog: install
    Malformed,      \* the generations whose manifest cannot be realised
    RealizeSlots,   \* FloxEnvReconciler.RealizeSlots
    MaxGen,         \* bound: spec edits stop at this generation
    MaxRev,         \* bound: the catalog stops at this revision
    FaultKinds,     \* which of the faults below the instance exercises
    MaxFaults       \* bound on their number

ASSUME NodeAssumption  == NoNode \notin Nodes
ASSUME DepsAssumption  == DependsOn \in [Envs -> SUBSET Envs]
ASSUME SlotAssumption  == RealizeSlots \in Nat \ {0}
ASSUME BoundAssumption == MaxGen \in Nat /\ MaxRev \in Nat /\ MaxFaults \in Nat

VARIABLES
    api,        \* api[e]: the FloxEnv on the API server
    cache,      \* cache[n][e]: the informer copy node n's agent reads
    rev,        \* the FloxCatalog's resolved revision (status.flakeRef); 0: none
    fcache,     \* fcache[n]: the revision in node n's FloxCatalog informer
    queue,      \* queue[n]: the workqueue of node n's agent
    delayed,    \* delayed[n]: RequeueAfter and back-off adds not yet due
    pc,         \* pc[n][e]: where the reconcile of e on n stands
    local,      \* local[n][e]: the reconcile's `env` variable
    job,        \* job[n][e]: the reconcile's other locals
    slots,      \* slots[n]: tokens in the slots channel
    disk,       \* disk[n][e]: the env directory's manifest.lock
    root,       \* root[n][e]: the subtree the plugin-facing GC-root points at
    stamp,      \* stamp[e][w]: restartMarker on a consumer's pod template
    wcache,     \* wcache[n][e][w]: the informer copy of that marker
    faults      \* failed calls, failed realises and crashes so far

vars == <<api, cache, rev, fcache, queue, delayed, pc, local, job, slots,
          disk, root, stamp, wcache, faults>>
-----------------------------------------------------------------------------
(* Data.                                                                    *)

Lock   == [gen : Nat, rev : Nat]
NoLock == [gen |-> 0, rev |-> 0]

\* One NodeRealization: ObservedGeneration and StorePath.
Entry   == [gen : Nat, path : Lock]
NoEntry == [gen |-> 0, path |-> NoLock]

Reasons == {"None", "Pending", "WaitingForFlake", "WaitingForDeps",
            "SerializeFailed", "FlakeResolveFailed", "Realizing",
            "RealizeFailed", "RestartConsumersFailed", "Realized"}

\* The Ready condition; its status is True for the reason Realized only.
Condition == [reason : Reasons, gen : Nat, by : Nodes \cup {NoNode}]

CR == [gen : Nat, ann : Nat, ready : Condition, lock : Lock, token : Nat,
       realized : [Nodes -> Entry]]

NewCR == [gen |-> 1, ann |-> 0,
          ready |-> [reason |-> "None", gen |-> 0, by |-> NoNode],
          lock |-> NoLock, token |-> 0,
          realized |-> [n \in Nodes |-> NoEntry]]

Job   == [gen : Nat, relock : Nat, lock : Lock, prev : Lock, ref : Nat]
NoJob == [gen |-> 0, relock |-> 0, lock |-> NoLock, prev |-> NoLock, ref |-> 0]

\* The steps of a reconcile that blocks between API calls and host effects.
Working == {"mark", "write", "build", "link", "image", "roll", "publish"}
Steps   == {"idle", "slot"} \cup Working

IsReady(env) == env.ready.reason = "Realized"

SetReady(env, reason, by) ==
    [env EXCEPT !.ready = [reason |-> reason, gen |-> env.gen, by |-> by]]

\* client.MergeFrom: a field goes to the server only if it differs from the
\* base.  status.realized and status.conditions are lists: a JSON merge patch
\* replaces them whole.
MergePatch(srv, base, new) ==
    [srv EXCEPT
        !.ready    = IF new.ready    = base.ready    THEN @ ELSE new.ready,
        !.lock     = IF new.lock     = base.lock     THEN @ ELSE new.lock,
        !.token    = IF new.token    = base.token    THEN @ ELSE new.token,
        !.realized = IF new.realized = base.realized THEN @ ELSE new.realized]

AlreadyRealized(n, env) ==
    /\ env.ann = env.token
    /\ env.realized[n].gen = env.gen

\* Mutant: a dependency that merely has a condition counts as met.
UnmetIfBlank(n, e) == {d \in DependsOn[e] : cache[n][d].ready.reason = "None"}

UnmetDeps(n, e) == {d \in DependsOn[e] : ~IsReady(cache[n][d])}

\* Mutant: a lock is kept whatever manifest it was made for.
AnyLockKept(found, j, e) ==
    IF found # NoLock THEN found
    ELSE [gen |-> j.gen, rev |-> IF e \in CatalogEnvs THEN j.ref ELSE rev]

\* What flox locks-if-needed leaves in manifest.lock: the lock it finds if
\* that lock is for this manifest, a fresh one otherwise.
SettledLock(found, j, e) ==
    LET current == IF e \in CatalogEnvs THEN j.ref ELSE rev
    IN  IF found.gen = j.gen /\ (e \in CatalogEnvs => found.rev = j.ref)
        THEN found
        ELSE [gen |-> j.gen, rev |-> current]

\* Mutant: the lock is fed back without the revisions of its inputs.
LockWithoutRev(env) ==
    IF env.ann # env.token THEN NoLock ELSE [gen |-> env.lock.gen]

RequestedLock(env) == IF env.ann # env.token THEN NoLock ELSE env.lock

\* Mutant: the annotation half of the predicate is missing.
GenerationChange(old, new) == old.gen # new.gen

\* The predicate of the For-watch: generation or annotation changes.
RealisationChange(old, new) == old.gen # new.gen \/ old.ann # new.ann
-----------------------------------------------------------------------------
Init ==
    /\ api     = [e \in Envs |-> NewCR]
    /\ cache   = [n \in Nodes |-> api]
    /\ rev     = 0
    /\ fcache  = [n \in Nodes |-> 0]
    /\ queue   = [n \in Nodes |-> Envs]
    /\ delayed = [n \in Nodes |-> {}]
    /\ pc      = [n \in Nodes |-> [e \in Envs |-> "idle"]]
    /\ local   = [n \in Nodes |-> [e \in Envs |-> NewCR]]
    /\ job     = [n \in Nodes |-> [e \in Envs |-> NoJob]]
    /\ slots   = [n \in Nodes |-> 0]
    /\ disk    = [n \in Nodes |-> [e \in Envs |-> NoLock]]
    /\ root    = [n \in Nodes |-> [e \in Envs |-> NoLock]]
    /\ stamp   = [e \in Envs |-> [w \in Workloads |-> NoLock]]
    /\ wcache  = [n \in Nodes |-> stamp]
    /\ faults  = 0
-----------------------------------------------------------------------------
(* The surroundings: editors, the catalog, informers, timers, faults.       *)

\* A maintainer edits spec: the API server bumps metadata.generation.
EditSpec(e) ==
    /\ api[e].gen < MaxGen
    /\ api' = [api EXCEPT ![e].gen = @ + 1]
    /\ UNCHANGED <<cache, rev, fcache, queue, delayed, pc, local, job, slots,
                   disk, root, stamp, wcache, faults>>

\* FloxCatalogReconciler resolves a new artifact: status.flakeRef moves.
AdvanceRev ==
    /\ rev < MaxRev
    /\ rev' = rev + 1
    /\ UNCHANGED <<api, cache, fcache, queue, delayed, pc, local, job, slots,
                   disk, root, stamp, wcache, faults>>

\* ... and propagateRelock stamps it on each env, after the status patch.
StampRelock(e) ==
    /\ rev > 0
    /\ api[e].ann # rev
    /\ api' = [api EXCEPT ![e].ann = rev]
    /\ UNCHANGED <<cache, rev, fcache, queue, delayed, pc, local, job, slots,
                   disk, root, stamp, wcache, faults>>

\* The FloxEnv informer catches up; the predicate decides on an enqueue.
Deliver(n, e) ==
    /\ cache[n][e] # api[e]
    /\ cache' = [cache EXCEPT ![n][e] = api[e]]
    /\ queue' = [queue EXCEPT ![n] =
                    IF RealisationChange(cache[n][e], api[e])
                    THEN @ \cup {e} ELSE @]
    /\ UNCHANGED <<api, rev, fcache, delayed, pc, local, job, slots,
                   disk, root, stamp, wcache, faults>>

DeliverCatalog(n) ==
    /\ fcache[n] # rev
    /\ fcache' = [fcache EXCEPT ![n] = rev]
    /\ UNCHANGED <<api, cache, rev, queue, delayed, pc, local, job, slots,
                   disk, root, stamp, wcache, faults>>

DeliverWorkloads(n) ==
    /\ wcache[n] # stamp
    /\ wcache' = [wcache EXCEPT ![n] = stamp]
    /\ UNCHANGED <<api, cache, rev, fcache, queue, delayed, pc, local, job,
                   slots, disk, root, stamp, faults>>

\* A requeue falls due.
FireDelayed(n, e) ==
    /\ e \in delayed[n]
    /\ delayed' = [delayed EXCEPT ![n] = @ \ {e}]
    /\ queue'   = [queue EXCEPT ![n] = @ \cup {e}]
    /\ UNCHANGED <<api, cache, rev, fcache, pc, local, job, slots,
                   disk, root, stamp, wcache, faults>>

\* "crash" of an agent, a best-effort "hint" patch lost, a failed "realise",
\* "roll" of consumers or final "publish".
Fault(kind) ==
    /\ kind \in FaultKinds
    /\ faults < MaxFaults
    /\ faults' = faults + 1

\* The agent's pod dies and restarts: informers list afresh, every env is
\* enqueued; what the reconciles left on the node's disk stays.
Crash(n) ==
    /\ Fault("crash")
    /\ cache'   = [cache EXCEPT ![n] = api]
    /\ fcache'  = [fcache EXCEPT ![n] = rev]
    /\ wcache'  = [wcache EXCEPT ![n] = stamp]
    /\ queue'   = [queue EXCEPT ![n] = Envs]
    /\ delayed' = [delayed EXCEPT ![n] = {}]
    /\ pc'      = [pc EXCEPT ![n] = [e \in Envs |-> "idle"]]
    /\ local'   = [local EXCEPT ![n] = [e \in Envs |-> NewCR]]
    /\ job'     = [job EXCEPT ![n] = [e \in Envs |-> NoJob]]
    /\ slots'   = [slots EXCEPT ![n] = 0]
    /\ UNCHANGED <<api, rev, disk, root, stamp>>
-----------------------------------------------------------------------------
(* Reconcile, up to the realise slot: what is read is the cache.            *)

\* The worker takes e: the workqueue never hands out a key being processed.
Takes(n, e) == e \in queue[n] /\ pc[n][e] = "idle"

Dequeue(n, e) == queue' = [queue EXCEPT ![n] = @ \ {e}]
\* Mutant: the reconcile returns neither a requeue nor the error.
NoRequeue(n, e) == UNCHANGED delayed

Requeue(n, e) == delayed' = [delayed EXCEPT ![n] = @ \cup {e}]

Patched(e, base, new) == [api EXCEPT ![e] = MergePatch(@, base, new)]

\* A patch whose error the code drops.
BestEffort(e, base, new) ==
    \/ api' = Patched(e, base, new) /\ UNCHANGED faults
    \/ UNCHANGED api /\ Fault("hint")

IsNew(n, e) == cache[n][e].ready.reason = "None"

\* Past the first touch and the idempotent short-circuit.
ToRealise(n, e) ==
    /\ Takes(n, e)
    /\ ~IsNew(n, e)
    /\ ~AlreadyRealized(n, cache[n][e])

Rejected(n, e)   == cache[n][e].gen \in Malformed
Unresolved(n, e) == e \in CatalogEnvs /\ fcache[n] = 0

\* markPending: a failed patch is returned, so both outcomes requeue.
FirstTouch(n, e) ==
    /\ Takes(n, e)
    /\ IsNew(n, e)
    /\ BestEffort(e, cache[n][e], SetReady(cache[n][e], "Pending", NoNode))
    /\ Dequeue(n, e)
    /\ Requeue(n, e)
    /\ UNCHANGED <<cache, rev, fcache, pc, local, job, slots,
                   disk, root, stamp, wcache>>

SkipRealized(n, e) ==
    /\ Takes(n, e)
    /\ ~IsNew(n, e)
    /\ AlreadyRealized(n, cache[n][e])
    /\ Dequeue(n, e)
    /\ UNCHANGED <<api, cache, rev, fcache, delayed, pc, local, job, slots,
                   disk, root, stamp, wcache, faults>>

\* The returns that record a condition and requeue without a realise: fail
\* for a manifest that does not parse, serialise or name a catalog, and
\* waitForFlake, waitForDeps.
Hold(n, e, reason) ==
    /\ ToRealise(n, e)
    /\ BestEffort(e, cache[n][e], SetReady(cache[n][e], reason, NoNode))
    /\ Dequeue(n, e)
    /\ Requeue(n, e)
    /\ UNCHANGED <<cache, rev, fcache, pc, local, job, slots,
                   disk, root, stamp, wcache>>

RejectManifest(n, e) ==
    /\ Rejected(n, e)
    /\ Hold(n, e, IF e \in CatalogEnvs THEN "FlakeResolveFailed"
                                       ELSE "SerializeFailed")

WaitForFlake(n, e) ==
    /\ ~Rejected(n, e) /\ Unresolved(n, e)
    /\ Hold(n, e, "WaitingForFlake")

WaitForDeps(n, e) ==
    /\ ~Rejected(n, e) /\ ~Unresolved(n, e)
    /\ UnmetDeps(n, e) # {}
    /\ Hold(n, e, "WaitingForDeps")

\* Everything resolved: the reconcile has read its inputs and waits for a slot.
Begin(n, e) ==
    /\ ToRealise(n, e)
    /\ ~Rejected(n, e) /\ ~Unresolved(n, e)
    /\ UnmetDeps(n, e) = {}
    /\ pc'    = [pc EXCEPT ![n][e] = "slot"]
    /\ local' = [local EXCEPT ![n][e] = cache[n][e]]
    /\ job'   = [job EXCEPT ![n][e] =
                    [gen    |-> cache[n][e].gen,
                     relock |-> cache[n][e].ann,
                     lock   |-> RequestedLock(cache[n][e]),
                     prev   |-> cache[n][e].lock,
                     ref    |-> IF e \in CatalogEnvs THEN fcache[n] ELSE 0]]
    /\ Dequeue(n, e)
    /\ UNCHANGED <<api, cache, rev, fcache, delayed, slots,
                   disk, root, stamp, wcache, faults>>
-----------------------------------------------------------------------------
(* Reconcile, holding a slot.                                               *)

Step(n, e, from, to) ==
    /\ pc[n][e] = from
    /\ pc' = [pc EXCEPT ![n][e] = to]

\* Mutant: the slot is not given back.
ReturnWithSlot(n, e) ==
    /\ pc'    = [pc EXCEPT ![n][e] = "idle"]
    /\ local' = [local EXCEPT ![n][e] = NewCR]
    /\ job'   = [job EXCEPT ![n][e] = NoJob]
    /\ UNCHANGED slots

\* Every return after the slot was taken: deferred release, locals gone.
Return(n, e) ==
    /\ pc'    = [pc EXCEPT ![n][e] = "idle"]
    /\ local' = [local EXCEPT ![n][e] = NewCR]
    /\ job'   = [job EXCEPT ![n][e] = NoJob]
    /\ slots' = [slots EXCEPT ![n] = @ - 1]

AcquireSlot(n, e) ==
    /\ slots[n] < RealizeSlots
    /\ Step(n, e, "slot", "mark")
    /\ slots' = [slots EXCEPT ![n] = @ + 1]
    /\ UNCHANGED <<api, cache, rev, fcache, queue, delayed, local, job,
                   disk, root, stamp, wcache, faults>>

\* markRealizing: a patch that succeeds decodes the server's object into env.
MarkRealizing(n, e) ==
    LET base == local[n][e]
        new  == SetReady(base, "Realizing", n)
    IN  /\ Step(n, e, "mark", "write")
        /\ \/ /\ api'   = Patched(e, base, new)
              /\ local' = [local EXCEPT ![n][e] = MergePatch(api[e], base, new)]
              /\ UNCHANGED faults
           \/ /\ Fault("hint")
              /\ local' = [local EXCEPT ![n][e] = new]
              /\ UNCHANGED api
        /\ UNCHANGED <<cache, rev, fcache, queue, delayed, job, slots,
                       disk, root, stamp, wcache>>

\* Realize writes manifest.toml, and manifest.lock if the request has one.
WriteEnv(n, e) ==
    /\ Step(n, e, "write", "build")
    /\ disk' = [disk EXCEPT ![n][e] =
                   IF job[n][e].lock # NoLock THEN job[n][e].lock ELSE @]
    /\ UNCHANGED <<api, cache, rev, fcache, queue, delayed, local, job, slots,
                   root, stamp, wcache, faults>>

\* buildEnv: flox activate locks if needed and builds the closure.
BuildEnv(n, e) ==
    /\ Step(n, e, "build", "link")
    /\ disk' = [disk EXCEPT ![n][e] = SettledLock(@, job[n][e], e)]
    /\ UNCHANGED <<api, cache, rev, fcache, queue, delayed, local, job, slots,
                   root, stamp, wcache, faults>>

\* Mutant: a GC-root that exists is left as it is.
LinkNewRoot(n, e) ==
    /\ Step(n, e, "link", "image")
    /\ root' = [root EXCEPT ![n][e] = IF @ = NoLock THEN disk[n][e] ELSE @]
    /\ UNCHANGED <<api, cache, rev, fcache, queue, delayed, local, job, slots,
                   disk, stamp, wcache, faults>>

\* addEnvSubtree and the rename in writeGcroot: the plugin sees the new tree.
LinkRoot(n, e) ==
    /\ Step(n, e, "link", "image")
    /\ root' = [root EXCEPT ![n][e] = disk[n][e]]
    /\ UNCHANGED <<api, cache, rev, fcache, queue, delayed, local, job, slots,
                   disk, stamp, wcache, faults>>

\* The activation GC-root, the image import, and the choice to roll or not.
FinishRealize(n, e) ==
    /\ Step(n, e, "image", IF disk[n][e] # job[n][e].prev THEN "roll"
                                                          ELSE "publish")
    /\ UNCHANGED <<api, cache, rev, fcache, queue, delayed, local, job, slots,
                   disk, root, stamp, wcache, faults>>

\* Any host step can fail or run into RealizeTimeout.
FailRealize(n, e) ==
    /\ pc[n][e] \in {"write", "build", "link", "image"}
    /\ Fault("realise")
    /\ \/ api' = Patched(e, local[n][e],
                         SetReady(local[n][e], "RealizeFailed", NoNode))
       \/ UNCHANGED api
    /\ Requeue(n, e)
    /\ Return(n, e)
    /\ UNCHANGED <<cache, rev, fcache, queue, disk, root, stamp, wcache>>

\* Mutant: a workload that has a marker is never stamped again.
StampedOnce(n, e) == {w \in Workloads : wcache[n][e][w] = NoLock}

\* stampConsumer skips a workload whose cached marker is already the lock.
Unstamped(n, e) == {w \in Workloads : wcache[n][e][w] # disk[n][e]}

Stamped(n, e, done) ==
    [stamp EXCEPT ![e] = [w \in Workloads |->
        IF w \in done THEN disk[n][e] ELSE @[w]]]

RollConsumers(n, e) ==
    /\ Step(n, e, "roll", "publish")
    /\ stamp' = Stamped(n, e, Unstamped(n, e))
    /\ UNCHANGED <<api, cache, rev, fcache, queue, delayed, local, job, slots,
                   disk, root, wcache, faults>>

\* One or more of the patches fail: the errors are joined, the others stand.
RollFails(n, e) ==
    /\ pc[n][e] = "roll"
    /\ Fault("roll")
    /\ \E failed \in (SUBSET Unstamped(n, e)) \ {{}} :
          stamp' = Stamped(n, e, Unstamped(n, e) \ failed)
    /\ \/ api' = Patched(e, local[n][e],
                         SetReady(local[n][e], "RestartConsumersFailed", NoNode))
       \/ UNCHANGED api
    /\ Requeue(n, e)
    /\ Return(n, e)
    /\ UNCHANGED <<cache, rev, fcache, queue, disk, root, wcache>>

\* Mutant: upsertRealization does not compare the node.
AllNodesRealized(n, e) ==
    SetReady([local[n][e] EXCEPT
                 !.lock     = disk[n][e],
                 !.token    = job[n][e].relock,
                 !.realized = [m \in Nodes |-> [gen  |-> local[n][e].gen,
                                                path |-> root[n][e]]]],
             "Realized", n)

\* The status written after a realise.
RealizedStatus(n, e) ==
    SetReady([local[n][e] EXCEPT
                 !.lock        = disk[n][e],
                 !.token       = job[n][e].relock,
                 !.realized[n] = [gen  |-> local[n][e].gen,
                                  path |-> root[n][e]]],
             "Realized", n)

Publish(n, e) ==
    /\ pc[n][e] = "publish"
    /\ api' = Patched(e, local[n][e], RealizedStatus(n, e))
    /\ Return(n, e)
    /\ UNCHANGED <<cache, rev, fcache, queue, delayed, disk, root, stamp,
                   wcache, faults>>

PublishFails(n, e) ==
    /\ pc[n][e] = "publish"
    /\ Fault("publish")
    /\ Requeue(n, e)
    /\ Return(n, e)
    /\ UNCHANGED <<api, cache, rev, fcache, queue, disk, root, stamp, wcache>>
-----------------------------------------------------------------------------
Worker(n, e) ==
    \/ FirstTouch(n, e)
    \/ SkipRealized(n, e)
    \/ RejectManifest(n, e)
    \/ WaitForFlake(n, e)
    \/ WaitForDeps(n, e)
    \/ Begin(n, e)
    \/ AcquireSlot(n, e)
    \/ MarkRealizing(n, e)
    \/ WriteEnv(n, e)
    \/ BuildEnv(n, e)
    \/ LinkRoot(n, e)
    \/ FinishRealize(n, e)
    \/ RollConsumers(n, e)
    \/ Publish(n, e)

Informers(n) ==
    \/ \E e \in Envs : Deliver(n, e)
    \/ DeliverCatalog(n)
    \/ DeliverWorkloads(n)

Failures(n, e) ==
    \/ FailRealize(n, e)
    \/ RollFails(n, e)
    \/ PublishFails(n, e)

Editors ==
    \/ \E e \in Envs : EditSpec(e)
    \/ AdvanceRev
    \/ \E e \in Envs : StampRelock(e)

Next ==
    \/ Editors
    \/ \E n \in Nodes :
          \/ Informers(n)
          \/ Crash(n)
          \/ \E e \in Envs : FireDelayed(n, e) \/ Worker(n, e) \/ Failures(n, e)

Spec == Init /\ [][Next]_vars

\* Informers deliver, timers fire, and a worker goroutine that can take its
\* next step takes it; edits, catalog advances and faults are never owed.
Fairness ==
    \A n \in Nodes :
        /\ WF_vars(DeliverCatalog(n))
        /\ WF_vars(DeliverWorkloads(n))
        /\ \A e \in Envs :
              /\ WF_vars(Deliver(n, e))
              /\ WF_vars(FireDelayed(n, e))
              /\ WF_vars(Worker(n, e))

FairSpec == Spec /\ Fairness
-----------------------------------------------------------------------------
(* Properties.                                                              *)

\* Every variable keeps its type.
TypeOK ==
    /\ api     \in [Envs -> CR]
    /\ cache   \in [Nodes -> [Envs -> CR]]
    /\ rev     \in Nat
    /\ fcache  \in [Nodes -> Nat]
    /\ queue   \in [Nodes -> SUBSET Envs]
    /\ delayed \in [Nodes -> SUBSET Envs]
    /\ pc      \in [Nodes -> [Envs -> Steps]]
    /\ local   \in [Nodes -> [Envs -> CR]]
    /\ job     \in [Nodes -> [Envs -> Job]]
    /\ slots   \in [Nodes -> Int]
    /\ disk    \in [Nodes -> [Envs -> Lock]]
    /\ root    \in [Nodes -> [Envs -> Lock]]
    /\ stamp   \in [Envs -> [Workloads -> Lock]]
    /\ wcache  \in [Nodes -> [Envs -> [Workloads -> Lock]]]
    /\ faults  \in Nat

\* The slots channel holds exactly one token per reconcile between acquire and
\* return, whichever return it takes, so at most RealizeSlots builds run.
SlotsAccounted ==
    \A n \in Nodes :
        /\ slots[n] = Cardinality({e \in Envs : pc[n][e] \in Working})
        /\ slots[n] <= RealizeSlots

\* An entry of status.realized is backed by what the plugin reads on that
\* node: a GC-root exists, it is for the reported tree's generation or a later
\* one, and the reported tree is not newer than the entry's own generation.
\* Holds across stale reads, lost patches, crashes and other nodes' writes.
EntryBacked ==
    \A e \in Envs, n \in Nodes :
        LET entry == api[e].realized[n]
        IN  entry.gen > 0 =>
                /\ root[n][e] # NoLock
                /\ entry.path.gen <= root[n][e].gen
                /\ entry.path.gen <= entry.gen

\* The plugin-facing GC-root of a node never goes back to the tree of an
\* older manifest, however stale the copies its reconciles start from.
RootMonotone ==
    [][\A n \in Nodes, e \in Envs : root[n][e].gen <= root'[n][e].gen]_vars

\* An env is built only after each env it depends on has its tree on some
\* node, however old the copies its wait was decided on (dependsOn).
DepsMaterialisedSomewhere ==
    \A n \in Nodes, e \in Envs :
        pc[n][e] # "idle" =>
            \A d \in DependsOn[e] : \E m \in Nodes : root[m][d] # NoLock

\* ... and on the node that builds it, so that its includes resolve.
DepsMaterialised ==
    \A n \in Nodes, e \in Envs :
        pc[n][e] # "idle" => \A d \in DependsOn[e] : root[n][d] # NoLock

Pending(n, e) == e \in queue[n] \cup delayed[n] \/ pc[n][e] # "idle"

\* Nothing will wake the reconcile of e on n again: no work, no event that
\* passes the predicate on its way, no catalog revision still to be stamped.
Settled(n, e) ==
    /\ ~Pending(n, e)
    /\ ~RealisationChange(cache[n][e], api[e])
    /\ api[e].ann = rev

\* A node that has not realised the current generation, or has a relock
\* pending, has work queued or an event on its way: status writes enqueue
\* nothing, so nothing else would ever bring the reconcile back.
NoLostWork ==
    \A n \in Nodes, e \in Envs :
        \/ AlreadyRealized(n, api[e])
        \/ Pending(n, e)
        \/ RealisationChange(cache[n][e], api[e])

\* What status.realized and status.relockToken say of n is what n has built.
Exact(n, e) ==
    /\ api[e].realized[n].gen = api[e].realized[n].path.gen
    /\ api[e].token <= api[e].lock.rev

Delivered(n, e) ==
    /\ root[n][e] = api[e].lock
    /\ \A w \in Workloads : stamp[e][w] = api[e].lock

\* At rest, the pin in status.lock, the tree the plugin reads and the marker
\* that rolled each consumer are one and the same: a failed roll, a failed
\* status patch or a crash between the two is made good, as long as the status
\* does not claim what was not built.
PinDelivered ==
    \A n \in Nodes, e \in Envs : Settled(n, e) /\ Exact(n, e) => Delivered(n, e)

\* ... a failure leaves the old pin, and the next reconcile tries again.
FailureMadeGood == \A n \in Nodes, e \in Envs : Settled(n, e) => Delivered(n, e)

\* A consumer is only ever rolled onto, and status.lock only ever set to, a
\* tree that some node's GC-root points at by then: the host effects of a
\* realise come before what it tells the rest of the cluster.
TreesFirst ==
    [][\A e \in Envs :
          LET served == {root[n][e] : n \in Nodes}
          IN  /\ \A w \in Workloads :
                    stamp'[e][w] \in served \cup {stamp[e][w]}
              /\ api'[e].lock \in served \cup {api[e].lock}]_vars

\* status.realized is a per-node map: a write for one node never removes or
\* sets back the entry of another.
EntriesKept ==
    [][\A e \in Envs, n \in Nodes :
          api[e].realized[n].gen <= api'[e].realized[n].gen]_vars

\* Every node locks identically: at rest all nodes serve the same tree.
NoNodeDrift ==
    \A e \in Envs :
        (\A n \in Nodes : Settled(n, e)) =>
            \A n, m \in Nodes : root[n][e] = root[m][e]

\* observedGeneration is the generation the realised tree reflects.
ObservedGenerationExact ==
    \A e \in Envs, n \in Nodes :
        api[e].realized[n].gen = api[e].realized[n].path.gen

\* A relock token is recorded only once the inputs were re-locked at that
\* revision or a later one.
RelockHonoured == \A e \in Envs : api[e].token <= api[e].lock.rev

\* At rest the transient Realizing hint has been overwritten by the terminal
\* condition.
HintOverwritten ==
    \A e \in Envs :
        (\A n \in Nodes : Settled(n, e)) => api[e].ready.reason # "Realizing"

Realisable(e) ==
    api[e].gen \notin Malformed /\ (e \in CatalogEnvs => rev > 0)

\* Once edits, advances and faults stop, every agent comes to report the
\* current generation of every env that can be realised, its last relock
\* honoured: no env is left behind by a wait, a failure or a busy slot.
Converges ==
    <>[](\A n \in Nodes, e \in Envs :
            Realisable(e) => AlreadyRealized(n, api[e]))

\* The agent realises the lock it was given and never re-locks.
LockVerbatim ==
    \A n \in Nodes, e \in Envs :
        pc[n][e] \in {"link", "image"} => disk[n][e] = job[n][e].lock

\* What the rest of the system sees of the agents.
Seen == INSTANCE NodeRealization WITH
            gen   <- [e \in Envs |-> api[e].gen],
            entry <- [e \in Envs |-> [n \in Nodes |-> api[e].realized[n].gen]],
            root  <- [n \in Nodes |-> [e \in Envs |-> root[n][e].gen]]

\* The agents keep the promise the pod gate is built on: whatever is stale,
\* lost or killed, status.realized only ever names nodes that have a GC-root.
KeepsPromise == Seen!RealizationSpec
=============================================================================
