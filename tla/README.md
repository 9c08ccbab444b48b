# A verification development of flox-controller

flox-controller realises [flox](https://flox.dev) environments on the nodes of a
Kubernetes cluster and lets pods mount them. This directory holds TLA+ models of
its reconcilers, the TLC configurations that check them on small instances, and
TLAPS proofs of what holds on instances of every size. Line numbers are those of
the Go sources under `src/`.

## The system

| Part | State it keeps | Operations | Talks to |
|---|---|---|---|
| FloxEnv reconciler, one **node agent** per node (`internal/controller/floxenv_controller.go`) | the FloxEnv informer and workqueue, the `slots` channel; on the API server `status.{realized,lock,relockToken,conditions}` | `Reconcile`: short-circuit, hold (manifest, flake, dependencies), mark, realise, roll, publish | API server, host provisioner, FloxCatalog informer |
| Consumer restart (`floxenv_restart.go`) | the restart marker on Deployments, StatefulSets, DaemonSets | `restartConsumers`, `stampConsumer` | workload informers, API server |
| Host provisioner (`internal/provisioner/exec.go`) | the env directory with `manifest.toml`, `manifest.lock` and the staging directory, two GC-roots, the image | `Realize`: write, lock and build on the host, stage, add to the store, link, import image | host nix, flox, containerd |
| FloxCatalog reconciler (`floxcatalog_controller.go`) | `status.{flakeRef,revision,envs,conditions}` of the catalog, the relock annotation on every FloxEnv of its namespace | resolve the source, roll envs up, propagate the relock | Flux sources, FloxEnv informer |
| Pod gate (`podgate_controller.go`) | the scheduling gate and node affinity of pods | look up each env, narrow, release | pod and FloxEnv informers |
| Pod webhook (`internal/webhook/podflox.go`) | none of its own; the pod at admission, the claims of nix stores | `Default`: env variables, gate, claims | FloxEnv informer, API server |
| Base carrier (`internal/carrier/carrier.go`) | one FloxEnv, created or updated at startup | `EnsureBase` | FloxEnv informer, API server |
| Wiring, settings, API types, CRDs | — | flags, annotation parsing, field declarations | — |

An editor writes `FloxEnv.spec`; every node agent realises it and writes its own
entry of `status.realized`; the pod gate reads those entries and lets gated pods
go to the nodes that have them. Pods get the gate from the webhook, and the
runtime plugin mounts what the node's GC-root points at when a container starts.
A FloxCatalog watches a Flux source; when the
source advances it publishes the new flake ref and writes a token (the revision)
into an annotation of each FloxEnv, and the node agents re-lock. Nothing is
elected: node agents run side by side by design, and every process started with
the catalog reconciler or the webhook runs a redundant copy of that reconciler.

What makes it hard:

- *Copies.* Every read is from an informer; status patches are differences to a
  copy, and merge patches replace lists whole.
- *Filters.* Status writes do not pass the watch predicates, so whatever is not
  requeued is never seen again.
- *Non-atomic reconciles.* Minutes pass between reading a manifest and publishing
  its generation; the object is refreshed in between.
- *Redundancy.* Several processes write one status, one annotation, one pod.
- *Failures.* Builds, rolls and patches fail one by one, agents die half way, and
  the disk and the API server keep what was done. A command that runs on the host,
  in a scope of its own, survives the call that started it.
- *Waiting.* Envs wait for dependencies, catalogs and slots; pods wait for envs.

What makes each part correct: a reported realisation exists on its node and
covers the generation it names; a realisation, once due, happens; the pin of
record, the tree and the consumers agree; slots do not leak; GC-roots do not go
back; a pod leaves the gate only for nodes that can mount its envs, and it does
leave; a pod that is admitted finds its claims; what the plugin mounts is the tree
of one manifest; the consumers' pods run the new closure; a token is stamped only
after the flake it stands for, every env gets it, and a revision is re-locked once;
an operator's carrier is never clobbered, and a new version's carrier prevails.

`PROJECT.json` lists the hazards at their lines, each with the properties that
would catch it, or why none does.

## The modules

### FloxEnvAgents

Agents of all nodes, their workqueues and disks, the editor and the catalog's
writes.

| Model | Code |
|---|---|
| `api`, `cache[n]` | the FloxEnv on the API server, the informer copy of n's agent |
| `local[n][e]`, `job[n][e]` | `env` and the other locals of `Reconcile` |
| `pc[n][e]` | where the reconcile stands between two API calls or host effects |
| `queue`, `delayed` | workqueue; `RequeueAfter` and back-off |
| `slots` | the `slots` channel, counted |
| `disk`, `root` | `manifest.lock`, the plugin-facing GC-root |
| `stamp`, `wcache` | the restart marker on a consumer and its informer copy |
| `rev`, `fcache` | the flake revision in `FloxCatalog.status`, its informer copy |
| `SkipRealized`, `FirstTouch`, `RejectManifest`, `WaitForFlake`, `WaitForDeps`, `Begin` | the paths of `Reconcile` up to the slot, each a return |
| `AcquireSlot`, `MarkRealizing`, `WriteEnv`, `BuildEnv`, `LinkRoot`, `FinishRealize`, `RollConsumers`, `Publish` | the rest of it, one action per step another process can get between |
| `FailRealize`, `RollFails`, `PublishFails`, `Crash` | the failures |
| `EditSpec`, `AdvanceRev`, `StampRelock` | the surroundings |

`MergePatch` is `client.MergeFrom`: a field reaches the server only if it differs
from the base, and a list is replaced whole. A lock is the manifest generation it
locks and the revision its flake inputs resolved to; it determines the store
path, so one value stands for lock, tree and marker. The reading of an object and
the decisions taken from it without an API call are one action.
`SettledLock` is flox's own lock-if-needed, modelled from how the code uses it.

`FloxEnvAgentsHistory` adds one history variable: `takenBack[n][e]`, whether a status
write has ever set `n`'s entry of `e`, or the token of `e`, to an older one. Merge
patches from copies of different age do that, and it is what `LostOnlyIfTakenBack`
excepts.

### NodeRealization

The abstract contract between agents and everybody who reads `status.realized`:
`gen`, `entry`, `root`, and three actions (an env is edited, an agent points its
GC-root at a tree, a patch replaces the list by entries of nodes that have a
root). It promises little on purpose: it is what survives stale copies, lost
patches and crashes. `FloxEnvAgents` implements it (`KeepsPromise`, a refinement
mapping through `INSTANCE`), and `PodGate` is built on it instead of on the
agents, so what the gate guarantees follows from that contract alone. Both are
proved, in `FloxEnvAgents_refinement` and `PodGate_proofs`.

### PodGate

Redundant gates with a pod informer, a FloxEnv informer, a queue and a worker
each (`Take`, `CheckRef` per reference, `StayGated`, `Release`,
`ReleaseConflicts`), the FloxEnv watch (`DeliverEnv` with `gatedPodsForEnv`) and
the pod watch with its predicate (`DeliverPod`), another controller that writes
pods (`TouchPod`) and restarts. `resourceVersion` is `pod.rv`; a required
node affinity is the set of its terms, a term the set of nodes it matches.
`MCPodGateHistory` adds a history variable for one question about it.

### PodAdmission

The webhook in front of `PodGate` (it EXTENDS it). `req[p]` is the CREATE request
of `p` some manager is serving: `Ask` sends it, `Resolve` looks one env up
(`resolveInjects`, in the manager's own informer copy), `EnsureClaim` creates one
claim (`ensureNixStorePVC`), `Admit` ends the handler and the API server stores the
pod, with the gate unless it refers to no env or has a node already
(`injectFloxWait`). `Reject` and `RestartServing` (a manager that dies) drop a
request half way, and leave what it has created. How variables, volumes and mounts
are put into the pod is data: of the variables the model keeps which envs' inject
the pod was given.

### ConsumerDelivery

The pods behind the restart marker: `FloxEnvAgents` (EXTENDS) with one pod per
workload and node. `StartPod` starts or replaces a pod made from the template's
current marker and mounts the tree its node's GC-root points at; `RestartContainer`
does the latter alone. Agents see templates, not pods.

### Provisioner

`Realize` on one node, one host effect per action, in the order of `exec.go`:
`WriteManifest`, `WriteLock`, `SpawnBuild` and `BuildDone` (`buildEnv` and the run
symlink), `CleanStage`, `StageToml`, `StageLock`, `AddSubtree`, `Unstage`
(`addEnvSubtree`), `LinkEnv` and `LinkActivation` (`writeGcroot`, the two roots),
`Containerize`, `ImportImage` and `ImportDone` (`containerizeAndImport`), `Capture`
(the lock that is returned). `proc` holds the commands on the host, modelled from how
the code uses them: `flox activate` (`FloxReads`, `FloxLocks`, `FloxBuilds`),
`flox containerize` (which reads and locks as the former does, then `FloxPacks`
writes `.flox/containerize.tar`) and `ctr images import` (`CtrReads` the tar,
`CtrImports`). `BuildCut` (a failure or `RealizeTimeout`) and `Crash` end the call
that waits, but not necessarily the command: all three run behind nsenter, and the
two of flox in a systemd scope (`hostScopedCommand`), so each may go on, next to the
retry, as an orphan. `StepFails` ends it anywhere else. A file is the manifest it is about: env and
generation. `calm` and `quiet` are history variables: nobody else has been at work
in the directory during the realise, nor any command left there. `KeepsContract` maps the module to
`NodeRealization` on one node, so the contract is implemented twice: by the agents,
with the host in brief, and by the host.

### Carrier

`EnsureBase` in any number of controllers of several versions, call by call:
`Get` (from the informer copy), `Create`, `Update` (with the `resourceVersion` of
the copy), `CallFails`; starts and restarts during a rollout, in which a pod of an
old version may start again; status patches by node agents on the same object; an
operator who forks the carrier (removes the label) or deletes it.

### FloxCatalog

Redundant catalog reconcilers: `Resolve` (from the informer copy of the source
and the catalog, with the rollup of the envs), `PatchStatus`, `ListEnvs`,
`StampEnv` per env, `Finish`, `NotReady`, `CallFails`, `Crash`; sources
that publish artifacts; envs that are created and, when their annotation
differs from their token, re-lock (`StartRealize`, `FinishRealize`, the agents
in brief). Env events are kept in order in `inbox`, because
`envReadinessChange` compares the old copy of an event with its new one.

## The runs

Every module has an MC module with its instances, and each run a `.cfg`.
Nine runs pass, three exhibit a violation.

| Run | Instance | Shows |
|---|---|---|
| `delivery` | 1 node, 1 catalog env with a consumer, an edit, 2 revisions, a fault of any kind | types; `SlotsAccounted`; `PinDelivered`: at rest pin, tree and markers agree; `PodsFresh`: and the pods run on that tree |
| `converge` | 1 node with 1 slot, a consumed catalog env and the env it includes: the former edited twice, generation 2 malformed, a relock, 2 faults (no lost hint); or both just applied | `NoLostWork`: an agent that is behind has work or an event coming; `Converges`: it catches up, and nobody waits for ever |
| `deps` | 2 nodes, a consumed env that includes another: both just arrived, or served and then one edited, with a fault of any kind | `DepsMaterialisedSomewhere`: no build before each dependency has a tree on some node, however old the copy in which it was Ready; `TreesFirst`: consumers are rolled onto, and `status.lock` is set to, nothing but what some GC-root points at |
| `cluster` | 2 nodes, an edit, a crash or a lost hint | `EntryBacked`; `LostOnlyIfTakenBack`: an agent that is behind has work or an event coming, unless a status write took something back; `RootMonotone`; `KeepsPromise` (refinement) |
| `gate_managers` | 2 gates, one of which restarts, 2 nodes, another writer | types; `ReleasedOntoRoots`; `NothingUndone`: redundant gates never widen a pod or gate it again |
| `admission` | 1 manager that restarts, 2 pods that share a claim, one of which refers to 2 envs, a failed request | types; `ClaimsThere`; `Admitted`; behind the webhook, `ReleasedOntoRoots` with two lookups of different age, and `GateOpens` without any polling |
| `catalog` | 1 reconciler, an env from nothing or 2 that are up, 2 artifacts, a fault of any kind | types; `StampFollowsStatus`; `EnvsCatchUp` |
| `host` | 1 image env, an edit, 3 commands on the host at once, 2 faults | types; `CalmRealiseHeals`; `ReportCovered`; `KeepsContract` (refinement) |
| `carrier` | 2 controllers, 2 versions, 3 starts, 3 writes of others | types; `ForkKept`; `RolloutPropagates` |
| `v_entries` | 2 nodes, no fault | violates `EntriesKept` |
| `v_observed` | 1 node, 1 edit | violates `ObservedGenerationExact` |
| `v_stale_pods` | 2 nodes, a relock, no fault | violates `PodsFresh` |

One more configuration passes: `Gate_opens.cfg` is a wider instance of the gate alone
(2 nodes, pods tied to alternatives of nodes) for `ReleasedOntoRoots` and
`GateOpens`.

### Bounds

Bounds sit in the guards of the environment's actions only: `MaxGen` (edits),
`MaxRev` (artifacts, relocks), `MaxFaults` with `FaultKinds`, `MaxTouch`,
`MaxRestart`, and `MaxLag` (env events an informer may be behind). One edit
is enough for a stale copy to exist; two relocks for a token and a
lock to be off by one; two faults for a retry to fail again; two nodes for every
disagreement about a shared list or condition, since agents meet only through
one object; two references, one after the other, for the intersection of
readiness sets to mix ages. The deadlock check is off everywhere, since once
edits, artifacts and faults are used up everything comes to rest.

`MaxReject`, `MaxStarts`, `MaxWrites` and the set `Procs` of host commands bound
the other modules in the same way: three commands are two orphans and the one that is
waited for, with two faults to orphan them; three starts are an old version that
starts again after the first start of the new one.

Two envs with everything between them are too many for TLC from nothing. `deps` and
`converge` therefore start from states the agents reach in which no reconcile is
under way (`MCFloxEnvAgents`: both envs applied, marked Pending, or one or both
served), each of them with the edits and faults that are still to come; `catalog` and
`v_stale_pods` do the same with a cluster that is up.

`deps`, `cluster`, `gate_managers`, `host`, `carrier` and `v_stale_pods` use symmetry,
of nodes, gates, commands and controllers; no liveness property is checked in them.
`NoLostWork` and `Converges` exclude the lost `Realizing` hint and a second node:
`Agents_v_lost_hint` shows what happens with the one, `v_entries` with the other;
`LostOnlyIfTakenBack` says what remains with both. `PinDelivered` and
`PodsFresh` speak of nodes whose status is exact (`Exact`): `v_observed` shows how
an edit makes it inexact, after which nobody has a reason to deliver anything.
`PodsFresh` passes on one node and is violated on two, where `v_stale_pods` starts
from a cluster that is up (`InitUp`, a state the agents reach) to spare the way
there. `CalmRealiseHeals` is about a directory of one env; `Host_v_shared` is the
other case.

### Fairness

Weak fairness of informer deliveries and timers (client-go and the workqueue
deliver), of a worker goroutine that has a step to take (100 workers per agent,
so every queued env has one), and of the agents seen by the catalog. The gate and
the catalog have one worker for all keys: taking a given key is strongly fair,
since the workqueue is first-in first-out and a key that is offered again and
again is not passed over for ever. In the admission the workload controller that
owns a pod tries again for as long as the pod is not stored, and a webhook call that
is under way goes on or is dropped. `host` and `carrier` have safety properties only
and assume nothing. Edits, artifacts, creations, other
controllers, faults and restarts owe nothing.

## What the checks found

Three disagreements between the code and what it says of itself are runs:

- **`EntriesKept`** — `status.realized` is declared a map by node, but it is
  patched with a JSON merge patch, which replaces the list: two nodes that
  publish from copies of different age drop each other's entry, and since status
  writes are filtered nobody puts it back.
- **`ObservedGenerationExact`** — `markRealizing` refreshes `env` from the server,
  so the generation published can be newer than the manifest that was built, and
  the edit is then short-circuited.
- **`PodsFresh`** — the first agent to realise a new lock stamps its digest on every
  consumer, and all their pods restart, also on nodes that have not realised it:
  those start on the old tree, and when their own agent gets there the template
  carries the digest already, so nothing restarts them again.

The other properties below are stated in the modules and do not hold either.
Their configurations are kept and reproduce the counterexamples (`tlc -config
<cfg> <MC module>`), but they are not among the regular runs.

| Property | Configuration | What happens |
|---|---|---|
| `NoNodeDrift` | `Agents_v_drift` | `relockToken` is one field for all nodes: the first to re-lock silences the others |
| `RelockHonoured` | `Agents_v_relock` | a relock of an env without catalog keeps the `manifest.lock` on disk, as an empty lock in the request does not remove it |
| `RelockHonoured` | `Agents_v_relock_catalog` | the annotation overtakes the FloxCatalog informer: the token is recorded for the old flake |
| `HintOverwritten` | `Agents_v_hint` | a redundant realise marks `Realizing`, the agent dies, and the next reconcile short-circuits |
| `FailureMadeGood` | `Agents_v_roll` | an edit during a realise, then a failed roll: the retry is short-circuited and the consumers keep the old tree |
| `FailureMadeGood` | `Agents_v_pin` | the same without an edit: a redundant realise from a stale copy re-locks, links the new tree, and dies or fails its roll |
| `NoLostWork` | `Agents_v_lost_hint` | a lost hint leaves a stale base, and the final patch takes an entry back; on two nodes it is taken back without any fault (`v_entries`) |
| `DepsMaterialised` | `Agents_v_deps` | on two nodes the dependency is Ready because of the other node, and the env is built where the dependency has no tree; `floxenv_types.go:51-58` says of the wait that "parallelism never races an include" |
| `LockVerbatim` | `Agents_v_verbatim` | the agent does re-lock, against the comment on `status.lock` |
| `ReleasedSchedulable` | `Gate_v_schedulable` | the gate looks for any node that has the envs, then adds it to the pod's own terms: the result may match no node, and a released pod is never looked at again |
| `InjectedWhenReleased` | `Admission_v_inject` | the env is created after the pod: the gate waits for it, but its inject is missing for good |
| `TreeConsistent` | `Host_v_orphan` | a build that outlived its timeout locks for the old manifest under the realise of the new one |
| `TreeWhole` | `Host_v_shared` | two FloxEnvs of one folder and name, in two namespaces, share a staging directory: the tree lacks its lock |
| `RolloutPropagatesAnyway` | `Carrier_v_failed` | a failed `EnsureBase` is not tried again before the next restart, as documented |
| `RelocksEnd` | `Catalog_v_two_catalogs` | two catalogs of one namespace stamp all its envs in turn, for ever |
| `ClearedTogether` | `Gate_v_together` | two references are looked up at different times: no node ever had both at once |
| `StampedAtRest`, `StampFollowsStatus` | `Catalog_v_redundant`, `Catalog_v_behind` | two reconcilers, one behind: the old revision is stamped back, or the status goes back after the stamp |
| `RollupCatchesUp` | `Catalog_v_rollup` | a rollup equal to the cached one is left out of the patch although the server has another |

One disagreement is between two descriptions, and needs no counterexample:
`docs/design.adoc:200` calls `carrier.EnsureBase` "create-if-absent", whereas
`carrier.go:32-34` says, and line 63 does, that a carrier which is there and still
labelled is updated. `Carrier` follows the code. The two are not the same: an
`EnsureBase` that only creates is the mutant `OnlyCreate`, with which a new version's
carrier never replaces the old one and `RolloutPropagates` is violated.

## What is proved

Each theorem is about any sets of nodes, envs, gates, pods, host commands and controllers,
any dependencies, references and affinities, and any bounds, under the assumptions
on the constants that the modules name. The step that an invariant is kept has one
case per action. Some theorems have a hypothesis, and each is there because the
statement is false without it, as a configuration shows:

- *one reconciler* (`Managers = {m}`): `Catalog_v_behind`;
- *a directory per env* (`OwnDirs`): `Host_v_shared`.

| Module | Theorem | States |
|---|---|---|
| `FloxEnvAgents_proofs` | `TypeCorrect` | `Spec => []TypeOK` |
| | `EntriesBacked` | `Spec => []EntryBacked` |
| | `RootsAdvance` | `Spec => RootMonotone` |
| | `SlotsBalance` | `Spec => []SlotsAccounted` |
| `FloxEnvAgents_refinement` | `AgentsKeepPromise` | `Spec => KeepsPromise` |
| | `DepsBuiltSomewhere` | `Spec => []DepsMaterialisedSomewhere` |
| | `TreesComeFirst` | `Spec => TreesFirst` |
| `FloxEnvAgentsHistory_proofs` | `WorkLostOnlyIfTakenBack` | `HistorySpec => []LostOnlyIfTakenBack` |
| `Provisioner_proofs` | `TypeCorrect` | `Spec => []TypeOK` |
| | `ReportsCovered` | a directory per env: `Spec => []ReportCovered` |
| | `HostKeepsContract` | a directory per env: `Spec => KeepsContract` |
| | `CalmRealisesHeal` | `Spec => []CalmRealiseHeals` |
| `FloxCatalog_proofs` | `TypeCorrect` | `Spec => []TypeOK` |
| | `StampsFollow` | one reconciler: `Spec => []StampFollowsStatus` |
| `PodGate_proofs` | `TypeCorrect` | `Spec => []TypeOK` |
| | `PodsFindRoots` | `Spec => []ReleasedOntoRoots` |
| | `GatesNeverUndo` | `Spec => NothingUndone` |
| `PodAdmission_proofs` | `AdmissionImplementsGate` | `AdmissionSpec => ImplementsGate` |
| | `AdmittedPodsFindRoots` | `AdmissionSpec => []ReleasedOntoRoots` |
| | `AdmissionTyped` | `AdmissionSpec => []AdmissionTypeOK` |
| | `StoredPodsFindClaims` | `AdmissionSpec => []ClaimsThere` |
| `Carrier_proofs` | `TypeCorrect` | `Spec => []TypeOK` |
| | `ForksKept` | `Spec => ForkKept` |
| | `RolloutsPropagate` | `Spec => []RolloutPropagates` |

Together, agents that behave as in `FloxEnvAgents` keep the contract, hosts that
behave as in `Provisioner` keep it on their node, and with nodes that keep the
contract no gate sends a pod where one of its envs has no GC-root.

**The agents.** `EntryBacked` is not inductive: an entry travels. The final patch
takes the other nodes' entries from the reconcile's own copy, which was a copy of
the cache, which was a copy of the server. So the invariant `IInv` says of *every*
copy what the theorem says of the server (`ApiBacked`, `CacheBacked`,
`LocalBacked`), and adds `Generations`: no copy, job, lock on disk or GC-root is
for a generation the server has not reached, and a step's job, disk and root are
ordered while it is between them. Roots only advance because a job is never older
than the root its node has, which in turn holds because caches only move forward
and one env has one reconcile per agent.

**The refinement** needs a little more (`SeenInv`): the contract also says that an
entry names a generation that has existed, and this, too, travels with the
copies; and a root is for a generation above 0, so that the mapping, which reads
"no root" as 0, does not lose one. A step that writes the API server is then one
of two: an edit, or a patch of one env's status by a list some copy held
(`StatusOnly`).

**The slots.** `SlotInv` identifies who holds a slot: `slots[n]` is the number of
envs between `AcquireSlot` and their return, a finite set however many envs there
are. Every return, failure and crash takes exactly its own env out of the set.

**The dependencies.** A build looks at the Ready condition in a copy, the property
speaks of trees. `DepsInv` says that Ready, on the server and in every informer
(`ReadyBuilt`), means that some node has linked a tree; only a reconcile that has
linked one publishes it, and roots stay. Which node is another matter, and nothing in
the code settles it (`Agents_v_deps`).

**Trees come first.** Only `RollConsumers` writes a marker and only `Publish` a
pin (`StampStep`, `TreesStep`): every other status patch sends the condition alone,
against a copy of its own, so the pin on the server stays what it was
(`ConditionPatched`). Both write the lock on the node's disk, and from `LinkRoot` to the
end of the reconcile that is what the node's root points at (`Generation`): one env has one
reconcile per agent, and nobody else writes that disk.

**Work is lost only when taken back.** A reconcile that finds its env realised ends
without a requeue, so the copy it looks at must not flatter: its token and entry are
no newer than the server's (`Behind`). That holds as long as the server's never go
back, which is the exception the property makes; nothing is assumed about nodes,
hints or failures. One that publishes ends without a requeue as well: `OnCourse` says
that it is for what its copy asks, or else the env has been enqueued again since.
`Advances` describes any step from the server's side, `Untouched` and one lemma per
path of the reconcile from the node's side.

**The host.** `ReportInv` says which file is this call's at which step: from
`WriteManifest` on the manifest on disk, then the staged one, the tree in the store,
the GC-root. An orphaned build may change the lock at any time, but it writes no
manifest, and with a directory per env nobody else does. So a report, made at the end
of a call, is covered by the root, and later calls are for later generations.
`CalmRealisesHeal` is about the locks too, and needs more (`HealInv`): while a call is
`calm`, every command on the host that works in its directory is the one it waits
for, be it `flox activate`, `flox containerize` or `ctr import` (`CalmCalls`,
`CommandsHeld`), so lock, tree, activation root, tar and image are about the call's
manifest when it gets to them; and what a calm call left stays whole until somebody
starts in that directory (`QuietDirs`). A retry next to an orphan of any of the three
is not calm, and nothing is claimed of it but `ReportCovered` and the contract. It
assumes nothing about who shares a directory, since sharing is what `calm` excludes.

**The catalog.** The token of an env is stamped from a reconcile's own result, the
status is patched as a difference to a cached copy, so the copy decides whether a new
revision reaches the server. `StampInv` says that with one reconciler the copies are
behind the server and the server behind the reconciler's source (`Copies`): what is
patched is no older than what is there, and a patch that leaves the revision out leaves
the right one (`Publishing`). A status that points at a revision goes on pointing at
it or a later one (`Points`).

**The gate.** `ReleasedOntoRoots` speaks of the roots now, `Release` reads copies
that may be old. It holds because a root, once there, stays: an entry on the server
has a root (`EntryRooted`), so has an entry in any informer (`CacheRooted`), so
has each node a worker still holds eligible, for each reference it has looked
up (`WorkChecked`); and narrowing leaves only such nodes, to another
controller as well. `GatesNeverUndo` rests on the optimistic lock: every write
raises a pod's version, so a copy with the server's version *is* the server's pod
(`CopiesFollow`), and `Released` only narrows it.

**The admission.** Only `Admit` and `RestartServing` touch what `PodGate` knows of,
one as `CreatePod`, the other as `Restart`; every other step of the webhook stutters.
So the theorems about the gate hold behind the webhook. `ClaimsThere` needs that
what a request has not created yet is still on its list (`ClaimsTracked`), and that
no gate brings a pod into being: a worker holds a copy that was gated
(`WorkGated`), and by the optimistic lock it is the server's pod (`VersionInv`).

**The carrier.** Every write raises the version, so a copy with the server's version
is the server's object (`CopiesPast`), and only an owned copy is about to be
written (`UpdatesOwned`): an `Update` never meets a fork. `RolloutPropagates` needs
to know who will put right what an old version wrote (`StaleIsNoticed`): whoever
wrote it is old itself and has yet to be upgraded; or it has been upgraded since,
and then it started after the write, with a cache that had it.

Only model-checked: the liveness properties (`GateOpens`, `Admitted`, `Converges`,
`EnvsCatchUp`), since fairness and `ENABLED` are outside what the prover does; and
three safety properties that hold of one node, whatever fails (`PinDelivered`,
`PodsFresh`) or unless a hint is lost (`NoLostWork`), and are false of two. Their
theorems would have to assume the one node on which the hard case cannot occur;
what holds of any cluster is proved in their place (`WorkLostOnlyIfTakenBack`,
`TreesComeFirst`). Every other safety property of the passing runs is a theorem.

## What is left out

- FloxEnvs are created before the agents start and never deleted; nothing in the
  agents reacts to a deletion. In `PodGate` an env may be created late.
- A missing FloxCatalog object is folded into `Malformed`
  (`FlakeResolveFailed`); an unresolved one is modelled.
- `FloxEnvAgents` sees the host in brief (the build ends with the reconcile,
  one root); what `Provisioner` adds is not composed with the agents of several
  nodes. The host's garbage collector and `Prune`, which does nothing, are left out.
- A workload has one pod per node, and its controller replaces pods in any order and
  at any time; surge and availability limits are left out.
- Claims are not deleted; the webhook is registered for CREATE only, as its comment
  demands.
- `restartConsumers` is one action with an arbitrary subset of failing patches.
- Env informers deliver env by env, in any order across envs, which is more than
  one watch allows; `MCPodGateHistory` restricts it where that matters.
- An informer of `FloxEnvAgents`, `PodGate` and `Carrier` catches up with the server's
  newest copy at once; a copy in between is seen only if it is delivered before the next
  write. Only in `FloxCatalog` do env events queue up.
- Of the errors of the gate's `Update` only conflicts: any other has the same
  outcome, an error and another try.
- A file is written whole or not at all. `os.WriteFile` truncates and then writes, so
  an agent that dies in between leaves half a manifest or lock. The next realise writes
  the manifest again, and the lock if it has one to write; what flox makes of half a
  lock, or of a file an orphaned command finds half written, is not modelled.
- An operator's edit of the carrier that keeps the label: `carrier.go:63` replaces it by
  the embedded spec at the next start, as documented, so `RolloutPropagates` would
  have to except it until then.
- `ReleasedOntoRoots` asks for *some* tree of the env on the node. A release decided on a
  copy that an edit has overtaken sends the pod to the tree before the edit, which the
  property allows.
- Pods are not deleted, and an entry's `ready` flag is always true, as in the
  code.
- A node selector term without requirements, which the API server refuses.
- In `FloxCatalog` sources only advance and are not deleted.
- What the webhook writes into containers (variables, volumes, mounts), the canonical
  flox settings, flags, registration and probes, generated code and deployment
  manifests: data without behaviour of its own.

## Plan

Done: the reconcilers, the host, the webhook and the carrier, their compositions
(`PodAdmission`, `ConsumerDelivery`), and a theorem for every safety property of the
passing runs that holds of any cluster. Next, in this order:

1. What several nodes still guarantee at rest: a bound on how far pin, tree and
   marker drift apart, in place of the equality that holds of one.
2. `Provisioner` in the place of the host in brief: agents of several nodes over
   hosts whose commands outlive their calls.
3. Releases onto the current generation: what the gate guarantees of a pod when edits
   and informers lag.
