---------------------------- MODULE FloxCatalog ----------------------------
(***************************************************************************)
(* The FloxCatalog reconciler (internal/controller/                        *)
(* floxcatalog_controller.go): resolves each catalog to the revision its   *)
(* Flux source has fetched, rolls the namespace's FloxEnvs up into its     *)
(* status, and stamps the revision on every one of them as a relock token. *)
(*                                                                         *)
(* It runs redundantly in every node agent, each with informer caches and  *)
(* a workqueue of its own and one worker.  Every write is a merge patch    *)
(* against the copy that was read: a field is sent only if it differs from *)
(* that copy.  Informers may skip to the latest copy of a source or a      *)
(* catalog, but env events pass a predicate and are delivered one by one.  *)
(*                                                                         *)
(* One namespace.  Its FloxEnvs answer as FloxEnvAgents does: they build   *)
(* when created and whenever the token differs from the one last honoured. *)
(***************************************************************************)
EXTENDS Integers, Sequences

CONSTANTS
    Managers,   \* the node agents
    Sources,    \* Flux GitRepositories
    Catalogs,   \* the namespace's FloxCatalogs
    SourceOf,   \* spec.sourceRef
    NoName,     \* no source, no catalog
    Envs,       \* the namespace's FloxEnvs
    MaxRev,     \* bound: a source stops at this revision
    MaxLag,     \* bound on the env events an informer can be behind
    FaultKinds, \* which of the faults below the instance exercises
    MaxFaults   \* bound on their number

ASSUME SourceAssumption == SourceOf \in [Catalogs -> Sources]
ASSUME NameAssumption   == NoName \notin Sources \cup Catalogs
ASSUME CatalogBoundAssumption ==
    MaxRev \in Nat /\ MaxLag \in Nat \ {0} /\ MaxFaults \in Nat

VARIABLES
    src,        \* src[s]: the source's artifact; 0: none yet
    env,        \* env[e]: the relock annotation and the Ready reason
    token,      \* token[e]: status.relockToken
    taken,      \* taken[e]: the annotation the build under way started from
    status,     \* status[c]: the catalog's status on the API server
    scache,     \* scache[m][s]: m's informer copy of a source
    ccache,     \* ccache[m][c]: m's informer copy of a catalog's status
    ecache,     \* ecache[m][e]: m's informer copy of a FloxEnv
    inbox,      \* inbox[m][e]: the env events m has not handled yet
    queue,      \* queue[m]: m's workqueue
    delayed,    \* delayed[m]: back-off adds
    work,       \* work[m]: the reconcile m's worker is in
    faults      \* failures so far

evars == <<src, env, token, taken>>
mvars == <<scache, ccache, ecache, inbox, queue, delayed>>
vars  == <<evars, status, mvars, work, faults>>
-----------------------------------------------------------------------------
Revision == [of : Sources \cup {NoName}, n : Nat]
NoRev    == [of |-> NoName, n |-> 0]

Phases == {"absent", "None", "Realizing", "Realized"}
Env    == [ann : Revision, phase : Phases]
NoEnv  == [ann |-> NoRev, phase |-> "absent"]

\* status.{revision,artifactURL,flakeRef}, .envs with .envsSummary, and Ready.
Status   == [rev : Revision, plan : [Envs -> Phases], ready : BOOLEAN]
NoStatus == [rev |-> NoRev, plan |-> [e \in Envs |-> "absent"], ready |-> FALSE]

Work   == [cat : Catalogs \cup {NoName}, step : {"idle", "patch", "list", "stamp"},
           base : Status, new : Status, todo : SUBSET Envs]
NoWork == [cat |-> NoName, step |-> "idle", base |-> NoStatus,
           new |-> NoStatus, todo |-> {}]

\* Mutant: the patch is the new status, not a change of it.
ChangedFields(srv, base, new) ==
    [f \in {f \in DOMAIN srv : new[f] # base[f]} |-> new[f]]

\* client.MergeFrom: the fields that differ from the base.
MergePatch(srv, base, new) ==
    [f \in DOMAIN srv |-> IF new[f] = base[f] THEN srv[f] ELSE new[f]]

Resolved(m, c) == [of |-> SourceOf[c], n |-> scache[m][SourceOf[c]]]

\* envsRollup over m's cache.
Rollup(m) == [e \in Envs |-> ecache[m][e].phase]

\* envReadinessChange; a creation always passes.
EnvReadinessChange(old, new) == old.phase # new.phase
-----------------------------------------------------------------------------
Init ==
    /\ src     = [s \in Sources |-> 0]
    /\ env     = [e \in Envs |-> NoEnv]
    /\ token   = [e \in Envs |-> NoRev]
    /\ taken   = [e \in Envs |-> NoRev]
    /\ status  = [c \in Catalogs |-> NoStatus]
    /\ scache  = [m \in Managers |-> src]
    /\ ccache  = [m \in Managers |-> status]
    /\ ecache  = [m \in Managers |-> env]
    /\ inbox   = [m \in Managers |-> [e \in Envs |-> <<>>]]
    /\ queue   = [m \in Managers |-> Catalogs]
    /\ delayed = [m \in Managers |-> {}]
    /\ work    = [m \in Managers |-> NoWork]
    /\ faults  = 0
-----------------------------------------------------------------------------
(* The surroundings.                                                        *)

\* Every informer gets an event of its own for a write that changes the env.
WriteEnv(e, new) ==
    /\ env' = [env EXCEPT ![e] = new]
    /\ IF new = env[e] THEN UNCHANGED inbox
       ELSE /\ \A m \in Managers : Len(inbox[m][e]) < MaxLag
            /\ inbox' = [m \in Managers |->
                            [inbox[m] EXCEPT ![e] = Append(@, new)]]

\* Flux stores the artifact of a new commit.
NewArtifact(s) ==
    /\ src[s] < MaxRev
    /\ src' = [src EXCEPT ![s] = @ + 1]
    /\ UNCHANGED <<env, token, taken, status, mvars, work, faults>>

CreateEnv(e) ==
    /\ env[e].phase = "absent"
    /\ WriteEnv(e, [env[e] EXCEPT !.phase = "None"])
    /\ UNCHANGED <<src, token, taken, status, scache, ccache, ecache, queue,
                   delayed, work, faults>>

\* The env's agent starts a build: first realisation, or a token to honour.
StartRealize(e) ==
    /\ \/ env[e].phase = "None"
       \/ env[e].phase = "Realized" /\ env[e].ann # token[e]
    /\ WriteEnv(e, [env[e] EXCEPT !.phase = "Realizing"])
    /\ taken' = [taken EXCEPT ![e] = env[e].ann]
    /\ UNCHANGED <<src, token, status, scache, ccache, ecache, queue, delayed,
                   work, faults>>

FinishRealize(e) ==
    /\ env[e].phase = "Realizing"
    /\ WriteEnv(e, [env[e] EXCEPT !.phase = "Realized"])
    /\ token' = [token EXCEPT ![e] = taken[e]]
    /\ UNCHANGED <<src, taken, status, scache, ccache, ecache, queue, delayed,
                   work, faults>>

\* Mutant: an empty sourceRef namespace is not defaulted, so none matches.
NoCatalog(s) == {}

\* catalogsForSource.
CatalogsForSource(s) == {c \in Catalogs : SourceOf[c] = s}

DeliverSource(m, s) ==
    /\ scache[m][s] # src[s]
    /\ scache' = [scache EXCEPT ![m][s] = src[s]]
    /\ queue'  = [queue EXCEPT ![m] = @ \cup CatalogsForSource(s)]
    /\ UNCHANGED <<evars, status, ccache, ecache, inbox, delayed, work, faults>>

\* catalogChange lets no status write through: nothing is enqueued.
DeliverCatalog(m, c) ==
    /\ ccache[m][c] # status[c]
    /\ ccache' = [ccache EXCEPT ![m][c] = status[c]]
    /\ UNCHANGED <<evars, status, scache, ecache, inbox, queue, delayed, work,
                   faults>>

\* catalogsForEnv: every catalog of the namespace.
DeliverEnv(m, e) ==
    /\ inbox[m][e] # <<>>
    /\ ecache' = [ecache EXCEPT ![m][e] = Head(inbox[m][e])]
    /\ inbox'  = [inbox EXCEPT ![m][e] = Tail(@)]
    /\ queue'  = [queue EXCEPT ![m] =
                     IF EnvReadinessChange(ecache[m][e], Head(inbox[m][e]))
                     THEN Catalogs ELSE @]
    /\ UNCHANGED <<evars, status, scache, ccache, delayed, work, faults>>

FireDelayed(m, c) ==
    /\ c \in delayed[m]
    /\ delayed' = [delayed EXCEPT ![m] = @ \ {c}]
    /\ queue'   = [queue EXCEPT ![m] = @ \cup {c}]
    /\ UNCHANGED <<evars, status, scache, ccache, ecache, inbox, work, faults>>

\* A "crash" of an agent, a failed "call" of the API server, an artifact host
\* that DNS does not resolve.
Fault(kind) ==
    /\ kind \in FaultKinds
    /\ faults < MaxFaults
    /\ faults' = faults + 1

\* The agent's process dies and comes back.
Crash(m) ==
    /\ Fault("crash")
    /\ scache'  = [scache EXCEPT ![m] = src]
    /\ ccache'  = [ccache EXCEPT ![m] = status]
    /\ ecache'  = [ecache EXCEPT ![m] = env]
    /\ inbox'   = [inbox EXCEPT ![m] = [e \in Envs |-> <<>>]]
    /\ queue'   = [queue EXCEPT ![m] = Catalogs]
    /\ delayed' = [delayed EXCEPT ![m] = {}]
    /\ work'    = [work EXCEPT ![m] = NoWork]
    /\ UNCHANGED <<evars, status>>
-----------------------------------------------------------------------------
(* Reconcile.                                                               *)

Takes(m, c) ==
    /\ c \in queue[m]
    /\ work[m] = NoWork
    /\ queue' = [queue EXCEPT ![m] = @ \ {c}]

Return(m) == work' = [work EXCEPT ![m] = NoWork]

\* Mutant: the error is logged and not returned.
ReturnNothing(m, c) == UNCHANGED delayed /\ Return(m)

ReturnError(m, c) ==
    /\ delayed' = [delayed EXCEPT ![m] = @ \cup {c}]
    /\ Return(m)

\* notReady: no source or artifact, or (a fault) its host does not resolve; the
\* error of its patch is dropped, so the patch goes through or it does not.
NotReady(m, c) ==
    /\ Takes(m, c)
    /\ IF scache[m][SourceOf[c]] = 0 THEN UNCHANGED faults ELSE Fault("dns")
    /\ \/ status' = [status EXCEPT ![c] =
              MergePatch(@, ccache[m][c], [ccache[m][c] EXCEPT !.ready = FALSE])]
       \/ UNCHANGED status
    /\ ReturnError(m, c)
    /\ UNCHANGED <<evars, scache, ccache, ecache, inbox>>

\* Everything the status is made of is read, all of it from the caches.
Resolve(m, c) ==
    /\ scache[m][SourceOf[c]] > 0
    /\ Takes(m, c)
    /\ work' = [work EXCEPT ![m] =
           [cat |-> c, step |-> "patch", base |-> ccache[m][c],
            new |-> [rev |-> Resolved(m, c), plan |-> Rollup(m), ready |-> TRUE],
            todo |-> {}]]
    /\ UNCHANGED <<evars, status, scache, ccache, ecache, inbox, delayed, faults>>

\* Mutant: an error of the patch is ignored, as it is in notReady.
PatchIgnored(m) ==
    /\ work[m].step = "patch"
    /\ \/ status' = [status EXCEPT ![work[m].cat] =
                        MergePatch(@, work[m].base, work[m].new)]
       \/ UNCHANGED status
    /\ work' = [work EXCEPT ![m].step = "list"]
    /\ UNCHANGED <<evars, mvars, faults>>

PatchStatus(m) ==
    /\ work[m].step = "patch"
    /\ status' = [status EXCEPT ![work[m].cat] =
                     MergePatch(@, work[m].base, work[m].new)]
    /\ work' = [work EXCEPT ![m].step = "list"]
    /\ UNCHANGED <<evars, mvars, faults>>

\* propagateRelock: the cached envs whose annotation is another one.
Unstamped(m) == {e \in Envs : ecache[m][e].phase # "absent"
                           /\ ecache[m][e].ann # work[m].new.rev}

ListEnvs(m) ==
    /\ work[m].step = "list"
    /\ work' = [work EXCEPT ![m].step = "stamp", ![m].todo = Unstamped(m)]
    /\ UNCHANGED <<evars, status, mvars, faults>>

StampEnv(m, e) ==
    /\ work[m].step = "stamp"
    /\ e \in work[m].todo
    /\ WriteEnv(e, [env[e] EXCEPT !.ann = work[m].new.rev])
    /\ work' = [work EXCEPT ![m].todo = @ \ {e}]
    /\ UNCHANGED <<src, token, taken, status, scache, ccache, ecache, queue,
                   delayed, faults>>

Finish(m) ==
    /\ work[m].step = "stamp"
    /\ work[m].todo = {}
    /\ Return(m)
    /\ UNCHANGED <<evars, status, mvars, faults>>

\* The status patch or one of the env patches fails: what is left is dropped.
CallFails(m) ==
    /\ \/ work[m].step = "patch"
       \/ work[m].step = "stamp" /\ work[m].todo # {}
    /\ Fault("call")
    /\ ReturnError(m, work[m].cat)
    /\ UNCHANGED <<evars, status, scache, ccache, ecache, inbox, queue>>
-----------------------------------------------------------------------------
Reconcile(m) ==
    \/ \E c \in Catalogs : NotReady(m, c) \/ Resolve(m, c)
    \/ PatchStatus(m)
    \/ ListEnvs(m)
    \/ \E e \in Envs : StampEnv(m, e)
    \/ Finish(m)

Agents(e) == StartRealize(e) \/ FinishRealize(e)

Next ==
    \/ \E s \in Sources : NewArtifact(s)
    \/ \E e \in Envs : CreateEnv(e) \/ Agents(e)
    \/ \E m \in Managers :
          \/ \E s \in Sources : DeliverSource(m, s)
          \/ \E c \in Catalogs : DeliverCatalog(m, c) \/ FireDelayed(m, c)
          \/ \E e \in Envs : DeliverEnv(m, e)
          \/ Crash(m)
          \/ Reconcile(m)
          \/ CallFails(m)

Spec == Init /\ [][Next]_vars

\* Informers deliver, back-offs end, the worker takes the keys in turn and the
\* agents build; new artifacts, creations and faults are never owed.
Fairness ==
    /\ \A e \in Envs : WF_vars(Agents(e))
    /\ \A m \in Managers :
          /\ \A s \in Sources : WF_vars(DeliverSource(m, s))
          /\ \A e \in Envs : WF_vars(DeliverEnv(m, e))
          /\ \A c \in Catalogs :
                /\ WF_vars(DeliverCatalog(m, c))
                /\ WF_vars(FireDelayed(m, c))
                /\ SF_vars(NotReady(m, c) \/ Resolve(m, c))
          /\ WF_vars(Reconcile(m))

FairSpec == Spec /\ Fairness
-----------------------------------------------------------------------------
(* Properties.                                                              *)

\* Every variable keeps its type.
TypeOK ==
    /\ src     \in [Sources -> Nat]
    /\ env     \in [Envs -> Env]
    /\ token   \in [Envs -> Revision]
    /\ taken   \in [Envs -> Revision]
    /\ status  \in [Catalogs -> Status]
    /\ scache  \in [Managers -> [Sources -> Nat]]
    /\ ccache  \in [Managers -> [Catalogs -> Status]]
    /\ ecache  \in [Managers -> [Envs -> Env]]
    /\ inbox   \in [Managers -> [Envs -> Seq(Env)]]
    /\ queue   \in [Managers -> SUBSET Catalogs]
    /\ delayed \in [Managers -> SUBSET Catalogs]
    /\ work    \in [Managers -> Work]
    /\ faults  \in Nat

Exists(e) == env[e].phase # "absent"

\* An env is told to re-lock at a revision only once a catalog points there:
\* an agent that has seen the token can pin the flake the token stands for.
StampFollowsStatus ==
    \A e \in Envs :
        Exists(e) /\ env[e].ann # NoRev =>
            \E c \in Catalogs : /\ SourceOf[c] = env[e].ann.of
                                /\ status[c].rev.n >= env[e].ann.n

\* Once the sources rest, every env carries the last revision, whatever env
\* was created when and whichever call failed, and nothing is being rebuilt.
EnvsCatchUp ==
    \A c \in Catalogs :
        <>[](\A e \in Envs :
                src[SourceOf[c]] > 0 /\ Exists(e) =>
                    /\ env[e].ann = [of |-> SourceOf[c], n |-> src[SourceOf[c]]]
                    /\ token[e] = env[e].ann)

\* Nothing is left to do: no key, no event, no reconcile, no build.
AtRest ==
    /\ \A m \in Managers :
          /\ queue[m] = {} /\ delayed[m] = {} /\ work[m] = NoWork
          /\ scache[m] = src /\ ccache[m] = status /\ ecache[m] = env
    /\ \A e \in Envs : Exists(e) => env[e].phase = "Realized" /\ token[e] = env[e].ann

\* At rest no env is left at an earlier revision than its catalog's.
StampedAtRest ==
    AtRest => \A e \in Envs, c \in Catalogs :
                 Exists(e) => env[e].ann = status[c].rev

\* A revision is re-locked once: when the sources rest, so do the builds.
RelocksEnd ==
    <>[](\A e \in Envs : Exists(e) => env[e].phase = "Realized")

\* Once the envs rest, the catalog's rollup shows the phase of each.
RollupCatchesUp ==
    \A c \in Catalogs :
        <>[](src[SourceOf[c]] > 0 =>
                \A e \in Envs : status[c].plan[e] = env[e].phase)
=============================================================================
