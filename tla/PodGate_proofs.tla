--------------------------- MODULE PodGate_proofs ---------------------------
(* Theorems about PodGate, for any gates, pods, references and affinities.  *)
EXTENDS PodGate, TLAPS

-----------------------------------------------------------------------------
(* Node affinities.                                                         *)

\* A narrowed pod runs on the nodes it is narrowed to, and gains none.
LEMMA NarrowAllowed ==
    ASSUME NEW terms \in SUBSET (SUBSET Nodes), NEW nodes \in SUBSET Nodes
    PROVE  /\ NarrowToNodes(terms, nodes) \in SUBSET (SUBSET Nodes)
           /\ Allowed(NarrowToNodes(terms, nodes)) \subseteq nodes
           /\ Allowed(NarrowToNodes(terms, nodes)) \subseteq Allowed(terms)
<1>1. CASE terms = {}
  BY <1>1 DEF NarrowToNodes, Allowed
<1>2. CASE terms # {}
  <2>1. NarrowToNodes(terms, nodes) = {t \cap nodes : t \in terms}
    BY <1>2 DEF NarrowToNodes
  <2>2. NarrowToNodes(terms, nodes) # {}
    BY <1>2, <2>1
  <2>3. Allowed(NarrowToNodes(terms, nodes)) = UNION {t \cap nodes : t \in terms}
    BY <2>1, <2>2 DEF Allowed
  <2>4. Allowed(terms) = UNION terms
    BY <1>2 DEF Allowed
  <2> QED
    BY <2>1, <2>3, <2>4
<1> QED
  BY <1>1, <1>2

\* What a release writes, and where the pod may run afterwards.
LEMMA ReleasedFields ==
    ASSUME NEW copy \in Pod, NEW nodes \in SUBSET Nodes
    PROVE  LET pd == Released(copy, nodes)
           IN  /\ pd \in Pod
               /\ pd.rv = copy.rv + 1
               /\ ~pd.gated
               /\ Allowed(pd.terms) \subseteq Allowed(copy.terms)
               /\ nodes # {} => Allowed(pd.terms) \subseteq nodes
<1>1. /\ copy.rv \in Nat
      /\ copy.terms \in SUBSET (SUBSET Nodes)
  BY DEF Pod
<1>2. CASE nodes = {}
  BY <1>1, <1>2 DEF Released, Pod
<1>3. CASE nodes # {}
  <2> DEFINE terms == NarrowToNodes(copy.terms, nodes)
  <2>1. /\ terms \in SUBSET (SUBSET Nodes)
        /\ Allowed(terms) \subseteq nodes
        /\ Allowed(terms) \subseteq Allowed(copy.terms)
    BY <1>1, NarrowAllowed
  <2>2. Released(copy, nodes) =
            [rv |-> copy.rv + 1, gated |-> FALSE, terms |-> terms]
    BY <1>3 DEF Released
  <2> HIDE DEF terms
  <2> QED
    BY <1>1, <2>1, <2>2 DEF Pod
<1> QED
  BY <1>2, <1>3

\* What another controller may make of a pod's terms.
Touched(pd) ==
    {pd.terms} \cup
        {NarrowToNodes(pd.terms, t) : t \in IF pd.gated THEN Narrowings ELSE {}}

LEMMA TouchedTerms ==
    ASSUME NEW pd \in Pod, NEW terms \in Touched(pd)
    PROVE  /\ terms \in SUBSET (SUBSET Nodes)
           /\ Allowed(terms) \subseteq Allowed(pd.terms)
           /\ ~pd.gated => terms = pd.terms
<1>1. pd.terms \in SUBSET (SUBSET Nodes)
  BY DEF Pod
<1>2. CASE terms = pd.terms
  BY <1>1, <1>2
<1>3. CASE terms # pd.terms
  <2>1. pd.gated /\ \E t \in Narrowings : terms = NarrowToNodes(pd.terms, t)
    BY <1>3 DEF Touched
  <2>2. PICK t \in Narrowings : terms = NarrowToNodes(pd.terms, t)
    BY <2>1
  <2>3. t \in SUBSET Nodes
    BY NarrowingsAssumption
  <2> QED
    BY <1>1, <2>1, <2>2, <2>3, NarrowAllowed
<1> QED
  BY <1>2, <1>3

-----------------------------------------------------------------------------
(* Types.                                                                   *)

LEMMA NoWorkType == NoWork \in Work /\ NoPod \in Pod
BY DEF NoWork, Work, NoPod, Pod

LEMMA RewrittenType ==
    ASSUME NEW pd \in Pod, NEW rv \in Nat, NEW terms \in SUBSET (SUBSET Nodes)
    PROVE  [pd EXCEPT !.rv = rv, !.terms = terms] \in Pod
BY DEF Pod

LEMMA AdvancedType ==
    ASSUME NEW w \in Work, NEW done \in Nat, NEW nodes \in SUBSET Nodes
    PROVE  [w EXCEPT !.done = done, !.eligible = nodes] \in Work
BY DEF Work

LEMMA CurrentType ==
    ASSUME RealizationType, NEW e \in Envs
    PROVE  Current(e) \in EnvCopy
BY DEF RealizationType, Current, EnvCopy

LEMMA StillEligibleType ==
    ASSUME TypeOK, NEW m \in Managers
    PROVE  StillEligible(m) \in SUBSET Nodes
<1>1. work[m].eligible \in SUBSET Nodes
  BY DEF TypeOK, Work
<1>2. ReadyNodes(LookedUp(m)) \in SUBSET Nodes
  BY DEF ReadyNodes
<1> QED
  BY <1>1, <1>2 DEF StillEligible

\* A worker that is not idle has a pod, so the key it puts back is one.
Keyed == \A m \in Managers : work[m] = NoWork \/ work[m].key \in Pods

LEMMA TypeInit == Init => TypeOK /\ Keyed
<1> SUFFICES ASSUME Init PROVE TypeOK /\ Keyed
  OBVIOUS
<1>1. RealizationType
  BY DEF Init, RealizationInit, RealizationType
<1>2. /\ pod \in [Pods -> Pod]
      /\ pcache \in [Managers -> [Pods -> Pod]]
      /\ work \in [Managers -> Work]
  BY NoWorkType DEF Init
<1>3. ecache \in [Managers -> [Envs -> EnvCopy]]
  BY <1>1, CurrentType DEF Init
<1> QED
  BY <1>1, <1>2, <1>3 DEF Init, TypeOK, Keyed

\* The contract's steps keep its types.
LEMMA EnvChangeType ==
    ASSUME RealizationType, EnvChange
    PROVE  RealizationType'
<1>1. /\ gen \in [Envs -> Nat]
      /\ entry \in [Envs -> [Nodes -> Nat]]
      /\ root \in [Nodes -> [Envs -> Nat]]
  BY DEF RealizationType
<1>2. ASSUME NEW e \in Envs, Edit(e) PROVE RealizationType'
  BY <1>1, <1>2 DEF Edit, RealizationType
<1>3. ASSUME NEW e \in Envs, NEW n \in Nodes, NEW g \in 1 .. gen[e],
             Realise(n, e, g)
      PROVE  RealizationType'
  <2>1. gen[e] \in Nat /\ g \in Nat
    BY <1>1
  <2> QED
    BY <1>1, <1>3, <2>1 DEF Realise, RealizationType
<1>4. ASSUME NEW e \in Envs, Report(e) PROVE RealizationType'
  <2>1. PICK r \in Reportable(e) : entry' = [entry EXCEPT ![e] = r]
    BY <1>4 DEF Report
  <2>2. r \in [Nodes -> Nat]
    BY <1>1, <2>1 DEF Reportable
  <2> QED
    BY <1>1, <1>4, <2>1, <2>2 DEF Report, RealizationType
<1> QED
  BY <1>2, <1>3, <1>4 DEF EnvChange

LEMMA TypeStep == TypeOK /\ Keyed /\ [Next]_vars => TypeOK'
<1> SUFFICES ASSUME TypeOK, Keyed, [Next]_vars PROVE TypeOK'
  OBVIOUS
<1> USE DEF TypeOK
<1>1. CASE EnvChange
  BY <1>1, EnvChangeType DEF EnvChange, gvars
<1>2. ASSUME NEW p \in Pods, CreatePod(p) PROVE TypeOK'
  <2>1. [rv |-> 1, gated |-> TRUE, terms |-> Terms[p]] \in Pod
    BY TermsAssumption DEF Pod
  <2> QED
    BY <1>2, <2>1 DEF CreatePod, rvars, RealizationType
<1>3. ASSUME NEW p \in Pods, TouchPod(p) PROVE TypeOK'
  <2>1. PICK terms \in Touched(pod[p]) :
            pod' = [pod EXCEPT ![p].rv = @ + 1, ![p].terms = terms]
    BY <1>3 DEF TouchPod, Touched
  <2>2. pod[p] \in Pod /\ terms \in SUBSET (SUBSET Nodes)
    BY TouchedTerms
  <2>3. [pod[p] EXCEPT !.rv = @ + 1, !.terms = terms] \in Pod
    <3>1. pod[p].rv + 1 \in Nat
      BY <2>2 DEF Pod
    <3> QED
      BY <2>2, <3>1, RewrittenType
  <2>4. pod' = [pod EXCEPT ![p] = [pod[p] EXCEPT !.rv = @ + 1, !.terms = terms]]
    BY <2>1, <2>2
  <2>5. pod' \in [Pods -> Pod]
    BY <2>3, <2>4
  <2> QED
    BY <1>3, <2>5 DEF TouchPod, rvars, RealizationType
<1>4. ASSUME NEW m \in Managers, NEW e \in Envs, DeliverEnv(m, e) PROVE TypeOK'
  BY <1>4, CurrentType DEF DeliverEnv, rvars, RealizationType, GatedPodsForEnv
<1>5. ASSUME NEW m \in Managers, NEW p \in Pods, DeliverPod(m, p) PROVE TypeOK'
  BY <1>5 DEF DeliverPod, rvars, RealizationType
<1>6. ASSUME NEW m \in Managers, NEW p \in Pods, FireDelayed(m, p) PROVE TypeOK'
  BY <1>6 DEF FireDelayed, rvars, RealizationType
<1>7. ASSUME NEW m \in Managers, Restart(m) PROVE TypeOK'
  <2>1. [e \in Envs |-> Current(e)] \in [Envs -> EnvCopy]
    BY CurrentType
  <2> QED
    BY <1>7, <2>1, NoWorkType DEF Restart, rvars, RealizationType
<1>8. ASSUME NEW m \in Managers, NEW p \in Pods, Take(m, p) PROVE TypeOK'
  <2>1. [key |-> p, copy |-> pcache[m][p], done |-> 0, eligible |-> {}] \in Work
    BY DEF Work
  <2> QED
    BY <1>8, <2>1 DEF Take, rvars, RealizationType
<1>9. ASSUME NEW m \in Managers, CheckRef(m) PROVE TypeOK'
  <2>1. [work[m] EXCEPT !.done = @ + 1, !.eligible = StillEligible(m)] \in Work
    <3>1. work[m] \in Work /\ work[m].done + 1 \in Nat
      BY DEF Work
    <3> QED
      BY <3>1, StillEligibleType, AdvancedType
  <2> QED
    BY <1>9, <2>1 DEF CheckRef, rvars, RealizationType
<1>10. ASSUME NEW m \in Managers, StayGated(m) PROVE TypeOK'
  BY <1>10, NoWorkType DEF StayGated, Done, rvars, RealizationType
<1>11. ASSUME NEW m \in Managers, Release(m) PROVE TypeOK'
  <2>1. Released(work[m].copy, work[m].eligible) \in Pod
    BY ReleasedFields DEF Work
  <2> QED
    BY <1>11, <2>1, NoWorkType DEF Release, Done, rvars, RealizationType
<1>12. ASSUME NEW m \in Managers, ReleaseConflicts(m) PROVE TypeOK'
  <2>1. work[m].key \in Pods
    BY <1>12 DEF ReleaseConflicts, AtRelease, Keyed
  <2> QED
    BY <1>12, <2>1, NoWorkType DEF ReleaseConflicts, Done, rvars, RealizationType
<1>13. CASE UNCHANGED vars
  BY <1>13 DEF vars, rvars, gvars, RealizationType
<1> QED
  BY <1>1, <1>2, <1>3, <1>4, <1>5, <1>6, <1>7, <1>8, <1>9, <1>10, <1>11,
     <1>12, <1>13 DEF Next, Worker

-----------------------------------------------------------------------------
(* What a step does to a worker, a pod and the GC-roots.                    *)

\* A worker goes idle, takes a pod from its cache, or passes one reference.
TakesUp(k, p) ==
    work'[k] = [key |-> p, copy |-> pcache[k][p], done |-> 0, eligible |-> {}]

Passes(k) ==
    /\ CheckRef(k)
    /\ work'[k] = [work[k] EXCEPT !.done = @ + 1, !.eligible = StillEligible(k)]

LEMMA WorkStep ==
    ASSUME TypeOK, [Next]_vars, NEW k \in Managers
    PROVE  \/ work'[k] = work[k]
           \/ work'[k] = NoWork
           \/ \E p \in Pods : TakesUp(k, p)
           \/ Passes(k)
<1> DEFINE Goal == \/ work'[k] = work[k]
                   \/ work'[k] = NoWork
                   \/ \E p \in Pods : TakesUp(k, p)
                   \/ Passes(k)
<1>1. work \in [Managers -> Work]
  BY DEF TypeOK
<1>2. ASSUME NEW m \in Managers, Restart(m) PROVE Goal
  BY <1>1, <1>2 DEF Restart
<1>3. ASSUME NEW m \in Managers, NEW p \in Pods, Take(m, p) PROVE Goal
  BY <1>1, <1>3 DEF Take, TakesUp
<1>4. ASSUME NEW m \in Managers, CheckRef(m) PROVE Goal
  BY <1>1, <1>4 DEF CheckRef, Passes
<1>5. ASSUME NEW m \in Managers, StayGated(m) \/ Release(m) \/ ReleaseConflicts(m)
      PROVE  Goal
  BY <1>1, <1>5 DEF StayGated, Release, ReleaseConflicts, Done
<1>6. ASSUME UNCHANGED work PROVE Goal
  BY <1>6
<1>7. CASE EnvChange \/ UNCHANGED vars
  BY <1>6, <1>7 DEF EnvChange, vars, gvars
<1>8. ASSUME NEW p \in Pods, CreatePod(p) \/ TouchPod(p) PROVE Goal
  BY <1>6, <1>8 DEF CreatePod, TouchPod
<1>9. ASSUME NEW m \in Managers,
             \/ \E e \in Envs : DeliverEnv(m, e)
             \/ \E p \in Pods : DeliverPod(m, p) \/ FireDelayed(m, p)
      PROVE  Goal
  BY <1>6, <1>9 DEF DeliverEnv, DeliverPod, FireDelayed
<1> QED
  BY <1>2, <1>3, <1>4, <1>5, <1>7, <1>8, <1>9 DEF Next, Worker

\* A pod is created behind the gate, narrowed while it is there, or released
\* from the version a worker read.
Narrowed(p) ==
    /\ pod[p] # NoPod
    /\ pod'[p].rv = pod[p].rv + 1
    /\ pod'[p].gated = pod[p].gated
    /\ pod'[p].terms \in SUBSET (SUBSET Nodes)
    /\ Allowed(pod'[p].terms) \subseteq Allowed(pod[p].terms)
    /\ ~pod[p].gated => pod'[p].terms = pod[p].terms

ReleasedBy(m, p) ==
    /\ Release(m)
    /\ work[m].key = p
    /\ pod'[p] = Released(work[m].copy, work[m].eligible)

LEMMA PodStep ==
    ASSUME TypeOK, [Next]_vars, NEW p \in Pods
    PROVE  \/ pod'[p] = pod[p]
           \/ pod[p] = NoPod /\ pod'[p].gated /\ pod'[p].rv = 1
           \/ Narrowed(p)
           \/ \E m \in Managers : ReleasedBy(m, p)
<1> DEFINE Goal == \/ pod'[p] = pod[p]
                   \/ pod[p] = NoPod /\ pod'[p].gated /\ pod'[p].rv = 1
                   \/ Narrowed(p)
                   \/ \E m \in Managers : ReleasedBy(m, p)
<1>1. pod \in [Pods -> Pod]
  BY DEF TypeOK
<1>2. ASSUME NEW q \in Pods, CreatePod(q) PROVE Goal
  BY <1>1, <1>2 DEF CreatePod
<1>3. ASSUME NEW q \in Pods, TouchPod(q) PROVE Goal
  <2>1. PICK terms \in Touched(pod[q]) :
            pod' = [pod EXCEPT ![q].rv = @ + 1, ![q].terms = terms]
    BY <1>3 DEF TouchPod, Touched
  <2>2. pod[q] \in Pod
    BY <1>1
  <2>3. /\ terms \in SUBSET (SUBSET Nodes)
        /\ Allowed(terms) \subseteq Allowed(pod[q].terms)
        /\ ~pod[q].gated => terms = pod[q].terms
    BY <2>2, TouchedTerms
  <2>4. CASE p = q
    <3>1. pod'[p] = [pod[q] EXCEPT !.rv = @ + 1, !.terms = terms]
      BY <1>1, <2>1, <2>4
    <3> QED
      BY <1>3, <2>2, <2>3, <2>4, <3>1 DEF Narrowed, TouchPod, Pod
  <2> QED
    BY <1>1, <2>1, <2>4
<1>4. ASSUME NEW m \in Managers, Release(m) PROVE Goal
  BY <1>1, <1>4 DEF Release, ReleasedBy
<1>5. ASSUME UNCHANGED pod PROVE Goal
  BY <1>5
<1>6. CASE EnvChange \/ UNCHANGED vars
  BY <1>5, <1>6 DEF EnvChange, vars, gvars
<1>7. ASSUME NEW m \in Managers,
             \/ \E e \in Envs : DeliverEnv(m, e)
             \/ \E q \in Pods : DeliverPod(m, q) \/ FireDelayed(m, q) \/ Take(m, q)
             \/ Restart(m) \/ CheckRef(m) \/ StayGated(m) \/ ReleaseConflicts(m)
      PROVE  Goal
  BY <1>5, <1>7 DEF DeliverEnv, DeliverPod, FireDelayed, Take, Restart,
                    CheckRef, StayGated, ReleaseConflicts
<1> QED
  BY <1>2, <1>3, <1>4, <1>6, <1>7 DEF Next, Worker

LEMMA KeyedStep == TypeOK /\ Keyed /\ [Next]_vars => Keyed'
<1> SUFFICES ASSUME TypeOK, Keyed, [Next]_vars, NEW k \in Managers
             PROVE  work'[k] = NoWork \/ work'[k].key \in Pods
  BY DEF Keyed
<1>1. CASE work'[k] = work[k]
  BY <1>1 DEF Keyed
<1>2. ASSUME NEW p \in Pods, TakesUp(k, p) PROVE work'[k].key \in Pods
  BY <1>2 DEF TakesUp
<1>3. CASE Passes(k)
  <2>1. work[k] \in Work /\ work[k] # NoWork
    BY <1>3 DEF TypeOK, Passes, CheckRef, MoreRefs
  <2>2. work'[k].key = work[k].key
    BY <1>3, <2>1 DEF Passes, Work
  <2> QED
    BY <2>1, <2>2 DEF Keyed
<1> QED
  BY <1>1, <1>2, <1>3, WorkStep

\* Every variable keeps its type (TypeOK): in particular a back-off puts back
\* pods only.
THEOREM TypeCorrect == Spec => []TypeOK
<1>1. Init => TypeOK /\ Keyed
  BY TypeInit
<1>2. TypeOK /\ Keyed /\ [Next]_vars => (TypeOK /\ Keyed)'
  BY TypeStep, KeyedStep
<1> QED
  BY <1>1, <1>2, PTL DEF Spec

-----------------------------------------------------------------------------
(* Released pods find their GC-roots.                                       *)

Rooted(readiness, e) == \A n \in Nodes : readiness[n] > 0 => root[n][e] > 0

EntryRooted == \A e \in Envs : Rooted(entry[e], e)
CacheRooted == \A m \in Managers, e \in Envs : Rooted(ecache[m][e].entry, e)

\* The nodes a worker still holds have a root for each reference it is past.
Checked(m) ==
    /\ work[m].key \in Pods
    /\ work[m].done <= Len(Refs[work[m].key])
    /\ work[m].done > 0 => work[m].eligible # {}
    /\ \A n \in work[m].eligible, i \in 1 .. work[m].done :
          root[n][Refs[work[m].key][i]] > 0

WorkChecked == \A m \in Managers : work[m] # NoWork => Checked(m)

\* A pod that exists has a version.
Versioned == \A p \in Pods : pod[p] # NoPod => pod[p].rv > 0

RootInv == /\ TypeOK /\ Keyed /\ Versioned
           /\ EntryRooted /\ CacheRooted /\ WorkChecked
           /\ ReleasedOntoRoots

LEMMA VersionedStep ==
    ASSUME TypeOK, Versioned, [Next]_vars
    PROVE  Versioned'
<1> SUFFICES ASSUME NEW p \in Pods, pod'[p] # NoPod PROVE pod'[p].rv > 0
  BY DEF Versioned
<1>1. CASE pod'[p] = pod[p]
  BY <1>1 DEF Versioned
<1>2. CASE Narrowed(p)
  <2>1. pod[p].rv \in Nat
    BY DEF TypeOK, Pod
  <2> QED
    BY <1>2, <2>1 DEF Narrowed
<1>3. ASSUME NEW m \in Managers, ReleasedBy(m, p) PROVE pod'[p].rv > 0
  <2>1. /\ work[m].copy \in Pod /\ work[m].copy.rv \in Nat
        /\ work[m].eligible \in SUBSET Nodes
    BY DEF TypeOK, Work, Pod
  <2> QED
    BY <1>3, <2>1, ReleasedFields DEF ReleasedBy
<1> QED
  BY <1>1, <1>2, <1>3, PodStep

\* A root, once there, stays.
LEMMA RootsStay ==
    ASSUME TypeOK, [Next]_vars
    PROVE  \A n \in Nodes, e \in Envs : root[n][e] > 0 => root'[n][e] > 0
<1> DEFINE Goal == \A n \in Nodes, e \in Envs : root[n][e] > 0 => root'[n][e] > 0
<1>1. /\ gen \in [Envs -> Nat]
      /\ root \in [Nodes -> [Envs -> Nat]]
  BY DEF TypeOK, RealizationType
<1>2. ASSUME NEW e \in Envs, NEW n \in Nodes, NEW g \in 1 .. gen[e], Realise(n, e, g)
      PROVE  Goal
  <2>1. g > 0
    BY <1>1
  <2> QED
    BY <1>1, <1>2, <2>1 DEF Realise
<1>3. ASSUME UNCHANGED root PROVE Goal
  BY <1>3
<1>4. CASE EnvChange
  BY <1>2, <1>3, <1>4 DEF EnvChange, Edit, Report
<1>5. CASE UNCHANGED rvars
  BY <1>3, <1>5 DEF rvars
<1>6. EnvChange \/ UNCHANGED rvars
  BY DEF Next, vars, CreatePod, TouchPod, DeliverEnv, DeliverPod, FireDelayed,
         Restart, Worker, Take, CheckRef, StayGated, Release, ReleaseConflicts
<1> QED
  BY <1>4, <1>5, <1>6

\* The entries of a patch are rooted, and an informer copies entries.
LEMMA EntriesStep ==
    ASSUME RootInv, [Next]_vars
    PROVE  EntryRooted' /\ CacheRooted'
<1> DEFINE Goal == EntryRooted' /\ CacheRooted'
<1> USE RootsStay DEF RootInv
<1>1. /\ gen \in [Envs -> Nat]
      /\ entry \in [Envs -> [Nodes -> Nat]]
      /\ ecache \in [Managers -> [Envs -> EnvCopy]]
  BY DEF TypeOK, RealizationType
<1>2. ASSUME UNCHANGED <<entry, ecache>> PROVE Goal
  BY <1>2 DEF EntryRooted, CacheRooted, Rooted
<1>3. ASSUME NEW e \in Envs, Report(e), UNCHANGED ecache PROVE Goal
  <2>1. PICK r \in Reportable(e) : entry' = [entry EXCEPT ![e] = r]
    BY <1>3 DEF Report
  <2>2. UNCHANGED root /\ Rooted(r, e)
    BY <1>3, <2>1 DEF Report, Reportable, Rooted
  <2>3. EntryRooted'
    BY <1>1, <2>1, <2>2 DEF EntryRooted, Rooted
  <2>4. CacheRooted'
    BY <1>3, <2>2 DEF CacheRooted, Rooted
  <2> QED
    BY <2>3, <2>4
<1>4. CASE EnvChange
  BY <1>2, <1>3, <1>4 DEF EnvChange, Edit, Realise, gvars
<1>5. ASSUME NEW m \in Managers, NEW e \in Envs, DeliverEnv(m, e) PROVE Goal
  <2>1. UNCHANGED <<entry, root>> /\ ecache' = [ecache EXCEPT ![m][e] = Current(e)]
    BY <1>5 DEF DeliverEnv, rvars
  <2>2. \A k \in Managers, f \in Envs :
            ecache'[k][f] = ecache[k][f] \/ ecache'[k][f].entry = entry[f]
    BY <1>1, <2>1 DEF Current
  <2> QED
    BY <2>1, <2>2 DEF EntryRooted, CacheRooted, Rooted
<1>6. ASSUME NEW m \in Managers, Restart(m) PROVE Goal
  <2>1. /\ UNCHANGED <<entry, root>>
        /\ ecache' = [ecache EXCEPT ![m] = [e \in Envs |-> Current(e)]]
    BY <1>6 DEF Restart, rvars
  <2>2. \A k \in Managers, f \in Envs :
            ecache'[k][f] = ecache[k][f] \/ ecache'[k][f].entry = entry[f]
    BY <1>1, <2>1 DEF Current
  <2> QED
    BY <2>1, <2>2 DEF EntryRooted, CacheRooted, Rooted
<1>7. CASE UNCHANGED vars
  BY <1>2, <1>7 DEF vars, rvars, gvars
<1>8. ASSUME NEW p \in Pods, CreatePod(p) \/ TouchPod(p) PROVE Goal
  BY <1>2, <1>8 DEF CreatePod, TouchPod, rvars
<1>9. ASSUME NEW m \in Managers,
             \/ \E p \in Pods : DeliverPod(m, p) \/ FireDelayed(m, p)
             \/ Worker(m)
      PROVE  Goal
  BY <1>2, <1>9 DEF DeliverPod, FireDelayed, Worker, Take, CheckRef, StayGated,
                    Release, ReleaseConflicts, rvars
<1> QED
  BY <1>4, <1>5, <1>6, <1>7, <1>8, <1>9 DEF Next

\* The next reference looked up, like those before it, is rooted on the nodes
\* that are left.
LEMMA PassesChecked ==
    ASSUME RootInv, NEW k \in Managers, Passes(k), UNCHANGED root
    PROVE  Checked(k)'
<1> DEFINE w == work[k]
           e == Refs[w.key][w.done + 1]
<1>1. /\ w \in Work
      /\ w # NoWork
      /\ w.done < Len(Refs[w.key])
      /\ StillEligible(k) # {}
  BY DEF RootInv, TypeOK, Passes, CheckRef, MoreRefs, Blocked
<1>2. /\ Checked(k)
      /\ w.key \in Pods
      /\ w.done \in Nat
      /\ w.eligible \in SUBSET Nodes
      /\ Refs[w.key] \in Seq(Envs)
  BY <1>1, RefsAssumption DEF RootInv, WorkChecked, Checked, Work
<1>3. e \in Envs
  BY <1>1, <1>2
<1>4. \A n \in ReadyNodes(LookedUp(k)) : n \in Nodes /\ root[n][e] > 0
  BY <1>3 DEF ReadyNodes, LookedUp, RootInv, CacheRooted, Rooted
<1>5. \A n \in StillEligible(k) :
          /\ n \in ReadyNodes(LookedUp(k))
          /\ w.done > 0 => n \in w.eligible
  BY <1>2 DEF StillEligible
<1>6. /\ work'[k].key = w.key
      /\ work'[k].done = w.done + 1
      /\ work'[k].eligible = StillEligible(k)
  BY <1>1 DEF Passes, Work
<1>7. \A n \in StillEligible(k), i \in 1 .. w.done + 1 : root[n][Refs[w.key][i]] > 0
  <2> SUFFICES ASSUME NEW n \in StillEligible(k), NEW i \in 1 .. w.done + 1
               PROVE  root[n][Refs[w.key][i]] > 0
    OBVIOUS
  <2>1. CASE i = w.done + 1
    BY <1>4, <1>5, <2>1
  <2>2. CASE i # w.done + 1
    <3>1. i \in 1 .. w.done /\ w.done > 0
      BY <1>2, <2>2
    <3> QED
      BY <1>2, <1>5, <3>1 DEF Checked
  <2> QED
    BY <2>1, <2>2
<1> HIDE DEF w, e
<1> QED
  BY <1>1, <1>2, <1>6, <1>7 DEF Checked

LEMMA WorkStepChecked ==
    ASSUME RootInv, [Next]_vars
    PROVE  WorkChecked'
<1> SUFFICES ASSUME NEW k \in Managers, work'[k] # NoWork
             PROVE  Checked(k)'
  BY DEF WorkChecked
<1>1. TypeOK /\ work[k] \in Work
  BY DEF RootInv, TypeOK
<1>2. CASE work'[k] = work[k]
  <2>1. Checked(k)
    BY <1>2 DEF RootInv, WorkChecked
  <2>2. \A n \in work[k].eligible, i \in 1 .. work[k].done :
            n \in Nodes /\ Refs[work[k].key][i] \in Envs
    <3>1. /\ Refs[work[k].key] \in Seq(Envs)
          /\ work[k].done <= Len(Refs[work[k].key])
          /\ work[k].done \in Nat
          /\ work[k].eligible \in SUBSET Nodes
      BY <1>1, <2>1, RefsAssumption DEF Checked, Work
    <3> QED
      BY <3>1
  <2> QED
    BY <1>1, <1>2, <2>1, <2>2, RootsStay DEF Checked
<1>3. ASSUME NEW p \in Pods, TakesUp(k, p) PROVE Checked(k)'
  <2>1. Refs[p] \in Seq(Envs)
    BY RefsAssumption
  <2>2. /\ work'[k].key = p
        /\ work'[k].done = 0
        /\ work'[k].eligible = {}
    BY <1>3 DEF TakesUp
  <2> QED
    BY <2>1, <2>2 DEF Checked
<1>4. CASE Passes(k)
  BY <1>4, PassesChecked DEF Passes, CheckRef, rvars
<1> QED
  BY <1>1, <1>2, <1>3, <1>4, WorkStep

LEMMA ReleasedStep ==
    ASSUME RootInv, [Next]_vars
    PROVE  ReleasedOntoRoots'
<1> SUFFICES ASSUME NEW p \in Pods, IsReleased(p)', Refs[p] # <<>>,
                    NEW n \in Allowed(pod'[p].terms), NEW e \in RefSet(p)
             PROVE  root'[n][e] > 0
  BY DEF ReleasedOntoRoots, RefSet
<1>1. TypeOK /\ pod[p] \in Pod
  BY DEF RootInv, TypeOK
<1>2. e \in Envs
  BY RefsAssumption DEF RefSet
<1>3. CASE pod'[p] = pod[p] \/ Narrowed(p)
  <2>1. IsReleased(p) /\ n \in Allowed(pod[p].terms)
    BY <1>1, <1>3 DEF RootInv, Versioned, IsReleased, Narrowed, Pod
  <2>2. Allowed(pod[p].terms) \subseteq Nodes
    BY <1>1 DEF Allowed, Pod
  <2>3. n \in Nodes /\ root[n][e] > 0
    BY <2>1, <2>2 DEF RootInv, ReleasedOntoRoots
  <2> QED
    BY <1>1, <1>2, <2>3, RootsStay
<1>4. CASE pod'[p].gated
  BY <1>4 DEF IsReleased
<1>5. ASSUME NEW m \in Managers, ReleasedBy(m, p) PROVE root'[n][e] > 0
  <2> DEFINE w == work[m]
  <2>1. /\ w \in Work
        /\ w # NoWork
        /\ w.key = p
        /\ ~(w.done < Len(Refs[p]))
        /\ UNCHANGED root
    BY <1>5 DEF RootInv, TypeOK, ReleasedBy, Release, AtRelease, MoreRefs, rvars
  <2>2. Checked(m)
    BY <2>1 DEF RootInv, WorkChecked
  <2>3. /\ Refs[p] \in Seq(Envs)
        /\ Len(Refs[p]) > 0
        /\ w.done \in Nat
        /\ w.done = Len(Refs[p])
        /\ w.copy \in Pod
        /\ w.eligible \in SUBSET Nodes
    BY <2>1, <2>2, RefsAssumption DEF Checked, Work
  <2>4. w.eligible # {}
    BY <2>2, <2>3 DEF Checked
  <2>5. n \in w.eligible
    BY <1>5, <2>3, <2>4, ReleasedFields DEF ReleasedBy
  <2>6. PICK i \in 1 .. Len(Refs[p]) : e = Refs[p][i]
    BY DEF RefSet
  <2> QED
    BY <2>1, <2>2, <2>3, <2>5, <2>6 DEF Checked
<1> QED
  BY <1>1, <1>3, <1>4, <1>5, PodStep

LEMMA RootInvInit == Init => RootInv
<1> SUFFICES ASSUME Init PROVE RootInv
  OBVIOUS
<1>1. EntryRooted /\ CacheRooted
  BY DEF Init, RealizationInit, EntryRooted, CacheRooted, Rooted, Current
<1>2. WorkChecked /\ ReleasedOntoRoots /\ Versioned
  BY DEF Init, WorkChecked, ReleasedOntoRoots, IsReleased, NoPod, Versioned
<1> QED
  BY <1>1, <1>2, TypeInit DEF RootInv

\* A pod that has left the gate can only run where every env it references
\* has a GC-root, whichever gate released it from whatever caches, and for
\* agents that keep no more than the contract of NodeRealization.
THEOREM PodsFindRoots == Spec => []ReleasedOntoRoots
<1>1. RootInv /\ [Next]_vars => RootInv'
  <2> SUFFICES ASSUME RootInv, [Next]_vars PROVE RootInv'
    OBVIOUS
  <2>1. (TypeOK /\ Keyed)'
    BY TypeStep, KeyedStep DEF RootInv
  <2>2. Versioned'
    BY VersionedStep DEF RootInv
  <2> QED
    BY <2>1, <2>2, EntriesStep, WorkStepChecked, ReleasedStep DEF RootInv
<1>2. RootInv => ReleasedOntoRoots
  BY DEF RootInv
<1> QED
  BY <1>1, <1>2, RootInvInit, PTL DEF Spec

-----------------------------------------------------------------------------
(* Redundant gates do not undo.                                             *)

\* A copy is not ahead of the pod, and one of the pod's version is the pod.
Follows(copy, p) ==
    /\ copy.rv <= pod[p].rv
    /\ copy.rv = pod[p].rv => copy = pod[p]

CopiesFollow ==
    /\ \A m \in Managers, p \in Pods : Follows(pcache[m][p], p)
    /\ \A m \in Managers : work[m] # NoWork => Follows(work[m].copy, work[m].key)

VersionInv == TypeOK /\ Keyed /\ CopiesFollow

\* Every write raises the version.
LEMMA VersionsRise ==
    ASSUME VersionInv, [Next]_vars, NEW p \in Pods
    PROVE  pod'[p] = pod[p] \/ pod'[p].rv > pod[p].rv
<1>1. pod[p] \in Pod /\ pod[p].rv \in Nat
  BY DEF VersionInv, TypeOK, Pod
<1>2. ASSUME pod[p] = NoPod, pod'[p].rv = 1 PROVE pod'[p].rv > pod[p].rv
  BY <1>2 DEF NoPod
<1>3. CASE Narrowed(p)
  BY <1>1, <1>3 DEF Narrowed
<1>4. ASSUME NEW m \in Managers, ReleasedBy(m, p) PROVE pod'[p].rv > pod[p].rv
  <2>1. /\ work[m].copy \in Pod
        /\ work[m].eligible \in SUBSET Nodes
        /\ work[m].copy.rv = pod[p].rv
    BY <1>4 DEF VersionInv, TypeOK, Work, ReleasedBy, Release, UpToDate
  <2> QED
    BY <1>1, <1>4, <2>1, ReleasedFields DEF ReleasedBy
<1> QED
  BY <1>2, <1>3, <1>4, PodStep DEF VersionInv

LEMMA FollowsStep ==
    ASSUME VersionInv, [Next]_vars, NEW copy \in Pod, NEW p \in Pods,
           Follows(copy, p)
    PROVE  Follows(copy, p)'
<1>1. /\ pod[p].rv \in Nat
      /\ copy.rv \in Nat
  BY DEF VersionInv, TypeOK, Pod
<1>2. TypeOK'
  BY TypeStep DEF VersionInv
<1>3. pod'[p].rv \in Nat
  BY <1>2 DEF TypeOK, Pod
<1> QED
  BY <1>1, <1>3, VersionsRise DEF Follows

LEMMA CopiesStep ==
    ASSUME VersionInv, [Next]_vars
    PROVE  CopiesFollow'
<1>1. TypeOK /\ TypeOK' /\ Keyed
  BY TypeStep DEF VersionInv
<1>2. ASSUME NEW m \in Managers, NEW p \in Pods PROVE Follows(pcache[m][p], p)'
  <2>1. /\ pcache \in [Managers -> [Pods -> Pod]]
        /\ pod' \in [Pods -> Pod]
    BY <1>1 DEF TypeOK
  <2>2. CASE pcache'[m][p] = pcache[m][p]
    <3>1. Follows(pcache[m][p], p) /\ pcache[m][p] \in Pod
      BY <2>1 DEF VersionInv, CopiesFollow
    <3> QED
      BY <2>2, <3>1, FollowsStep DEF Follows
  <2>3. CASE pcache'[m][p] = pod'[p]
    BY <2>1, <2>3 DEF Follows, Pod
  <2>4. pcache'[m][p] \in {pcache[m][p], pod'[p]}
    <3>1. ASSUME NEW k \in Managers, NEW q \in Pods, DeliverPod(k, q)
          PROVE  pcache'[m][p] \in {pcache[m][p], pod'[p]}
      BY <2>1, <3>1 DEF DeliverPod
    <3>2. ASSUME NEW k \in Managers, Restart(k)
          PROVE  pcache'[m][p] \in {pcache[m][p], pod'[p]}
      BY <2>1, <3>2 DEF Restart
    <3>3. \/ UNCHANGED pcache
          \/ \E k \in Managers, q \in Pods : DeliverPod(k, q)
          \/ \E k \in Managers : Restart(k)
      BY DEF Next, EnvChange, gvars, vars, CreatePod, TouchPod, DeliverEnv,
             FireDelayed, Worker, Take, CheckRef, StayGated, Release,
             ReleaseConflicts
    <3> QED
      BY <3>1, <3>2, <3>3
  <2> QED
    BY <2>2, <2>3, <2>4
<1>3. ASSUME NEW m \in Managers, work'[m] # NoWork
      PROVE  Follows(work[m].copy, work[m].key)'
  <2> DEFINE w == work[m]
  <2>1. w \in Work /\ (w # NoWork => w.key \in Pods /\ w.copy \in Pod)
    BY <1>1 DEF TypeOK, Keyed, Work
  <2>2. CASE w # NoWork /\ work'[m].copy = w.copy /\ work'[m].key = w.key
    <3>1. Follows(w.copy, w.key)'
      BY <2>1, <2>2, FollowsStep DEF VersionInv, CopiesFollow
    <3> QED
      BY <2>2, <3>1 DEF Follows
  <2>3. ASSUME NEW p \in Pods, TakesUp(m, p)
        PROVE  Follows(work[m].copy, work[m].key)'
    <3>1. Follows(pcache[m][p], p) /\ pcache[m][p] \in Pod
      BY <1>1 DEF VersionInv, CopiesFollow, TypeOK
    <3>2. work'[m].key = p /\ work'[m].copy = pcache[m][p]
      BY <2>3 DEF TakesUp
    <3> QED
      BY <3>1, <3>2, FollowsStep DEF Follows
  <2>4. CASE work'[m] = w
    BY <1>3, <2>2, <2>4
  <2>5. CASE Passes(m)
    BY <2>1, <2>2, <2>5 DEF Passes, CheckRef, MoreRefs, Work
  <2> QED
    BY <1>1, <1>3, <2>3, <2>4, <2>5, WorkStep
<1> QED
  BY <1>2, <1>3 DEF CopiesFollow

\* No write puts a gate back or gives a pod a node that somebody ruled out:
\* the version an Update carries is enough to keep any number of gates, and
\* the controllers that narrow pods, from undoing one another.
THEOREM GatesNeverUndo == Spec => NothingUndone
<1>1. Init => VersionInv
  <2> SUFFICES ASSUME Init PROVE VersionInv
    OBVIOUS
  <2>1. CopiesFollow
    BY DEF Init, CopiesFollow, Follows, NoPod
  <2> QED
    BY <2>1, TypeInit DEF VersionInv
<1>2. VersionInv /\ [Next]_vars => VersionInv'
  BY TypeStep, KeyedStep, CopiesStep DEF VersionInv
<1> DEFINE Kept(p) == pod[p] # NoPod =>
                          /\ ~pod[p].gated => ~pod'[p].gated
                          /\ Allowed(pod'[p].terms) \subseteq Allowed(pod[p].terms)
<1>3. ASSUME VersionInv, [Next]_vars, NEW p \in Pods PROVE Kept(p)
  <2>1. ASSUME NEW m \in Managers, ReleasedBy(m, p) PROVE Kept(p)
    <3>1. /\ work[m].copy \in Pod
          /\ work[m].eligible \in SUBSET Nodes
          /\ work[m].copy = pod[p]
          /\ pod'[p] = Released(work[m].copy, work[m].eligible)
      BY <1>3, <2>1 DEF VersionInv, TypeOK, Work, ReleasedBy, Release, AtRelease,
                        UpToDate, CopiesFollow, Follows
    <3> DEFINE released == Released(work[m].copy, work[m].eligible)
    <3>2. /\ Allowed(released.terms) \subseteq Allowed(work[m].copy.terms)
          /\ ~released.gated
      BY <3>1, ReleasedFields
    <3> HIDE DEF released
    <3>3. pod'[p] = released
      BY <3>1 DEF released
    <3> QED
      BY <3>1, <3>2, <3>3
  <2> QED
    BY <1>3, <2>1, PodStep DEF VersionInv, Narrowed
<1>4. VersionInv /\ [Next]_vars => [\A p \in Pods : Kept(p)]_vars
  BY <1>3
<1> QED
  BY <1>1, <1>2, <1>4, PTL DEF Spec, NothingUndone
=============================================================================
