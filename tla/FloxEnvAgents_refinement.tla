---------------------- MODULE FloxEnvAgents_refinement ----------------------
(* FloxEnvAgents implements NodeRealization, on any cluster.                *)
(*                                                                          *)
(* That an entry is backed by a root is IInv.  The contract also says that  *)
(* an entry names a generation that has existed, which travels with the     *)
(* copies of the status the way the backing does.  The same holds of the    *)
(* condition that dependsOn waits for.  What is told to the rest of the     *)
(* cluster, pins and markers, is of trees that are served.                  *)
EXTENDS FloxEnvAgents_proofs

Known(realized, top) == \A m \in Nodes : realized[m].gen <= top

\* A root is for a generation.
RootsReal == \A n \in Nodes, e \in Envs : root[n][e] = NoLock \/ root[n][e].gen > 0

SeenInv ==
    /\ IInv
    /\ RootsReal
    /\ \A e \in Envs : Known(api[e].realized, api[e].gen)
    /\ \A n \in Nodes, e \in Envs :
          /\ Known(cache[n][e].realized, api[e].gen)
          /\ Known(local[n][e].realized, api[e].gen)
          /\ local[n][e].gen <= api[e].gen

-----------------------------------------------------------------------------
(* Where a step takes what it writes from.                                  *)

\* The lists a patch of e can leave on the server.
Lists(e) ==
    {api[e].realized}
        \cup {cache[n][e].realized : n \in Nodes}
        \cup {local[n][e].realized : n \in Nodes}
        \cup {RealizedStatus(n, e).realized : n \in Nodes}

\* One env is patched, its spec left alone.
StatusOnly(e) ==
    /\ api' = [api EXCEPT ![e] = api'[e]]
    /\ api'[e].gen = api[e].gen
    /\ api'[e].realized \in Lists(e)

LEMMA PatchedStatus ==
    ASSUME TypeOK, NEW e \in Envs, NEW base \in CR, NEW new \in CR,
           new.realized \in Lists(e), api' = Patched(e, base, new)
    PROVE  StatusOnly(e)
<1>1. api \in [Envs -> CR] /\ api[e] \in CR
  BY DEF TypeOK
<1>2. api'[e] = MergePatch(api[e], base, new)
  BY <1>1 DEF Patched
<1>3. api' = [api EXCEPT ![e] = api'[e]]
  BY <1>1 DEF Patched
<1>4. api[e].realized \in Lists(e)
  BY DEF Lists
<1>5. /\ api'[e].gen = api[e].gen
      /\ api'[e].realized \in {api[e].realized, new.realized}
  BY <1>1, <1>2, MergePatchFields
<1> QED
  BY <1>3, <1>4, <1>5 DEF StatusOnly

\* A condition is published over a copy that a reconcile holds.
LEMMA ConditionStatus ==
    ASSUME TypeOK, NEW n \in Nodes, NEW e \in Envs,
           NEW env \in {cache[n][e], local[n][e]},
           NEW reason \in Reasons, NEW by \in Nodes \cup {NoNode},
           api' = Patched(e, env, SetReady(env, reason, by))
    PROVE  StatusOnly(e)
<1>1. env \in CR
  BY DEF TypeOK
<1>2. /\ SetReady(env, reason, by) \in CR
      /\ SetReady(env, reason, by).realized \in Lists(e)
  BY <1>1, SetReadyType, SetReadyFields DEF Lists
<1> QED
  BY <1>1, <1>2, PatchedStatus

\* The server's copies change by an edit or by one patch.
LEMMA ApiStep ==
    ASSUME TypeOK, [Next]_vars
    PROVE  \/ UNCHANGED api
           \/ \E e \in Envs : EditSpec(e)
           \/ \E e \in Envs : StatusOnly(e)
<1> DEFINE Goal == \/ UNCHANGED api
                   \/ \E e \in Envs : EditSpec(e)
                   \/ \E e \in Envs : StatusOnly(e)
<1>1. ASSUME NEW e \in Envs, StampRelock(e) PROVE StatusOnly(e)
  <2>1. api \in [Envs -> CR] /\ api[e] \in CR
    BY DEF TypeOK
  <2> QED
    BY <1>1, <2>1 DEF StampRelock, StatusOnly, Lists, CR
<1>2. CASE Editors
  BY <1>1, <1>2 DEF Editors, AdvanceRev
<1>3. ASSUME NEW n \in Nodes, Informers(n) \/ Crash(n) PROVE Goal
  BY <1>3 DEF Informers, Deliver, DeliverCatalog, DeliverWorkloads, Crash
<1>4. ASSUME NEW n \in Nodes, NEW e \in Envs,
             FireDelayed(n, e) \/ Worker(n, e) \/ Failures(n, e)
      PROVE  Goal
  <2>1. ASSUME NEW reason \in Reasons, Hold(n, e, reason) PROVE Goal
    BY <2>1, ConditionStatus DEF Hold, BestEffort
  <2>2. CASE FirstTouch(n, e)
    BY <2>2, ConditionStatus DEF FirstTouch, BestEffort, Reasons
  <2>3. CASE RejectManifest(n, e) \/ WaitForFlake(n, e) \/ WaitForDeps(n, e)
    BY <2>1, <2>3 DEF RejectManifest, WaitForFlake, WaitForDeps, Reasons
  <2>4. CASE MarkRealizing(n, e)
    BY <2>4, ConditionStatus DEF MarkRealizing, Reasons
  <2>5. CASE FailRealize(n, e) \/ RollFails(n, e)
    BY <2>5, ConditionStatus DEF FailRealize, RollFails, Reasons
  <2>6. CASE Publish(n, e)
    <3>1. /\ local[n][e] \in CR
          /\ RealizedStatus(n, e) \in CR
          /\ RealizedStatus(n, e).realized \in Lists(e)
      BY RealizedStatusType DEF TypeOK, Lists
    <3> QED
      BY <2>6, <3>1, PatchedStatus DEF Publish
  <2>7. \/ FireDelayed(n, e) \/ SkipRealized(n, e) \/ Begin(n, e)
        \/ AcquireSlot(n, e) \/ WriteEnv(n, e) \/ BuildEnv(n, e)
        \/ LinkRoot(n, e) \/ FinishRealize(n, e) \/ RollConsumers(n, e)
        \/ PublishFails(n, e)
        => UNCHANGED api
    BY DEF FireDelayed, SkipRealized, Begin, AcquireSlot, WriteEnv, BuildEnv,
           LinkRoot, FinishRealize, RollConsumers, PublishFails
  <2> QED
    BY <1>4, <2>2, <2>3, <2>4, <2>5, <2>6, <2>7 DEF Worker, Failures
<1>5. CASE UNCHANGED vars
  BY <1>5 DEF vars
<1> QED
  BY <1>2, <1>3, <1>4, <1>5 DEF Next

\* An informer copy is kept or read from the server.
LEMMA CacheStep ==
    ASSUME TypeOK, [Next]_vars, NEW n \in Nodes, NEW e \in Envs
    PROVE  cache'[n][e] \in {cache[n][e], api[e]}
<1> DEFINE Goal == cache'[n][e] \in {cache[n][e], api[e]}
<1>1. cache \in [Nodes -> [Envs -> CR]] /\ api \in [Envs -> CR]
  BY DEF TypeOK
<1>2. ASSUME NEW m \in Nodes, NEW f \in Envs, Deliver(m, f) PROVE Goal
  BY <1>1, <1>2 DEF Deliver
<1>3. ASSUME NEW m \in Nodes, Crash(m) PROVE Goal
  BY <1>1, <1>3 DEF Crash
<1>4. \/ UNCHANGED cache
      \/ \E m \in Nodes : Crash(m) \/ \E f \in Envs : Deliver(m, f)
  <2>1. Editors => UNCHANGED cache
    BY DEF Editors, EditSpec, AdvanceRev, StampRelock
  <2>2. ASSUME NEW m \in Nodes, NEW f \in Envs,
               FireDelayed(m, f) \/ Worker(m, f) \/ Failures(m, f)
        PROVE  UNCHANGED cache
    BY <2>2 DEF FireDelayed, Worker, FirstTouch, SkipRealized, RejectManifest,
                WaitForFlake, WaitForDeps, Hold, Begin, AcquireSlot,
                MarkRealizing, WriteEnv, BuildEnv, LinkRoot, FinishRealize,
                RollConsumers, Publish, Failures, FailRealize, RollFails,
                PublishFails
  <2>3. ASSUME NEW m \in Nodes, DeliverCatalog(m) \/ DeliverWorkloads(m)
        PROVE  UNCHANGED cache
    BY <2>3 DEF DeliverCatalog, DeliverWorkloads
  <2>4. UNCHANGED vars => UNCHANGED cache
    BY DEF vars
  <2> QED
    BY <2>1, <2>2, <2>3, <2>4 DEF Next, Informers
<1> QED
  BY <1>2, <1>3, <1>4

\* A reconcile starts from its informer copy and may refresh it from the
\* server; what it holds between two reconciles is blank.
LEMMA LocalStep ==
    ASSUME TypeOK, [Next]_vars, NEW n \in Nodes, NEW e \in Envs
    PROVE  /\ local'[n][e].gen \in
                  {local[n][e].gen, cache[n][e].gen, api[e].gen, NewCR.gen}
           /\ local'[n][e].realized \in
                  {local[n][e].realized, cache[n][e].realized,
                   api[e].realized, NewCR.realized}
<1> DEFINE Goal ==
        /\ local'[n][e].gen \in
               {local[n][e].gen, cache[n][e].gen, api[e].gen, NewCR.gen}
        /\ local'[n][e].realized \in
               {local[n][e].realized, cache[n][e].realized,
                api[e].realized, NewCR.realized}
<1>1. /\ local \in [Nodes -> [Envs -> CR]]
      /\ cache \in [Nodes -> [Envs -> CR]]
      /\ api \in [Envs -> CR]
  BY DEF TypeOK
<1>2. ASSUME NEW m \in Nodes, NEW f \in Envs, NEW copy \in CR,
             local' = [local EXCEPT ![m][f] = copy],
             m = n /\ f = e => copy.gen \in {local[n][e].gen, cache[n][e].gen,
                                             api[e].gen, NewCR.gen},
             m = n /\ f = e => copy.realized \in
                 {local[n][e].realized, cache[n][e].realized, api[e].realized,
                  NewCR.realized}
      PROVE  Goal
  <2>1. CASE m = n /\ f = e
    <3>1. local'[n][e] = copy
      BY <1>1, <1>2, <2>1
    <3> QED
      BY <1>2, <2>1, <3>1
  <2>2. CASE ~(m = n /\ f = e)
    <3>1. local'[n][e] = local[n][e]
      BY <1>1, <1>2, <2>2
    <3> QED
      BY <3>1
  <2> QED
    BY <2>1, <2>2
<1>3. ASSUME NEW m \in Nodes, NEW f \in Envs, Return(m, f) PROVE Goal
  BY <1>2, <1>3, NewCRType DEF Return
<1>4. ASSUME NEW m \in Nodes, NEW f \in Envs, Begin(m, f) PROVE Goal
  BY <1>1, <1>2, <1>4 DEF Begin
<1>5. ASSUME NEW m \in Nodes, NEW f \in Envs, MarkRealizing(m, f) PROVE Goal
  <2> DEFINE base == local[m][f]
             new  == SetReady(base, "Realizing", m)
  <2>1. base \in CR /\ api[f] \in CR
    BY <1>1
  <2>2. /\ new \in CR
        /\ new.gen = base.gen
        /\ new.realized = base.realized
    <3>1. "Realizing" \in Reasons /\ m \in Nodes \cup {NoNode}
      BY DEF Reasons
    <3> HIDE DEF base
    <3> QED
      BY <2>1, <3>1, SetReadyType, SetReadyFields
  <2>3. /\ MergePatch(api[f], base, new) \in CR
        /\ MergePatch(api[f], base, new).gen = api[f].gen
        /\ MergePatch(api[f], base, new).realized \in
               {api[f].realized, new.realized}
    BY <2>1, <2>2, MergePatchType, MergePatchFields
  <2>4. \/ local' = [local EXCEPT ![m][f] = MergePatch(api[f], base, new)]
        \/ local' = [local EXCEPT ![m][f] = new]
    BY <1>5 DEF MarkRealizing
  <2> HIDE DEF new
  <2>5. CASE local' = [local EXCEPT ![m][f] = new]
    BY <1>2, <2>2, <2>5
  <2>6. CASE local' = [local EXCEPT ![m][f] = MergePatch(api[f], base, new)]
    <3> DEFINE fresh == MergePatch(api[f], base, new)
    <3>1. /\ fresh \in CR
          /\ fresh.gen = api[f].gen
          /\ fresh.realized \in {api[f].realized, local[m][f].realized}
          /\ local' = [local EXCEPT ![m][f] = fresh]
      BY <2>2, <2>3, <2>6
    <3> HIDE DEF fresh
    <3> QED
      BY <1>2, <3>1
  <2> QED
    BY <2>4, <2>5, <2>6
<1>6. ASSUME NEW m \in Nodes, Crash(m) PROVE Goal
  BY <1>1, <1>6 DEF Crash
<1>7. \/ UNCHANGED local
      \/ \E m \in Nodes : Crash(m)
      \/ \E m \in Nodes, f \in Envs :
            Begin(m, f) \/ MarkRealizing(m, f) \/ Return(m, f)
  <2>1. Editors => UNCHANGED local
    BY DEF Editors, EditSpec, AdvanceRev, StampRelock
  <2>2. ASSUME NEW m \in Nodes, NEW f \in Envs,
               FireDelayed(m, f) \/ Worker(m, f) \/ Failures(m, f)
        PROVE  \/ UNCHANGED local
               \/ Begin(m, f) \/ MarkRealizing(m, f) \/ Return(m, f)
    BY <2>2 DEF FireDelayed, Worker, FirstTouch, SkipRealized, RejectManifest,
                WaitForFlake, WaitForDeps, Hold, AcquireSlot, WriteEnv,
                BuildEnv, LinkRoot, FinishRealize, RollConsumers, Publish,
                Failures, FailRealize, RollFails, PublishFails
  <2>3. ASSUME NEW m \in Nodes, Informers(m) PROVE UNCHANGED local
    BY <2>3 DEF Informers, Deliver, DeliverCatalog, DeliverWorkloads
  <2>4. UNCHANGED vars => UNCHANGED local
    BY DEF vars
  <2> QED
    BY <2>1, <2>2, <2>3, <2>4 DEF Next
<1>8. UNCHANGED local => Goal
  OBVIOUS
<1> QED
  BY <1>3, <1>4, <1>5, <1>6, <1>7, <1>8

-----------------------------------------------------------------------------
(* The invariant.                                                           *)

\* A list is still known after its env has been edited.
LEMMA KnownLater ==
    ASSUME NEW realized \in [Nodes -> Entry], NEW low \in Nat, NEW high \in Nat,
           low <= high, Known(realized, low)
    PROVE  Known(realized, high)
BY DEF Known, Entry

LEMMA ListsKnown ==
    ASSUME SeenInv, NEW e \in Envs, NEW realized \in Lists(e)
    PROVE  realized \in [Nodes -> Entry] /\ Known(realized, api[e].gen)
<1>1. TypeOK
  BY DEF SeenInv, IInv
<1>2. ASSUME NEW n \in Nodes, realized = RealizedStatus(n, e).realized
      PROVE  realized \in [Nodes -> Entry] /\ Known(realized, api[e].gen)
  <2> DEFINE entry == [gen |-> local[n][e].gen, path |-> root[n][e]]
  <2>1. /\ local[n][e] \in CR
        /\ root[n][e] \in Lock
        /\ local[n][e].realized \in [Nodes -> Entry]
        /\ entry \in Entry
    BY <1>1 DEF TypeOK, CR, Entry
  <2>2. realized = [local[n][e].realized EXCEPT ![n] = entry]
    BY <1>2, <2>1 DEF RealizedStatus, SetReady, CR
  <2>3. Known(local[n][e].realized, api[e].gen) /\ local[n][e].gen <= api[e].gen
    BY DEF SeenInv
  <2> QED
    BY <2>1, <2>2, <2>3 DEF Known
<1>3. /\ api[e].realized \in [Nodes -> Entry]
      /\ \A n \in Nodes : /\ cache[n][e].realized \in [Nodes -> Entry]
                          /\ local[n][e].realized \in [Nodes -> Entry]
  BY <1>1 DEF TypeOK, CR
<1> QED
  BY <1>2, <1>3 DEF Lists, SeenInv

LEMMA SeenInit == Init => SeenInv
<1> SUFFICES ASSUME Init PROVE SeenInv
  OBVIOUS
<1>1. /\ \A e \in Envs : api[e] = NewCR
      /\ \A n \in Nodes, e \in Envs : cache[n][e] = NewCR /\ local[n][e] = NewCR
  BY DEF Init
<1>2. NewCR.gen = 1 /\ Known(NewCR.realized, 1)
  BY DEF NewCR, NoEntry, Known
<1>3. RootsReal
  BY DEF Init, RootsReal
<1> QED
  BY <1>1, <1>2, <1>3, InvInit DEF SeenInv

\* Generations only grow.
LEMMA GenStep ==
    ASSUME TypeOK, [Next]_vars, NEW e \in Envs
    PROVE  api[e].gen \in Nat /\ api'[e].gen \in Nat /\ api[e].gen <= api'[e].gen
<1>1. /\ api \in [Envs -> CR]
      /\ api[e].gen \in Nat
  BY DEF TypeOK, CR
<1>2. ASSUME NEW f \in Envs, EditSpec(f)
      PROVE  api'[e].gen \in Nat /\ api[e].gen <= api'[e].gen
  <2>1. api'[e] = api[e] \/ api'[e] = [api[e] EXCEPT !.gen = @ + 1]
    BY <1>1, <1>2 DEF EditSpec
  <2> QED
    BY <1>1, <2>1 DEF CR
<1>3. ASSUME NEW f \in Envs, StatusOnly(f) PROVE api'[e].gen = api[e].gen
  BY <1>1, <1>3 DEF StatusOnly
<1> QED
  BY <1>1, <1>2, <1>3, ApiStep

\* The tree a root moves to is for the generation that is being realised.
LEMMA LinkedRoot ==
    ASSUME SeenInv, NEW n \in Nodes, NEW e \in Envs, LinkRoot(n, e)
    PROVE  /\ root' = [root EXCEPT ![n][e] = disk[n][e]]
           /\ disk[n][e].gen \in 1 .. api[e].gen
           /\ root[n][e].gen <= disk[n][e].gen
<1>1. /\ pc[n][e] = "link"
      /\ root' = [root EXCEPT ![n][e] = disk[n][e]]
  BY DEF LinkRoot, Step
<1>2. /\ disk[n][e].gen = job[n][e].gen
      /\ 1 <= job[n][e].gen
      /\ job[n][e].gen <= cache[n][e].gen
      /\ cache[n][e].gen <= api[e].gen
      /\ root[n][e].gen <= job[n][e].gen
  BY <1>1 DEF SeenInv, IInv, Generations, Generation
<1>3. /\ disk[n][e].gen \in Nat
      /\ cache[n][e].gen \in Nat
      /\ api[e].gen \in Nat
  BY DEF SeenInv, IInv, TypeOK, CR, Lock
<1> QED
  BY <1>1, <1>2, <1>3

LEMMA RootsRealStep ==
    ASSUME SeenInv, [Next]_vars
    PROVE  RootsReal'
<1>1. root \in [Nodes -> [Envs -> Lock]]
  BY DEF SeenInv, IInv, TypeOK
<1>2. ASSUME NEW n \in Nodes, NEW e \in Envs, LinkRoot(n, e) PROVE RootsReal'
  <2>1. /\ root' = [root EXCEPT ![n][e] = disk[n][e]]
        /\ disk[n][e].gen > 0
    BY <1>2, LinkedRoot
  <2> QED
    BY <1>1, <2>1 DEF SeenInv, RootsReal
<1>3. UNCHANGED root => RootsReal'
  BY DEF SeenInv, RootsReal
<1> QED
  BY <1>2, <1>3, RootMoves

LEMMA SeenStep == SeenInv /\ [Next]_vars => SeenInv'
<1> SUFFICES ASSUME SeenInv, [Next]_vars PROVE SeenInv'
  OBVIOUS
<1>1. TypeOK /\ IInv'
  BY InvStep DEF SeenInv, IInv
<1>2. ASSUME NEW e \in Envs, NEW realized \in [Nodes -> Entry],
             Known(realized, api[e].gen)
      PROVE  Known(realized, api'[e].gen)
  BY <1>1, <1>2, GenStep, KnownLater
<1>3. \A e \in Envs : /\ api[e].realized \in [Nodes -> Entry]
                      /\ Known(api[e].realized, api[e].gen)
  BY <1>1 DEF SeenInv, TypeOK, CR
<1>4. \A n \in Nodes, e \in Envs :
          /\ cache[n][e].realized \in [Nodes -> Entry]
          /\ local[n][e].realized \in [Nodes -> Entry]
          /\ Known(cache[n][e].realized, api[e].gen)
          /\ Known(local[n][e].realized, api[e].gen)
  BY <1>1 DEF SeenInv, TypeOK, CR
<1>5. ASSUME NEW e \in Envs PROVE Known(api'[e].realized, api'[e].gen)
  <2>1. api \in [Envs -> CR]
    BY <1>1 DEF TypeOK
  <2>2. ASSUME NEW f \in Envs, EditSpec(f) PROVE api'[e].realized = api[e].realized
    BY <2>1, <2>2 DEF EditSpec, CR
  <2>3. ASSUME NEW f \in Envs, StatusOnly(f) PROVE api'[e].realized \in Lists(e)
    BY <2>1, <2>3 DEF StatusOnly, Lists
  <2>4. api'[e].realized \in Lists(e)
    BY <1>1, <2>2, <2>3, ApiStep DEF Lists
  <2> QED
    BY <1>2, <2>4, ListsKnown
<1>6. ASSUME NEW n \in Nodes, NEW e \in Envs
      PROVE  /\ Known(cache'[n][e].realized, api'[e].gen)
             /\ Known(local'[n][e].realized, api'[e].gen)
             /\ local'[n][e].gen <= api'[e].gen
  <2>1. Known(cache'[n][e].realized, api'[e].gen)
    BY <1>1, <1>2, <1>3, <1>4, CacheStep
  <2>2. NewCR.gen = 1 /\ \A m \in Nodes : NewCR.realized[m].gen = 0
    BY DEF NewCR, NoEntry
  <2>3. /\ 1 <= cache[n][e].gen
        /\ cache[n][e].gen <= api[e].gen
        /\ local[n][e].gen <= api[e].gen
        /\ cache[n][e].gen \in Nat /\ local[n][e].gen \in Nat
    BY <1>1 DEF SeenInv, IInv, Generations, Generation, TypeOK, CR
  <2>4. /\ api[e].gen \in Nat
        /\ api'[e].gen \in Nat
        /\ api[e].gen <= api'[e].gen
    BY <1>1, GenStep
  <2>5. Known(NewCR.realized, api'[e].gen)
    BY <2>2, <2>4 DEF Known
  <2>6. Known(local'[n][e].realized, api'[e].gen)
    BY <1>1, <1>2, <1>3, <1>4, <2>5, LocalStep
  <2>7. local'[n][e].gen \in {local[n][e].gen, cache[n][e].gen, api[e].gen, 1}
    BY <1>1, <2>2, LocalStep
  <2>8. local'[n][e].gen <= api'[e].gen
    BY <2>3, <2>4, <2>7
  <2> QED
    BY <2>1, <2>6, <2>8
<1> QED
  BY <1>1, <1>5, <1>6, RootsRealStep DEF SeenInv

-----------------------------------------------------------------------------
(* Steps map to steps.                                                      *)

LEMMA SeenEdit ==
    ASSUME SeenInv, NEW e \in Envs, EditSpec(e)
    PROVE  Seen!Edit(e)
<1>1. /\ api \in [Envs -> CR]
      /\ api' = [api EXCEPT ![e].gen = @ + 1]
      /\ UNCHANGED root
  BY DEF SeenInv, IInv, TypeOK, EditSpec
<1>2. \A f \in Envs :
          /\ api'[f].realized = api[f].realized
          /\ f # e => api'[f] = api[f]
          /\ api'[e].gen = api[e].gen + 1
  BY <1>1 DEF CR
<1>3. [f \in Envs |-> api'[f].gen] =
          [[f \in Envs |-> api[f].gen] EXCEPT ![e] = @ + 1]
  BY <1>2
<1>4. [f \in Envs |-> [n \in Nodes |-> api'[f].realized[n].gen]] =
          [f \in Envs |-> [n \in Nodes |-> api[f].realized[n].gen]]
  BY <1>2
<1> QED
  BY <1>1, <1>3, <1>4 DEF Seen!Edit

LEMMA SeenReport ==
    ASSUME SeenInv, SeenInv', NEW e \in Envs, StatusOnly(e), UNCHANGED root
    PROVE  Seen!Report(e)
<1> DEFINE entries == [f \in Envs |-> [n \in Nodes |-> api[f].realized[n].gen]]
           report  == [n \in Nodes |-> api'[e].realized[n].gen]
<1>1. /\ api \in [Envs -> CR]
      /\ api' \in [Envs -> CR]
      /\ api' = [api EXCEPT ![e] = api'[e]]
      /\ api'[e].gen = api[e].gen
  BY DEF SeenInv, IInv, TypeOK, StatusOnly
<1>2. \A f \in Envs : f # e => api'[f] = api[f]
  BY <1>1
<1>3. \A n \in Nodes :
          /\ api'[e].realized[n].gen \in 0 .. api[e].gen
          /\ api'[e].realized[n].gen > 0 => root[n][e] # NoLock
  <2>1. /\ \A n \in Nodes : api'[e].realized[n].gen \in Nat
        /\ api[e].gen \in Nat
    BY <1>1 DEF CR, Entry
  <2>2. Known(api'[e].realized, api'[e].gen) /\ Backed(api'[e].realized, e, root')
    BY DEF SeenInv, IInv, ApiBacked
  <2> QED
    BY <1>1, <2>1, <2>2 DEF Known, Backed
<1>4. \A n \in Nodes :
          api'[e].realized[n].gen > 0 => root[n][e].gen > 0
  <2> SUFFICES ASSUME NEW n \in Nodes, api'[e].realized[n].gen > 0
               PROVE  root[n][e].gen > 0
    OBVIOUS
  <2>1. root[n][e] # NoLock
    BY <1>3
  <2> QED
    BY <2>1 DEF SeenInv, RootsReal
<1>5. report \in Seen!Reportable(e)
  BY <1>3, <1>4 DEF Seen!Reportable
<1>6. [f \in Envs |-> [n \in Nodes |-> api'[f].realized[n].gen]] =
          [entries EXCEPT ![e] = report]
  BY <1>2
<1>7. [f \in Envs |-> api'[f].gen] = [f \in Envs |-> api[f].gen]
  BY <1>1, <1>2
<1> HIDE DEF report
<1> QED
  BY <1>5, <1>6, <1>7 DEF Seen!Report

LEMMA SeenRealise ==
    ASSUME SeenInv, NEW n \in Nodes, NEW e \in Envs, LinkRoot(n, e),
           NEW g, g = disk[n][e].gen
    PROVE  Seen!Realise(n, e, g)
<1>1. /\ root \in [Nodes -> [Envs -> Lock]]
      /\ UNCHANGED api
  BY DEF SeenInv, IInv, TypeOK, LinkRoot
<1>2. /\ root' = [root EXCEPT ![n][e] = disk[n][e]]
      /\ g \in 1 .. api[e].gen
      /\ root[n][e].gen <= g
  BY LinkedRoot
<1> DEFINE roots == [m \in Nodes |-> [f \in Envs |-> root[m][f].gen]]
<1>3. [m \in Nodes |-> [f \in Envs |-> root'[m][f].gen]] =
          [roots EXCEPT ![n][e] = g]
  BY <1>1, <1>2
<1> QED
  BY <1>1, <1>2, <1>3 DEF Seen!Realise

LEMMA SeenStutter ==
    ASSUME UNCHANGED <<api, root>>
    PROVE  UNCHANGED Seen!rvars
BY DEF Seen!rvars

LEMMA SeenNext ==
    ASSUME SeenInv, SeenInv', [Next]_vars
    PROVE  [Seen!RealizationNext]_(Seen!rvars)
<1>1. TypeOK
  BY DEF SeenInv, IInv
<1>2. ASSUME NEW e \in Envs, EditSpec(e) PROVE Seen!RealizationNext
  BY <1>2, SeenEdit DEF Seen!RealizationNext
<1>3. ASSUME NEW e \in Envs, StatusOnly(e), UNCHANGED root
      PROVE  Seen!RealizationNext
  BY <1>3, SeenReport DEF Seen!RealizationNext
<1>4. ASSUME NEW n \in Nodes, NEW e \in Envs, LinkRoot(n, e)
      PROVE  Seen!RealizationNext
  <2>1. PICK g \in 1 .. [f \in Envs |-> api[f].gen][e] : g = disk[n][e].gen
    BY <1>4, LinkedRoot
  <2>2. Seen!Realise(n, e, g)
    BY <1>4, <2>1, SeenRealise
  <2> QED
    BY <2>2 DEF Seen!RealizationNext
<1>5. CASE UNCHANGED root
  BY <1>1, <1>2, <1>3, <1>5, ApiStep, SeenStutter
<1> QED
  BY <1>4, <1>5, RootMoves

LEMMA SeenStart ==
    ASSUME Init
    PROVE  Seen!RealizationInit
<1>1. /\ \A e \in Envs : api[e] = NewCR
      /\ \A n \in Nodes, e \in Envs : root[n][e] = NoLock
  BY DEF Init
<1>2. [e \in Envs |-> api[e].gen] \in [Envs -> {0, 1}]
  BY <1>1 DEF NewCR
<1>3. [e \in Envs |-> [n \in Nodes |-> api[e].realized[n].gen]] =
          [e \in Envs |-> [n \in Nodes |-> 0]]
  BY <1>1 DEF NewCR, NoEntry
<1>4. [n \in Nodes |-> [e \in Envs |-> root[n][e].gen]] =
          [n \in Nodes |-> [e \in Envs |-> 0]]
  BY <1>1 DEF NoLock
<1> QED
  BY <1>2, <1>3, <1>4 DEF Seen!RealizationInit

\* The node agents implement NodeRealization: on any cluster, through stale
\* copies, lost patches and crashes, status.realized only ever names nodes
\* that have a GC-root, and generations that have existed.
THEOREM AgentsKeepPromise == Spec => KeepsPromise
<1>1. Init => Seen!RealizationInit
  BY SeenStart
<1>2. SeenInv /\ SeenInv' /\ [Next]_vars => [Seen!RealizationNext]_(Seen!rvars)
  BY SeenNext
<1> QED
  BY <1>1, <1>2, SeenInit, SeenStep, PTL DEF Spec, KeepsPromise,
     Seen!RealizationSpec

-----------------------------------------------------------------------------
(* The dependencies.                                                        *)
(*                                                                          *)
(* A condition says Realized only after some node has linked its tree, and  *)
(* a tree that is linked is never taken away; the copies of the condition   *)
(* that decide on a wait may be old, not wrong.                             *)

Built(e) == \E m \in Nodes : root[m][e] # NoLock

ReadyBuilt ==
    \A e \in Envs :
        /\ IsReady(api[e]) => Built(e)
        /\ \A n \in Nodes : IsReady(cache[n][e]) => Built(e)

DepsInv == SeenInv /\ ReadyBuilt /\ DepsMaterialisedSomewhere

\* What is built stays built.
LEMMA BuiltStays ==
    ASSUME SeenInv, [Next]_vars, NEW e \in Envs, Built(e)
    PROVE  Built(e)'
<1>1. PICK m \in Nodes : root[m][e] # NoLock
  BY DEF Built
<1>2. root'[m][e] # NoLock
  <2>1. CASE UNCHANGED root
    BY <1>1, <2>1
  <2>2. ASSUME NEW n \in Nodes, NEW f \in Envs, LinkRoot(n, f)
        PROVE  root'[m][e] # NoLock
    <3>1. /\ root' = [root EXCEPT ![n][f] = disk[n][f]]
          /\ disk[n][f].gen \in 1 .. api[f].gen
      BY <2>2, LinkedRoot
    <3>2. disk[n][f] # NoLock
      BY <3>1 DEF NoLock
    <3> QED
      BY <1>1, <3>1, <3>2, Numbers DEF SeenInv, IInv
  <2> QED
    BY <2>1, <2>2, RootMoves
<1> QED
  BY <1>2 DEF Built

\* A patch makes an env ready only if what it writes is.
LEMMA PatchedReady ==
    ASSUME TypeOK, NEW e \in Envs, NEW base \in CR, NEW new \in CR,
           api' = Patched(e, base, new), NEW f \in Envs, IsReady(api'[f])
    PROVE  IsReady(api[f]) \/ (f = e /\ IsReady(new))
<1>1. api \in [Envs -> CR] /\ api[e] \in CR
  BY DEF TypeOK
<1>2. f # e => api'[f] = api[f]
  BY <1>1 DEF Patched
<1>3. f = e => api'[f].ready \in {api[e].ready, new.ready}
  <2>1. f = e => api'[f] = MergePatch(api[e], base, new)
    BY <1>1 DEF Patched
  <2> QED
    BY <1>1, <2>1, MergePatchFields
<1> QED
  BY <1>2, <1>3 DEF IsReady

\* An env that becomes ready has its tree on the node that says so.
LEMMA ReadyPublished ==
    ASSUME SeenInv, [Next]_vars, NEW f \in Envs, IsReady(api'[f])
    PROVE  IsReady(api[f]) \/ Built(f)
<1> DEFINE Goal == IsReady(api[f]) \/ Built(f)
<1>1. TypeOK
  BY DEF SeenInv, IInv
<1>2. ASSUME NEW e \in Envs, NEW env \in CR, NEW reason \in Reasons \ {"Realized"},
             NEW by \in Nodes \cup {NoNode},
             api' = Patched(e, env, SetReady(env, reason, by))
      PROVE  Goal
  <2>1. SetReady(env, reason, by) \in CR /\ ~IsReady(SetReady(env, reason, by))
    BY SetReadyType, SetReadyFields DEF IsReady
  <2> QED
    BY <1>1, <1>2, <2>1, PatchedReady
<1>3. ASSUME NEW n \in Nodes, NEW e \in Envs, Publish(n, e) PROVE Goal
  <2>1. /\ pc[n][e] = "publish"
        /\ api' = Patched(e, local[n][e], RealizedStatus(n, e))
    BY <1>3 DEF Publish
  <2>2. local[n][e] \in CR /\ RealizedStatus(n, e) \in CR
    BY <1>1, RealizedStatusType DEF TypeOK
  <2>3. root[n][e].gen >= 1
    BY <2>1, Numbers, <1>1 DEF SeenInv, IInv, Generations, Generation
  <2>4. Built(e)
    BY <2>3 DEF Built, NoLock
  <2> QED
    BY <1>1, <2>1, <2>2, <2>4, PatchedReady
<1>4. ASSUME UNCHANGED api PROVE Goal
  BY <1>4
<1>5. ASSUME NEW e \in Envs, EditSpec(e) \/ StampRelock(e) PROVE Goal
  <2>1. api \in [Envs -> CR]
    BY <1>1 DEF TypeOK
  <2>2. api'[f].ready = api[f].ready
    <3>1. CASE EditSpec(e)
      BY <2>1, <3>1 DEF EditSpec, CR
    <3>2. CASE StampRelock(e)
      BY <2>1, <3>2 DEF StampRelock, CR
    <3> QED
      BY <1>5, <3>1, <3>2
  <2> QED
    BY <2>2 DEF IsReady
<1> HIDE DEF Goal
<1>6. ASSUME NEW n \in Nodes, NEW e \in Envs,
             FireDelayed(n, e) \/ Worker(n, e) \/ Failures(n, e)
      PROVE  Goal
  <2>1. cache[n][e] \in CR /\ local[n][e] \in CR
    BY <1>1 DEF TypeOK
  <2>2. ASSUME NEW reason \in Reasons \ {"Realized"}, Hold(n, e, reason) PROVE Goal
    BY <1>2, <1>4, <2>1, <2>2 DEF Hold, BestEffort
  <2>3. ASSUME FirstTouch(n, e) PROVE Goal
    BY <1>2, <1>4, <2>1, <2>3 DEF FirstTouch, BestEffort, Reasons
  <2>4. ASSUME RejectManifest(n, e) \/ WaitForFlake(n, e) \/ WaitForDeps(n, e)
        PROVE  Goal
    BY <2>2, <2>4 DEF RejectManifest, WaitForFlake, WaitForDeps, Reasons
  <2>5. ASSUME MarkRealizing(n, e) PROVE Goal
    BY <1>2, <1>4, <2>1, <2>5 DEF MarkRealizing, Reasons
  <2>6. ASSUME FailRealize(n, e) \/ RollFails(n, e) PROVE Goal
    BY <1>2, <1>4, <2>1, <2>6 DEF FailRealize, RollFails, Reasons
  <2>7. \/ FireDelayed(n, e) \/ SkipRealized(n, e) \/ Begin(n, e)
        \/ AcquireSlot(n, e) \/ WriteEnv(n, e) \/ BuildEnv(n, e)
        \/ LinkRoot(n, e) \/ FinishRealize(n, e) \/ RollConsumers(n, e)
        \/ PublishFails(n, e)
        => UNCHANGED api
    BY DEF FireDelayed, SkipRealized, Begin, AcquireSlot, WriteEnv, BuildEnv,
           LinkRoot, FinishRealize, RollConsumers, PublishFails
  <2> QED
    BY <1>3, <1>4, <1>6, <2>3, <2>4, <2>5, <2>6, <2>7 DEF Worker, Failures
<1>7. ASSUME NEW n \in Nodes, Informers(n) \/ Crash(n) PROVE Goal
  BY <1>4, <1>7 DEF Informers, Deliver, DeliverCatalog, DeliverWorkloads, Crash
<1>8. ASSUME Editors PROVE Goal
  BY <1>4, <1>5, <1>8 DEF Editors, AdvanceRev
<1>9. ASSUME UNCHANGED vars PROVE Goal
  BY <1>4, <1>9 DEF vars
<1> QED
  BY <1>6, <1>7, <1>8, <1>9 DEF Next, Goal

\* A reconcile gets past its wait only once the dependencies it sees are ready.
LEMMA WaitsForDeps ==
    ASSUME TypeOK, [Next]_vars, NEW n \in Nodes, NEW e \in Envs,
           pc[n][e] = "idle", pc'[n][e] # "idle"
    PROVE  \A d \in DependsOn[e] : IsReady(cache[n][d])
<1>1. pc \in [Nodes -> [Envs -> Steps]]
  BY DEF TypeOK
<1>2. ASSUME NEW m \in Nodes, NEW f \in Envs, Worker(m, f) \/ Failures(m, f)
      PROVE  Begin(n, e)
  <2>1. ASSUME Keeps(m, f) \/ AcquireSlot(m, f) \/ Return(m, f), ~Begin(m, f)
        PROVE  FALSE
    <3>1. CASE AcquireSlot(m, f)
      BY <1>1, <3>1 DEF AcquireSlot, Step
    <3>2. CASE Return(m, f)
      BY <1>1, <3>2 DEF Return
    <3> QED
      BY <1>1, <1>2, <2>1, <3>1, <3>2
         DEF Worker, Failures, FirstTouch, SkipRealized, RejectManifest,
             WaitForFlake, WaitForDeps, Hold, MarkRealizing, WriteEnv,
             BuildEnv, LinkRoot, FinishRealize, RollConsumers, Publish,
             FailRealize, RollFails, PublishFails, Step, Return
  <2>2. Begin(m, f)
    BY <1>2, <2>1, SlotMoves
  <2> QED
    BY <1>1, <2>2 DEF Begin
<1>3. Begin(n, e)
  <2>1. ~Editors
    BY DEF Editors, EditSpec, AdvanceRev, StampRelock
  <2>2. ASSUME NEW m \in Nodes, Informers(m) \/ Crash(m) PROVE FALSE
    BY <1>1, <2>2 DEF Informers, Deliver, DeliverCatalog, DeliverWorkloads, Crash
  <2>3. ASSUME NEW m \in Nodes, NEW f \in Envs, FireDelayed(m, f) PROVE FALSE
    BY <2>3 DEF FireDelayed
  <2>4. ~(UNCHANGED vars)
    BY DEF vars
  <2> QED
    BY <1>2, <2>1, <2>2, <2>3, <2>4 DEF Next
<1> QED
  BY <1>3 DEF Begin, UnmetDeps

LEMMA DepsStep == DepsInv /\ [Next]_vars => DepsInv'
<1> SUFFICES ASSUME DepsInv, [Next]_vars PROVE DepsInv'
  OBVIOUS
<1>1. SeenInv /\ SeenInv' /\ TypeOK
  BY SeenStep DEF DepsInv, SeenInv, IInv
<1>2. \A e \in Envs : Built(e) => Built(e)'
  BY <1>1, BuiltStays
<1>3. ReadyBuilt'
  <2>1. ASSUME NEW e \in Envs, IsReady(api'[e]) PROVE Built(e)'
    BY <1>1, <1>2, <2>1, ReadyPublished DEF DepsInv, ReadyBuilt
  <2>2. ASSUME NEW e \in Envs, NEW n \in Nodes, IsReady(cache'[n][e])
        PROVE  Built(e)'
    BY <1>1, <1>2, <2>2, CacheStep DEF DepsInv, ReadyBuilt
  <2> QED
    BY <2>1, <2>2 DEF ReadyBuilt, IsReady
<1>4. ASSUME NEW n \in Nodes, NEW e \in Envs, pc'[n][e] # "idle",
             NEW d \in DependsOn[e]
      PROVE  Built(d)'
  <2>1. d \in Envs
    BY DepsAssumption
  <2>2. CASE pc[n][e] = "idle"
    BY <1>1, <1>2, <1>4, <2>1, <2>2, WaitsForDeps DEF DepsInv, ReadyBuilt
  <2>3. CASE pc[n][e] # "idle"
    BY <1>2, <2>1, <2>3 DEF DepsInv, DepsMaterialisedSomewhere, Built
  <2> QED
    BY <2>2, <2>3
<1> QED
  BY <1>1, <1>3, <1>4 DEF DepsInv, DepsMaterialisedSomewhere, Built

LEMMA DepsInit == Init => DepsInv
<1> SUFFICES ASSUME Init PROVE DepsInv
  OBVIOUS
<1>1. /\ \A e \in Envs : ~IsReady(api[e])
      /\ \A n \in Nodes, e \in Envs : ~IsReady(cache[n][e])
      /\ \A n \in Nodes, e \in Envs : pc[n][e] = "idle"
  BY DEF Init, IsReady, NewCR
<1> QED
  BY <1>1, SeenInit DEF DepsInv, ReadyBuilt, DepsMaterialisedSomewhere

\* On a cluster of any size a realise under way finds each dependency of its
\* env built on some node, however old the copy its wait was decided on.
THEOREM DepsBuiltSomewhere == Spec => []DepsMaterialisedSomewhere
<1>1. DepsInv => DepsMaterialisedSomewhere
  BY DEF DepsInv
<1> QED
  BY <1>1, DepsInit, DepsStep, PTL DEF Spec

-----------------------------------------------------------------------------
(* The host effects come first.                                             *)
(*                                                                          *)
(* A reconcile that rolls or publishes has linked what it holds (IInv); all *)
(* the other writes to the API server leave pin and token as they are.      *)

\* The fields of the status a patch is about.
LEMMA PatchedFields ==
    ASSUME NEW srv \in CR, NEW base \in CR, NEW new \in CR
    PROVE  LET merged == MergePatch(srv, base, new)
           IN  /\ merged \in CR
               /\ merged.gen = srv.gen /\ merged.ann = srv.ann
               /\ merged.token = IF new.token = base.token THEN srv.token
                                                           ELSE new.token
               /\ merged.lock = IF new.lock = base.lock THEN srv.lock
                                                        ELSE new.lock
               /\ merged.realized = IF new.realized = base.realized
                                    THEN srv.realized ELSE new.realized
BY DEF MergePatch, CR

\* A condition is all that SetReady sets, and all that a patch with it changes.
LEMMA ConditionOnly ==
    ASSUME NEW srv \in CR, NEW env \in CR, NEW reason \in Reasons,
           NEW by \in Nodes \cup {NoNode}
    PROVE  LET merged == MergePatch(srv, env, SetReady(env, reason, by))
           IN  /\ merged \in CR
               /\ merged.gen = srv.gen /\ merged.ann = srv.ann
               /\ merged.token = srv.token /\ merged.lock = srv.lock
               /\ merged.realized = srv.realized
<1> DEFINE new == SetReady(env, reason, by)
<1>1. new \in CR /\ new.realized = env.realized
  BY SetReadyType, SetReadyFields
<1>2. new.token = env.token /\ new.lock = env.lock
  BY DEF SetReady, CR
<1> HIDE DEF new
<1> QED
  BY <1>1, <1>2, PatchedFields DEF new

\* The pins and tokens of reconciles that are about to publish e.
Publishers(e) == {n \in Nodes : pc[n][e] = "publish"}

\* The spec of e is left alone; its pin and token are kept or published.
StatusFrom(e) ==
    /\ api'[e].gen = api[e].gen /\ api'[e].ann = api[e].ann
    /\ api'[e].token \in {api[e].token} \cup {job[n][e].relock : n \in Publishers(e)}
    /\ api'[e].lock \in {api[e].lock} \cup {disk[n][e] : n \in Publishers(e)}

\* The best-effort patches write a condition.
LEMMA ConditionPatched ==
    ASSUME TypeOK, NEW n \in Nodes, NEW f \in Envs,
           NEW env \in {cache[n][f], local[n][f]},
           NEW reason \in Reasons, NEW by \in Nodes \cup {NoNode},
           \/ api' = Patched(f, env, SetReady(env, reason, by))
           \/ UNCHANGED api,
           NEW e \in Envs
    PROVE  /\ api'[e].gen = api[e].gen /\ api'[e].ann = api[e].ann
           /\ api'[e].token = api[e].token /\ api'[e].lock = api[e].lock
           /\ api'[e].realized = api[e].realized
<1>1. api \in [Envs -> CR] /\ api[f] \in CR /\ env \in CR
  BY DEF TypeOK
<1>2. CASE api' = Patched(f, env, SetReady(env, reason, by))
  <2>1. CASE e # f
    BY <1>1, <1>2, <2>1 DEF Patched
  <2>2. CASE e = f
    <3>1. api'[e] = MergePatch(api[e], env, SetReady(env, reason, by))
      BY <1>1, <1>2, <2>2 DEF Patched
    <3> QED
      BY <1>1, <2>2, <3>1, ConditionOnly
  <2> QED
    BY <2>1, <2>2
<1> QED
  BY <1>2

\* What an agent's step does to the pin and the token of an env.
LEMMA NodeStatus ==
    ASSUME TypeOK, NEW n \in Nodes, NEW f \in Envs, NEW e \in Envs,
           FireDelayed(n, f) \/ Worker(n, f) \/ Failures(n, f)
    PROVE  StatusFrom(e)
<1>1. ASSUME NEW env \in {cache[n][f], local[n][f]}, NEW reason \in Reasons,
             NEW by \in Nodes \cup {NoNode},
             \/ api' = Patched(f, env, SetReady(env, reason, by))
             \/ UNCHANGED api
      PROVE  StatusFrom(e)
  BY <1>1, ConditionPatched DEF StatusFrom
<1>2. UNCHANGED api => StatusFrom(e)
  BY DEF StatusFrom
<1>3. ASSUME NEW reason \in Reasons, Hold(n, f, reason) PROVE StatusFrom(e)
  BY <1>1, <1>3 DEF Hold, BestEffort
<1>4. ASSUME \/ FirstTouch(n, f) \/ RejectManifest(n, f)
             \/ WaitForFlake(n, f) \/ WaitForDeps(n, f)
      PROVE  StatusFrom(e)
  BY <1>1, <1>3, <1>4 DEF FirstTouch, BestEffort, RejectManifest, WaitForFlake,
                          WaitForDeps, Reasons
<1>5. ASSUME MarkRealizing(n, f) \/ FailRealize(n, f) \/ RollFails(n, f)
      PROVE  StatusFrom(e)
  BY <1>1, <1>5 DEF MarkRealizing, FailRealize, RollFails, Reasons
<1>6. ASSUME Publish(n, f) PROVE StatusFrom(e)
  <2> DEFINE new == RealizedStatus(n, f)
  <2>1. /\ api \in [Envs -> CR] /\ api[f] \in CR /\ local[n][f] \in CR
        /\ new \in CR /\ pc[n][f] = "publish"
        /\ api' = [api EXCEPT ![f] = MergePatch(api[f], local[n][f], new)]
    BY <1>6, RealizedStatusType DEF TypeOK, Publish, Patched
  <2>2. new.token = job[n][f].relock /\ new.lock = disk[n][f]
    BY <2>1 DEF RealizedStatus, SetReady, CR
  <2> HIDE DEF new
  <2>3. CASE e # f
    BY <2>1, <2>3 DEF StatusFrom
  <2>4. CASE e = f
    <3>1. api'[e] = MergePatch(api[e], local[n][e], new)
      BY <2>1, <2>4
    <3>2. n \in Publishers(e)
      BY <2>1, <2>4 DEF Publishers
    <3> QED
      BY <2>1, <2>2, <2>4, <3>1, <3>2, PatchedFields DEF StatusFrom
  <2> QED
    BY <2>3, <2>4
<1>7. \/ FireDelayed(n, f) \/ SkipRealized(n, f) \/ Begin(n, f)
      \/ AcquireSlot(n, f) \/ WriteEnv(n, f) \/ BuildEnv(n, f)
      \/ LinkRoot(n, f) \/ FinishRealize(n, f) \/ RollConsumers(n, f)
      \/ PublishFails(n, f)
      => UNCHANGED api
  BY DEF FireDelayed, SkipRealized, Begin, AcquireSlot, WriteEnv, BuildEnv,
         LinkRoot, FinishRealize, RollConsumers, PublishFails
<1> QED
  BY <1>2, <1>4, <1>5, <1>6, <1>7 DEF Worker, Failures

\* An editor or the catalog writes the spec or the annotation, nothing else.
LEMMA EditorStatus ==
    ASSUME TypeOK, Editors, NEW e \in Envs
    PROVE  /\ api'[e].gen \in {api[e].gen, api[e].gen + 1}
           /\ api'[e].ann \in {api[e].ann, rev}
           /\ api'[e].token = api[e].token /\ api'[e].lock = api[e].lock
           /\ api'[e].realized = api[e].realized
<1>1. api \in [Envs -> CR]
  BY DEF TypeOK
<1>2. CASE AdvanceRev
  BY <1>2 DEF AdvanceRev
<1>3. ASSUME NEW f \in Envs, EditSpec(f)
      PROVE  \/ UNCHANGED api[e]
             \/ api'[e] = [api[e] EXCEPT !.gen = @ + 1]
  BY <1>1, <1>3 DEF EditSpec
<1>4. ASSUME NEW f \in Envs, StampRelock(f)
      PROVE  \/ UNCHANGED api[e]
             \/ api'[e] = [api[e] EXCEPT !.ann = rev]
  BY <1>1, <1>4 DEF StampRelock
<1>5. api[e] \in CR
  BY <1>1
<1>6. \/ UNCHANGED api[e]
      \/ api'[e] = [api[e] EXCEPT !.gen = @ + 1]
      \/ api'[e] = [api[e] EXCEPT !.ann = rev]
  BY <1>2, <1>3, <1>4 DEF Editors, AdvanceRev
<1> QED
  BY <1>5, <1>6 DEF CR

\* Only a roll stamps, and with the lock on its node's disk.
LEMMA StampStep ==
    ASSUME TypeOK, [Next]_vars, NEW e \in Envs, NEW w \in Workloads
    PROVE  \/ stamp'[e][w] = stamp[e][w]
           \/ \E n \in Nodes : pc[n][e] = "roll" /\ stamp'[e][w] = disk[n][e]
<1>1. stamp \in [Envs -> [Workloads -> Lock]]
  BY DEF TypeOK
<1> DEFINE Goal == \/ stamp'[e][w] = stamp[e][w]
                   \/ \E n \in Nodes : pc[n][e] = "roll" /\ stamp'[e][w] = disk[n][e]
<1>2. UNCHANGED stamp => Goal
  OBVIOUS
<1>3. ASSUME NEW n \in Nodes, NEW f \in Envs, NEW done,
             pc[n][f] = "roll", stamp' = Stamped(n, f, done)
      PROVE  Goal
  <2>1. CASE e # f
    BY <1>1, <1>3, <2>1 DEF Stamped
  <2>2. CASE e = f
    BY <1>1, <1>3, <2>2 DEF Stamped
  <2> QED
    BY <2>1, <2>2
<1>4. ASSUME NEW n \in Nodes, NEW f \in Envs, RollConsumers(n, f) \/ RollFails(n, f)
      PROVE  Goal
  BY <1>3, <1>4 DEF RollConsumers, RollFails, Step
<1> HIDE DEF Goal
<1>5. ASSUME NEW n \in Nodes, NEW f \in Envs,
             FireDelayed(n, f) \/ Worker(n, f) \/ Failures(n, f)
      PROVE  Goal
  BY <1>2, <1>4, <1>5
     DEF FireDelayed, Worker, FirstTouch, SkipRealized, RejectManifest,
         WaitForFlake, WaitForDeps, Hold, Begin, AcquireSlot, MarkRealizing,
         WriteEnv, BuildEnv, LinkRoot, FinishRealize, Publish, Failures,
         FailRealize, PublishFails
<1>6. ASSUME NEW n \in Nodes, Informers(n) \/ Crash(n) PROVE Goal
  BY <1>2, <1>6 DEF Informers, Deliver, DeliverCatalog, DeliverWorkloads, Crash
<1>7. Editors \/ UNCHANGED vars => UNCHANGED stamp
  BY DEF Editors, EditSpec, AdvanceRev, StampRelock, vars
<1> QED
  BY <1>2, <1>5, <1>6, <1>7 DEF Next, Goal

LEMMA TreesStep ==
    ASSUME IInv, [Next]_vars, NEW e \in Envs
    PROVE  LET served == {root[n][e] : n \in Nodes}
           IN  /\ \A w \in Workloads :
                     stamp'[e][w] \in served \cup {stamp[e][w]}
               /\ api'[e].lock \in served \cup {api[e].lock}
<1>1. TypeOK
  BY DEF IInv
<1>2. \A n \in Nodes : pc[n][e] \in {"roll", "publish"} => root[n][e] = disk[n][e]
  BY DEF IInv, Generations, Generation
<1>3. \/ api'[e].lock = api[e].lock
      \/ \E n \in Nodes : pc[n][e] = "publish" /\ api'[e].lock = disk[n][e]
  <2>1. CASE Editors
    BY <1>1, <2>1, EditorStatus
  <2>2. ASSUME NEW n \in Nodes, Informers(n) \/ Crash(n) PROVE UNCHANGED api
    BY <2>2 DEF Informers, Deliver, DeliverCatalog, DeliverWorkloads, Crash
  <2>3. ASSUME NEW n \in Nodes, NEW f \in Envs,
               FireDelayed(n, f) \/ Worker(n, f) \/ Failures(n, f)
        PROVE  StatusFrom(e)
    BY <1>1, <2>3, NodeStatus
  <2>4. UNCHANGED vars => UNCHANGED api
    BY DEF vars
  <2> QED
    BY <2>1, <2>2, <2>3, <2>4 DEF Next, StatusFrom, Publishers
<1> QED
  BY <1>1, <1>2, <1>3, StampStep

\* On a cluster of any size, whatever fails, no consumer is rolled onto and no
\* pin is set to a tree that no node serves yet.
THEOREM TreesComeFirst == Spec => TreesFirst
<1>1. IInv /\ [Next]_vars =>
          [\A e \in Envs :
              LET served == {root[n][e] : n \in Nodes}
              IN  /\ \A w \in Workloads :
                        stamp'[e][w] \in served \cup {stamp[e][w]}
                  /\ api'[e].lock \in served \cup {api[e].lock}]_vars
  BY TreesStep
<1> QED
  BY <1>1, InvInit, InvStep, PTL DEF Spec, TreesFirst
=============================================================================
