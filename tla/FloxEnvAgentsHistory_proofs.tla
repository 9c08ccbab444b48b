-------------------- MODULE FloxEnvAgentsHistory_proofs --------------------
(* Work is lost only by a status write that took something back, on any     *)
(* cluster and whatever fails.                                              *)
(*                                                                          *)
(* A reconcile that finds its env realised ends without a requeue, so the   *)
(* copy it looks at must not flatter: unless something was taken back, the  *)
(* copy's token and entry are no newer than the server's.  One that         *)
(* publishes ends without a requeue too, so what it publishes must be what  *)
(* its copy asks for, unless an event that came in between has enqueued the *)
(* env again.                                                               *)
EXTENDS FloxEnvAgentsHistory, FloxEnvAgents_refinement

-----------------------------------------------------------------------------
(* The invariant.                                                           *)

\* What is known of annotation and token, whatever was taken back.
Ordered(n, e) ==
    /\ api[e].ann <= rev
    /\ cache[n][e].ann <= api[e].ann
    /\ api[e].token <= api[e].ann

\* What a reconcile under way is for.
OnCourse(n, e) ==
    pc[n][e] # "idle" =>
        /\ job[n][e].relock <= cache[n][e].ann
        /\ e \in queue[n] \/ /\ job[n][e].gen = cache[n][e].gen
                             /\ job[n][e].relock = cache[n][e].ann

\* A copy that flatters neither the token nor n's entry.
Behind(n, e, copy) ==
    /\ copy.token <= api[e].token
    /\ copy.realized[n].gen <= api[e].realized[n].gen

Awaited(n, e) ==
    \/ AlreadyRealized(n, api[e])
    \/ Pending(n, e)
    \/ RealisationChange(cache[n][e], api[e])

Unless(n, e) ==
    /\ Behind(n, e, cache[n][e])
    /\ pc[n][e] # "idle" => Behind(n, e, local[n][e])
    /\ Awaited(n, e)

Tracked(n, e) ==
    Ordered(n, e) /\ OnCourse(n, e) /\ (takenBack[n][e] \/ Unless(n, e))

HistoryInv ==
    /\ SeenInv
    /\ takenBack \in [Nodes -> [Envs -> BOOLEAN]]
    /\ \A n \in Nodes, e \in Envs : Tracked(n, e)

LEMMA Figures ==
    ASSUME TypeOK, NEW n \in Nodes, NEW e \in Envs
    PROVE  /\ rev \in Nat
           /\ api[e].gen \in Nat /\ api[e].ann \in Nat /\ api[e].token \in Nat
           /\ api[e].realized[n].gen \in Nat
           /\ cache[n][e].gen \in Nat /\ cache[n][e].ann \in Nat
           /\ cache[n][e].token \in Nat /\ cache[n][e].realized[n].gen \in Nat
           /\ local[n][e].gen \in Nat /\ local[n][e].token \in Nat
           /\ local[n][e].realized[n].gen \in Nat
           /\ job[n][e].gen \in Nat /\ job[n][e].relock \in Nat
BY DEF TypeOK, CR, Entry, Job

\* What SeenInv says of the generations, for one env on one node.
LEMMA GenerationsInOrder ==
    ASSUME SeenInv, NEW n \in Nodes, NEW e \in Envs
    PROVE  /\ cache[n][e].gen <= api[e].gen
           /\ local[n][e].gen <= api[e].gen
           /\ api[e].realized[n].gen <= api[e].gen
           /\ pc[n][e] # "idle" => /\ job[n][e].gen <= cache[n][e].gen
                                   /\ job[n][e].gen <= local[n][e].gen
BY DEF SeenInv, IInv, Generations, Generation, Known

-----------------------------------------------------------------------------
(* The server's side of a step.                                             *)

\* What a step of anybody does to an env on the server, as seen from n.
Advances(n, e) ==
    /\ api[e].gen <= api'[e].gen
    /\ api[e].ann <= api'[e].ann
    /\ api'[e].ann <= rev'
    /\ api'[e].token <= api'[e].ann
    /\ \/ takenBack'[n][e]
       \/ /\ ~takenBack[n][e]
          /\ api[e].token <= api'[e].token
          /\ api[e].realized[n].gen <= api'[e].realized[n].gen

\* An agent publishes no token that its annotation has not asked for.
LEMMA PublishedTokens ==
    ASSUME HistoryInv, NEW n \in Nodes, NEW e \in Envs, StatusFrom(e)
    PROVE  api'[e].token <= api[e].ann
<1>1. TypeOK
  BY DEF HistoryInv, SeenInv, IInv
<1>2. ASSUME NEW m \in Nodes, pc[m][e] = "publish"
      PROVE  job[m][e].relock <= api[e].ann
  BY <1>1, <1>2, Figures DEF HistoryInv, Tracked, Ordered, OnCourse
<1>3. api[e].token <= api[e].ann
  BY DEF HistoryInv, Tracked, Ordered
<1> QED
  BY <1>2, <1>3 DEF StatusFrom, Publishers

LEMMA ServerAdvances ==
    ASSUME HistoryInv, [HistoryNext]_historyVars, NEW n \in Nodes, NEW e \in Envs
    PROVE  Advances(n, e)
<1>1. SeenInv /\ TypeOK /\ TypeOK' /\ [Next]_vars
  BY TypeStep DEF HistoryInv, SeenInv, IInv, HistoryNext, historyVars
<1>2. /\ api[e].gen <= api'[e].gen
      /\ api'[e].ann \in Nat /\ api'[e].token \in Nat
      /\ api'[e].realized[n].gen \in Nat
      /\ api[e].ann \in Nat /\ api[e].token \in Nat /\ rev \in Nat
      /\ api[e].realized[n].gen \in Nat
  BY <1>1, GenStep DEF TypeOK, CR, Entry
<1>3. api[e].ann <= rev /\ api[e].token <= api[e].ann
  BY DEF HistoryInv, Tracked, Ordered
<1> DEFINE Annotated == /\ api[e].ann <= api'[e].ann
                        /\ api'[e].ann <= rev'
                        /\ api'[e].token <= api'[e].ann
<1>4. Annotated
  <2>1. CASE Editors
    <3>1. rev' \in Nat /\ rev <= rev'
      BY <1>2, <2>1 DEF Editors, EditSpec, AdvanceRev, StampRelock
    <3>2. api'[e].ann \in {api[e].ann, rev} /\ api'[e].token = api[e].token
      BY <1>1, <2>1, EditorStatus
    <3> QED
      BY <1>2, <1>3, <3>1, <3>2
  <2>2. ASSUME UNCHANGED <<api, rev>> PROVE Annotated
    BY <1>2, <1>3, <2>2
  <2>3. ASSUME NEW m \in Nodes, Informers(m) \/ Crash(m)
        PROVE  UNCHANGED <<api, rev>>
    BY <2>3 DEF Informers, Deliver, DeliverCatalog, DeliverWorkloads, Crash
  <2>4. ASSUME NEW m \in Nodes, NEW f \in Envs,
               FireDelayed(m, f) \/ Worker(m, f) \/ Failures(m, f)
        PROVE  Annotated
    <3>1. StatusFrom(e) /\ UNCHANGED rev
      BY <1>1, <2>4, NodeStatus
         DEF FireDelayed, Worker, FirstTouch, SkipRealized, RejectManifest,
             WaitForFlake, WaitForDeps, Hold, Begin, AcquireSlot,
             MarkRealizing, WriteEnv, BuildEnv, LinkRoot, FinishRealize,
             RollConsumers, Publish, Failures, FailRealize, RollFails,
             PublishFails
    <3>2. api'[e].token <= api[e].ann
      BY <3>1, PublishedTokens
    <3> QED
      BY <1>2, <1>3, <3>1, <3>2 DEF StatusFrom
  <2>5. UNCHANGED vars => UNCHANGED <<api, rev>>
    BY DEF vars
  <2> HIDE DEF Annotated
  <2> QED
    BY <1>1, <2>1, <2>2, <2>3, <2>4, <2>5 DEF Next
<1>5. \/ takenBack'[n][e]
      \/ /\ ~takenBack[n][e]
         /\ api[e].token <= api'[e].token
         /\ api[e].realized[n].gen <= api'[e].realized[n].gen
  <2>1. CASE HistoryNext
    <3>1. takenBack'[n][e] = (takenBack[n][e] \/ TakesBack(n, e))
      BY <2>1 DEF HistoryNext
    <3>2. CASE TakesBack(n, e)
      BY <3>1, <3>2
    <3>3. CASE ~TakesBack(n, e)
      <4>1. /\ api[e].token <= api'[e].token
            /\ api[e].realized[n].gen <= api'[e].realized[n].gen
        BY <1>2, <3>3 DEF TakesBack
      <4> QED
        BY <3>1, <4>1
    <3> QED
      BY <3>2, <3>3
  <2>2. CASE UNCHANGED historyVars
    <3>1. UNCHANGED <<api, takenBack>>
      BY <2>2 DEF historyVars, vars
    <3> QED
      BY <1>2, <3>1
  <2> QED
    BY <2>1, <2>2
<1> QED
  BY <1>2, <1>4, <1>5 DEF Advances

-----------------------------------------------------------------------------
(* The node's side of a step.                                               *)

\* What a step that is not n's, or not about e, leaves alone.
Untouched(n, e) ==
    /\ cache'[n][e] = cache[n][e]
    /\ pc'[n][e] = pc[n][e]
    /\ local'[n][e] = local[n][e]
    /\ job'[n][e] = job[n][e]
    /\ e \in queue'[n] <=> e \in queue[n]
    /\ e \in delayed'[n] <=> e \in delayed[n]

\* The assumptions of a step's lemmas.
Steady(n, e) ==
    /\ SeenInv /\ SeenInv'
    /\ Tracked(n, e)
    /\ Advances(n, e)

LEMMA SteadyFigures ==
    ASSUME NEW n \in Nodes, NEW e \in Envs, Steady(n, e)
    PROVE  /\ TypeOK /\ TypeOK'
           /\ api[e].gen \in Nat /\ api[e].ann \in Nat /\ api[e].token \in Nat
           /\ api[e].realized[n].gen \in Nat
           /\ cache[n][e].gen \in Nat /\ cache[n][e].ann \in Nat
           /\ cache[n][e].token \in Nat /\ cache[n][e].realized[n].gen \in Nat
           /\ local[n][e].gen \in Nat /\ local[n][e].token \in Nat
           /\ local[n][e].realized[n].gen \in Nat
           /\ job[n][e].gen \in Nat /\ job[n][e].relock \in Nat
           /\ api'[e].gen \in Nat /\ api'[e].ann \in Nat /\ api'[e].token \in Nat
           /\ api'[e].realized[n].gen \in Nat
<1>1. TypeOK /\ TypeOK'
  BY DEF Steady, SeenInv, IInv
<1>2. /\ api'[e].gen \in Nat /\ api'[e].ann \in Nat /\ api'[e].token \in Nat
      /\ api'[e].realized[n].gen \in Nat
  BY <1>1 DEF TypeOK, CR, Entry
<1> QED
  BY <1>1, <1>2, Figures

\* The server's copy stays ahead of what n holds.
LEMMA StaysBehind ==
    ASSUME NEW n \in Nodes, NEW e \in Envs, Steady(n, e), ~takenBack'[n][e],
           NEW copy \in CR, Behind(n, e, copy)
    PROVE  /\ copy.token <= api'[e].token
           /\ copy.realized[n].gen <= api'[e].realized[n].gen
<1>1. copy.token \in Nat /\ copy.realized[n].gen \in Nat
  BY DEF CR, Entry
<1> QED
  BY <1>1, SteadyFigures DEF Behind, Steady, Advances

\* Ordered needs no more than that n keeps its copy or takes the server's.
LEMMA OrderedStep ==
    ASSUME NEW n \in Nodes, NEW e \in Envs, Steady(n, e),
           cache'[n][e] \in {cache[n][e], api[e]}
    PROVE  Ordered(n, e)'
BY SteadyFigures DEF Steady, Tracked, Ordered, Advances

\* What was awaited still is, if the node's side has not changed.
LEMMA AwaitedStep ==
    ASSUME NEW n \in Nodes, NEW e \in Envs, Steady(n, e), ~takenBack'[n][e],
           cache'[n][e] = cache[n][e], Awaited(n, e),
           Pending(n, e) => Pending(n, e)'
    PROVE  Awaited(n, e)'
<1>1. /\ cache[n][e].gen \in Nat /\ api[e].gen \in Nat /\ api'[e].gen \in Nat
      /\ cache[n][e].ann \in Nat /\ api[e].ann \in Nat /\ api'[e].ann \in Nat
      /\ api[e].token \in Nat /\ api'[e].token \in Nat
      /\ api[e].realized[n].gen \in Nat /\ api'[e].realized[n].gen \in Nat
  BY SteadyFigures
<1>2. /\ cache[n][e].gen <= api[e].gen /\ api[e].gen <= api'[e].gen
      /\ cache[n][e].ann <= api[e].ann /\ api[e].ann <= api'[e].ann
  BY GenerationsInOrder DEF Steady, Tracked, Ordered, Advances
<1>3. /\ api[e].token <= api'[e].token /\ api'[e].token <= api'[e].ann
      /\ api[e].realized[n].gen <= api'[e].realized[n].gen
      /\ api'[e].realized[n].gen <= api'[e].gen
  BY DEF Steady, Advances, SeenInv, Known
<1>4. CASE Pending(n, e)
  BY <1>4 DEF Awaited
<1>5. CASE cache[n][e].gen # api'[e].gen \/ cache[n][e].ann # api'[e].ann
  BY <1>5 DEF Awaited, RealisationChange
<1>6. CASE ~Pending(n, e) /\ cache[n][e].gen = api'[e].gen
                          /\ cache[n][e].ann = api'[e].ann
  <2>1. cache[n][e].gen = api[e].gen /\ api[e].gen = api'[e].gen
    BY <1>1, <1>2, <1>6
  <2>2. cache[n][e].ann = api[e].ann /\ api[e].ann = api'[e].ann
    BY <1>1, <1>2, <1>6
  <2>3. AlreadyRealized(n, api[e])
    BY <1>6, <2>1, <2>2 DEF Awaited, RealisationChange
  <2>4. api'[e].ann = api'[e].token /\ api'[e].realized[n].gen = api'[e].gen
    BY <1>1, <1>3, <2>1, <2>2, <2>3 DEF AlreadyRealized
  <2> QED
    BY <2>4 DEF Awaited, AlreadyRealized
<1> QED
  BY <1>4, <1>5, <1>6

\* A step that leaves n's copies alone, whatever it does to the server.
LEMMA UntouchedTracked ==
    ASSUME NEW n \in Nodes, NEW e \in Envs, Steady(n, e), Untouched(n, e)
    PROVE  Tracked(n, e)'
<1>1. Ordered(n, e)'
  BY OrderedStep DEF Untouched
<1>2. OnCourse(n, e)'
  BY DEF Steady, Tracked, Untouched, OnCourse
<1>3. ASSUME ~takenBack'[n][e] PROVE Unless(n, e)'
  <2>1. Unless(n, e) /\ cache[n][e] \in CR /\ local[n][e] \in CR
    BY <1>3, SteadyFigures DEF Steady, Advances, Tracked, TypeOK
  <2>2. Awaited(n, e)'
    BY <1>3, <2>1, AwaitedStep DEF Untouched, Unless, Pending
  <2> QED
    BY <1>3, <2>1, <2>2, StaysBehind DEF Untouched, Unless, Behind
<1> QED
  BY <1>1, <1>2, <1>3 DEF Tracked

\* A step about one env leaves the others alone.
LEMMA OthersUntouched ==
    ASSUME TypeOK, NEW n \in Nodes, NEW e \in Envs,
           NEW m \in Nodes, NEW f \in Envs, m # n \/ f # e,
           Deliver(m, f) \/ FireDelayed(m, f) \/ Worker(m, f) \/ Failures(m, f)
    PROVE  Untouched(n, e)
<1>1. /\ cache \in [Nodes -> [Envs -> CR]]
      /\ pc \in [Nodes -> [Envs -> Steps]] /\ local \in [Nodes -> [Envs -> CR]]
      /\ job \in [Nodes -> [Envs -> Job]]
      /\ queue \in [Nodes -> SUBSET Envs] /\ delayed \in [Nodes -> SUBSET Envs]
  BY DEF TypeOK
<1>2. ASSUME Deliver(m, f) \/ FireDelayed(m, f) \/ SkipRealized(m, f) \/ Begin(m, f)
      PROVE  Untouched(n, e)
  BY <1>1, <1>2 DEF Deliver, FireDelayed, SkipRealized, Begin, Dequeue, Untouched
<1>3. ASSUME \/ FirstTouch(m, f) \/ RejectManifest(m, f)
             \/ WaitForFlake(m, f) \/ WaitForDeps(m, f)
      PROVE  Untouched(n, e)
  <2>1. /\ UNCHANGED <<cache, pc, local, job>>
        /\ Dequeue(m, f) /\ Requeue(m, f)
    BY <1>3 DEF FirstTouch, RejectManifest, WaitForFlake, WaitForDeps, Hold
  <2>2. /\ e \in queue'[n] <=> e \in queue[n]
        /\ e \in delayed'[n] <=> e \in delayed[n]
    BY <1>1, <2>1 DEF Dequeue, Requeue
  <2> QED
    BY <2>1, <2>2 DEF Untouched
<1>4. ASSUME \/ AcquireSlot(m, f) \/ WriteEnv(m, f) \/ BuildEnv(m, f)
             \/ LinkRoot(m, f) \/ FinishRealize(m, f) \/ RollConsumers(m, f)
      PROVE  Untouched(n, e)
  BY <1>1, <1>4 DEF AcquireSlot, WriteEnv, BuildEnv, LinkRoot, FinishRealize,
                    RollConsumers, Step, Untouched
<1>5. ASSUME MarkRealizing(m, f) PROVE Untouched(n, e)
  <2>1. /\ UNCHANGED <<cache, queue, delayed, job>>
        /\ pc' = [pc EXCEPT ![m][f] = "write"]
        /\ \E copy : local' = [local EXCEPT ![m][f] = copy]
    BY <1>5 DEF MarkRealizing, Step
  <2> QED
    BY <1>1, <2>1 DEF Untouched
<1>6. ASSUME Publish(m, f) \/ Failures(m, f) PROVE Untouched(n, e)
  BY <1>1, <1>6 DEF Publish, Failures, FailRealize, RollFails, PublishFails,
                    Requeue, Return, Untouched
<1> QED
  BY <1>2, <1>3, <1>4, <1>5, <1>6 DEF Worker

\* An event of the informer.
LEMMA DeliverTracked ==
    ASSUME NEW n \in Nodes, NEW e \in Envs, Steady(n, e), Deliver(n, e)
    PROVE  Tracked(n, e)'
<1>1. /\ cache'[n][e] = api[e]
      /\ queue'[n] = IF RealisationChange(cache[n][e], api[e])
                     THEN queue[n] \cup {e} ELSE queue[n]
      /\ UNCHANGED <<api, rev, delayed, pc, local, job>>
  <2>1. cache \in [Nodes -> [Envs -> CR]] /\ queue \in [Nodes -> SUBSET Envs]
    BY SteadyFigures DEF TypeOK
  <2>2. cache'[n][e] = api[e]
    BY <2>1 DEF Deliver
  <2>3. queue'[n] = IF RealisationChange(cache[n][e], api[e])
                    THEN queue[n] \cup {e} ELSE queue[n]
    BY <2>1 DEF Deliver
  <2> QED
    BY <2>2, <2>3 DEF Deliver
<1>2. Ordered(n, e)'
  BY <1>1, OrderedStep
<1>3. OnCourse(n, e)'
  BY <1>1, SteadyFigures DEF Steady, Tracked, Ordered, OnCourse, RealisationChange
<1>4. ASSUME ~takenBack'[n][e] PROVE Unless(n, e)'
  <2>1. Unless(n, e)
    BY <1>4 DEF Steady, Advances, Tracked
  <2>2. Behind(n, e, api[e]) /\ UNCHANGED api
    BY <1>1, SteadyFigures DEF Behind
  <2>3. Awaited(n, e)'
    BY <1>1, <2>1 DEF Unless, Awaited, AlreadyRealized, Pending, RealisationChange
  <2> QED
    BY <1>1, <2>1, <2>2, <2>3 DEF Unless, Behind
<1> QED
  BY <1>2, <1>3, <1>4 DEF Tracked

\* A restart lists afresh and enqueues every env.
LEMMA CrashTracked ==
    ASSUME NEW n \in Nodes, NEW e \in Envs, Steady(n, e), Crash(n)
    PROVE  Tracked(n, e)'
<1>1. /\ cache'[n][e] = api[e] /\ e \in queue'[n] /\ pc'[n][e] = "idle"
      /\ UNCHANGED <<api, rev>>
  BY SteadyFigures DEF Crash, TypeOK
<1>2. Ordered(n, e)' /\ OnCourse(n, e)'
  BY <1>1, OrderedStep DEF OnCourse
<1>3. Unless(n, e)'
  BY <1>1, SteadyFigures DEF Unless, Behind, Awaited, Pending
<1> QED
  BY <1>2, <1>3 DEF Tracked

\* A return with a requeue is never the end of it.
LEMMA RequeuedTracked ==
    ASSUME NEW n \in Nodes, NEW e \in Envs, Steady(n, e),
           pc'[n][e] = "idle", Requeue(n, e), UNCHANGED cache
    PROVE  Tracked(n, e)'
<1>1. e \in delayed'[n] /\ cache[n][e] \in CR
  BY SteadyFigures DEF Requeue, TypeOK
<1>2. Ordered(n, e)' /\ OnCourse(n, e)'
  BY OrderedStep DEF OnCourse
<1>3. ASSUME ~takenBack'[n][e] PROVE Unless(n, e)'
  <2>1. Behind(n, e, cache[n][e])
    BY <1>3 DEF Steady, Advances, Tracked, Unless
  <2> QED
    BY <1>1, <1>3, <2>1, StaysBehind DEF Unless, Behind, Awaited, Pending
<1> QED
  BY <1>2, <1>3 DEF Tracked

\* The returns that wait or report a failure.
LEMMA ReturnsTracked ==
    ASSUME NEW n \in Nodes, NEW e \in Envs, Steady(n, e),
           \/ FirstTouch(n, e) \/ RejectManifest(n, e) \/ WaitForFlake(n, e)
           \/ WaitForDeps(n, e) \/ Failures(n, e)
    PROVE  Tracked(n, e)'
<1>1. CASE \/ FirstTouch(n, e) \/ RejectManifest(n, e)
           \/ WaitForFlake(n, e) \/ WaitForDeps(n, e)
  <2>1. Requeue(n, e) /\ UNCHANGED <<cache, pc>> /\ pc[n][e] = "idle"
    BY <1>1 DEF FirstTouch, RejectManifest, WaitForFlake, WaitForDeps, Hold,
                ToRealise, Takes
  <2> QED
    BY <2>1, RequeuedTracked
<1>2. CASE Failures(n, e)
  <2>1. Requeue(n, e) /\ UNCHANGED cache /\ pc'[n][e] = "idle"
    BY <1>2, SteadyFigures DEF Failures, FailRealize, RollFails, PublishFails,
                               Return, TypeOK
  <2> QED
    BY <2>1, RequeuedTracked
<1> QED
  BY <1>1, <1>2

\* A reconcile that ends because its copy is realised is right about it, or an
\* event is on its way, or something was taken back.
LEMMA SkipTracked ==
    ASSUME NEW n \in Nodes, NEW e \in Envs, Steady(n, e), SkipRealized(n, e)
    PROVE  Tracked(n, e)'
<1>1. /\ AlreadyRealized(n, cache[n][e]) /\ pc[n][e] = "idle"
      /\ UNCHANGED <<api, cache, rev, delayed, pc, local, job>>
  BY DEF SkipRealized, Takes
<1>2. Ordered(n, e)' /\ OnCourse(n, e)'
  BY <1>1, OrderedStep DEF OnCourse
<1>3. ASSUME ~takenBack'[n][e] PROVE Unless(n, e)'
  <2>1. Behind(n, e, cache[n][e])
    BY <1>3 DEF Steady, Advances, Tracked, Unless
  <2>2. CASE RealisationChange(cache[n][e], api[e])
    BY <1>1, <2>1, <2>2 DEF Unless, Behind, Awaited
  <2>3. CASE ~RealisationChange(cache[n][e], api[e])
    <3>1. cache[n][e].gen = api[e].gen /\ cache[n][e].ann = api[e].ann
      BY <2>3 DEF RealisationChange
    <3>2. api[e].token <= api[e].ann /\ api[e].realized[n].gen <= api[e].gen
      BY GenerationsInOrder DEF Steady, Tracked, Ordered
    <3>3. api[e].ann = api[e].token /\ api[e].realized[n].gen = api[e].gen
      BY <1>1, <2>1, <3>1, <3>2, SteadyFigures DEF AlreadyRealized, Behind
    <3> QED
      BY <1>1, <2>1, <3>3 DEF Unless, Behind, Awaited, AlreadyRealized
  <2> QED
    BY <2>2, <2>3
<1> QED
  BY <1>2, <1>3 DEF Tracked

\* The steps of a realise before its status.
LEMMA RealiseTracked ==
    ASSUME NEW n \in Nodes, NEW e \in Envs, Steady(n, e),
           \/ FireDelayed(n, e) \/ Begin(n, e) \/ AcquireSlot(n, e)
           \/ MarkRealizing(n, e) \/ WriteEnv(n, e) \/ BuildEnv(n, e)
           \/ LinkRoot(n, e) \/ FinishRealize(n, e) \/ RollConsumers(n, e)
    PROVE  Tracked(n, e)'
<1>1. UNCHANGED cache
  BY DEF FireDelayed, Begin, AcquireSlot, MarkRealizing, WriteEnv, BuildEnv,
         LinkRoot, FinishRealize, RollConsumers
<1>2. Ordered(n, e)'
  BY <1>1, OrderedStep
<1>3. /\ OnCourse(n, e)'
      /\ Pending(n, e)'
      /\ pc'[n][e] # "idle" =>
            \/ pc[n][e] # "idle" /\ local'[n][e] = local[n][e]
            \/ local'[n][e] \in {cache[n][e], api'[e]}
            \/ /\ pc[n][e] # "idle"
               /\ local'[n][e] = SetReady(local[n][e], "Realizing", n)
  <2>1. CASE FireDelayed(n, e)
    BY <2>1, SteadyFigures DEF FireDelayed, TypeOK, Pending, Steady, Tracked, OnCourse
  <2>2. CASE Begin(n, e)
    <3>1. /\ pc'[n][e] = "slot" /\ local'[n][e] = cache[n][e]
          /\ job'[n][e].gen = cache[n][e].gen
          /\ job'[n][e].relock = cache[n][e].ann
      BY <2>2, SteadyFigures DEF Begin, TypeOK
    <3> QED
      BY <1>1, <3>1, SteadyFigures DEF Pending, OnCourse
  <2>3. CASE MarkRealizing(n, e)
    <3>1. /\ pc[n][e] = "mark" /\ pc'[n][e] = "write" /\ UNCHANGED <<queue, job>>
      BY <2>3, SteadyFigures DEF MarkRealizing, Step, TypeOK
    <3>2. local'[n][e] \in {api'[e], SetReady(local[n][e], "Realizing", n)}
      BY <2>3, SteadyFigures DEF MarkRealizing, Patched, TypeOK
    <3> QED
      BY <1>1, <3>1, <3>2 DEF Pending, Steady, Tracked, OnCourse
  <2>4. CASE \/ AcquireSlot(n, e) \/ WriteEnv(n, e) \/ BuildEnv(n, e)
             \/ LinkRoot(n, e) \/ FinishRealize(n, e) \/ RollConsumers(n, e)
    <3>1. /\ UNCHANGED <<queue, local, job>>
          /\ pc[n][e] # "idle" /\ pc'[n][e] # "idle"
      BY <2>4, SteadyFigures
         DEF AcquireSlot, WriteEnv, BuildEnv, LinkRoot, FinishRealize,
             RollConsumers, Step, TypeOK
    <3> QED
      BY <1>1, <3>1 DEF Pending, Steady, Tracked, OnCourse
  <2> QED
    BY <2>1, <2>2, <2>3, <2>4
<1>4. ASSUME ~takenBack'[n][e] PROVE Unless(n, e)'
  <2>1. /\ Unless(n, e) /\ cache[n][e] \in CR /\ local[n][e] \in CR
        /\ api'[e] \in CR
    BY <1>4, SteadyFigures DEF Steady, Advances, Tracked, TypeOK
  <2>2. Behind(n, e, cache[n][e])' /\ Awaited(n, e)'
    BY <1>1, <1>3, <1>4, <2>1, StaysBehind DEF Unless, Behind, Awaited
  <2>3. ASSUME pc[n][e] # "idle"
        PROVE  /\ local[n][e].token <= api'[e].token
               /\ local[n][e].realized[n].gen <= api'[e].realized[n].gen
    BY <1>4, <2>1, <2>3, StaysBehind DEF Unless
  <2>4. LET marked == SetReady(local[n][e], "Realizing", n)
        IN  marked.token = local[n][e].token /\ marked.realized = local[n][e].realized
    BY <2>1 DEF SetReady, CR
  <2>5. ASSUME pc'[n][e] # "idle" PROVE Behind(n, e, local[n][e])'
    <3>1. CASE pc[n][e] # "idle" /\ local'[n][e] = local[n][e]
      BY <2>3, <3>1 DEF Behind
    <3>2. CASE local'[n][e] = cache[n][e]
      BY <1>1, <2>2, <3>2 DEF Behind
    <3>3. CASE local'[n][e] = api'[e]
      BY <3>3, SteadyFigures DEF Behind
    <3>4. CASE /\ pc[n][e] # "idle"
               /\ local'[n][e] = SetReady(local[n][e], "Realizing", n)
      BY <2>3, <2>4, <3>4 DEF Behind
    <3> QED
      BY <1>3, <2>5, <3>1, <3>2, <3>3, <3>4
  <2> QED
    BY <2>2, <2>5 DEF Unless
<1> QED
  BY <1>2, <1>3, <1>4 DEF Tracked

\* What Publish leaves on the server.
LEMMA PublishedFields ==
    ASSUME TypeOK, NEW n \in Nodes, NEW e \in Envs, Publish(n, e)
    PROVE  /\ api'[e].gen = api[e].gen /\ api'[e].ann = api[e].ann
           /\ \/ api'[e].token = job[n][e].relock
              \/ /\ api'[e].token = api[e].token
                 /\ local[n][e].token = job[n][e].relock
           /\ \/ api'[e].realized[n].gen = local[n][e].gen
              \/ /\ api'[e].realized = api[e].realized
                 /\ local[n][e].realized[n].gen = local[n][e].gen
<1> DEFINE new == RealizedStatus(n, e)
<1>1. api[e] \in CR /\ local[n][e] \in CR /\ new \in CR
  BY RealizedStatusType DEF TypeOK
<1>2. api'[e] = MergePatch(api[e], local[n][e], new)
  BY DEF Publish, Patched, TypeOK
<1>3. new.token = job[n][e].relock /\ new.realized[n].gen = local[n][e].gen
  BY <1>1 DEF RealizedStatus, SetReady, CR
<1> HIDE DEF new
<1> QED
  BY <1>1, <1>2, <1>3, PatchedFields

\* A reconcile that publishes has done what its copy asks for, or has been
\* enqueued again, or something was taken back.
LEMMA PublishTracked ==
    ASSUME NEW n \in Nodes, NEW e \in Envs, Steady(n, e), Publish(n, e)
    PROVE  Tracked(n, e)'
<1>1. /\ pc[n][e] = "publish" /\ pc'[n][e] = "idle" /\ UNCHANGED <<cache, queue>>
  BY SteadyFigures DEF Publish, Return, TypeOK
<1>2. Ordered(n, e)' /\ OnCourse(n, e)'
  BY <1>1, OrderedStep DEF OnCourse
<1>3. ASSUME ~takenBack'[n][e] PROVE Unless(n, e)'
  <2>1. /\ Behind(n, e, cache[n][e]) /\ Behind(n, e, local[n][e])
        /\ cache[n][e] \in CR
    BY <1>1, <1>3, SteadyFigures DEF Steady, Advances, Tracked, Unless, TypeOK
  <2>2. Behind(n, e, cache[n][e])'
    BY <1>1, <1>3, <2>1, StaysBehind DEF Behind
  <2>3. CASE e \in queue[n]
    BY <1>1, <2>2, <2>3 DEF Unless, Awaited, Pending
  <2>4. api'[e].gen = api[e].gen /\ api'[e].ann = api[e].ann
    BY PublishedFields, SteadyFigures
  <2>5. CASE RealisationChange(cache[n][e], api[e])
    BY <1>1, <2>2, <2>4, <2>5 DEF Unless, Awaited, RealisationChange
  <2>6. CASE e \notin queue[n] /\ ~RealisationChange(cache[n][e], api[e])
    <3>1. job[n][e].gen = api[e].gen /\ job[n][e].relock = api[e].ann
      BY <1>1, <2>6 DEF Steady, Tracked, OnCourse, RealisationChange
    <3>2. local[n][e].gen = api[e].gen
      BY <1>1, <3>1, SteadyFigures, GenerationsInOrder DEF Steady
    <3>3. /\ api[e].token <= api[e].ann /\ api[e].realized[n].gen <= api[e].gen
      BY GenerationsInOrder DEF Steady, Tracked, Ordered
    <3>4. api'[e].token = api[e].ann
      <4>1. CASE api'[e].token = job[n][e].relock
        BY <3>1, <4>1
      <4>2. CASE api'[e].token = api[e].token /\ local[n][e].token = job[n][e].relock
        BY <2>1, <3>1, <3>3, <4>2, SteadyFigures DEF Behind
      <4> QED
        BY <4>1, <4>2, PublishedFields, SteadyFigures
    <3>5. api'[e].realized[n].gen = api[e].gen
      <4>1. CASE api'[e].realized[n].gen = local[n][e].gen
        BY <3>2, <4>1
      <4>2. CASE /\ api'[e].realized = api[e].realized
                 /\ local[n][e].realized[n].gen = local[n][e].gen
        BY <2>1, <3>2, <3>3, <4>2, SteadyFigures DEF Behind
      <4> QED
        BY <4>1, <4>2, PublishedFields, SteadyFigures
    <3> QED
      BY <1>1, <2>2, <2>4, <3>4, <3>5 DEF Unless, Awaited, AlreadyRealized
  <2> QED
    BY <2>3, <2>5, <2>6
<1> QED
  BY <1>2, <1>3 DEF Tracked

-----------------------------------------------------------------------------
LEMMA HistoryStart == HistoryInit => HistoryInv
<1> SUFFICES ASSUME HistoryInit PROVE HistoryInv
  OBVIOUS
<1>1. SeenInv /\ takenBack \in [Nodes -> [Envs -> BOOLEAN]]
  BY SeenInit DEF HistoryInit
<1>2. ASSUME NEW n \in Nodes, NEW e \in Envs PROVE Tracked(n, e)
  <2>1. /\ api[e] = NewCR /\ cache[n][e] = NewCR /\ rev = 0
        /\ e \in queue[n] /\ pc[n][e] = "idle"
    BY DEF HistoryInit, Init
  <2>2. /\ NewCR.ann = 0 /\ NewCR.token = 0 /\ NewCR.realized[n].gen = 0
    BY DEF NewCR, NoEntry
  <2> QED
    BY <2>1, <2>2 DEF Tracked, Ordered, OnCourse, Unless, Behind, Awaited, Pending
<1> QED
  BY <1>1, <1>2 DEF HistoryInv

LEMMA HistoryStep == HistoryInv /\ [HistoryNext]_historyVars => HistoryInv'
<1> SUFFICES ASSUME HistoryInv, [HistoryNext]_historyVars PROVE HistoryInv'
  OBVIOUS
<1>1. [Next]_vars /\ SeenInv /\ SeenInv'
  BY SeenStep DEF HistoryInv, HistoryNext, historyVars
<1>2. takenBack' \in [Nodes -> [Envs -> BOOLEAN]]
  BY DEF HistoryInv, HistoryNext, historyVars, TakesBack
<1>3. ASSUME NEW n \in Nodes, NEW e \in Envs PROVE Tracked(n, e)'
  <2>1. Steady(n, e) /\ TypeOK
    BY <1>1, ServerAdvances DEF HistoryInv, Steady, SeenInv, IInv
  <2>2. ASSUME Untouched(n, e) PROVE Tracked(n, e)'
    BY <2>1, <2>2, UntouchedTracked
  <2>3. Editors \/ UNCHANGED vars => Untouched(n, e)
    BY DEF Editors, EditSpec, AdvanceRev, StampRelock, vars, Untouched
  <2>4. ASSUME NEW m \in Nodes, DeliverCatalog(m) \/ DeliverWorkloads(m)
        PROVE  Untouched(n, e)
    BY <2>4 DEF DeliverCatalog, DeliverWorkloads, Untouched
  <2>5. ASSUME NEW m \in Nodes, Crash(m) PROVE Tracked(n, e)'
    <3>1. CASE m = n
      BY <2>1, <2>5, <3>1, CrashTracked
    <3>2. CASE m # n
      BY <2>1, <2>2, <2>5, <3>2 DEF Crash, TypeOK, Untouched
    <3> QED
      BY <3>1, <3>2
  <2>6. ASSUME NEW m \in Nodes, NEW f \in Envs,
               Deliver(m, f) \/ FireDelayed(m, f) \/ Worker(m, f) \/ Failures(m, f)
        PROVE  Tracked(n, e)'
    <3>1. CASE m # n \/ f # e
      BY <2>1, <2>2, <2>6, <3>1, OthersUntouched
    <3>2. CASE m = n /\ f = e
      BY <2>1, <2>6, <3>2, DeliverTracked, ReturnsTracked, SkipTracked,
         RealiseTracked, PublishTracked DEF Worker
    <3> QED
      BY <3>1, <3>2
  <2> QED
    BY <1>1, <2>2, <2>3, <2>4, <2>5, <2>6 DEF Next, Informers
<1> QED
  BY <1>1, <1>2, <1>3 DEF HistoryInv

\* On a cluster of any size, with any faults, a lost hint among them, an env
\* that a node has not realised has a queue entry, a timer, a reconcile or an
\* event that brings the node back to it, unless a status write has taken back
\* the node's entry or the token.
THEOREM WorkLostOnlyIfTakenBack == HistorySpec => []LostOnlyIfTakenBack
<1>1. HistoryInv => LostOnlyIfTakenBack
  BY DEF HistoryInv, Tracked, Unless, Awaited, LostOnlyIfTakenBack
<1> QED
  BY <1>1, HistoryStart, HistoryStep, PTL DEF HistorySpec
=============================================================================
