------------------------ MODULE FloxEnvAgents_proofs ------------------------
(* Theorems about FloxEnvAgents, for any nodes, envs, slots and bounds.     *)
EXTENDS FloxEnvAgents, FiniteSetTheorems, TLAPS

-----------------------------------------------------------------------------
(* The operators on FloxEnv copies.                                         *)

LEMMA NoLockType == NoLock \in Lock
BY DEF NoLock, Lock

LEMMA NewCRType == NewCR \in CR
BY NoLockType DEF NewCR, CR, Condition, Reasons, Entry, NoEntry

LEMMA NoJobType == NoJob \in Job
BY NoLockType DEF NoJob, Job

LEMMA SetReadyType ==
    ASSUME NEW env \in CR, NEW reason \in Reasons,
           NEW by \in Nodes \cup {NoNode}
    PROVE  SetReady(env, reason, by) \in CR
BY DEF SetReady, CR, Condition

LEMMA MergePatchType ==
    ASSUME NEW srv \in CR, NEW base \in CR, NEW new \in CR
    PROVE  MergePatch(srv, base, new) \in CR
BY DEF MergePatch, CR

\* A patch touches no spec field, and takes each status field from one side.
LEMMA MergePatchFields ==
    ASSUME NEW srv \in CR, NEW base \in CR, NEW new \in CR
    PROVE  LET merged == MergePatch(srv, base, new)
           IN  /\ merged.gen = srv.gen
               /\ merged.ann = srv.ann
               /\ merged.realized \in {srv.realized, new.realized}
               /\ merged.ready \in {srv.ready, new.ready}
BY DEF MergePatch, CR

\* Publishing a condition changes the condition only.
LEMMA SetReadyFields ==
    ASSUME NEW env \in CR, NEW reason \in Reasons,
           NEW by \in Nodes \cup {NoNode}
    PROVE  LET marked == SetReady(env, reason, by)
           IN  /\ marked.gen = env.gen
               /\ marked.ann = env.ann
               /\ marked.realized = env.realized
               /\ marked.ready.reason = reason
BY DEF SetReady, CR, Condition

LEMMA PatchedType ==
    ASSUME api \in [Envs -> CR], NEW e \in Envs, NEW base \in CR, NEW new \in CR
    PROVE  Patched(e, base, new) \in [Envs -> CR]
BY MergePatchType DEF Patched

LEMMA RequestedLockType ==
    ASSUME NEW env \in CR
    PROVE  RequestedLock(env) \in Lock
BY NoLockType DEF RequestedLock, CR

LEMMA SettledLockType ==
    ASSUME NEW found \in Lock, NEW j \in Job, NEW e \in Envs, rev \in Nat
    PROVE  /\ SettledLock(found, j, e) \in Lock
           /\ SettledLock(found, j, e).gen = j.gen
BY DEF SettledLock, Lock, Job

LEMMA RealizedStatusType ==
    ASSUME TypeOK, NEW n \in Nodes, NEW e \in Envs
    PROVE  RealizedStatus(n, e) \in CR
<1>1. /\ local[n][e] \in CR
      /\ disk[n][e] \in Lock
      /\ root[n][e] \in Lock
      /\ job[n][e] \in Job
  BY DEF TypeOK
<1> DEFINE entry == [gen |-> local[n][e].gen, path |-> root[n][e]]
           written == [local[n][e] EXCEPT !.lock        = disk[n][e],
                                          !.token       = job[n][e].relock,
                                          !.realized[n] = entry]
<1>2. entry \in Entry
  BY <1>1 DEF Entry, CR
<1>3. written \in CR
  BY <1>1, <1>2 DEF CR, Job
<1>4. "Realized" \in Reasons
  BY DEF Reasons
<1> QED
  BY <1>3, <1>4, SetReadyType DEF RealizedStatus

-----------------------------------------------------------------------------
(* Type correctness.                                                        *)

LEMMA TypeInit == Init => TypeOK
BY NewCRType, NoJobType, NoLockType DEF Init, TypeOK, Steps

LEMMA BestEffortType ==
    ASSUME TypeOK, NEW e \in Envs, NEW base \in CR, NEW new \in CR,
           BestEffort(e, base, new)
    PROVE  api' \in [Envs -> CR] /\ faults' \in Nat
<1>1. api \in [Envs -> CR] /\ faults \in Nat
  BY DEF TypeOK
<1>2. Patched(e, base, new) \in [Envs -> CR]
  BY <1>1, PatchedType
<1> QED
  BY <1>1, <1>2 DEF BestEffort, Fault

LEMMA HoldType ==
    ASSUME TypeOK, NEW n \in Nodes, NEW e \in Envs, NEW reason \in Reasons,
           Hold(n, e, reason)
    PROVE  TypeOK'
<1>1. cache[n][e] \in CR /\ SetReady(cache[n][e], reason, NoNode) \in CR
  BY SetReadyType DEF TypeOK
<1>2. BestEffort(e, cache[n][e], SetReady(cache[n][e], reason, NoNode))
  BY DEF Hold
<1>3. api' \in [Envs -> CR] /\ faults' \in Nat
  BY <1>1, <1>2, BestEffortType
<1> QED
  BY <1>3 DEF Hold, Dequeue, Requeue, TypeOK

LEMMA ReturnType ==
    ASSUME TypeOK, NEW n \in Nodes, NEW e \in Envs, Return(n, e)
    PROVE  /\ pc'    \in [Nodes -> [Envs -> Steps]]
           /\ local' \in [Nodes -> [Envs -> CR]]
           /\ job'   \in [Nodes -> [Envs -> Job]]
           /\ slots' \in [Nodes -> Int]
BY NewCRType, NoJobType DEF Return, TypeOK, Steps

LEMMA TypeEditors == TypeOK /\ Editors => TypeOK'
<1> SUFFICES ASSUME TypeOK, Editors PROVE TypeOK'
  OBVIOUS
<1>1. ASSUME NEW e \in Envs, EditSpec(e) PROVE TypeOK'
  <2>1. [api[e] EXCEPT !.gen = @ + 1] \in CR
    <3>1. api[e] \in CR /\ rev \in Nat
      BY DEF TypeOK
    <3> QED
      BY <3>1 DEF CR
  <2>2. api' \in [Envs -> CR]
    BY <1>1, <2>1 DEF EditSpec, TypeOK
  <2> QED
    BY <1>1, <2>2 DEF EditSpec, TypeOK
<1>2. CASE AdvanceRev
  BY <1>2 DEF AdvanceRev, TypeOK
<1>3. ASSUME NEW e \in Envs, StampRelock(e) PROVE TypeOK'
  <2>1. [api[e] EXCEPT !.ann = rev] \in CR
    <3>1. api[e] \in CR /\ rev \in Nat
      BY DEF TypeOK
    <3> QED
      BY <3>1 DEF CR
  <2>2. api' \in [Envs -> CR]
    BY <1>3, <2>1 DEF StampRelock, TypeOK
  <2> QED
    BY <1>3, <2>2 DEF StampRelock, TypeOK
<1> QED
  BY <1>1, <1>2, <1>3 DEF Editors

LEMMA TypeNode ==
    ASSUME TypeOK, NEW n \in Nodes, Informers(n) \/ Crash(n)
    PROVE  TypeOK'
<1>1. ASSUME NEW e \in Envs, Deliver(n, e) PROVE TypeOK'
  BY <1>1 DEF Deliver, TypeOK
<1>2. CASE DeliverCatalog(n)
  BY <1>2 DEF DeliverCatalog, TypeOK
<1>3. CASE DeliverWorkloads(n)
  BY <1>3 DEF DeliverWorkloads, TypeOK
<1>4. CASE Crash(n)
  BY <1>4, NewCRType, NoJobType DEF Crash, Fault, TypeOK, Steps
<1> QED
  BY <1>1, <1>2, <1>3, <1>4 DEF Informers

LEMMA TypeWorker ==
    ASSUME TypeOK, NEW n \in Nodes, NEW e \in Envs,
           FireDelayed(n, e) \/ Worker(n, e)
    PROVE  TypeOK'
<1>1. CASE FireDelayed(n, e)
  BY <1>1 DEF FireDelayed, TypeOK
<1>2. CASE FirstTouch(n, e)
  <2>1. "Pending" \in Reasons
    BY DEF Reasons
  <2>2. cache[n][e] \in CR /\ SetReady(cache[n][e], "Pending", NoNode) \in CR
    BY <2>1, SetReadyType DEF TypeOK
  <2>3. api' \in [Envs -> CR] /\ faults' \in Nat
    BY <1>2, <2>2, BestEffortType DEF FirstTouch
  <2> QED
    BY <1>2, <2>3 DEF FirstTouch, Dequeue, Requeue, TypeOK
<1>3. CASE SkipRealized(n, e)
  BY <1>3 DEF SkipRealized, Dequeue, TypeOK
<1>4. CASE RejectManifest(n, e) \/ WaitForFlake(n, e) \/ WaitForDeps(n, e)
  BY <1>4, HoldType DEF RejectManifest, WaitForFlake, WaitForDeps, Reasons
<1>5. CASE Begin(n, e)
  <2>1. /\ cache[n][e] \in CR
        /\ RequestedLock(cache[n][e]) \in Lock
        /\ (IF e \in CatalogEnvs THEN fcache[n] ELSE 0) \in Nat
    BY RequestedLockType DEF TypeOK
  <2>2. job' \in [Nodes -> [Envs -> Job]]
    BY <1>5, <2>1 DEF Begin, TypeOK, Job, CR
  <2> QED
    BY <1>5, <2>1, <2>2 DEF Begin, Dequeue, TypeOK, Steps
<1>6. CASE AcquireSlot(n, e)
  BY <1>6 DEF AcquireSlot, Step, TypeOK, Steps, Working
<1>7. CASE MarkRealizing(n, e)
  <2>1. "Realizing" \in Reasons
    BY DEF Reasons
  <2>2. /\ local[n][e] \in CR
        /\ SetReady(local[n][e], "Realizing", n) \in CR
        /\ api[e] \in CR
    BY <2>1, SetReadyType DEF TypeOK
  <2>3. MergePatch(api[e], local[n][e], SetReady(local[n][e], "Realizing", n)) \in CR
    BY <2>2, MergePatchType
  <2> DEFINE new == SetReady(local[n][e], "Realizing", n)
  <2>4. api' \in [Envs -> CR]
    <3>1. api \in [Envs -> CR]
      BY DEF TypeOK
    <3>2. Patched(e, local[n][e], new) \in [Envs -> CR]
      BY <2>2, <3>1, PatchedType
    <3>3. api' = Patched(e, local[n][e], new) \/ api' = api
      BY <1>7 DEF MarkRealizing
    <3> QED
      BY <3>1, <3>2, <3>3
  <2>5. local' \in [Nodes -> [Envs -> CR]]
    <3>1. local \in [Nodes -> [Envs -> CR]]
      BY DEF TypeOK
    <3>2. PICK seen \in CR : local' = [local EXCEPT ![n][e] = seen]
      BY <1>7, <2>2, <2>3 DEF MarkRealizing
    <3> QED
      BY <3>1, <3>2
  <2>6. faults' \in Nat
    BY <1>7 DEF MarkRealizing, Fault, TypeOK
  <2> QED
    BY <1>7, <2>4, <2>5, <2>6 DEF MarkRealizing, Step, TypeOK, Steps, Working
<1>8. CASE WriteEnv(n, e)
  <2>1. disk' \in [Nodes -> [Envs -> Lock]]
    BY <1>8 DEF WriteEnv, TypeOK, Job
  <2> QED
    BY <1>8, <2>1 DEF WriteEnv, Step, TypeOK, Steps, Working
<1>9. CASE BuildEnv(n, e)
  <2>1. SettledLock(disk[n][e], job[n][e], e) \in Lock
    BY SettledLockType DEF TypeOK
  <2>2. disk' \in [Nodes -> [Envs -> Lock]]
    BY <1>9, <2>1 DEF BuildEnv, TypeOK
  <2> QED
    BY <1>9, <2>2 DEF BuildEnv, Step, TypeOK, Steps, Working
<1>10. CASE LinkRoot(n, e)
  BY <1>10 DEF LinkRoot, Step, TypeOK, Steps, Working
<1>11. CASE FinishRealize(n, e)
  BY <1>11 DEF FinishRealize, Step, TypeOK, Steps, Working
<1>12. CASE RollConsumers(n, e)
  <2>1. stamp' \in [Envs -> [Workloads -> Lock]]
    BY <1>12 DEF RollConsumers, Stamped, TypeOK
  <2> QED
    BY <1>12, <2>1 DEF RollConsumers, Step, TypeOK, Steps, Working
<1>13. CASE Publish(n, e)
  <2>1. local[n][e] \in CR /\ RealizedStatus(n, e) \in CR
    BY RealizedStatusType DEF TypeOK
  <2>2. api' \in [Envs -> CR]
    BY <1>13, <2>1, PatchedType DEF Publish, TypeOK
  <2>3. Return(n, e)
    BY <1>13 DEF Publish
  <2> QED
    BY <1>13, <2>2, <2>3, ReturnType DEF Publish, TypeOK
<1> QED
  BY <1>1, <1>2, <1>3, <1>4, <1>5, <1>6, <1>7, <1>8, <1>9, <1>10, <1>11,
     <1>12, <1>13 DEF Worker

LEMMA TypeFailures ==
    ASSUME TypeOK, NEW n \in Nodes, NEW e \in Envs, Failures(n, e)
    PROVE  TypeOK'
<1>1. \A reason \in {"RealizeFailed", "RestartConsumersFailed"} :
          /\ local[n][e] \in CR
          /\ SetReady(local[n][e], reason, NoNode) \in CR
  BY SetReadyType DEF TypeOK, Reasons
<1>2. CASE FailRealize(n, e)
  <2>1. api' \in [Envs -> CR]
    <3>1. api \in [Envs -> CR]
      BY DEF TypeOK
    <3>2. Patched(e, local[n][e], SetReady(local[n][e], "RealizeFailed", NoNode))
              \in [Envs -> CR]
      BY <1>1, <3>1, PatchedType
    <3> QED
      BY <1>2, <3>1, <3>2 DEF FailRealize
  <2>2. Return(n, e)
    BY <1>2 DEF FailRealize
  <2> QED
    BY <1>2, <2>1, <2>2, ReturnType DEF FailRealize, Fault, Requeue, TypeOK
<1>3. CASE RollFails(n, e)
  <2>1. api' \in [Envs -> CR]
    <3>1. api \in [Envs -> CR]
      BY DEF TypeOK
    <3>2. Patched(e, local[n][e], SetReady(local[n][e], "RestartConsumersFailed", NoNode))
              \in [Envs -> CR]
      BY <1>1, <3>1, PatchedType
    <3> QED
      BY <1>3, <3>1, <3>2 DEF RollFails
  <2>2. Return(n, e)
    BY <1>3 DEF RollFails
  <2>3. stamp' \in [Envs -> [Workloads -> Lock]]
    BY <1>3 DEF RollFails, Stamped, TypeOK
  <2>4. /\ pc'    \in [Nodes -> [Envs -> Steps]]
        /\ local' \in [Nodes -> [Envs -> CR]]
        /\ job'   \in [Nodes -> [Envs -> Job]]
        /\ slots' \in [Nodes -> Int]
    BY <2>2, ReturnType
  <2>5. faults' \in Nat
    BY <1>3 DEF RollFails, Fault, TypeOK
  <2>6. delayed' \in [Nodes -> SUBSET Envs]
    BY <1>3 DEF RollFails, Requeue, TypeOK
  <2> QED
    BY <1>3, <2>1, <2>3, <2>4, <2>5, <2>6 DEF RollFails, TypeOK
<1>4. CASE PublishFails(n, e)
  <2>1. Return(n, e)
    BY <1>4 DEF PublishFails
  <2> QED
    BY <1>4, <2>1, ReturnType DEF PublishFails, Fault, Requeue, TypeOK
<1> QED
  BY <1>2, <1>3, <1>4 DEF Failures

LEMMA TypeStep == TypeOK /\ [Next]_vars => TypeOK'
<1> SUFFICES ASSUME TypeOK, [Next]_vars PROVE TypeOK'
  OBVIOUS
<1>1. CASE UNCHANGED vars
  BY <1>1 DEF vars, TypeOK
<1>2. CASE Next
  BY <1>2, TypeEditors, TypeNode, TypeWorker, TypeFailures DEF Next
<1> QED
  BY <1>1, <1>2

\* Every variable keeps its type in every behaviour of the agents.
THEOREM TypeCorrect == Spec => []TypeOK
<1> QED
  BY TypeInit, TypeStep, PTL DEF Spec
-----------------------------------------------------------------------------
(* What backs the entries of status.realized.                               *)
(*                                                                          *)
(* EntryBacked is not inductive: a reconcile publishes the list it read, so *)
(* every copy of the status has to be backed, and the entry it adds is      *)
(* right only if the generations line up along the reconcile - the root is  *)
(* not ahead of the job, the job not ahead of the copy it reports.          *)

Backed(realized, e, r) ==
    \A m \in Nodes :
        realized[m].gen > 0 =>
            /\ r[m][e] # NoLock
            /\ realized[m].path.gen <= r[m][e].gen
            /\ realized[m].path.gen <= realized[m].gen

ApiBacked   == \A e \in Envs : Backed(api[e].realized, e, root)
CacheBacked == \A n \in Nodes, e \in Envs : Backed(cache[n][e].realized, e, root)
LocalBacked == \A n \in Nodes, e \in Envs : Backed(local[n][e].realized, e, root)

Generation(n, e) ==
    /\ 1 <= cache[n][e].gen
    /\ cache[n][e].gen <= api[e].gen
    /\ root[n][e].gen <= cache[n][e].gen
    /\ pc[n][e] # "idle" =>
          /\ 1 <= job[n][e].gen
          /\ root[n][e].gen <= job[n][e].gen
          /\ job[n][e].gen <= cache[n][e].gen
          /\ job[n][e].gen <= local[n][e].gen
    /\ pc[n][e] \in {"link", "image", "roll", "publish"} =>
          disk[n][e].gen = job[n][e].gen
    /\ pc[n][e] \in {"image", "roll", "publish"} => root[n][e] = disk[n][e]

Generations == \A n \in Nodes, e \in Envs : Generation(n, e)

IInv == TypeOK /\ ApiBacked /\ CacheBacked /\ LocalBacked /\ Generations

LEMMA InvInit == Init => IInv
<1> SUFFICES ASSUME Init PROVE IInv
  OBVIOUS
<1>1. TypeOK
  BY TypeInit
<1>2. ApiBacked /\ CacheBacked /\ LocalBacked
  BY DEF Init, ApiBacked, CacheBacked, LocalBacked, Backed, NewCR, NoEntry,
         NoLock
<1>3. Generations
  BY DEF Init, Generations, Generation, NewCR, NoLock
<1> QED
  BY <1>1, <1>2, <1>3 DEF IInv

\* A patch keeps the generation and, if what it writes is backed, ApiBacked.
LEMMA PatchedBacked ==
    ASSUME TypeOK, ApiBacked, UNCHANGED root,
           NEW e \in Envs, NEW base \in CR, NEW new \in CR,
           Backed(new.realized, e, root),
           api' = Patched(e, base, new)
    PROVE  ApiBacked' /\ \A f \in Envs : api'[f].gen = api[f].gen
<1> DEFINE merged == MergePatch(api[e], base, new)
<1>1. api \in [Envs -> CR] /\ api[e] \in CR
  BY DEF TypeOK
<1>2. merged.gen = api[e].gen /\ merged.realized \in {api[e].realized, new.realized}
  BY <1>1, MergePatchFields
<1>3. api' = [api EXCEPT ![e] = merged]
  BY DEF Patched
<1>4. Backed(merged.realized, e, root)
  BY <1>2 DEF ApiBacked
<1> HIDE DEF merged
<1> QED
  BY <1>1, <1>2, <1>3, <1>4 DEF ApiBacked

\* The best-effort patches of a condition.
LEMMA BestEffortBacked ==
    ASSUME TypeOK, ApiBacked, UNCHANGED root,
           NEW e \in Envs, NEW env \in CR, Backed(env.realized, e, root),
           NEW reason \in Reasons, NEW by \in Nodes \cup {NoNode},
           api' = Patched(e, env, SetReady(env, reason, by)) \/ UNCHANGED api
    PROVE  ApiBacked' /\ \A f \in Envs : api'[f].gen = api[f].gen
<1>1. /\ SetReady(env, reason, by) \in CR
      /\ SetReady(env, reason, by).realized = env.realized
  BY SetReadyType, SetReadyFields
<1>2. CASE api' = Patched(e, env, SetReady(env, reason, by))
  BY <1>1, <1>2, PatchedBacked
<1>3. CASE UNCHANGED api
  BY <1>3 DEF ApiBacked
<1> QED
  BY <1>2, <1>3

\* A step that only patches a condition and moves queue entries.
LEMMA QuietStep ==
    ASSUME IInv, ApiBacked', \A f \in Envs : api'[f].gen = api[f].gen,
           UNCHANGED <<cache, pc, local, job, disk, root>>
    PROVE  (ApiBacked /\ CacheBacked /\ LocalBacked /\ Generations)'
BY DEF IInv, CacheBacked, LocalBacked, Generations, Generation

LEMMA InvEditors ==
    IInv /\ Editors => (ApiBacked /\ CacheBacked /\ LocalBacked /\ Generations)'
<1> SUFFICES ASSUME IInv, Editors
             PROVE  (ApiBacked /\ CacheBacked /\ LocalBacked /\ Generations)'
  OBVIOUS
<1>1. UNCHANGED <<cache, pc, local, job, disk, root>>
  BY DEF Editors, EditSpec, AdvanceRev, StampRelock
<1>2. api \in [Envs -> CR] /\ \A n \in Nodes, e \in Envs : cache[n][e].gen \in Nat
  BY DEF IInv, TypeOK, CR
<1>3. \A f \in Envs : /\ api'[f].realized = api[f].realized
                      /\ api'[f].gen \in Nat
                      /\ api[f].gen \in Nat
                      /\ api[f].gen <= api'[f].gen
  BY <1>2 DEF Editors, EditSpec, AdvanceRev, StampRelock, CR
<1>4. ApiBacked'
  BY <1>1, <1>3 DEF IInv, ApiBacked
<1>5. CacheBacked' /\ LocalBacked'
  BY <1>1 DEF IInv, CacheBacked, LocalBacked
<1>6. Generations'
  BY <1>1, <1>2, <1>3 DEF IInv, Generations, Generation
<1> QED
  BY <1>4, <1>5, <1>6

LEMMA InvNode ==
    ASSUME IInv, NEW n \in Nodes, Informers(n) \/ Crash(n)
    PROVE  (ApiBacked /\ CacheBacked /\ LocalBacked /\ Generations)'
<1> USE DEF IInv
<1>1. /\ api \in [Envs -> CR]
      /\ cache \in [Nodes -> [Envs -> CR]]
      /\ pc \in [Nodes -> [Envs -> Steps]]
      /\ local \in [Nodes -> [Envs -> CR]]
      /\ job \in [Nodes -> [Envs -> Job]]
      /\ root \in [Nodes -> [Envs -> Lock]]
      /\ \A m \in Nodes, e \in Envs : /\ api[e].gen \in Nat
                                      /\ cache[m][e].gen \in Nat
                                      /\ root[m][e].gen \in Nat
                                      /\ job[m][e].gen \in Nat
  BY DEF TypeOK, CR, Lock, Job
<1>2. ASSUME NEW e \in Envs, Deliver(n, e)
      PROVE  (ApiBacked /\ CacheBacked /\ LocalBacked /\ Generations)'
  <2>1. /\ UNCHANGED <<api, pc, local, job, disk, root>>
        /\ cache' = [cache EXCEPT ![n][e] = api[e]]
    BY <1>2 DEF Deliver
  <2>2. CacheBacked'
    BY <1>1, <2>1 DEF CacheBacked, ApiBacked
  <2>3. Generations'
    BY <1>1, <2>1 DEF Generations, Generation
  <2> QED
    BY <2>1, <2>2, <2>3 DEF ApiBacked, LocalBacked
<1>3. CASE DeliverCatalog(n) \/ DeliverWorkloads(n)
  BY <1>3 DEF DeliverCatalog, DeliverWorkloads, ApiBacked, CacheBacked,
              LocalBacked, Generations, Generation
<1>4. CASE Crash(n)
  <2>1. /\ UNCHANGED <<api, disk, root>>
        /\ cache' = [cache EXCEPT ![n] = api]
        /\ pc'    = [pc EXCEPT ![n] = [e \in Envs |-> "idle"]]
        /\ local' = [local EXCEPT ![n] = [e \in Envs |-> NewCR]]
        /\ job'   = [job EXCEPT ![n] = [e \in Envs |-> NoJob]]
    BY <1>4 DEF Crash
  <2>2. CacheBacked'
    BY <1>1, <2>1 DEF CacheBacked, ApiBacked
  <2>3. LocalBacked'
    BY <1>1, <2>1 DEF LocalBacked, Backed, NewCR, NoEntry, NoLock
  <2>4. Generations'
    BY <1>1, <2>1 DEF Generations, Generation
  <2> QED
    BY <2>1, <2>2, <2>3, <2>4 DEF ApiBacked
<1> QED
  BY <1>2, <1>3, <1>4 DEF Informers

\* A step of the reconcile that leaves every copy and root alone.
LEMMA CopiesKept ==
    ASSUME IInv, UNCHANGED <<api, cache, local, root>>
    PROVE  (ApiBacked /\ CacheBacked /\ LocalBacked)'
BY DEF IInv, ApiBacked, CacheBacked, LocalBacked

\* The types the arithmetic on generations needs.
LEMMA Numbers ==
    ASSUME TypeOK
    PROVE  /\ cache \in [Nodes -> [Envs -> CR]]
           /\ pc \in [Nodes -> [Envs -> Steps]]
           /\ local \in [Nodes -> [Envs -> CR]]
           /\ job \in [Nodes -> [Envs -> Job]]
           /\ disk \in [Nodes -> [Envs -> Lock]]
           /\ root \in [Nodes -> [Envs -> Lock]]
           /\ \A m \in Nodes, e \in Envs :
                 /\ api[e].gen \in Nat
                 /\ cache[m][e].gen \in Nat
                 /\ local[m][e].gen \in Nat
                 /\ root[m][e].gen \in Nat
                 /\ disk[m][e].gen \in Nat
                 /\ job[m][e].gen \in Nat
BY DEF TypeOK, CR, Lock, Job

\* A return forgets the reconcile's copy.
LEMMA ReturnBacked ==
    ASSUME IInv, NEW n \in Nodes, NEW e \in Envs, Return(n, e), ApiBacked',
           \A f \in Envs : api'[f].gen = api[f].gen,
           UNCHANGED <<cache, disk, root>>
    PROVE  (ApiBacked /\ CacheBacked /\ LocalBacked /\ Generations)'
<1> USE DEF IInv
<1>1. CacheBacked'
  BY DEF CacheBacked
<1>2. /\ local' = [local EXCEPT ![n][e] = NewCR]
      /\ pc' = [pc EXCEPT ![n][e] = "idle"]
      /\ job' = [job EXCEPT ![n][e] = NoJob]
  BY DEF Return
<1>3. LocalBacked'
  BY <1>2, Numbers DEF LocalBacked, Backed, NewCR, NoEntry, NoLock
<1>4. Generations'
  BY <1>2, Numbers DEF Generations, Generation
<1> QED
  BY <1>1, <1>3, <1>4

LEMMA InvWaits ==
    ASSUME IInv, NEW n \in Nodes, NEW e \in Envs,
           \/ FireDelayed(n, e) \/ FirstTouch(n, e) \/ SkipRealized(n, e)
           \/ RejectManifest(n, e) \/ WaitForFlake(n, e) \/ WaitForDeps(n, e)
    PROVE  (ApiBacked /\ CacheBacked /\ LocalBacked /\ Generations)'
<1>1. UNCHANGED <<cache, pc, local, job, disk, root>>
  BY DEF FireDelayed, FirstTouch, SkipRealized, RejectManifest, WaitForFlake,
         WaitForDeps, Hold
<1>2. cache[n][e] \in CR /\ Backed(cache[n][e].realized, e, root)
  BY DEF IInv, TypeOK, CacheBacked
<1>3. CASE FireDelayed(n, e) \/ SkipRealized(n, e)
  <2>1. UNCHANGED api
    BY <1>3 DEF FireDelayed, SkipRealized
  <2> QED
    BY <1>1, <2>1, QuietStep DEF IInv, ApiBacked
<1>4. ASSUME NEW reason \in Reasons,
             BestEffort(e, cache[n][e], SetReady(cache[n][e], reason, NoNode))
      PROVE  (ApiBacked /\ CacheBacked /\ LocalBacked /\ Generations)'
  <2>1. \/ api' = Patched(e, cache[n][e], SetReady(cache[n][e], reason, NoNode))
        \/ UNCHANGED api
    BY <1>4 DEF BestEffort
  <2>2. ApiBacked' /\ \A f \in Envs : api'[f].gen = api[f].gen
    BY <1>1, <1>2, <2>1, BestEffortBacked DEF IInv
  <2> QED
    BY <1>1, <2>2, QuietStep
<1>5. CASE FirstTouch(n, e)
  BY <1>4, <1>5 DEF FirstTouch, Reasons
<1>6. CASE RejectManifest(n, e) \/ WaitForFlake(n, e) \/ WaitForDeps(n, e)
  <2>1. PICK reason \in Reasons : Hold(n, e, reason)
    BY <1>6 DEF RejectManifest, WaitForFlake, WaitForDeps, Reasons
  <2> QED
    BY <1>4, <2>1 DEF Hold
<1> QED
  BY <1>3, <1>5, <1>6

LEMMA InvRealise ==
    ASSUME IInv, NEW n \in Nodes, NEW e \in Envs,
           \/ Begin(n, e) \/ AcquireSlot(n, e) \/ MarkRealizing(n, e)
           \/ WriteEnv(n, e) \/ BuildEnv(n, e) \/ LinkRoot(n, e)
           \/ FinishRealize(n, e) \/ RollConsumers(n, e) \/ Publish(n, e)
    PROVE  (ApiBacked /\ CacheBacked /\ LocalBacked /\ Generations)'
<1> USE Numbers DEF IInv
<1>1. CASE Begin(n, e)
  <2>1. /\ UNCHANGED <<api, cache, disk, root>>
        /\ pc' = [pc EXCEPT ![n][e] = "slot"]
        /\ local' = [local EXCEPT ![n][e] = cache[n][e]]
        /\ job' = [job EXCEPT ![n][e] = job'[n][e]]
        /\ job'[n][e].gen = cache[n][e].gen
    BY <1>1 DEF Begin
  <2>2. ApiBacked' /\ CacheBacked'
    BY <2>1 DEF ApiBacked, CacheBacked
  <2>3. LocalBacked'
    BY <2>1 DEF LocalBacked, CacheBacked
  <2>4. Generations'
    BY <2>1 DEF Generations, Generation
  <2> QED
    BY <2>2, <2>3, <2>4
<1>2. CASE AcquireSlot(n, e)
  <2>1. /\ UNCHANGED <<api, cache, local, job, disk, root>>
        /\ pc[n][e] = "slot"
        /\ pc' = [pc EXCEPT ![n][e] = "mark"]
    BY <1>2 DEF AcquireSlot, Step
  <2>2. Generations'
    BY <2>1 DEF Generations, Generation
  <2> QED
    BY <2>1, <2>2, CopiesKept
<1>3. CASE MarkRealizing(n, e)
  <2> DEFINE new == SetReady(local[n][e], "Realizing", n)
             merged == MergePatch(api[e], local[n][e], new)
  <2>1. /\ UNCHANGED <<cache, job, disk, root>>
        /\ pc[n][e] = "mark"
        /\ pc' = [pc EXCEPT ![n][e] = "write"]
        /\ \/ /\ api' = Patched(e, local[n][e], new)
              /\ local' = [local EXCEPT ![n][e] = merged]
           \/ /\ local' = [local EXCEPT ![n][e] = new]
              /\ UNCHANGED api
    BY <1>3 DEF MarkRealizing, Step
  <2>2. /\ local[n][e] \in CR /\ api[e] \in CR
        /\ Backed(local[n][e].realized, e, root)
        /\ Backed(api[e].realized, e, root)
        /\ "Realizing" \in Reasons
    BY DEF TypeOK, LocalBacked, ApiBacked, Reasons
  <2>3. /\ new \in CR
        /\ new.gen = local[n][e].gen
        /\ new.realized = local[n][e].realized
    BY <2>2, SetReadyType, SetReadyFields
  <2>4. /\ merged.gen = api[e].gen
        /\ merged.realized \in {api[e].realized, new.realized}
    BY <2>2, <2>3, MergePatchFields
  <2>5. ApiBacked' /\ \A f \in Envs : api'[f].gen = api[f].gen
    BY <2>1, <2>2, BestEffortBacked
  <2>6. PICK seen : /\ local' = [local EXCEPT ![n][e] = seen]
                    /\ seen.gen \in {api[e].gen, local[n][e].gen}
                    /\ Backed(seen.realized, e, root)
    BY <2>1, <2>2, <2>3, <2>4
  <2>7. CacheBacked'
    BY <2>1 DEF CacheBacked
  <2>8. LocalBacked'
    BY <2>1, <2>6 DEF LocalBacked
  <2>9. Generations'
    <3> HIDE DEF new, merged
    <3> QED
      BY <2>1, <2>5, <2>6 DEF Generations, Generation
  <2> QED
    BY <2>5, <2>7, <2>8, <2>9
<1>4. CASE WriteEnv(n, e)
  <2>1. /\ UNCHANGED <<api, cache, local, job, root>>
        /\ pc[n][e] = "write"
        /\ pc' = [pc EXCEPT ![n][e] = "build"]
        /\ disk' = [disk EXCEPT ![n][e] = disk'[n][e]]
    BY <1>4 DEF WriteEnv, Step
  <2>2. Generations'
    BY <2>1 DEF Generations, Generation
  <2> QED
    BY <2>1, <2>2, CopiesKept
<1>5. CASE BuildEnv(n, e)
  <2>1. /\ UNCHANGED <<api, cache, local, job, root>>
        /\ pc[n][e] = "build"
        /\ pc' = [pc EXCEPT ![n][e] = "link"]
        /\ disk' = [disk EXCEPT ![n][e] = SettledLock(disk[n][e], job[n][e], e)]
    BY <1>5 DEF BuildEnv, Step
  <2>2. SettledLock(disk[n][e], job[n][e], e).gen = job[n][e].gen
    BY SettledLockType DEF TypeOK
  <2>3. Generations'
    BY <2>1, <2>2 DEF Generations, Generation
  <2> QED
    BY <2>1, <2>3, CopiesKept
<1>6. CASE LinkRoot(n, e)
  <2>1. /\ UNCHANGED <<api, cache, local, job, disk>>
        /\ pc[n][e] = "link"
        /\ pc' = [pc EXCEPT ![n][e] = "image"]
        /\ root' = [root EXCEPT ![n][e] = disk[n][e]]
    BY <1>6 DEF LinkRoot, Step
  <2>2. /\ root[n][e].gen <= disk[n][e].gen
        /\ disk[n][e].gen = job[n][e].gen
        /\ 1 <= disk[n][e].gen
    BY <2>1 DEF Generations, Generation
  <2>3. disk[n][e] # NoLock
    BY <2>2 DEF NoLock
  <2>4. ASSUME NEW realized \in [Nodes -> Entry], NEW f \in Envs,
               Backed(realized, f, root)
        PROVE  Backed(realized, f, root')
    BY <2>1, <2>2, <2>3, <2>4 DEF Backed, Entry, Lock
  <2>5. /\ \A f \in Envs : api[f].realized \in [Nodes -> Entry]
        /\ \A m \in Nodes, f \in Envs :
              /\ cache[m][f].realized \in [Nodes -> Entry]
              /\ local[m][f].realized \in [Nodes -> Entry]
    BY DEF TypeOK, CR
  <2>6. (ApiBacked /\ CacheBacked /\ LocalBacked)'
    BY <2>1, <2>4, <2>5 DEF ApiBacked, CacheBacked, LocalBacked
  <2>7. Generations'
    BY <2>1, <2>2 DEF Generations, Generation
  <2> QED
    BY <2>6, <2>7
<1>7. CASE FinishRealize(n, e) \/ RollConsumers(n, e)
  <2>1. /\ UNCHANGED <<api, cache, local, job, disk, root>>
        /\ pc[n][e] \in {"image", "roll"}
        /\ \E to \in {"roll", "publish"} : pc' = [pc EXCEPT ![n][e] = to]
    BY <1>7 DEF FinishRealize, RollConsumers, Step
  <2>2. Generations'
    BY <2>1 DEF Generations, Generation
  <2> QED
    BY <2>1, <2>2, CopiesKept
<1>8. CASE Publish(n, e)
  <2>1. /\ UNCHANGED <<cache, disk, root>>
        /\ pc[n][e] = "publish"
        /\ api' = Patched(e, local[n][e], RealizedStatus(n, e))
        /\ Return(n, e)
    BY <1>8 DEF Publish
  <2>2. Backed(RealizedStatus(n, e).realized, e, root)
    <3> DEFINE entry == [gen |-> local[n][e].gen, path |-> root[n][e]]
    <3>1. /\ local[n][e] \in CR
          /\ local[n][e].realized \in [Nodes -> Entry]
      BY DEF TypeOK, CR
    <3>2. RealizedStatus(n, e).realized = [local[n][e].realized EXCEPT ![n] = entry]
      BY <3>1 DEF RealizedStatus, SetReady, CR
    <3>3. /\ root[n][e].gen = job[n][e].gen
          /\ 1 <= root[n][e].gen
          /\ root[n][e].gen <= local[n][e].gen
      BY <2>1 DEF Generations, Generation
    <3>4. root[n][e] # NoLock
      BY <3>3 DEF NoLock
    <3>5. Backed(local[n][e].realized, e, root)
      BY DEF LocalBacked
    <3> QED
      BY <3>1, <3>2, <3>3, <3>4, <3>5 DEF Backed
  <2>3. local[n][e] \in CR /\ RealizedStatus(n, e) \in CR
    BY RealizedStatusType DEF TypeOK
  <2>4. ApiBacked' /\ \A f \in Envs : api'[f].gen = api[f].gen
    BY <2>1, <2>2, <2>3, PatchedBacked
  <2> QED
    BY <2>1, <2>4, ReturnBacked
<1> QED
  BY <1>1, <1>2, <1>3, <1>4, <1>5, <1>6, <1>7, <1>8

LEMMA InvFailures ==
    ASSUME IInv, NEW n \in Nodes, NEW e \in Envs, Failures(n, e)
    PROVE  (ApiBacked /\ CacheBacked /\ LocalBacked /\ Generations)'
<1>1. UNCHANGED <<cache, disk, root>> /\ Return(n, e)
  BY DEF Failures, FailRealize, RollFails, PublishFails
<1>2. PICK reason \in Reasons :
         \/ api' = Patched(e, local[n][e], SetReady(local[n][e], reason, NoNode))
         \/ UNCHANGED api
  BY DEF Failures, FailRealize, RollFails, PublishFails, Reasons
<1>3. local[n][e] \in CR /\ Backed(local[n][e].realized, e, root)
  BY DEF IInv, TypeOK, LocalBacked
<1>4. ApiBacked' /\ \A f \in Envs : api'[f].gen = api[f].gen
  BY <1>1, <1>2, <1>3, BestEffortBacked DEF IInv
<1> QED
  BY <1>1, <1>4, ReturnBacked

LEMMA InvStep == IInv /\ [Next]_vars => IInv'
<1> SUFFICES ASSUME IInv, [Next]_vars PROVE IInv'
  OBVIOUS
<1>1. TypeOK'
  BY TypeStep DEF IInv
<1>2. CASE UNCHANGED vars
  BY <1>1, <1>2 DEF vars, IInv, ApiBacked, CacheBacked, LocalBacked,
                    Generations, Generation
<1>3. CASE Next
  <2>1. CASE Editors
    BY <1>1, <2>1, InvEditors DEF IInv
  <2>2. ASSUME NEW n \in Nodes, Informers(n) \/ Crash(n) PROVE IInv'
    BY <1>1, <2>2, InvNode DEF IInv
  <2>3. ASSUME NEW n \in Nodes, NEW e \in Envs,
               FireDelayed(n, e) \/ Worker(n, e)
        PROVE  IInv'
    BY <1>1, <2>3, InvWaits, InvRealise DEF IInv, Worker
  <2>4. ASSUME NEW n \in Nodes, NEW e \in Envs, Failures(n, e) PROVE IInv'
    BY <1>1, <2>4, InvFailures DEF IInv
  <2> QED
    BY <1>3, <2>1, <2>2, <2>3, <2>4 DEF Next
<1> QED
  BY <1>2, <1>3

LEMMA InvEntryBacked == IInv => EntryBacked
BY DEF IInv, ApiBacked, Backed, EntryBacked

\* On every cluster an entry of status.realized is backed by that node's
\* plugin-facing GC-root.
THEOREM EntriesBacked == Spec => []EntryBacked
<1> QED
  BY InvInit, InvStep, InvEntryBacked, PTL DEF Spec

-----------------------------------------------------------------------------
(* The GC-root only moves forward.                                          *)

\* Only LinkRoot moves a root.
LEMMA RootMoves ==
    ASSUME [Next]_vars
    PROVE  UNCHANGED root \/ \E n \in Nodes, e \in Envs : LinkRoot(n, e)
<1>1. ASSUME NEW n \in Nodes, NEW e \in Envs, Worker(n, e)
      PROVE  UNCHANGED root \/ LinkRoot(n, e)
  BY <1>1 DEF Worker, FirstTouch, SkipRealized, RejectManifest, WaitForFlake,
              WaitForDeps, Hold, Begin, AcquireSlot, MarkRealizing, WriteEnv,
              BuildEnv, FinishRealize, RollConsumers, Publish
<1>2. Editors => UNCHANGED root
  BY DEF Editors, EditSpec, AdvanceRev, StampRelock
<1>3. ASSUME NEW n \in Nodes, Informers(n) \/ Crash(n)
      PROVE  UNCHANGED root
  BY <1>3 DEF Informers, Deliver, DeliverCatalog, DeliverWorkloads, Crash
<1>4. ASSUME NEW n \in Nodes, NEW e \in Envs, FireDelayed(n, e) \/ Failures(n, e)
      PROVE  UNCHANGED root
  BY <1>4 DEF FireDelayed, Failures, FailRealize, RollFails, PublishFails
<1>5. UNCHANGED vars => UNCHANGED root
  BY DEF vars
<1> QED
  BY <1>1, <1>2, <1>3, <1>4, <1>5 DEF Next

LEMMA RootStep ==
    ASSUME IInv, [Next]_vars
    PROVE  [\A n \in Nodes, e \in Envs : root[n][e].gen <= root'[n][e].gen]_vars
<1>1. \A n \in Nodes, e \in Envs : root[n][e].gen \in Nat
  BY Numbers DEF IInv
<1>2. ASSUME NEW n \in Nodes, NEW e \in Envs, LinkRoot(n, e)
      PROVE  \A m \in Nodes, f \in Envs : root[m][f].gen <= root'[m][f].gen
  <2>1. /\ pc[n][e] = "link"
        /\ root' = [root EXCEPT ![n][e] = disk[n][e]]
    BY <1>2 DEF LinkRoot, Step
  <2>2. root[n][e].gen <= disk[n][e].gen
    BY <2>1, Numbers DEF IInv, Generations, Generation
  <2> QED
    BY <1>1, <2>1, <2>2, Numbers DEF IInv
<1>3. CASE UNCHANGED root
  BY <1>1, <1>3
<1>4. CASE \E n \in Nodes, e \in Envs : LinkRoot(n, e)
  BY <1>2, <1>4
<1> QED
  BY <1>3, <1>4, RootMoves

\* On every cluster a node's GC-root never goes back to an older manifest.
THEOREM RootsAdvance == Spec => RootMonotone
<1> QED
  BY InvInit, InvStep, RootStep, PTL DEF Spec, RootMonotone

-----------------------------------------------------------------------------
(* The slots.                                                               *)

Holders(n) == {e \in Envs : pc[n][e] \in Working}

\* SlotsAccounted, with what makes a cardinality mean something: a node has
\* finitely many reconciles at work even where there are infinitely many envs.
SlotInv ==
    /\ TypeOK
    /\ \A n \in Nodes :
          /\ IsFiniteSet(Holders(n))
          /\ slots[n] = Cardinality(Holders(n))
          /\ slots[n] <= RealizeSlots

\* A reconcile moves between two steps of one kind and keeps its slot.
Keeps(n, e) ==
    /\ UNCHANGED slots
    /\ \/ UNCHANGED pc
       \/ \E to \in Steps :
             /\ pc' = [pc EXCEPT ![n][e] = to]
             /\ pc[n][e] \in Working <=> to \in Working

\* A step of the reconcile takes a slot, keeps what it has, or returns it.
LEMMA SlotMoves ==
    ASSUME TypeOK, NEW n \in Nodes, NEW e \in Envs,
           Worker(n, e) \/ Failures(n, e)
    PROVE  \/ Keeps(n, e)
           \/ AcquireSlot(n, e)
           \/ Return(n, e) /\ pc[n][e] \in Working
<1>1. CASE \/ FirstTouch(n, e) \/ SkipRealized(n, e) \/ RejectManifest(n, e)
           \/ WaitForFlake(n, e) \/ WaitForDeps(n, e)
  BY <1>1 DEF FirstTouch, SkipRealized, RejectManifest, WaitForFlake,
              WaitForDeps, Hold, Keeps
<1>2. CASE Begin(n, e)
  BY <1>2 DEF Begin, ToRealise, Takes, Keeps, Working, Steps
<1>3. CASE MarkRealizing(n, e)
  BY <1>3 DEF MarkRealizing, Step, Keeps, Working, Steps
<1>4. CASE WriteEnv(n, e) \/ BuildEnv(n, e) \/ LinkRoot(n, e)
  BY <1>4 DEF WriteEnv, BuildEnv, LinkRoot, Step, Keeps, Working, Steps
<1>5. CASE FinishRealize(n, e) \/ RollConsumers(n, e)
  BY <1>5 DEF FinishRealize, RollConsumers, Step, Keeps, Working, Steps
<1>6. CASE Publish(n, e) \/ Failures(n, e)
  BY <1>6 DEF Publish, Failures, FailRealize, RollFails, PublishFails, Working
<1> QED
  BY <1>1, <1>2, <1>3, <1>4, <1>5, <1>6 DEF Worker

LEMMA SlotStep == SlotInv /\ [Next]_vars => SlotInv'
<1> SUFFICES ASSUME SlotInv, [Next]_vars PROVE SlotInv'
  OBVIOUS
<1> DEFINE Goal == \A m \in Nodes :
                       /\ IsFiniteSet(Holders(m)')
                       /\ slots'[m] = Cardinality(Holders(m)')
                       /\ slots'[m] <= RealizeSlots
<1>1. TypeOK /\ TypeOK'
  BY TypeStep DEF SlotInv
<1>2. /\ pc \in [Nodes -> [Envs -> Steps]]
      /\ slots \in [Nodes -> Int]
      /\ RealizeSlots \in Nat \ {0}
  BY <1>1, SlotAssumption DEF TypeOK
<1>3. ASSUME NEW m \in Nodes
      PROVE  /\ IsFiniteSet(Holders(m))
             /\ slots[m] = Cardinality(Holders(m))
             /\ slots[m] <= RealizeSlots
  BY DEF SlotInv
<1>4. ASSUME UNCHANGED <<pc, slots>> PROVE Goal
  <2>1. \A m \in Nodes : Holders(m)' = Holders(m)
    BY <1>4 DEF Holders
  <2> QED
    BY <1>3, <1>4, <2>1
<1>5. ASSUME NEW n \in Nodes, NEW e \in Envs, Keeps(n, e) PROVE Goal
  <2>1. ASSUME NEW m \in Nodes PROVE Holders(m)' = Holders(m)
    <3>1. CASE UNCHANGED pc
      BY <3>1 DEF Holders
    <3>2. CASE ~UNCHANGED pc
      <4>1. PICK to \in Steps : /\ pc' = [pc EXCEPT ![n][e] = to]
                                /\ pc[n][e] \in Working <=> to \in Working
        BY <1>5, <3>2 DEF Keeps
      <4>2. \A f \in Envs : pc'[m][f] \in Working <=> pc[m][f] \in Working
        BY <1>2, <4>1
      <4> QED
        BY <4>2 DEF Holders
    <3> QED
      BY <3>1, <3>2
  <2> QED
    BY <1>3, <1>5, <2>1 DEF Keeps
<1>6. ASSUME NEW n \in Nodes, NEW e \in Envs, AcquireSlot(n, e) PROVE Goal
  <2>1. /\ pc[n][e] = "slot" /\ pc' = [pc EXCEPT ![n][e] = "mark"]
        /\ slots[n] < RealizeSlots /\ slots' = [slots EXCEPT ![n] = @ + 1]
    BY <1>6 DEF AcquireSlot, Step
  <2>2. e \notin Holders(n) /\ Holders(n)' = Holders(n) \cup {e}
    BY <1>2, <2>1 DEF Holders, Working
  <2>3. \A m \in Nodes : m # n => Holders(m)' = Holders(m)
    BY <1>2, <2>1 DEF Holders
  <2>4. /\ IsFiniteSet(Holders(n)')
        /\ Cardinality(Holders(n)') = Cardinality(Holders(n)) + 1
    BY <1>3, <2>2, FS_AddElement
  <2> QED
    BY <1>2, <1>3, <2>1, <2>3, <2>4
<1>7. ASSUME NEW n \in Nodes, NEW e \in Envs, Return(n, e), pc[n][e] \in Working
      PROVE  Goal
  <2>1. /\ pc' = [pc EXCEPT ![n][e] = "idle"]
        /\ slots' = [slots EXCEPT ![n] = @ - 1]
    BY <1>7 DEF Return
  <2>2. e \in Holders(n) /\ Holders(n)' = Holders(n) \ {e}
    BY <1>2, <1>7, <2>1 DEF Holders, Working
  <2>3. \A m \in Nodes : m # n => Holders(m)' = Holders(m)
    BY <1>2, <2>1 DEF Holders
  <2>4. /\ IsFiniteSet(Holders(n)')
        /\ Cardinality(Holders(n)') = Cardinality(Holders(n)) - 1
    BY <1>3, <2>2, FS_RemoveElement
  <2> QED
    BY <1>2, <1>3, <2>1, <2>3, <2>4
<1>8. ASSUME NEW n \in Nodes, Crash(n) PROVE Goal
  <2>1. /\ pc' = [pc EXCEPT ![n] = [e \in Envs |-> "idle"]]
        /\ slots' = [slots EXCEPT ![n] = 0]
    BY <1>8 DEF Crash
  <2>2. Holders(n)' = {}
    BY <1>2, <2>1 DEF Holders, Working
  <2>3. \A m \in Nodes : m # n => Holders(m)' = Holders(m)
    BY <1>2, <2>1 DEF Holders
  <2>4. IsFiniteSet(Holders(n)') /\ Cardinality(Holders(n)') = 0
    BY <2>2, FS_EmptySet
  <2> QED
    BY <1>2, <1>3, <2>1, <2>3, <2>4
<1> HIDE DEF Goal
<1>9. Goal
  <2>1. ASSUME Editors PROVE Goal
    BY <1>4, <2>1 DEF Editors, EditSpec, AdvanceRev, StampRelock
  <2>2. ASSUME NEW n \in Nodes, Informers(n) PROVE Goal
    BY <1>4, <2>2 DEF Informers, Deliver, DeliverCatalog, DeliverWorkloads
  <2>3. ASSUME NEW n \in Nodes, NEW e \in Envs, FireDelayed(n, e) PROVE Goal
    BY <1>4, <2>3 DEF FireDelayed
  <2>4. ASSUME NEW n \in Nodes, NEW e \in Envs, Worker(n, e) \/ Failures(n, e)
        PROVE  Goal
    BY <1>1, <1>5, <1>6, <1>7, <2>4, SlotMoves
  <2>5. ASSUME UNCHANGED vars PROVE Goal
    BY <1>4, <2>5 DEF vars
  <2> QED
    BY <1>8, <2>1, <2>2, <2>3, <2>4, <2>5 DEF Next
<1> QED
  BY <1>1, <1>9 DEF SlotInv, Goal

LEMMA SlotInit == Init => SlotInv
<1> SUFFICES ASSUME Init PROVE SlotInv
  OBVIOUS
<1>1. \A n \in Nodes : Holders(n) = {} /\ slots[n] = 0
  BY DEF Init, Holders, Working
<1> QED
  BY <1>1, TypeInit, FS_EmptySet, SlotAssumption DEF SlotInv

\* On every node the slots taken are the reconciles at work, and never more
\* than RealizeSlots: each way out of a reconcile gives its slot back once.
THEOREM SlotsBalance == Spec => []SlotsAccounted
<1>1. SlotInv => SlotsAccounted
  BY DEF SlotInv, SlotsAccounted, Holders
<1> QED
  BY <1>1, SlotInit, SlotStep, PTL DEF Spec
=============================================================================
