------------------------- MODULE PodAdmission_proofs -------------------------
(***************************************************************************)
(* Theorems about PodAdmission, for any managers, pods, references and     *)
(* claims: with the webhook in front the gates are those of PodGate, so    *)
(* what PodGate_proofs shows of them holds of the composition; and a pod   *)
(* that is stored finds its claims.                                        *)
(*                                                                         *)
(* The inductive invariant for the claims ties each request to what it     *)
(* still has to create.  It also needs that no gate ever brings a pod into *)
(* being: a worker holds a copy that was gated, and one that is as old as  *)
(* the pod is the pod (VersionInv of PodGate_proofs).                      *)
(***************************************************************************)
EXTENDS PodAdmission, PodGate_proofs

-----------------------------------------------------------------------------
(* The composition implements PodGate.                                      *)

LEMMA AdmissionSteps == [AdmissionNext]_allVars => [Next]_vars
  <1> SUFFICES ASSUME [AdmissionNext]_allVars PROVE [Next]_vars
    OBVIOUS
  <1>1. CASE GateStep
    BY <1>1 DEF GateStep, Next
  <1>2. ASSUME NEW p \in Pods, Ask(p) \/ Resolve(p) \/ EnsureClaim(p) \/ Reject(p)
        PROVE  UNCHANGED vars
    BY <1>2 DEF Ask, Resolve, EnsureClaim, Reject
  <1>3. ASSUME NEW p \in Pods, Admit(p) PROVE CreatePod(p) \/ UNCHANGED vars
    BY <1>3 DEF Admit
  <1>4. ASSUME NEW m \in Managers, RestartServing(m) PROVE Restart(m)
    BY <1>4 DEF RestartServing
  <1>5. CASE UNCHANGED allVars
    BY <1>5 DEF allVars
  <1> QED
    BY <1>1, <1>2, <1>3, <1>4, <1>5 DEF AdmissionNext, Handler, Next

\* A pod that is created through the webhook, by whichever manager serves the
\* request, meets the gates as PodGate has it.
THEOREM AdmissionImplementsGate == AdmissionSpec => ImplementsGate
  <1>1. AdmissionInit => Init
    BY DEF AdmissionInit
  <1> QED
    BY <1>1, AdmissionSteps, PTL DEF AdmissionSpec, ImplementsGate, Spec

\* A pod that leaves the gate finds the GC-roots it mounts, from its CREATE
\* request on.
THEOREM AdmittedPodsFindRoots == AdmissionSpec => []ReleasedOntoRoots
  BY AdmissionImplementsGate, PodsFindRoots, PTL DEF ImplementsGate

-----------------------------------------------------------------------------
(* Type correctness.                                                        *)

LEMMA NoRequestType == NoRequest \in Request
  BY DEF NoRequest, Request

LEMMA AdmissionTypeInit == AdmissionInit => AdmissionTypeOK
  BY NoRequestType DEF AdmissionInit, AdmissionTypeOK

\* A request of p with less to do is a request of p.
LEMMA RequestAdvances ==
    ASSUME NEW r \in Request, NEW envs \in SUBSET r.envs,
           NEW found \in SUBSET Envs, NEW todo \in SUBSET r.todo
    PROVE  /\ [r EXCEPT !.envs = envs, !.found = found] \in Request
           /\ [r EXCEPT !.todo = todo] \in Request
  BY DEF Request

LEMMA ResolveType ==
    ASSUME AdmissionTypeOK, NEW p \in Pods, Resolve(p)
    PROVE  /\ req' \in [Pods -> Request]
           /\ \A q \in Pods : /\ req'[q].by = req[q].by
                              /\ req'[q].todo = req[q].todo
  <1>1. req \in [Pods -> Request] /\ req[p] \in Request
    BY DEF AdmissionTypeOK
  <1>2. PICK e \in req[p].envs :
            req' = [req EXCEPT ![p].envs = @ \ {e},
                               ![p].found = IF /\ e \in Readable
                                               /\ ecache[req[p].by][e].gen > 0
                                            THEN @ \cup {e} ELSE @]
    BY DEF Resolve
  <1> DEFINE left  == req[p].envs \ {e}
             found == IF e \in Readable /\ ecache[req[p].by][e].gen > 0
                      THEN req[p].found \cup {e} ELSE req[p].found
             new   == [req[p] EXCEPT !.envs = left, !.found = found]
  <1>3. left \in SUBSET req[p].envs /\ found \in SUBSET Envs /\ {} \in SUBSET req[p].todo
    <2>1. req[p].envs \in SUBSET Envs /\ req[p].found \in SUBSET Envs
      BY <1>1 DEF Request
    <2> QED BY <2>1
  <1>4. req' = [req EXCEPT ![p] = new]
    BY <1>1, <1>2 DEF Request
  <1> HIDE DEF left, found
  <1>5. new \in Request
    BY <1>1, <1>3, RequestAdvances
  <1>6. new.by = req[p].by /\ new.todo = req[p].todo
    BY <1>1 DEF Request
  <1> QED BY <1>1, <1>4, <1>5, <1>6

LEMMA EnsureClaimEffect ==
    ASSUME AdmissionTypeOK, NEW p \in Pods, EnsureClaim(p)
    PROVE  \E c \in req[p].todo :
              /\ claims' = claims \cup {c}
              /\ req' \in [Pods -> Request]
              /\ \A q \in Pods \ {p} : req'[q] = req[q]
              /\ req'[p].by = req[p].by
              /\ req'[p].todo = req[p].todo \ {c}
  <1>1. req \in [Pods -> Request] /\ req[p] \in Request
    BY DEF AdmissionTypeOK
  <1>2. PICK c \in req[p].todo : /\ claims' = claims \cup {c}
                                 /\ req' = [req EXCEPT ![p].todo = @ \ {c}]
    BY DEF EnsureClaim
  <1> DEFINE left == req[p].todo \ {c}
             new  == [req[p] EXCEPT !.todo = left]
  <1>3. req' = [req EXCEPT ![p] = new]
    BY <1>1, <1>2
  <1>4. left \in SUBSET req[p].todo
    OBVIOUS
  <1>5. new \in Request
    BY <1>1, <1>4, RequestAdvances DEF Request
  <1>6. new.by = req[p].by /\ new.todo = left
    BY <1>1 DEF Request
  <1> QED BY <1>1, <1>2, <1>3, <1>5, <1>6

LEMMA AskEffect ==
    ASSUME AdmissionTypeOK, NEW p \in Pods, Ask(p)
    PROVE  /\ req' \in [Pods -> Request]
           /\ \A q \in Pods \ {p} : req'[q] = req[q]
           /\ req'[p].todo = Claims[p]
  <1>1. PICK m \in Managers :
            req' = [req EXCEPT ![p] = [by |-> m, envs |-> RefSet(p), found |-> {},
                                       todo |-> Claims[p]]]
    BY DEF Ask
  <1>2. RefSet(p) \in SUBSET Envs
    BY RefsAssumption DEF RefSet
  <1>3. [by |-> m, envs |-> RefSet(p), found |-> {}, todo |-> Claims[p]] \in Request
    BY <1>2 DEF Request
  <1> QED BY <1>1, <1>3 DEF AdmissionTypeOK

\* The other steps leave each request as it is or drop it.
Drops == \A p \in Pods : req'[p] \in {req[p], NoRequest}

LEMMA DroppedEffect ==
    ASSUME AdmissionTypeOK, NEW p \in Pods, req' = Dropped(p)
    PROVE  req' \in [Pods -> Request] /\ Drops
  BY NoRequestType DEF AdmissionTypeOK, Dropped, Drops

LEMMA RestartEffect ==
    ASSUME AdmissionTypeOK, NEW m \in Managers, RestartServing(m)
    PROVE  req' \in [Pods -> Request] /\ Drops
  BY NoRequestType DEF AdmissionTypeOK, RestartServing, Drops

LEMMA AdmissionTypeStep ==
    AdmissionTypeOK /\ [AdmissionNext]_allVars => AdmissionTypeOK'
  <1> SUFFICES ASSUME AdmissionTypeOK, [AdmissionNext]_allVars
               PROVE  AdmissionTypeOK'
    OBVIOUS
  <1>1. CASE UNCHANGED avars
    BY <1>1 DEF avars, AdmissionTypeOK
  <1>2. ASSUME NEW p \in Pods, Ask(p) PROVE AdmissionTypeOK'
    <2>1. req' \in [Pods -> Request]
      BY <1>2, AskEffect
    <2> QED BY <1>2, <2>1 DEF Ask, AdmissionTypeOK
  <1>3. ASSUME NEW p \in Pods, Resolve(p) PROVE AdmissionTypeOK'
    <2>1. req' \in [Pods -> Request]
      BY <1>3, ResolveType
    <2> QED BY <1>3, <2>1 DEF Resolve, AdmissionTypeOK
  <1>4. ASSUME NEW p \in Pods, EnsureClaim(p) PROVE AdmissionTypeOK'
    <2>1. PICK c \in req[p].todo :
              claims' = claims \cup {c} /\ req' \in [Pods -> Request]
      BY <1>4, EnsureClaimEffect
    <2>2. req[p].todo \subseteq UNION {Claims[q] : q \in Pods}
      BY DEF AdmissionTypeOK, Request
    <2>3. claims' \subseteq UNION {Claims[q] : q \in Pods}
      BY <2>1, <2>2 DEF AdmissionTypeOK
    <2> QED BY <1>4, <2>1, <2>3 DEF EnsureClaim, AdmissionTypeOK
  <1>5. ASSUME NEW p \in Pods, Admit(p) PROVE AdmissionTypeOK'
    <2>1. req' \in [Pods -> Request]
      BY <1>5, DroppedEffect DEF Admit
    <2>2. req[p].found \in SUBSET Envs
      BY DEF AdmissionTypeOK, Request
    <2>3. injected' \in [Pods -> SUBSET Envs] /\ ungated' \subseteq Pods
      BY <1>5, <2>2 DEF Admit, AdmissionTypeOK
    <2> QED BY <1>5, <2>1, <2>3 DEF Admit, AdmissionTypeOK
  <1>6. ASSUME NEW p \in Pods, Reject(p) PROVE AdmissionTypeOK'
    <2>1. req' \in [Pods -> Request]
      BY <1>6, DroppedEffect DEF Reject
    <2>2. rejected' \in Nat
      BY <1>6 DEF Reject, AdmissionTypeOK
    <2> QED BY <1>6, <2>1, <2>2 DEF Reject, AdmissionTypeOK
  <1>7. ASSUME NEW m \in Managers, RestartServing(m) PROVE AdmissionTypeOK'
    <2>1. req' \in [Pods -> Request]
      BY <1>7, RestartEffect
    <2> QED BY <1>7, <2>1 DEF RestartServing, AdmissionTypeOK
  <1> QED
    BY <1>1, <1>2, <1>3, <1>4, <1>5, <1>6, <1>7
    DEF AdmissionNext, Handler, allVars

\* Every variable of the admission keeps its type.
THEOREM AdmissionTyped == AdmissionSpec => []AdmissionTypeOK
  BY AdmissionTypeInit, AdmissionTypeStep, PTL DEF AdmissionSpec

-----------------------------------------------------------------------------
(* The claims of a stored pod.                                              *)

\* No gate brings a pod into being.
WorkGated == \A m \in Managers : work[m] # NoWork => work[m].copy.gated

\* What a request has not created yet is still on its list.
ClaimsTracked ==
    \A p \in Pods : Serving(p) => Claims[p] \subseteq claims \cup req[p].todo

ClaimInv ==
    VersionInv /\ WorkGated /\ AdmissionTypeOK /\ ClaimsTracked /\ ClaimsThere

LEMMA WorkGatedStep ==
    ASSUME TypeOK, WorkGated, [Next]_vars
    PROVE  WorkGated'
  <1> SUFFICES ASSUME NEW k \in Managers, work'[k] # NoWork
               PROVE  work'[k].copy.gated
    BY DEF WorkGated
  <1>1. work \in [Managers -> Work]
    BY DEF TypeOK
  <1>2. ASSUME NEW p \in Pods, Take(k, p) PROVE work'[k].copy.gated
    BY <1>1, <1>2 DEF Take
  <1>3. CASE Passes(k)
    BY <1>1, <1>3 DEF Passes, CheckRef, MoreRefs, WorkGated, Work
  <1>4. CASE work'[k] = work[k]
    BY <1>4 DEF WorkGated
  <1>5. CASE ~ \E p \in Pods : Take(k, p)
    <2>1. ASSUME NEW m \in Managers, NEW p \in Pods, Take(m, p)
          PROVE  work'[k] = work[k]
      BY <1>1, <1>5, <2>1 DEF Take
    <2>2. CASE \E m \in Managers, p \in Pods : Take(m, p)
      BY <1>4, <2>1, <2>2
    <2>3. CASE ~ \E m \in Managers, p \in Pods : Take(m, p)
      <3>1. \/ UNCHANGED work
            \/ \E m \in Managers : \/ Restart(m) \/ CheckRef(m)
                                   \/ StayGated(m) \/ Release(m)
                                   \/ ReleaseConflicts(m)
        BY <2>3 DEF Next, Worker, EnvChange, CreatePod, TouchPod, DeliverEnv,
                    DeliverPod, FireDelayed, vars, gvars
      <3>2. ASSUME NEW m \in Managers, CheckRef(m)
            PROVE  Passes(k) \/ work'[k] = work[k]
        BY <1>1, <3>2 DEF CheckRef, Passes
      <3>3. ASSUME NEW m \in Managers,
                   Restart(m) \/ StayGated(m) \/ Release(m) \/ ReleaseConflicts(m)
            PROVE  work'[k] = work[k]
        BY <1>1, <3>3 DEF Restart, StayGated, Release, ReleaseConflicts, Done
      <3> QED BY <1>3, <1>4, <3>1, <3>2, <3>3
    <2> QED BY <2>2, <2>3
  <1> QED BY <1>2, <1>5

\* A step of the gates stores no pod that was not there.
LEMMA GateStoresNone ==
    ASSUME VersionInv, WorkGated, NEW p \in Pods, pod[p] = NoPod,
           GateStep \/ \E m \in Managers : Restart(m)
    PROVE  pod'[p] = NoPod
  <1>1. pod \in [Pods -> Pod]
    BY DEF VersionInv, TypeOK
  <1>2. ASSUME NEW m \in Managers, Release(m) PROVE pod'[p] = NoPod
    <2>1. CASE work[m].key = p
      <3>1. work[m] # NoWork /\ work[m].copy = pod[p]
        BY <1>2, <2>1 DEF VersionInv, CopiesFollow, Follows, Release, AtRelease,
                          UpToDate
      <3> QED BY <3>1 DEF WorkGated, NoPod
    <2>2. CASE work[m].key # p
      BY <1>1, <1>2, <2>2 DEF Release
    <2> QED BY <2>1, <2>2
  <1>3. ASSUME NEW q \in Pods, TouchPod(q) PROVE pod'[p] = NoPod
    BY <1>1, <1>3 DEF TouchPod
  <1>4. CASE UNCHANGED pod
    BY <1>4
  <1> QED
    BY <1>2, <1>3, <1>4
    DEF GateStep, Worker, EnvChange, DeliverEnv, DeliverPod, FireDelayed,
        Restart, Take, CheckRef, StayGated, ReleaseConflicts, gvars

\* As long as no request gains anything to do, no claim goes and no pod is
\* stored, the claims stay tracked and there.
LEMMA ClaimsKept ==
    ASSUME ClaimsTracked, ClaimsThere, claims \subseteq claims',
           \A p \in Pods : /\ Stored(p)' => Stored(p)
                           /\ Serving(p)' => Serving(p)
                           /\ req[p].todo \ claims' \subseteq req'[p].todo
                              \/ ~Serving(p)'
    PROVE  ClaimsTracked' /\ ClaimsThere'
  <1>1. ClaimsThere'
    BY DEF ClaimsThere
  <1>2. ASSUME NEW p \in Pods, Serving(p)'
        PROVE  Claims[p] \subseteq claims' \cup req'[p].todo
    BY <1>2 DEF ClaimsTracked
  <1> QED BY <1>1, <1>2 DEF ClaimsTracked

LEMMA DropsServe ==
    ASSUME Drops, NEW p \in Pods
    PROVE  ~Serving(p)' \/ req'[p] = req[p]
  BY DEF Drops, Serving, NoRequest

LEMMA ClaimsStep ==
    ASSUME ClaimInv, [AdmissionNext]_allVars
    PROVE  ClaimsTracked' /\ ClaimsThere'
  <1>0. /\ VersionInv /\ WorkGated /\ AdmissionTypeOK
        /\ ClaimsTracked /\ ClaimsThere
    BY DEF ClaimInv
  <1>1. ASSUME UNCHANGED vars, UNCHANGED ungated, NEW p \in Pods
        PROVE  Stored(p)' = Stored(p)
    BY <1>1 DEF Stored, vars, gvars
  <1>2. CASE GateStep /\ UNCHANGED avars
    <2>1. ASSUME NEW p \in Pods PROVE Stored(p)' => Stored(p)
      BY <1>0, <1>2, GateStoresNone DEF Stored, avars
    <2> QED BY <1>0, <1>2, <2>1, ClaimsKept DEF avars, Serving
  <1>3. ASSUME NEW p \in Pods, Ask(p) PROVE ClaimsTracked' /\ ClaimsThere'
    <2>1. UNCHANGED <<vars, ungated, claims>>
      BY <1>3 DEF Ask
    <2>2. ClaimsThere'
      BY <1>0, <1>1, <2>1 DEF ClaimsThere
    <2>3. ClaimsTracked'
      BY <1>0, <1>3, <2>1, AskEffect DEF ClaimsTracked, Serving
    <2> QED BY <2>2, <2>3
  <1>4. ASSUME NEW p \in Pods, Resolve(p) PROVE ClaimsTracked' /\ ClaimsThere'
    <2>1. UNCHANGED <<vars, ungated, claims>>
      BY <1>4 DEF Resolve
    <2>2. \A q \in Pods : req'[q].by = req[q].by /\ req'[q].todo = req[q].todo
      BY <1>0, <1>4, ResolveType
    <2> QED BY <1>0, <1>1, <2>1, <2>2, ClaimsKept DEF Serving
  <1>5. ASSUME NEW p \in Pods, EnsureClaim(p) PROVE ClaimsTracked' /\ ClaimsThere'
    <2>1. UNCHANGED <<vars, ungated>> /\ Serving(p)
      BY <1>5 DEF EnsureClaim
    <2>2. PICK c \in req[p].todo :
              /\ claims' = claims \cup {c}
              /\ \A q \in Pods \ {p} : req'[q] = req[q]
              /\ req'[p].by = req[p].by
              /\ req'[p].todo = req[p].todo \ {c}
      BY <1>0, <1>5, EnsureClaimEffect
    <2>3. ASSUME NEW q \in Pods
          PROVE  /\ Serving(q)' => Serving(q)
                 /\ req[q].todo \ claims' \subseteq req'[q].todo
      BY <2>2 DEF Serving
    <2> QED BY <1>0, <1>1, <2>1, <2>2, <2>3, ClaimsKept
  <1>6. ASSUME NEW p \in Pods, Admit(p) PROVE ClaimsTracked' /\ ClaimsThere'
    <2>1. Claims[p] \subseteq claims /\ claims' = claims
      BY <1>0, <1>6 DEF Admit, Handled, ClaimsTracked
    <2>2. Drops
      BY <1>0, <1>6, DroppedEffect DEF Admit
    <2>3. ASSUME NEW q \in Pods, q # p PROVE Stored(q)' = Stored(q)
      <3>1. pod'[q] = pod[q]
        BY <1>0, <1>6, <2>3 DEF Admit, CreatePod, VersionInv, TypeOK, vars, gvars
      <3>2. q \in ungated' <=> q \in ungated
        BY <1>6, <2>3 DEF Admit
      <3> QED BY <3>1, <3>2 DEF Stored
    <2>4. ClaimsThere'
      BY <1>0, <2>1, <2>3 DEF ClaimsThere
    <2>5. ASSUME NEW q \in Pods, Serving(q)'
          PROVE  Claims[q] \subseteq claims' \cup req'[q].todo
      <3>1. req'[q] = req[q] /\ Serving(q)
        BY <2>2, <2>5, DropsServe DEF Serving
      <3> QED BY <1>0, <2>1, <3>1 DEF ClaimsTracked
    <2> QED BY <2>4, <2>5 DEF ClaimsTracked
  <1>7. ASSUME UNCHANGED <<pod, ungated, claims>>, Drops
        PROVE  ClaimsTracked' /\ ClaimsThere'
    <2>1. ASSUME NEW q \in Pods
          PROVE  /\ Stored(q)' => Stored(q)
                 /\ Serving(q)' => Serving(q)
                 /\ req[q].todo \ claims' \subseteq req'[q].todo \/ ~Serving(q)'
      <3>1. ~Serving(q)' \/ req'[q] = req[q]
        BY <1>7, DropsServe
      <3> QED BY <1>7, <3>1 DEF Stored, Serving
    <2> QED BY <1>0, <1>7, <2>1, ClaimsKept
  <1>8. ASSUME NEW p \in Pods, Reject(p) PROVE ClaimsTracked' /\ ClaimsThere'
    BY <1>0, <1>7, <1>8, DroppedEffect DEF Reject, vars, gvars
  <1>9. ASSUME NEW m \in Managers, RestartServing(m)
        PROVE  ClaimsTracked' /\ ClaimsThere'
    BY <1>0, <1>7, <1>9, RestartEffect DEF RestartServing, Restart
  <1>10. CASE UNCHANGED allVars
    <2>1. Drops /\ UNCHANGED <<pod, ungated, claims>>
      BY <1>10 DEF allVars, avars, vars, gvars, Drops
    <2> QED BY <1>7, <2>1
  <1> QED
    BY <1>2, <1>3, <1>4, <1>5, <1>6, <1>8, <1>9, <1>10 DEF AdmissionNext, Handler

\* A pod that is stored finds every claim it mounts, whoever created them, and
\* however many requests were dropped half way before.
THEOREM StoredPodsFindClaims == AdmissionSpec => []ClaimsThere
  <1>1. AdmissionInit => ClaimInv
    <2> SUFFICES ASSUME AdmissionInit PROVE ClaimInv
      OBVIOUS
    <2>1. Init
      BY DEF AdmissionInit
    <2>2. VersionInv /\ WorkGated
      BY <2>1, TypeInit DEF VersionInv, CopiesFollow, Follows, NoPod, Init, WorkGated
    <2>3. ClaimsTracked /\ ClaimsThere
      BY <2>1 DEF AdmissionInit, ClaimsTracked, ClaimsThere, Serving, Stored,
                  NoRequest, Init
    <2> QED BY <2>2, <2>3, AdmissionTypeInit DEF ClaimInv
  <1>2. ClaimInv /\ [AdmissionNext]_allVars => ClaimInv'
    <2> SUFFICES ASSUME ClaimInv, [AdmissionNext]_allVars PROVE ClaimInv'
      OBVIOUS
    <2>1. [Next]_vars
      BY AdmissionSteps
    <2>2. VersionInv'
      BY <2>1, TypeStep, KeyedStep, CopiesStep DEF ClaimInv, VersionInv
    <2>3. WorkGated'
      BY <2>1, WorkGatedStep DEF ClaimInv, VersionInv
    <2> QED
      BY <2>2, <2>3, AdmissionTypeStep, ClaimsStep DEF ClaimInv
  <1>3. ClaimInv => ClaimsThere
    BY DEF ClaimInv
  <1> QED BY <1>1, <1>2, <1>3, PTL DEF AdmissionSpec
=============================================================================
