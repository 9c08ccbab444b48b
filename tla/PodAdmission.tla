---------------------------- MODULE PodAdmission ----------------------------
(***************************************************************************)
(* From kubectl to a running pod: the pod webhook                          *)
(* (internal/webhook/podflox.go) composed with the pod gate (PodGate).     *)
(*                                                                         *)
(* The webhook serves CREATE requests in every manager that has it on, the *)
(* same managers that run the gates, from the same informer caches.  For a *)
(* pod with flox annotations it looks the envs' spec.inject up one by one  *)
(* and adds the scheduling gate, for one with nix-build annotations it     *)
(* creates the claims of the nix stores one by one; then the API server    *)
(* stores the pod.                                                         *)
(*                                                                         *)
(* Covered: requests that are served at once and share claims, a claim     *)
(* that cannot be created, a request that is given up half way, a manager  *)
(* that dies with the requests it serves.  Not covered: claims that are    *)
(* deleted, what else is in the pod, webhook calls on UPDATE (the webhook  *)
(* must be registered for CREATE only).                                    *)
(***************************************************************************)
EXTENDS PodGate

CONSTANTS
    NoManager,  \* no manager: no request under way
    Placed,     \* the pods whose author has set spec.nodeName
    Readable,   \* the envs the webhook finds by name in FloxEnvNamespace
    Claims,     \* the claims a pod's nix-build annotations name
    MaxReject   \* bound on requests that fail

ASSUME ManagerAssumption == NoManager \notin Managers
ASSUME AdmissionAssumption ==
    Placed \subseteq Pods /\ Readable \subseteq Envs /\ MaxReject \in Nat

VARIABLES
    req,        \* req[p]: the CREATE request of p a webhook is serving
    claims,     \* the PersistentVolumeClaims that exist
    injected,   \* injected[p]: the envs whose spec.inject p has been given
    ungated,    \* the pods that were stored without the gate
    rejected    \* requests that failed so far

avars == <<req, claims, injected, ungated, rejected>>
allVars == <<vars, avars>>
-----------------------------------------------------------------------------
\* What the handler still has to look up and to create.
Request   == [by : Managers \cup {NoManager}, envs : SUBSET Envs,
              found : SUBSET Envs, todo : SUBSET UNION {Claims[p] : p \in Pods}]
NoRequest == [by |-> NoManager, envs |-> {}, found |-> {}, todo |-> {}]

Stored(p)  == pod[p] # NoPod \/ p \in ungated
Serving(p) == req[p].by # NoManager

\* injectFloxWait: nothing to wait for, or too late for a gate.
Gated(p) == Refs[p] # <<>> /\ p \notin Placed

AdmissionInit ==
    /\ Init
    /\ req      = [p \in Pods |-> NoRequest]
    /\ claims   = {}
    /\ injected = [p \in Pods |-> {}]
    /\ ungated  = {}
    /\ rejected = 0
-----------------------------------------------------------------------------
(* Default, the handler of one request.                                     *)

\* The pod's owner creates it, and some manager is asked.
Ask(p) ==
    /\ ~Stored(p)
    /\ ~Serving(p)
    /\ \E m \in Managers :
          req' = [req EXCEPT ![p] = [by |-> m, envs |-> RefSet(p), found |-> {},
                                     todo |-> Claims[p]]]
    /\ UNCHANGED <<vars, claims, injected, ungated, rejected>>

\* resolveInjects: a FloxEnv the cache does not have gives nothing.
Resolve(p) ==
    /\ Serving(p)
    /\ \E e \in req[p].envs :
          req' = [req EXCEPT ![p].envs = @ \ {e},
                             ![p].found = IF /\ e \in Readable
                                             /\ ecache[req[p].by][e].gen > 0
                                          THEN @ \cup {e} ELSE @]
    /\ UNCHANGED <<vars, claims, injected, ungated, rejected>>

\* Mutant: the record of a dropped request loses its other fields.
Blanked(p) == [req EXCEPT ![p] = [by |-> NoManager]]

Dropped(p) == [req EXCEPT ![p] = NoRequest]

\* Mutant: a claim that is there already fails the request.
EnsureNewClaim(p) ==
    /\ Serving(p) /\ req[p].envs = {}
    /\ \E c \in req[p].todo :
          /\ claims' = claims \cup {c}
          /\ req'    = IF c \in claims THEN Dropped(p)
                       ELSE [req EXCEPT ![p].todo = @ \ {c}]
    /\ UNCHANGED <<vars, injected, ungated, rejected>>

\* ensureNixStorePVC: AlreadyExists is success.
EnsureClaim(p) ==
    /\ Serving(p) /\ req[p].envs = {}
    /\ \E c \in req[p].todo :
          /\ claims' = claims \cup {c}
          /\ req'    = [req EXCEPT ![p].todo = @ \ {c}]
    /\ UNCHANGED <<vars, injected, ungated, rejected>>

\* The handler is through, and the API server stores the pod.
Handled(p) == Serving(p) /\ req[p].envs = {} /\ req[p].todo = {}

Admit(p) ==
    /\ Handled(p)
    /\ req'      = Dropped(p)
    /\ injected' = [injected EXCEPT ![p] = req[p].found]
    /\ \/ Gated(p)  /\ CreatePod(p) /\ UNCHANGED ungated
       \/ ~Gated(p) /\ ungated' = ungated \cup {p} /\ UNCHANGED vars
    /\ UNCHANGED <<claims, rejected>>

\* Mutant: a claim that cannot be created is logged and skipped.
RejectNot(p) ==
    /\ Serving(p)
    /\ rejected < MaxReject
    /\ rejected' = rejected + 1
    /\ req' = [req EXCEPT ![p].envs = {}, ![p].todo = {}]
    /\ UNCHANGED <<vars, claims, injected, ungated>>

\* A claim cannot be created, the call times out, a later admission step or
\* the API server says no: what was created stays.
Reject(p) ==
    /\ Serving(p)
    /\ rejected < MaxReject
    /\ rejected' = rejected + 1
    /\ req' = Dropped(p)
    /\ UNCHANGED <<vars, claims, injected, ungated>>

\* A manager dies: so do the requests it serves.
RestartServing(m) ==
    /\ Restart(m)
    /\ req' = [p \in Pods |-> IF req[p].by = m THEN NoRequest ELSE req[p]]
    /\ UNCHANGED <<claims, injected, ungated, rejected>>
-----------------------------------------------------------------------------
Handler(p) == Resolve(p) \/ EnsureClaim(p) \/ Admit(p)

\* What PodGate does on its own.
GateStep ==
    \/ EnvChange
    \/ \E p \in Pods : TouchPod(p)
    \/ \E m \in Managers :
          \/ \E e \in Envs : DeliverEnv(m, e)
          \/ \E p \in Pods : DeliverPod(m, p) \/ FireDelayed(m, p)
          \/ Worker(m)

AdmissionNext ==
    \/ GateStep /\ UNCHANGED avars
    \/ \E p \in Pods : Ask(p) \/ Handler(p) \/ Reject(p)
    \/ \E m \in Managers : RestartServing(m)

AdmissionSpec == AdmissionInit /\ [][AdmissionNext]_allVars

\* The workload controller that owns a pod tries again, and a handler goes on.
AdmissionFairness ==
    \A p \in Pods : WF_allVars(Ask(p)) /\ WF_allVars(Handler(p))

AdmissionFairSpec ==
    AdmissionSpec /\ Fairness /\ AdmissionFairness
-----------------------------------------------------------------------------
(* Properties.                                                              *)

\* Every variable of the admission keeps its type.
AdmissionTypeOK ==
    /\ req      \in [Pods -> Request]
    /\ claims   \subseteq UNION {Claims[p] : p \in Pods}
    /\ injected \in [Pods -> SUBSET Envs]
    /\ ungated  \subseteq Pods
    /\ rejected \in Nat

\* A pod that has been stored finds every claim it mounts, whoever created
\* them and however many requests failed half way before.
ClaimsThere == \A p \in Pods : Stored(p) => Claims[p] \subseteq claims

\* A pod is not locked out by what an earlier request, its own or another
\* pod's, has left behind: it is stored in the end.
Admitted == \A p \in Pods : <>Stored(p)

\* A container that opts into an env is given the env's inject.
InjectedWhenReleased ==
    \A p \in Pods : IsReleased(p) => RefSet(p) \subseteq injected[p]

\* With the webhook in front, the gates are still those of PodGate.
ImplementsGate == Spec
=============================================================================
