------------------------------- MODULE Carrier -------------------------------
(***************************************************************************)
(* The base carrier (internal/carrier/carrier.go, called once per start of *)
(* a manager by cmd/flox-controller/main.go): every controller creates the *)
(* FloxEnv its binary embeds, or updates it as long as it carries the      *)
(* managed-by label.                                                       *)
(*                                                                         *)
(* Covered: redundant controllers that start together, a rolling upgrade   *)
(* in which pods of the old version still restart, an operator who forks   *)
(* or deletes the carrier, status patches of the node agents on the same   *)
(* object, and calls that fail: EnsureBase is not tried again before the   *)
(* next start.                                                             *)
(***************************************************************************)
EXTENDS Integers

CONSTANTS
    Controllers,    \* the managers that run EnsureBase
    MaxVersion,     \* bound: the last version that is rolled out
    MaxStarts,      \* bound on restarts
    MaxWrites       \* bound on status patches and on the operator's writes

ASSUME ControllerAssumption == Controllers # {}
ASSUME CarrierBoundAssumption ==
    MaxVersion \in Nat \ {0} /\ MaxStarts \in Nat /\ MaxWrites \in Nat

VARIABLES
    cr,         \* the carrier on the API server
    rollout,    \* the version being rolled out
    version,    \* version[c]: the version c runs
    cache,      \* cache[c]: c's informer copy of the carrier
    step,       \* step[c]: where EnsureBase stands in c
    copy,       \* copy[c]: the object EnsureBase has read
    starts,     \* restarts so far
    writes      \* status patches and operator's writes so far

vars == <<cr, rollout, version, cache, step, copy, starts, writes>>
-----------------------------------------------------------------------------
\* The spec is the version that embeds it, or 0 for the operator's own.
CR == [there : BOOLEAN, rv : Nat, owned : BOOLEAN, spec : Nat]

Absent == [there |-> FALSE, rv |-> 0, owned |-> FALSE, spec |-> 0]

Steps == {"get", "create", "update", "done", "failed"}

\* Mutant: the object is created without its label.
Unlabelled(v) == [there |-> TRUE, rv |-> cr.rv + 1, spec |-> v]

\* What a binary of version v embeds, with the label on it.
Desired(v) == [there |-> TRUE, rv |-> cr.rv + 1, owned |-> TRUE, spec |-> v]
-----------------------------------------------------------------------------
Init ==
    /\ cr      = Absent
    /\ rollout = 1
    /\ version = [c \in Controllers |-> 1]
    /\ cache   = [c \in Controllers |-> Absent]
    /\ step    = [c \in Controllers |-> "get"]
    /\ copy    = [c \in Controllers |-> Absent]
    /\ starts  = 0
    /\ writes  = 0
-----------------------------------------------------------------------------
(* EnsureBase.                                                              *)

Goto(c, to) == step' = [step EXCEPT ![c] = to]

\* Mutant: a carrier that is there is never updated.
OnlyCreate(found) == IF found.there THEN "done" ELSE "create"

\* Absent, forked, or still ours.
NextCall(found) ==
    IF ~found.there THEN "create" ELSE IF found.owned THEN "update" ELSE "done"

\* Get reads the informer's copy.
Get(c) ==
    /\ step[c] = "get"
    /\ copy' = [copy EXCEPT ![c] = cache[c]]
    /\ Goto(c, NextCall(cache[c]))
    /\ UNCHANGED <<cr, rollout, version, cache, starts, writes>>

Create(c) ==
    /\ step[c] = "create"
    /\ ~cr.there
    /\ cr' = Desired(version[c])
    /\ Goto(c, "done")
    /\ UNCHANGED <<rollout, version, cache, copy, starts, writes>>

\* Mutant: the Update is sent without a resourceVersion.
AnyVersion(c) == cr.there

\* The API server takes an Update made from the version it holds.
UpToDate(c) == cr.there /\ cr.rv = copy[c].rv

\* The object that was read, with the embedded spec; the API server does not
\* store an Update that changes nothing.
Update(c) ==
    /\ step[c] = "update"
    /\ UpToDate(c)
    /\ cr' = IF copy[c].spec = version[c] THEN cr
             ELSE [copy[c] EXCEPT !.rv = cr.rv + 1, !.spec = version[c]]
    /\ Goto(c, "done")
    /\ UNCHANGED <<rollout, version, cache, copy, starts, writes>>

\* AlreadyExists, Conflict, NotFound, or a call that fails: it is logged.
CallFails(c) ==
    /\ step[c] \in {"get", "create", "update"}
    /\ Goto(c, "failed")
    /\ UNCHANGED <<cr, rollout, version, cache, copy, starts, writes>>
-----------------------------------------------------------------------------
(* The surroundings.                                                        *)

\* The FloxEnv informer catches up.
Deliver(c) ==
    /\ cache[c] # cr
    /\ cache' = [cache EXCEPT ![c] = cr]
    /\ UNCHANGED <<cr, rollout, version, step, copy, starts, writes>>

Upgrade ==
    /\ rollout < MaxVersion
    /\ rollout' = rollout + 1
    /\ UNCHANGED <<cr, version, cache, step, copy, starts, writes>>

\* A manager's pod restarts, where it was or replaced by the rollout; the
\* caches are in sync before EnsureBase runs.
Start(c) ==
    /\ starts < MaxStarts
    /\ starts' = starts + 1
    /\ \E v \in {version[c], rollout} : version' = [version EXCEPT ![c] = v]
    /\ cache' = [cache EXCEPT ![c] = cr]
    /\ copy'  = [copy EXCEPT ![c] = Absent]
    /\ Goto(c, "get")
    /\ UNCHANGED <<cr, rollout, writes>>

Write(new) ==
    /\ cr.there
    /\ writes < MaxWrites
    /\ writes' = writes + 1
    /\ cr' = [new EXCEPT !.rv = cr.rv + 1]
    /\ UNCHANGED <<rollout, version, cache, step, copy, starts>>

\* A node agent patches the status of this FloxEnv like of any other.
PatchStatus == Write(cr)

\* The operator removes the label to run a carrier of their own.
Fork ==
    /\ cr.owned
    /\ \E spec \in {0, cr.spec} :
          Write([cr EXCEPT !.owned = FALSE, !.spec = spec])

Delete == Write(Absent)

EnsureBase(c) == Get(c) \/ Create(c) \/ Update(c) \/ CallFails(c)

Next ==
    \/ \E c \in Controllers : EnsureBase(c) \/ Deliver(c) \/ Start(c)
    \/ Upgrade
    \/ PatchStatus
    \/ Fork
    \/ Delete

Spec == Init /\ [][Next]_vars
-----------------------------------------------------------------------------
(* Properties.                                                              *)

\* Every variable keeps its type.
TypeOK ==
    /\ cr      \in CR
    /\ rollout \in Nat
    /\ version \in [Controllers -> Nat]
    /\ cache   \in [Controllers -> CR]
    /\ step    \in [Controllers -> Steps]
    /\ copy    \in [Controllers -> CR]
    /\ starts  \in Nat
    /\ writes  \in Nat

\* An operator's fork is never clobbered: however old the copy from which some
\* controller of whatever version decided to update the carrier, a forked one
\* keeps the operator's spec and never becomes the controller's again.
ForkKept ==
    [][cr.there /\ ~cr.owned =>
          ~cr'.there \/ (~cr'.owned /\ cr'.spec = cr.spec)]_vars

\* A rollout propagates: once every controller runs the new version and the
\* last EnsureBase of each went through, a carrier that is still the
\* controller's is the new one, whatever old versions wrote on the way.
RolloutPropagates ==
    (\A c \in Controllers : version[c] = rollout /\ step[c] = "done")
        /\ cr.there /\ cr.owned
    => cr.spec = rollout

\* ... and a failed EnsureBase makes no difference.
RolloutPropagatesAnyway ==
    (\A c \in Controllers : version[c] = rollout /\ step[c] \in {"done", "failed"})
        /\ cr.there /\ cr.owned
    => cr.spec = rollout
=============================================================================
