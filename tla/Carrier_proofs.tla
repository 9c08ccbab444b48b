--------------------------- MODULE Carrier_proofs ---------------------------
(***************************************************************************)
(* Type correctness of Carrier, that a fork is kept, and that a rollout    *)
(* propagates, for any controllers and bounds.                             *)
(*                                                                         *)
(* The inductive invariant says two things of the copies (one as old as    *)
(* the server's object IS the server's object, and only an owned carrier   *)
(* is about to be updated), and who is still going to put a carrier of an  *)
(* old version right: a controller that has not been upgraded, or one that *)
(* has, and started after the old version was written.                     *)
(***************************************************************************)
EXTENDS Carrier, TLAPS

\* A copy is a past state of the object, and its version says which.
Past(copied) ==
    /\ copied.rv <= cr.rv
    /\ copied.rv = cr.rv => copied = cr

CopiesPast ==
    /\ cr.rv = 0 => cr = Absent
    /\ \A c \in Controllers : Past(cache[c]) /\ Past(copy[c])

UpdatesOwned ==
    \A c \in Controllers : step[c] = "update" => copy[c].there /\ copy[c].owned

VersionsRolledOut == \A c \in Controllers : version[c] <= rollout

Stale == cr.there /\ cr.owned /\ cr.spec # rollout

\* c has yet to be upgraded, has yet to write the carrier, or has failed to.
Behind(c) ==
    \/ version[c] # rollout
    \/ step[c] \in {"failed", "update"}
    \/ step[c] = "get" /\ cache[c].there /\ cache[c].owned

StaleIsNoticed == Stale => \E c \in Controllers : Behind(c)

IInv ==
    /\ TypeOK
    /\ CopiesPast
    /\ UpdatesOwned
    /\ VersionsRolledOut
    /\ StaleIsNoticed

-----------------------------------------------------------------------------
(* Type correctness.                                                        *)

\* A write by the surroundings stores the object under a new version.
LEMMA WriteStores ==
    ASSUME TypeOK, NEW new \in CR, Write(new)
    PROVE  /\ cr' \in CR
           /\ cr'.rv = cr.rv + 1
           /\ cr'.there = new.there
           /\ cr'.owned = new.owned
           /\ cr'.spec = new.spec
           /\ writes' \in Nat
           /\ UNCHANGED <<rollout, version, cache, step, copy, starts>>
  BY DEF Write, CR, TypeOK

LEMMA AbsentType == Absent \in CR
  BY DEF Absent, CR

LEMMA InitTyped == Init => TypeOK
  BY AbsentType DEF Init, TypeOK, Steps

LEMMA NextCallType == ASSUME NEW found PROVE NextCall(found) \in Steps
  BY DEF NextCall, Steps

\* What an Update that goes through stores, on a copy that is current.
LEMMA UpdateStores ==
    ASSUME TypeOK, NEW c \in Controllers, Update(c)
    PROVE  /\ cr' \in CR
           /\ \/ cr' = cr /\ copy[c].spec = version[c]
              \/ /\ cr'.rv = cr.rv + 1
                 /\ cr'.spec = version[c]
                 /\ cr'.there = copy[c].there
                 /\ cr'.owned = copy[c].owned
  <1>1. copy[c] \in CR /\ version[c] \in Nat /\ cr \in CR
    BY DEF TypeOK
  <1>2. CASE copy[c].spec = version[c]
    BY <1>1, <1>2 DEF Update
  <1>3. CASE copy[c].spec # version[c]
    <2>1. cr' = [copy[c] EXCEPT !.rv = cr.rv + 1, !.spec = version[c]]
      BY <1>3 DEF Update
    <2>2. cr.rv + 1 \in Nat
      BY <1>1 DEF CR
    <2> QED BY <1>1, <2>1, <2>2 DEF CR
  <1> QED BY <1>2, <1>3

LEMMA ForkStores ==
    ASSUME TypeOK, Fork
    PROVE  /\ cr.owned /\ ~cr'.owned
           /\ \E new \in CR : Write(new)
  <1>1. PICK new \in {0, cr.spec} :
            Write([cr EXCEPT !.owned = FALSE, !.spec = new])
    BY DEF Fork
  <1>2. cr \in CR /\ new \in Nat
    BY DEF TypeOK, CR
  <1>3. [cr EXCEPT !.owned = FALSE, !.spec = new] \in CR
    BY <1>2 DEF CR
  <1>4. ~[cr EXCEPT !.owned = FALSE, !.spec = new].owned
    BY <1>2 DEF CR
  <1>5. cr'.owned = [cr EXCEPT !.owned = FALSE, !.spec = new].owned
    BY <1>1, <1>3, WriteStores
  <1> QED BY <1>1, <1>3, <1>4, <1>5 DEF Fork

\* Whatever the surroundings write is an object.
LEMMA WritesTyped ==
    ASSUME TypeOK, PatchStatus \/ Fork \/ Delete
    PROVE  \E new \in CR : Write(new)
  <1>1. cr \in CR
    BY DEF TypeOK
  <1> QED BY <1>1, AbsentType, ForkStores DEF PatchStatus, Delete

LEMMA StepTyped == TypeOK /\ [Next]_vars => TypeOK'
  <1> SUFFICES ASSUME TypeOK, [Next]_vars PROVE TypeOK'
    OBVIOUS
  <1>1. ASSUME NEW c \in Controllers, Get(c) PROVE TypeOK'
    BY <1>1, NextCallType DEF Get, Goto, TypeOK
  <1>2. ASSUME NEW c \in Controllers, Create(c) PROVE TypeOK'
    <2>1. cr' \in CR
      BY <1>2 DEF Create, Desired, TypeOK, CR
    <2> QED BY <1>2, <2>1 DEF Create, Goto, TypeOK, Steps
  <1>3. ASSUME NEW c \in Controllers, Update(c) PROVE TypeOK'
    <2>1. cr' \in CR
      BY <1>3, UpdateStores
    <2> QED BY <1>3, <2>1 DEF Update, Goto, TypeOK, Steps
  <1>4. ASSUME NEW c \in Controllers, CallFails(c) PROVE TypeOK'
    BY <1>4 DEF CallFails, Goto, TypeOK, Steps
  <1>5. ASSUME NEW c \in Controllers, Deliver(c) PROVE TypeOK'
    BY <1>5 DEF Deliver, TypeOK
  <1>6. ASSUME NEW c \in Controllers, Start(c) PROVE TypeOK'
    BY <1>6, AbsentType DEF Start, Goto, TypeOK, Steps
  <1>7. CASE Upgrade
    BY <1>7 DEF Upgrade, TypeOK
  <1>8. ASSUME NEW new \in CR, Write(new) PROVE TypeOK'
    BY <1>8, WriteStores DEF TypeOK
  <1>9. CASE PatchStatus \/ Fork \/ Delete
    BY <1>8, <1>9, WritesTyped
  <1>10. CASE UNCHANGED vars
    BY <1>10 DEF vars, TypeOK
  <1> QED
    BY <1>1, <1>2, <1>3, <1>4, <1>5, <1>6, <1>7, <1>9, <1>10
    DEF Next, EnsureBase

\* Every variable keeps its type, whatever the controllers and the bounds.
THEOREM TypeCorrect == Spec => []TypeOK
  <1>1. Init => TypeOK
    BY InitTyped
  <1>2. TypeOK /\ [Next]_vars => TypeOK'
    BY StepTyped
  <1> QED BY <1>1, <1>2, PTL DEF Spec
-----------------------------------------------------------------------------
(* The inductive invariant.                                                 *)

LEMMA InitIInv == Init => IInv
  <1> SUFFICES ASSUME Init PROVE IInv
    OBVIOUS
  <1>1. TypeOK
    BY InitTyped
  <1>2. CopiesPast
    BY DEF Init, CopiesPast, Past, Absent
  <1>3. UpdatesOwned /\ VersionsRolledOut
    BY DEF Init, UpdatesOwned, VersionsRolledOut
  <1>4. StaleIsNoticed
    BY DEF Init, StaleIsNoticed, Stale, Absent
  <1> QED BY <1>1, <1>2, <1>3, <1>4 DEF IInv

\* The copy an Update goes through with is the object itself.
LEMMA CurrentCopy ==
    ASSUME IInv, NEW c \in Controllers, Update(c)
    PROVE  copy[c] = cr /\ cr.there /\ cr.owned
  BY DEF IInv, CopiesPast, Past, UpdatesOwned, Update, UpToDate

\* What the server holds after a step: the same object, or one that is newer.
LEMMA VersionsGrow ==
    ASSUME IInv, [Next]_vars
    PROVE  cr' = cr \/ cr'.rv = cr.rv + 1
  <1>0. TypeOK
    BY DEF IInv
  <1>1. ASSUME NEW c \in Controllers, EnsureBase(c)
        PROVE  cr' = cr \/ cr'.rv = cr.rv + 1
    <2>1. CASE Create(c)
      BY <2>1 DEF Create, Desired
    <2>2. CASE Update(c)
      BY <2>2, <1>0, UpdateStores
    <2> QED BY <1>1, <2>1, <2>2 DEF EnsureBase, Get, CallFails
  <1>2. ASSUME NEW new \in CR, Write(new) PROVE cr'.rv = cr.rv + 1
    BY <1>2, <1>0, WriteStores
  <1>3. PatchStatus \/ Fork \/ Delete => \E new \in CR : Write(new)
    BY <1>0, WritesTyped
  <1> QED
    BY <1>1, <1>2, <1>3 DEF Next, Deliver, Start, Upgrade, vars

LEMMA PastStep ==
    ASSUME IInv, [Next]_vars PROVE CopiesPast'
  <1>0. TypeOK /\ TypeOK' /\ CopiesPast
    BY StepTyped DEF IInv
  <1>1. cr' = cr \/ cr'.rv = cr.rv + 1
    BY VersionsGrow
  <1>2. cr.rv \in Nat /\ cr'.rv \in Nat
    BY <1>0 DEF TypeOK, CR
  <1>3. cr'.rv = 0 => cr' = Absent'
    BY <1>0, <1>1, <1>2 DEF CopiesPast, Absent
  <1>4. ASSUME NEW old \in CR, Past(old)
        PROVE  old.rv <= cr'.rv /\ (old.rv = cr'.rv => old = cr')
    BY <1>1, <1>2, <1>4 DEF Past, CR
  <1>5. Past(cr) /\ Past(Absent)
    BY <1>0, <1>2 DEF Past, CopiesPast, Absent
  <1>6. ASSUME NEW c \in Controllers
        PROVE  /\ cache'[c] \in {cache[c], cr}
               /\ copy'[c] \in {copy[c], cache[c], Absent}
    BY <1>0, <1>6
    DEF Next, EnsureBase, Get, Create, Update, CallFails, Deliver, Start,
        Upgrade, PatchStatus, Fork, Delete, Write, vars, TypeOK
  <1>7. ASSUME NEW c \in Controllers
        PROVE  /\ cache[c] \in CR /\ Past(cache[c])
               /\ copy[c] \in CR /\ Past(copy[c])
    BY <1>0 DEF TypeOK, CopiesPast
  <1>8. cr \in CR /\ Absent \in CR
    BY <1>0, AbsentType DEF TypeOK
  <1>9. ASSUME NEW c \in Controllers PROVE Past(cache[c])' /\ Past(copy[c])'
    <2>1. Past(cache[c])'
      BY <1>4, <1>5, <1>6, <1>7, <1>8 DEF Past
    <2>2. Past(copy[c])'
      BY <1>4, <1>5, <1>6, <1>7, <1>8 DEF Past
    <2> QED BY <2>1, <2>2
  <1> QED BY <1>3, <1>9 DEF CopiesPast

LEMMA OwnedStep ==
    ASSUME IInv, [Next]_vars PROVE UpdatesOwned'
  <1>0. TypeOK /\ UpdatesOwned
    BY DEF IInv
  <1> SUFFICES ASSUME NEW c \in Controllers, step'[c] = "update"
               PROVE  copy'[c].there /\ copy'[c].owned
    BY DEF UpdatesOwned
  <1>1. CASE Get(c)
    <2>1. copy'[c] = cache[c] /\ step'[c] = NextCall(cache[c])
      BY <1>0, <1>1 DEF Get, Goto, TypeOK
    <2> QED BY <2>1 DEF NextCall
  <1>2. CASE ~Get(c)
    <2>1. step[c] = "update" /\ copy'[c] = copy[c]
      BY <1>0, <1>2
      DEF Next, EnsureBase, Get, Create, Update, CallFails, Deliver, Start,
          Upgrade, PatchStatus, Fork, Delete, Write, vars, TypeOK, Goto
    <2> QED BY <1>0, <2>1 DEF UpdatesOwned
  <1> QED BY <1>1, <1>2

LEMMA RolledOutStep ==
    ASSUME IInv, [Next]_vars PROVE VersionsRolledOut'
  <1>0. TypeOK /\ VersionsRolledOut
    BY DEF IInv
  <1>1. ASSUME NEW c \in Controllers, Start(c) PROVE VersionsRolledOut'
    BY <1>0, <1>1 DEF Start, TypeOK, VersionsRolledOut
  <1>2. CASE Upgrade
    BY <1>0, <1>2 DEF Upgrade, TypeOK, VersionsRolledOut
  <1>3. CASE UNCHANGED <<version, rollout>>
    BY <1>0, <1>3 DEF VersionsRolledOut
  <1> QED
    BY <1>1, <1>2, <1>3
    DEF Next, EnsureBase, Get, Create, Update, CallFails, Deliver,
        PatchStatus, Fork, Delete, Write, vars

-----------------------------------------------------------------------------
(* A carrier of an old version is noticed.                                  *)

\* Who writes an old version is old.
LEMMA WriterIsBehind ==
    ASSUME IInv, NEW c \in Controllers, Create(c) \/ Update(c)
    PROVE  StaleIsNoticed'
  <1>0. TypeOK
    BY DEF IInv
  <1>1. cr'.spec = version[c]
    <2>1. CASE Create(c)
      BY <2>1 DEF Create, Desired
    <2>2. CASE Update(c)
      BY <2>2, <1>0, UpdateStores, CurrentCopy
    <2> QED BY <2>1, <2>2
  <1>2. UNCHANGED <<version, rollout>>
    BY DEF Create, Update
  <1> QED BY <1>1, <1>2 DEF StaleIsNoticed, Stale, Behind

\* A step that leaves the carrier and the rollout alone leaves who is behind
\* behind, as long as whoever has read a stale carrier goes on to write it.
LEMMA NoticedStill ==
    ASSUME IInv, UNCHANGED <<cr, rollout>>,
           Stale => \A c \in Controllers : Behind(c) => Behind(c)'
    PROVE  StaleIsNoticed'
  BY DEF IInv, StaleIsNoticed, Stale

LEMMA NoticedStep ==
    ASSUME IInv, [Next]_vars PROVE StaleIsNoticed'
  <1>0. TypeOK
    BY DEF IInv
  <1>1. ASSUME NEW c \in Controllers, Get(c) PROVE StaleIsNoticed'
    <2>1. ASSUME NEW x \in Controllers, Behind(x) PROVE Behind(x)'
      BY <1>0, <1>1, <2>1 DEF Get, Goto, NextCall, Behind, TypeOK
    <2> QED BY <1>1, <2>1, NoticedStill DEF Get
  <1>2. ASSUME NEW c \in Controllers, CallFails(c) PROVE StaleIsNoticed'
    <2>1. ASSUME NEW x \in Controllers, Behind(x) PROVE Behind(x)'
      BY <1>0, <1>2, <2>1 DEF CallFails, Goto, Behind, TypeOK
    <2> QED BY <1>2, <2>1, NoticedStill DEF CallFails
  <1>3. ASSUME NEW c \in Controllers, Deliver(c) PROVE StaleIsNoticed'
    <2>1. ASSUME Stale, NEW x \in Controllers, Behind(x) PROVE Behind(x)'
      BY <1>0, <1>3, <2>1 DEF Deliver, Behind, Stale, TypeOK
    <2> QED BY <1>3, <2>1, NoticedStill DEF Deliver
  <1>4. ASSUME NEW c \in Controllers, Start(c) PROVE StaleIsNoticed'
    <2>1. step'[c] = "get" /\ cache'[c] = cr /\ UNCHANGED <<cr, rollout>>
      BY <1>0, <1>4 DEF Start, Goto, TypeOK
    <2> QED BY <2>1 DEF StaleIsNoticed, Stale, Behind
  <1>5. CASE Upgrade
    <2>1. PICK c \in Controllers : TRUE
      BY ControllerAssumption
    <2>2. version'[c] # rollout'
      <3>1. version[c] \in Nat /\ rollout \in Nat /\ version[c] <= rollout
        BY <1>0 DEF IInv, VersionsRolledOut, TypeOK
      <3> QED BY <1>5, <3>1 DEF Upgrade
    <2> QED BY <2>2 DEF StaleIsNoticed, Behind
  <1>6. CASE PatchStatus
    <2>1. cr \in CR
      BY <1>0 DEF TypeOK
    <2>2. /\ cr'.there = cr.there /\ cr'.owned = cr.owned /\ cr'.spec = cr.spec
          /\ UNCHANGED <<rollout, version, cache, step, copy>>
      BY <1>0, <1>6, <2>1, WriteStores DEF PatchStatus
    <2> QED BY <2>2 DEF IInv, StaleIsNoticed, Stale, Behind
  <1>7. CASE Fork
    BY <1>0, <1>7, ForkStores DEF StaleIsNoticed, Stale
  <1>8. CASE Delete
    BY <1>0, <1>8, WriteStores, AbsentType
    DEF Delete, StaleIsNoticed, Stale, Absent
  <1>9. CASE UNCHANGED vars
    BY <1>9 DEF IInv, StaleIsNoticed, Stale, Behind, vars
  <1> QED
    BY <1>1, <1>2, <1>3, <1>4, <1>5, <1>6, <1>7, <1>8, <1>9, WriterIsBehind
    DEF Next, EnsureBase

LEMMA StepIInv == IInv /\ [Next]_vars => IInv'
  BY StepTyped, PastStep, OwnedStep, RolledOutStep, NoticedStep DEF IInv

LEMMA Invariance == Spec => []IInv
  BY InitIInv, StepIInv, PTL DEF Spec

-----------------------------------------------------------------------------
(* The theorems.                                                            *)

\* However old the copy an Update is made from, an operator's fork is never
\* overwritten nor taken back.
THEOREM ForksKept == Spec => ForkKept
  <1> DEFINE Kept == cr.there /\ ~cr.owned =>
                       ~cr'.there \/ (~cr'.owned /\ cr'.spec = cr.spec)
  <1>1. ASSUME IInv, [Next]_vars PROVE Kept
    <2> SUFFICES ASSUME cr.there, ~cr.owned
                 PROVE  ~cr'.there \/ (~cr'.owned /\ cr'.spec = cr.spec)
      OBVIOUS
    <2>0. TypeOK /\ cr \in CR
      BY <1>1 DEF IInv, TypeOK
    <2>1. CASE \E c \in Controllers : Update(c)
      BY <1>1, <2>1, CurrentCopy
    <2>2. CASE \E c \in Controllers : Create(c)
      BY <2>2 DEF Create
    <2>3. CASE PatchStatus
      BY <2>0, <2>3, WriteStores DEF PatchStatus
    <2>4. CASE Fork
      BY <2>4 DEF Fork
    <2>5. CASE Delete
      BY <2>0, <2>5, WriteStores, AbsentType DEF Delete, Absent
    <2>6. CASE UNCHANGED cr
      BY <2>6
    <2> QED
      BY <1>1, <2>1, <2>2, <2>3, <2>4, <2>5, <2>6
      DEF Next, EnsureBase, Get, CallFails, Deliver, Start, Upgrade, vars
  <1>2. Kept => [Kept]_vars
    OBVIOUS
  <1> HIDE DEF Kept
  <1>3. IInv /\ [Next]_vars => [Kept]_vars
    BY <1>1, <1>2
  <1>4. Spec => [][Kept]_vars
    BY <1>3, Invariance, PTL DEF Spec
  <1> QED BY <1>4 DEF Kept, ForkKept

\* Once all controllers run the new version and each went through with its
\* last EnsureBase, an owned carrier is the new one.
THEOREM RolloutsPropagate == Spec => []RolloutPropagates
  <1>1. IInv => RolloutPropagates
    BY DEF IInv, StaleIsNoticed, Stale, Behind, RolloutPropagates
  <1> QED BY <1>1, Invariance, PTL
=============================================================================
