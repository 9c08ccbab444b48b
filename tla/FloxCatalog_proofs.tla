------------------------- MODULE FloxCatalog_proofs -------------------------
(* Theorems about FloxCatalog, for any sources, catalogs, envs and bounds.  *)
EXTENDS FloxCatalog, TLAPS

-----------------------------------------------------------------------------
(* The operators on status copies.                                          *)

LEMMA BlankTypes ==
    NoRev \in Revision /\ NoEnv \in Env /\ NoStatus \in Status /\ NoWork \in Work
<1>1. NoRev \in Revision
  BY DEF NoRev, Revision
<1>2. NoEnv \in Env /\ NoStatus \in Status
  BY <1>1 DEF NoEnv, Env, Phases, NoStatus, Status
<1> QED
  BY <1>1, <1>2 DEF NoWork, Work

\* A patch takes each field of the status from one side.
LEMMA MergePatchFields ==
    ASSUME NEW srv \in Status, NEW base \in Status, NEW new \in Status
    PROVE  LET merged == MergePatch(srv, base, new)
           IN  /\ merged \in Status
               /\ merged.rev = IF new.rev = base.rev THEN srv.rev ELSE new.rev
<1> DEFINE merged == MergePatch(srv, base, new)
<1>1. DOMAIN srv = {"rev", "plan", "ready"}
  BY DEF Status
<1>2. merged = [f \in {"rev", "plan", "ready"} |->
                   IF new[f] = base[f] THEN srv[f] ELSE new[f]]
  BY <1>1 DEF MergePatch
<1>3. /\ merged["rev"] = IF new.rev = base.rev THEN srv.rev ELSE new.rev
      /\ merged["plan"] = IF new.plan = base.plan THEN srv.plan ELSE new.plan
      /\ merged["ready"] = IF new["ready"] = base["ready"] THEN srv["ready"]
                                                           ELSE new["ready"]
  BY <1>2
<1> HIDE DEF merged
<1>4. merged \in [rev : Revision, plan : [Envs -> Phases], ready : BOOLEAN]
  BY <1>2, <1>3 DEF Status
<1> QED
  BY <1>3, <1>4 DEF Status, merged

\* notReady touches the condition only.
LEMMA NotReadyFields ==
    ASSUME NEW old \in Status
    PROVE  /\ [old EXCEPT !.ready = FALSE] \in Status
           /\ [old EXCEPT !.ready = FALSE].rev = old.rev
<1>1. [old EXCEPT !.ready = FALSE] \in
          [rev : Revision, plan : [Envs -> Phases], ready : BOOLEAN]
  BY DEF Status
<1> QED
  BY <1>1 DEF Status

\* A write to an env changes one field.
LEMMA EnvFields ==
    ASSUME NEW old \in Env
    PROVE  /\ \A phase \in Phases : [old EXCEPT !.phase = phase] \in Env
           /\ \A rev \in Revision : [old EXCEPT !.ann = rev] \in Env
BY DEF Env

-----------------------------------------------------------------------------
(* Type correctness.                                                        *)

LEMMA TypeInit == Init => TypeOK
BY BlankTypes DEF Init, TypeOK, NoEnv, Env, Phases

LEMMA WriteEnvType ==
    ASSUME TypeOK, NEW e \in Envs, NEW new \in Env, WriteEnv(e, new)
    PROVE  /\ env' \in [Envs -> Env]
           /\ inbox' \in [Managers -> [Envs -> Seq(Env)]]
<1>1. env \in [Envs -> Env] /\ inbox \in [Managers -> [Envs -> Seq(Env)]]
  BY DEF TypeOK
<1>2. CASE new = env[e]
  BY <1>1, <1>2 DEF WriteEnv
<1>3. CASE new # env[e]
  <2>1. ASSUME NEW m \in Managers
        PROVE  [inbox[m] EXCEPT ![e] = Append(@, new)] \in [Envs -> Seq(Env)]
    <3>1. inbox[m] \in [Envs -> Seq(Env)] /\ inbox[m][e] \in Seq(Env)
      BY <1>1
    <3>2. Append(inbox[m][e], new) \in Seq(Env)
      BY <3>1
    <3> QED
      BY <3>1, <3>2
  <2>2. inbox' = [m \in Managers |-> [inbox[m] EXCEPT ![e] = Append(@, new)]]
    BY <1>3 DEF WriteEnv
  <2>3. inbox' \in [Managers -> [Envs -> Seq(Env)]]
    BY <2>1, <2>2
  <2> QED
    BY <1>1, <2>3 DEF WriteEnv
<1> QED
  BY <1>2, <1>3

LEMMA ReturnType ==
    ASSUME TypeOK, NEW m \in Managers
    PROVE  /\ Return(m) => work' \in [Managers -> Work]
           /\ \A c \in Catalogs : ReturnError(m, c) =>
                 /\ work' \in [Managers -> Work]
                 /\ delayed' \in [Managers -> SUBSET Catalogs]
<1>1. work \in [Managers -> Work] /\ delayed \in [Managers -> SUBSET Catalogs]
  BY DEF TypeOK
<1>2. Return(m) => work' \in [Managers -> Work]
  BY <1>1, BlankTypes DEF Return
<1> QED
  BY <1>1, <1>2 DEF ReturnError

LEMMA TypeSurroundings ==
    ASSUME TypeOK,
           \/ \E s \in Sources : NewArtifact(s)
           \/ \E e \in Envs : CreateEnv(e) \/ Agents(e)
           \/ \E m \in Managers :
                 \/ \E s \in Sources : DeliverSource(m, s)
                 \/ \E c \in Catalogs : DeliverCatalog(m, c) \/ FireDelayed(m, c)
                 \/ \E e \in Envs : DeliverEnv(m, e)
                 \/ Crash(m)
    PROVE  TypeOK'
<1>1. ASSUME NEW s \in Sources, NewArtifact(s) PROVE TypeOK'
  BY <1>1 DEF NewArtifact, mvars, TypeOK
<1>2. ASSUME NEW e \in Envs, CreateEnv(e) PROVE TypeOK'
  <2>1. [env[e] EXCEPT !.phase = "None"] \in Env
    BY EnvFields DEF TypeOK, Phases
  <2>2. env' \in [Envs -> Env] /\ inbox' \in [Managers -> [Envs -> Seq(Env)]]
    BY <1>2, <2>1, WriteEnvType DEF CreateEnv
  <2> QED
    BY <1>2, <2>2 DEF CreateEnv, TypeOK
<1>3. ASSUME NEW e \in Envs, StartRealize(e) PROVE TypeOK'
  <2>1. /\ [env[e] EXCEPT !.phase = "Realizing"] \in Env
        /\ env[e].ann \in Revision
    <3>1. env[e] \in Env /\ "Realizing" \in Phases
      BY DEF TypeOK, Phases
    <3> QED
      BY <3>1, EnvFields DEF Env
  <2>2. env' \in [Envs -> Env] /\ inbox' \in [Managers -> [Envs -> Seq(Env)]]
    BY <1>3, <2>1, WriteEnvType DEF StartRealize
  <2> QED
    BY <1>3, <2>1, <2>2 DEF StartRealize, TypeOK
<1>4. ASSUME NEW e \in Envs, FinishRealize(e) PROVE TypeOK'
  <2>1. [env[e] EXCEPT !.phase = "Realized"] \in Env
    BY EnvFields DEF TypeOK, Phases
  <2>2. env' \in [Envs -> Env] /\ inbox' \in [Managers -> [Envs -> Seq(Env)]]
    BY <1>4, <2>1, WriteEnvType DEF FinishRealize
  <2> QED
    BY <1>4, <2>2 DEF FinishRealize, TypeOK
<1>5. ASSUME NEW m \in Managers, NEW s \in Sources, DeliverSource(m, s)
      PROVE  TypeOK'
  BY <1>5 DEF DeliverSource, CatalogsForSource, evars, TypeOK
<1>6. ASSUME NEW m \in Managers, NEW c \in Catalogs,
             DeliverCatalog(m, c) \/ FireDelayed(m, c)
      PROVE  TypeOK'
  <2>1. CASE DeliverCatalog(m, c)
    BY <2>1 DEF DeliverCatalog, evars, TypeOK
  <2>2. CASE FireDelayed(m, c)
    BY <2>2 DEF FireDelayed, evars, TypeOK
  <2> QED
    BY <1>6, <2>1, <2>2
<1>7. ASSUME NEW m \in Managers, NEW e \in Envs, DeliverEnv(m, e) PROVE TypeOK'
  <2>1. inbox[m][e] \in Seq(Env) /\ inbox[m][e] # <<>>
    BY <1>7 DEF DeliverEnv, TypeOK
  <2>2. Head(inbox[m][e]) \in Env /\ Tail(inbox[m][e]) \in Seq(Env)
    BY <2>1
  <2> QED
    BY <1>7, <2>2 DEF DeliverEnv, evars, TypeOK
<1>8. ASSUME NEW m \in Managers, Crash(m) PROVE TypeOK'
  <2>1. [e \in Envs |-> <<>>] \in [Envs -> Seq(Env)]
    OBVIOUS
  <2> QED
    BY <1>8, <2>1, BlankTypes DEF Crash, Fault, evars, TypeOK
<1> QED
  BY <1>1, <1>2, <1>3, <1>4, <1>5, <1>6, <1>7, <1>8 DEF Agents


\* A worker at work is on one of the catalogs.
WorkNamed == \A m \in Managers : work[m].step # "idle" => work[m].cat \in Catalogs

LEMMA TypeReconcile ==
    ASSUME TypeOK, WorkNamed, NEW m \in Managers, Reconcile(m) \/ CallFails(m)
    PROVE  TypeOK'
<1> DEFINE w == work[m]
<1>1. /\ w \in Work
      /\ w.base \in Status /\ w.new \in Status /\ w.new.rev \in Revision
      /\ w.step # "idle" => w.cat \in Catalogs
  BY DEF TypeOK, WorkNamed, Work, Status
<1>2. ASSUME NEW c \in Catalogs, NotReady(m, c) PROVE TypeOK'
  <2>1. /\ ccache[m][c] \in Status
        /\ [ccache[m][c] EXCEPT !.ready = FALSE] \in Status
        /\ status[c] \in Status
    BY NotReadyFields DEF TypeOK
  <2>2. status' \in [Catalogs -> Status]
    <3>1. MergePatch(status[c], ccache[m][c],
                     [ccache[m][c] EXCEPT !.ready = FALSE]) \in Status
      BY <2>1, MergePatchFields
    <3> QED
      BY <1>2, <3>1 DEF NotReady, TypeOK
  <2>3. faults' \in Nat
    BY <1>2 DEF NotReady, Fault, TypeOK
  <2>4. /\ work' \in [Managers -> Work]
        /\ delayed' \in [Managers -> SUBSET Catalogs]
    BY <1>2, ReturnType DEF NotReady
  <2>5. queue' \in [Managers -> SUBSET Catalogs]
    BY <1>2 DEF NotReady, Takes, TypeOK
  <2> QED
    BY <1>2, <2>2, <2>3, <2>4, <2>5 DEF NotReady, evars, TypeOK
<1>3. ASSUME NEW c \in Catalogs, Resolve(m, c) PROVE TypeOK'
  <2> DEFINE new == [rev |-> Resolved(m, c), plan |-> Rollup(m), ready |-> TRUE]
  <2>1. Resolved(m, c) \in Revision
    BY SourceAssumption DEF Resolved, Revision, TypeOK
  <2>2. Rollup(m) \in [Envs -> Phases]
    BY DEF Rollup, TypeOK, Env
  <2>3. new \in Status /\ ccache[m][c] \in Status
    BY <2>1, <2>2 DEF TypeOK, Status
  <2>4. [cat |-> c, step |-> "patch", base |-> ccache[m][c], new |-> new,
         todo |-> {}] \in Work
    BY <2>3 DEF Work
  <2>5. work' \in [Managers -> Work]
    BY <1>3, <2>4 DEF Resolve, TypeOK
  <2>6. queue' \in [Managers -> SUBSET Catalogs]
    BY <1>3 DEF Resolve, Takes, TypeOK
  <2> QED
    BY <1>3, <2>5, <2>6 DEF Resolve, evars, TypeOK
<1>4. CASE PatchStatus(m)
  <2>1. w.step = "patch" /\ status[w.cat] \in Status
    BY <1>1, <1>4 DEF PatchStatus, TypeOK
  <2>2. status' \in [Catalogs -> Status]
    BY <1>1, <1>4, <2>1, MergePatchFields DEF PatchStatus, TypeOK
  <2>3. work' \in [Managers -> Work]
    BY <1>1, <1>4 DEF PatchStatus, Work, TypeOK
  <2> QED
    BY <1>4, <2>2, <2>3 DEF PatchStatus, evars, mvars, TypeOK
<1>5. CASE ListEnvs(m)
  <2>1. Unstamped(m) \in SUBSET Envs
    BY DEF Unstamped
  <2>2. work' \in [Managers -> Work]
    BY <1>1, <1>5, <2>1 DEF ListEnvs, Work, TypeOK
  <2> QED
    BY <1>5, <2>2 DEF ListEnvs, evars, mvars, TypeOK
<1>6. ASSUME NEW e \in Envs, StampEnv(m, e) PROVE TypeOK'
  <2>1. [env[e] EXCEPT !.ann = w.new.rev] \in Env
    BY <1>1, EnvFields DEF TypeOK
  <2>2. env' \in [Envs -> Env] /\ inbox' \in [Managers -> [Envs -> Seq(Env)]]
    BY <1>6, <2>1, WriteEnvType DEF StampEnv
  <2>3. work' \in [Managers -> Work]
    BY <1>1, <1>6 DEF StampEnv, Work, TypeOK
  <2> QED
    BY <1>6, <2>2, <2>3 DEF StampEnv, TypeOK
<1>7. CASE Finish(m)
  BY <1>7, ReturnType DEF Finish, evars, mvars, TypeOK
<1>8. CASE CallFails(m)
  <2>1. w.cat \in Catalogs
    BY <1>1, <1>8 DEF CallFails
  <2>2. /\ work' \in [Managers -> Work]
        /\ delayed' \in [Managers -> SUBSET Catalogs]
    BY <1>8, <2>1, ReturnType DEF CallFails
  <2> QED
    BY <1>8, <2>2 DEF CallFails, Fault, evars, TypeOK
<1> QED
  BY <1>2, <1>3, <1>4, <1>5, <1>6, <1>7, <1>8 DEF Reconcile

LEMMA NamedStep == TypeOK /\ WorkNamed /\ [Next]_vars => WorkNamed'
<1> SUFFICES ASSUME TypeOK, WorkNamed, [Next]_vars PROVE WorkNamed'
  OBVIOUS
<1>1. work \in [Managers -> Work]
  BY DEF TypeOK
<1>2. CASE UNCHANGED work
  BY <1>2 DEF WorkNamed
<1>3. ASSUME NEW m \in Managers, Return(m) PROVE WorkNamed'
  BY <1>1, <1>3 DEF Return, NoWork, WorkNamed
<1>4. ASSUME NEW m \in Managers, Reconcile(m) \/ CallFails(m) \/ Crash(m)
      PROVE  WorkNamed'
  <2>1. ASSUME NEW c \in Catalogs, Resolve(m, c) PROVE WorkNamed'
    BY <1>1, <2>1 DEF Resolve, WorkNamed
  <2>2. ASSUME NEW c \in Catalogs, NotReady(m, c) PROVE WorkNamed'
    BY <1>3, <2>2 DEF NotReady, ReturnError
  <2>3. CASE PatchStatus(m)
    BY <1>1, <2>3 DEF PatchStatus, WorkNamed, Work
  <2>4. CASE ListEnvs(m)
    BY <1>1, <2>4 DEF ListEnvs, WorkNamed, Work
  <2>5. ASSUME NEW e \in Envs, StampEnv(m, e) PROVE WorkNamed'
    BY <1>1, <2>5 DEF StampEnv, WorkNamed, Work
  <2>6. CASE Finish(m) \/ CallFails(m) \/ Crash(m)
    BY <1>3, <2>6 DEF Finish, CallFails, ReturnError, Crash, Return
  <2> QED
    BY <1>4, <2>1, <2>2, <2>3, <2>4, <2>5, <2>6 DEF Reconcile
<1> QED
  BY <1>2, <1>4 DEF Next, vars, NewArtifact, CreateEnv, Agents, StartRealize,
     FinishRealize, DeliverSource, DeliverCatalog, FireDelayed, DeliverEnv

LEMMA TypeStep == TypeOK /\ WorkNamed /\ [Next]_vars => TypeOK'
<1>1. TypeOK /\ UNCHANGED vars => TypeOK'
  BY DEF TypeOK, vars, evars, mvars
<1> QED
  BY <1>1, TypeSurroundings, TypeReconcile DEF Next

LEMMA NamedInit == Init => WorkNamed
BY DEF Init, WorkNamed, NoWork

\* For any sources, catalogs, envs and redundant reconcilers, every variable
\* keeps its type: a status is written by patches, and stays whole.
THEOREM TypeCorrect == Spec => []TypeOK
<1> QED
  BY TypeInit, NamedInit, TypeStep, NamedStep, PTL DEF Spec
-----------------------------------------------------------------------------
(* Tokens and what they announce.                                           *)
(*                                                                          *)
(* The status is patched as a difference to a cached copy, so that the copy *)
(* is not ahead of the status, and the status not ahead of the revision     *)
(* being published, is what makes the patch land.  Both need that nobody    *)
(* else publishes: with a second reconciler and an older source copy the    *)
(* status goes back under a token (Catalog_v_behind.cfg).                   *)

Points(rev) == \E c \in Catalogs : SourceOf[c] = rev.of /\ status[c].rev.n >= rev.n

Publishing(m) ==
    LET w == work[m] IN
    /\ w.step # "idle" => w.new.rev.of = SourceOf[w.cat]
    /\ w.step = "patch" =>
          /\ w.base.rev.n <= status[w.cat].rev.n
          /\ status[w.cat].rev.n <= w.new.rev.n
          /\ w.new.rev.n <= scache[m][SourceOf[w.cat]]
    /\ w.step \in {"list", "stamp"} => w.new.rev.n <= status[w.cat].rev.n

Copies(m) ==
    /\ \A s \in Sources : scache[m][s] <= src[s]
    /\ \A c \in Catalogs :
          /\ status[c].rev.n <= scache[m][SourceOf[c]]
          /\ ccache[m][c].rev.n <= status[c].rev.n

StampInv ==
    /\ TypeOK /\ WorkNamed
    /\ \A m \in Managers : Copies(m) /\ Publishing(m)
    /\ \A e \in Envs : env[e].ann # NoRev => Points(env[e].ann)

LEMMA Numbers ==
    ASSUME TypeOK, NEW m \in Managers
    PROVE  /\ \A s \in Sources : src[s] \in Nat /\ scache[m][s] \in Nat
           /\ \A c \in Catalogs : /\ SourceOf[c] \in Sources
                                  /\ status[c].rev.n \in Nat
                                  /\ ccache[m][c].rev.n \in Nat
           /\ work[m].base.rev.n \in Nat /\ work[m].new.rev.n \in Nat
BY SourceAssumption DEF TypeOK, Status, Revision, Work

\* The worker's patch lands: what it publishes is there afterwards.
LEMMA PatchLands ==
    ASSUME StampInv, NEW m \in Managers, PatchStatus(m)
    PROVE  LET w == work[m] IN
           /\ w.cat \in Catalogs
           /\ \A c \in Catalogs : c # w.cat => status'[c] = status[c]
           /\ status[w.cat].rev.n <= status'[w.cat].rev.n
           /\ w.new.rev.n <= status'[w.cat].rev.n
           /\ status'[w.cat].rev.n <= scache[m][SourceOf[w.cat]]
<1> DEFINE w == work[m]
<1>1. /\ w.step = "patch"
      /\ w.cat \in Catalogs
      /\ status \in [Catalogs -> Status]
      /\ w.base \in Status /\ w.new \in Status
  BY DEF PatchStatus, StampInv, WorkNamed, TypeOK, Work
<1>2. status' = [status EXCEPT ![w.cat] = MergePatch(@, w.base, w.new)]
  BY DEF PatchStatus
<1>3. status'[w.cat].rev = IF w.new.rev = w.base.rev THEN status[w.cat].rev
                                                     ELSE w.new.rev
  BY <1>1, <1>2, MergePatchFields
<1>4. /\ w.base.rev.n <= status[w.cat].rev.n
      /\ status[w.cat].rev.n <= w.new.rev.n
      /\ w.new.rev.n <= scache[m][SourceOf[w.cat]]
      /\ status[w.cat].rev.n <= scache[m][SourceOf[w.cat]]
  BY <1>1 DEF StampInv, Publishing, Copies
<1>5. /\ status[w.cat].rev.n \in Nat /\ w.base.rev.n \in Nat /\ w.new.rev.n \in Nat
  BY <1>1, Numbers DEF StampInv
<1> QED
  BY <1>1, <1>2, <1>3, <1>4, <1>5

\* Otherwise the revision in a status stays.
LEMMA StatusMoves ==
    ASSUME TypeOK, [Next]_vars
    PROVE  \/ \A c \in Catalogs : status'[c].rev = status[c].rev
           \/ \E m \in Managers : PatchStatus(m)
<1>1. ASSUME NEW m \in Managers, NEW c \in Catalogs, NotReady(m, c)
      PROVE  \A d \in Catalogs : status'[d].rev = status[d].rev
  <2>1. /\ ccache[m][c] \in Status /\ status[c] \in Status
        /\ status \in [Catalogs -> Status]
    BY DEF TypeOK
  <2> DEFINE new == [ccache[m][c] EXCEPT !.ready = FALSE]
  <2>2. new \in Status /\ new.rev = ccache[m][c].rev
    BY <2>1, NotReadyFields
  <2>3. \/ status' = [status EXCEPT ![c] = MergePatch(@, ccache[m][c], new)]
        \/ UNCHANGED status
    BY <1>1 DEF NotReady
  <2> HIDE DEF new
  <2>4. MergePatch(status[c], ccache[m][c], new).rev = status[c].rev
    BY <2>1, <2>2, MergePatchFields
  <2> QED
    BY <2>1, <2>3, <2>4
<1>2. ASSUME NEW m \in Managers, Reconcile(m) \/ CallFails(m)
      PROVE  \/ \A c \in Catalogs : status'[c].rev = status[c].rev
             \/ PatchStatus(m)
  BY <1>1, <1>2 DEF Reconcile, Resolve, ListEnvs, StampEnv, Finish, CallFails
<1> QED
  BY <1>2 DEF Next, vars, NewArtifact, CreateEnv, Agents, StartRealize,
     FinishRealize, DeliverSource, DeliverCatalog, FireDelayed, DeliverEnv, Crash

LEMMA StatusUp ==
    ASSUME StampInv, [Next]_vars, NEW c \in Catalogs
    PROVE  status'[c].rev.n \in Nat /\ status[c].rev.n <= status'[c].rev.n
<1>1. TypeOK /\ TypeOK'
  BY TypeStep DEF StampInv
<1>2. status[c].rev.n \in Nat /\ status'[c].rev.n \in Nat
  BY <1>1 DEF TypeOK, Status, Revision
<1>3. ASSUME NEW m \in Managers, PatchStatus(m)
      PROVE  status[c].rev.n <= status'[c].rev.n
  BY <1>2, <1>3, PatchLands
<1> QED
  BY <1>1, <1>2, <1>3, StatusMoves

\* An annotation is kept, or comes from a worker that has published it.
LEMMA AnnotationMoves ==
    ASSUME TypeOK, [Next]_vars, NEW e \in Envs
    PROVE  \/ env'[e].ann = env[e].ann
           \/ \E m \in Managers : /\ work[m].step = "stamp"
                                  /\ env'[e].ann = work[m].new.rev
<1> DEFINE Kept == env'[e].ann = env[e].ann
<1>1. env \in [Envs -> Env]
  BY DEF TypeOK
<1>2. ASSUME NEW f \in Envs, CreateEnv(f) \/ Agents(f) PROVE Kept
  <2>1. PICK phase \in Phases : env' = [env EXCEPT ![f] = [env[f] EXCEPT !.phase = phase]]
    BY <1>2 DEF CreateEnv, Agents, StartRealize, FinishRealize, WriteEnv, Phases
  <2> QED
    BY <1>1, <2>1 DEF Env
<1>3. ASSUME NEW m \in Managers, NEW f \in Envs, StampEnv(m, f)
      PROVE  Kept \/ (work[m].step = "stamp" /\ env'[e].ann = work[m].new.rev)
  <2>1. env' = [env EXCEPT ![f] = [env[f] EXCEPT !.ann = work[m].new.rev]]
    BY <1>3 DEF StampEnv, WriteEnv
  <2>2. work[m].step = "stamp"
    BY <1>3 DEF StampEnv
  <2> QED
    BY <1>1, <2>1, <2>2 DEF Env
<1>4. UNCHANGED env => Kept
  OBVIOUS
<1>5. ASSUME NEW m \in Managers, Reconcile(m) \/ CallFails(m)
      PROVE  UNCHANGED env \/ \E f \in Envs : StampEnv(m, f)
  BY <1>5 DEF Reconcile, NotReady, Resolve, PatchStatus, ListEnvs, Finish,
              CallFails, evars
<1> QED
  BY <1>2, <1>3, <1>4, <1>5 DEF Next, vars, evars, NewArtifact, DeliverSource,
     DeliverCatalog, FireDelayed, DeliverEnv, Crash

\* Nobody else publishes: the worker's figures stay in line.
LEMMA FiguresStep ==
    ASSUME StampInv, [Next]_vars, NEW m, Managers = {m}
    PROVE  (Copies(m) /\ Publishing(m))'
<1> DEFINE w == work[m]
           Goal == (Copies(m) /\ Publishing(m))'
<1>1. TypeOK /\ WorkNamed /\ Copies(m) /\ Publishing(m) /\ m \in Managers
  BY DEF StampInv
<1>2. /\ src \in [Sources -> Nat]
      /\ scache \in [Managers -> [Sources -> Nat]]
      /\ ccache \in [Managers -> [Catalogs -> Status]]
      /\ work \in [Managers -> Work] /\ w \in Work
      /\ w.step # "idle" => w.cat \in Catalogs
  BY <1>1 DEF TypeOK, WorkNamed
<1>3. /\ \A s \in Sources : src[s] \in Nat /\ scache[m][s] \in Nat
      /\ \A c \in Catalogs : /\ SourceOf[c] \in Sources
                             /\ status[c].rev.n \in Nat
                             /\ ccache[m][c].rev.n \in Nat
      /\ w.base.rev.n \in Nat /\ w.new.rev.n \in Nat
  BY <1>1, Numbers
<1> DEFINE Same == \A c \in Catalogs : status'[c].rev = status[c].rev
<1>4. ASSUME Same, UNCHANGED <<src, scache, ccache, work>> PROVE Goal
  BY <1>1, <1>2, <1>4 DEF Copies, Publishing
<1>5. ASSUME NEW s \in Sources, NewArtifact(s) PROVE Goal
  BY <1>1, <1>2, <1>3, <1>5 DEF NewArtifact, mvars, Copies, Publishing
<1>6. ASSUME NEW s \in Sources, DeliverSource(m, s) PROVE Goal
  <2>1. /\ UNCHANGED <<src, status, ccache, work>>
        /\ scache' = [scache EXCEPT ![m][s] = src[s]]
    BY <1>6 DEF DeliverSource, evars
  <2>2. \A t \in Sources : /\ scache[m][t] <= scache'[m][t]
                           /\ scache'[m][t] \in Nat
                           /\ scache'[m][t] <= src[t]
    BY <1>1, <1>2, <1>3, <2>1 DEF Copies
  <2>3. Copies(m)'
    BY <1>1, <1>3, <2>1, <2>2 DEF Copies
  <2>4. Publishing(m)'
    BY <1>1, <1>2, <1>3, <2>1, <2>2 DEF Publishing
  <2> QED
    BY <2>3, <2>4
<1>7. ASSUME NEW c \in Catalogs, DeliverCatalog(m, c) PROVE Goal
  <2>1. /\ UNCHANGED <<src, status, scache, work>>
        /\ ccache' = [ccache EXCEPT ![m][c] = status[c]]
    BY <1>7 DEF DeliverCatalog, evars
  <2> QED
    BY <1>1, <1>2, <1>3, <2>1 DEF Copies, Publishing
<1>8. ASSUME Crash(m) PROVE Goal
  <2>1. /\ UNCHANGED <<src, status>> /\ work'[m] = NoWork
        /\ scache'[m] = src /\ ccache'[m] = status
    BY <1>1, <1>2, <1>8 DEF Crash, evars
  <2>2. \A c \in Catalogs : status[c].rev.n <= src[SourceOf[c]]
    BY <1>1, <1>3 DEF Copies
  <2> QED
    BY <1>3, <2>1, <2>2 DEF Copies, Publishing, NoWork
<1>9. ASSUME Same, UNCHANGED <<src, scache, ccache>>, work'[m] = NoWork
      PROVE  Goal
  BY <1>1, <1>9 DEF Copies, Publishing, NoWork
<1>10. ASSUME NEW c \in Catalogs, Resolve(m, c) PROVE Goal
  <2>1. /\ UNCHANGED <<src, status, scache, ccache>>
        /\ work'[m].cat = c /\ work'[m].step = "patch"
        /\ work'[m].base = ccache[m][c]
        /\ work'[m].new.rev = [of |-> SourceOf[c], n |-> scache[m][SourceOf[c]]]
    BY <1>2, <1>10 DEF Resolve, evars, Resolved
  <2> QED
    BY <1>1, <1>3, <2>1 DEF Copies, Publishing
<1>11. ASSUME PatchStatus(m) PROVE Goal
  <2>1. /\ UNCHANGED <<src, scache, ccache>> /\ w.step = "patch"
        /\ work'[m].step = "list" /\ work'[m].cat = w.cat /\ work'[m].new = w.new
    BY <1>2, <1>11 DEF PatchStatus, evars, mvars, Work
  <2>2. \A c \in Catalogs : /\ status[c].rev.n <= status'[c].rev.n
                            /\ status'[c].rev.n \in Nat
    BY StatusUp
  <2>3. \A c \in Catalogs : status'[c].rev.n <= scache[m][SourceOf[c]]
    BY <1>1, <1>11, PatchLands DEF Copies
  <2>4. w.new.rev.n <= status'[w.cat].rev.n /\ w.cat \in Catalogs
    BY <1>1, <1>11, PatchLands
  <2>5. Copies(m)'
    BY <1>1, <1>3, <2>1, <2>2, <2>3 DEF Copies
  <2>6. Publishing(m)'
    BY <1>1, <2>1, <2>4 DEF Publishing
  <2> QED
    BY <2>5, <2>6
<1>12. ASSUME ListEnvs(m) \/ \E e \in Envs : StampEnv(m, e) PROVE Goal
  <2>1. /\ UNCHANGED <<src, status, scache, ccache>>
        /\ w.step \in {"list", "stamp"} /\ work'[m].step = "stamp"
        /\ work'[m].cat = w.cat /\ work'[m].new = w.new
    <3>1. CASE ListEnvs(m)
      BY <1>1, <1>2, <3>1 DEF ListEnvs, evars, mvars, Work
    <3>2. ASSUME NEW e \in Envs, StampEnv(m, e)
          PROVE  /\ UNCHANGED <<src, status, scache, ccache>>
                 /\ w.step = "stamp" /\ work'[m].step = "stamp"
                 /\ work'[m].cat = w.cat /\ work'[m].new = w.new
      BY <1>1, <1>2, <3>2 DEF StampEnv, Work
    <3> QED
      BY <1>12, <3>1, <3>2
  <2> QED
    BY <1>1, <2>1 DEF Copies, Publishing
<1> HIDE DEF Goal
<1>13. ASSUME Reconcile(m) \/ CallFails(m) PROVE Goal
  <2>1. ASSUME NEW c \in Catalogs, NotReady(m, c) PROVE Goal
    <3>1. Same
      BY <1>1, <1>2, <2>1, StatusMoves DEF NotReady, ReturnError, Return,
         PatchStatus, NoWork, Takes
    <3>2. UNCHANGED <<src, scache, ccache>> /\ work'[m] = NoWork
      BY <1>1, <1>2, <2>1 DEF NotReady, ReturnError, Return, evars
    <3> QED
      BY <1>9, <3>1, <3>2
  <2>2. ASSUME Finish(m) \/ CallFails(m) PROVE Goal
    <3>1. UNCHANGED <<src, status, scache, ccache>>
      BY <2>2 DEF Finish, CallFails, evars, mvars
    <3>2. work' = [work EXCEPT ![m] = NoWork]
      BY <2>2 DEF Finish, CallFails, ReturnError, Return
    <3>3. work'[m] = NoWork
      BY <1>1, <1>2, <3>2
    <3> QED
      BY <1>9, <3>1, <3>3
  <2> QED
    BY <1>10, <1>11, <1>12, <1>13, <2>1, <2>2 DEF Reconcile
<1>14. ASSUME NEW e \in Envs, CreateEnv(e) \/ Agents(e) PROVE Goal
  BY <1>4, <1>14 DEF CreateEnv, Agents, StartRealize, FinishRealize
<1>15. ASSUME \/ \E e \in Envs : DeliverEnv(m, e)
              \/ \E c \in Catalogs : FireDelayed(m, c)
       PROVE  Goal
  BY <1>4, <1>15 DEF DeliverEnv, FireDelayed, evars
<1>16. ASSUME UNCHANGED vars PROVE Goal
  BY <1>4, <1>16 DEF vars, evars, mvars
<1>17. Goal
  BY <1>5, <1>6, <1>7, <1>8, <1>13, <1>14, <1>15, <1>16 DEF Next
<1> QED
  BY <1>17 DEF Goal

LEMMA StampStep ==
    ASSUME NEW m, Managers = {m}
    PROVE  StampInv /\ [Next]_vars => StampInv'
<1> SUFFICES ASSUME StampInv, [Next]_vars PROVE StampInv'
  OBVIOUS
<1>1. TypeOK /\ WorkNamed /\ TypeOK' /\ WorkNamed'
  BY TypeStep, NamedStep DEF StampInv
<1>2. \A n \in Managers : (Copies(n) /\ Publishing(n))'
  BY FiguresStep
<1> DEFINE Later(rev) == \E c \in Catalogs : /\ SourceOf[c] = rev.of
                                              /\ status'[c].rev.n >= rev.n
<1>3. ASSUME NEW rev, rev.n \in Nat, Points(rev) PROVE Later(rev)
  <2>1. PICK c \in Catalogs : SourceOf[c] = rev.of /\ status[c].rev.n >= rev.n
    BY <1>3 DEF Points
  <2>2. /\ status[c].rev.n \in Nat /\ status'[c].rev.n \in Nat
        /\ status[c].rev.n <= status'[c].rev.n
    BY <1>1, Numbers, StatusUp
  <2> QED
    BY <1>3, <2>1, <2>2
<1>4. ASSUME NEW e \in Envs, env'[e].ann # NoRev PROVE Later(env'[e].ann)
  <2>1. CASE env'[e].ann = env[e].ann
    <3>1. env[e].ann.n \in Nat
      BY <1>1 DEF TypeOK, Env, Revision
    <3> QED
      BY <1>3, <1>4, <2>1, <3>1 DEF StampInv, Points
  <2>2. CASE /\ work[m].step = "stamp"
             /\ env'[e].ann = work[m].new.rev
    <3> DEFINE w == work[m]
    <3>1. /\ w.cat \in Catalogs /\ w.new.rev.of = SourceOf[w.cat]
          /\ w.new.rev.n <= status[w.cat].rev.n
      BY <1>1, <2>2 DEF StampInv, Publishing, WorkNamed
    <3>2. /\ w.new.rev.n \in Nat /\ status[w.cat].rev.n \in Nat
      BY <1>1, <3>1, Numbers
    <3>3. Points(w.new.rev)
      BY <3>1, <3>2 DEF Points
    <3> QED
      BY <1>3, <2>2, <3>2, <3>3 DEF Points
  <2> QED
    BY <1>1, <2>1, <2>2, AnnotationMoves
<1> QED
  BY <1>1, <1>2, <1>4 DEF StampInv, Points

LEMMA StampInit == Init => StampInv
<1> SUFFICES ASSUME Init PROVE StampInv
  OBVIOUS
<1>1. /\ \A s \in Sources : src[s] = 0
      /\ \A c \in Catalogs : status[c].rev.n = 0
      /\ \A m \in Managers : /\ scache[m] = src /\ ccache[m] = status
                             /\ work[m].step = "idle"
      /\ \A e \in Envs : env[e].ann = NoRev
  BY DEF Init, NoStatus, NoRev, NoWork, NoEnv
<1>2. \A c \in Catalogs : SourceOf[c] \in Sources
  BY SourceAssumption
<1>3. \A m \in Managers : Copies(m) /\ Publishing(m)
  <2>1. ASSUME NEW m \in Managers PROVE Copies(m)
    <3>1. \A s \in Sources : src[s] = 0 /\ scache[m][s] = 0
      BY <1>1
    <3>2. \A c \in Catalogs : status[c].rev.n = 0 /\ ccache[m][c].rev.n = 0
      BY <1>1
    <3> QED
      BY <1>2, <3>1, <3>2 DEF Copies
  <2>2. ASSUME NEW m \in Managers PROVE Publishing(m)
    BY <1>1 DEF Publishing
  <2> QED
    BY <2>1, <2>2
<1> QED
  BY <1>1, <1>3, TypeInit, NamedInit DEF StampInv

\* Where one agent reconciles the catalogs, an env is told to re-lock at a
\* revision only after a catalog's flakeRef points there, through failed and
\* repeated patches, old copies and crashes, with any number of catalogs.
THEOREM StampsFollow ==
    ASSUME NEW m, Managers = {m}
    PROVE  Spec => []StampFollowsStatus
<1>1. StampInv => StampFollowsStatus
  <2> SUFFICES ASSUME StampInv, NEW e \in Envs, env[e].ann # NoRev
               PROVE  \E c \in Catalogs : /\ SourceOf[c] = env[e].ann.of
                                          /\ status[c].rev.n >= env[e].ann.n
    BY DEF StampFollowsStatus
  <2> QED
    BY DEF StampInv, Points
<1> QED
  BY <1>1, StampInit, StampStep, PTL DEF Spec
=============================================================================
