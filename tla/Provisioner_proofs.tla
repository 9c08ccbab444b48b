-------------------------- MODULE Provisioner_proofs --------------------------
(***************************************************************************)
(* Theorems about Provisioner, for any envs, directories and host        *)
(* commands.                                                               *)
(*                                                                         *)
(* That every variable keeps its type and that a calm realise heals hold   *)
(* for any DirOf; that reports are covered and that the contract is kept   *)
(* need OwnDirs, a directory for each env.                                 *)
(***************************************************************************)
EXTENDS Provisioner, TLAPS

-----------------------------------------------------------------------------
(* The records.                                                             *)

LEMMA BlankTypes ==
    /\ NoFile \in File /\ NoTree \in Tree /\ NoStage \in Stage /\ NoJob \in Job
    /\ NoJob.pc = "idle" /\ NoJob.proc = NoProc
    /\ \A cmd \in Commands, d \in Dirs : Spawned(cmd, d) \in Proc
BY DEF NoFile, File, NoTree, Tree, NoStage, Stage, NoJob, Job, Steps, Spawned,
       Proc

LEMMA ManifestType ==
    ASSUME NEW e \in Envs, NEW g \in Nat
    PROVE  /\ Manifest(e, g) \in File
           /\ Manifest(e, g).env = e /\ Manifest(e, g).gen = g
BY DEF Manifest, File

\* The types, in the form the steps use them.
LEMMA Shapes ==
    ASSUME TypeOK
    PROVE  /\ job \in [Envs -> Job] /\ proc \in [Procs -> Proc]
           /\ toml \in [Dirs -> File] /\ lock \in [Dirs -> File]
           /\ run \in [Dirs -> File] /\ act \in [Dirs -> File]
           /\ tar \in [Dirs -> File] /\ image \in [Dirs -> File]
           /\ stage \in [Dirs -> Stage]
           /\ root \in [Dirs -> Tree] /\ pin \in [Envs -> File]
           /\ calm \in [Envs -> BOOLEAN] /\ quiet \in [Dirs -> BOOLEAN]
           /\ gen \in [Envs -> Nat] /\ seen \in [Envs -> Nat]
           /\ done \in [Envs -> Nat]
           /\ \A e \in Envs : /\ DirOf[e] \in Dirs
                              /\ job[e].gen \in Nat
                              /\ job[e].lock \in File
                              /\ job[e].closure \in File
                              /\ job[e].tree \in Tree
                              /\ job[e].proc \in Procs \cup {NoProc}
BY DirAssumption DEF TypeOK, Job

LEMMA GotoType ==
    ASSUME TypeOK, NEW e \in Envs, NEW pc \in Steps, Goto(e, pc)
    PROVE  job' \in [Envs -> Job]
BY Shapes DEF Goto, Job

\* Updates of several fields at once.
LEMMA ProcUpdate ==
    ASSUME NEW q \in Proc, NEW f \in File, NEW l \in BOOLEAN,
           NEW s \in {"none", "read", "lock", "build", "done"}
    PROVE  [q EXCEPT !.step = s, !.file = f, !.locked = l] \in Proc
BY DEF Proc

LEMMA JobUpdate ==
    ASSUME NEW j \in Job, NEW s \in Steps, NEW p \in Procs \cup {NoProc},
           NEW f \in File, NEW t \in Tree
    PROVE  /\ [j EXCEPT !.pc = s, !.proc = p] \in Job
           /\ [j EXCEPT !.pc = s, !.proc = p, !.closure = f] \in Job
           /\ [j EXCEPT !.pc = s, !.tree = t] \in Job
BY DEF Job

-----------------------------------------------------------------------------
(* Type correctness.                                                        *)

LEMMA TypeInit == Init => TypeOK
<1> SUFFICES ASSUME Init PROVE TypeOK
  OBVIOUS
<1>1. PICK d \in Dirs :
          proc = [p \in Procs |-> [Spawned("activate", d) EXCEPT !.step = "none"]]
  BY DEF Init
<1>2. [Spawned("activate", d) EXCEPT !.step = "none"] \in Proc
  BY DEF Spawned, Proc, Commands, NoFile, File
<1> QED
  BY <1>1, <1>2, BlankTypes DEF Init, TypeOK

LEMMA TypeMakes ==
    ASSUME TypeOK, NEW p \in Procs, NEW cmd, Makes(p, cmd),
           run' \in [Dirs -> File], tar' \in [Dirs -> File],
           image' \in [Dirs -> File]
    PROVE  TypeOK'
<1> USE Shapes
<1>1. PICK s \in {"none", "done"} :
          proc' = [proc EXCEPT ![p] = [proc[p] EXCEPT !.step = s]]
  BY DEF Makes
<1>2. [proc[p] EXCEPT !.step = s] \in Proc
  BY DEF Proc
<1> QED
  BY <1>1, <1>2 DEF Makes, TypeOK

LEMMA TypeCommand ==
    ASSUME TypeOK, NEW p \in Procs, Command(p)
    PROVE  TypeOK'
<1> USE Shapes
<1>1. /\ proc[p].dir \in Dirs
      /\ proc[p].file \in File
  BY DEF Proc
<1>2. CASE FloxReads(p)
  <2>1. PICK f \in File, l \in BOOLEAN :
            proc' = [proc EXCEPT ![p] = [proc[p] EXCEPT !.step = "lock",
                                                        !.file = f,
                                                        !.locked = l]]
    BY <1>1, <1>2 DEF FloxReads
  <2>2. [proc[p] EXCEPT !.step = "lock", !.file = f, !.locked = l] \in Proc
    BY ProcUpdate
  <2>3. proc' \in [Procs -> Proc]
    BY <2>1, <2>2
  <2> QED
    BY <1>2, <2>3 DEF FloxReads, TypeOK, files
<1>3. CASE FloxLocks(p)
  <2>1. proc' \in [Procs -> Proc] /\ lock' \in [Dirs -> File]
    BY <1>1, <1>3 DEF FloxLocks, Proc
  <2> QED
    BY <1>3, <2>1 DEF FloxLocks, TypeOK
<1>4. CASE FloxBuilds(p)
  BY <1>1, <1>4, TypeMakes DEF FloxBuilds
<1>5. CASE FloxPacks(p)
  BY <1>1, <1>5, TypeMakes DEF FloxPacks
<1>6. CASE CtrReads(p)
  <2>1. tar[proc[p].dir] \in File
    BY <1>1
  <2>2. [proc[p] EXCEPT !.step = "build", !.file = tar[proc[p].dir]] \in Proc
    BY <2>1 DEF Proc
  <2>3. proc' = [proc EXCEPT ![p] = [proc[p] EXCEPT !.step = "build",
                                                    !.file = tar[proc[p].dir]]]
    BY <1>6 DEF CtrReads
  <2> QED
    BY <1>6, <2>2, <2>3 DEF CtrReads, TypeOK, files
<1>7. CASE CtrImports(p)
  BY <1>1, <1>7, TypeMakes DEF CtrImports
<1> QED
  BY <1>2, <1>3, <1>4, <1>5, <1>6, <1>7 DEF Command

LEMMA TypeSpawn ==
    ASSUME TypeOK, NEW e \in Envs, NEW cmd \in Commands, NEW pc \in Steps,
           Spawn(e, cmd, pc)
    PROVE  proc' \in [Procs -> Proc] /\ job' \in [Envs -> Job]
<1> USE Shapes
<1>1. PICK p \in Procs :
          /\ proc' = [proc EXCEPT ![p] = Spawned(cmd, DirOf[e])]
          /\ job'  = [job EXCEPT ![e].pc = pc, ![e].proc = p]
  BY DEF Spawn
<1>2. [job[e] EXCEPT !.pc = pc, !.proc = p] \in Job
  BY JobUpdate
<1>3. job' = [job EXCEPT ![e] = [job[e] EXCEPT !.pc = pc, !.proc = p]]
  BY <1>1
<1> QED
  BY <1>1, <1>2, <1>3, BlankTypes

\* The command e waited for is over; its slot is free again.
LEMMA TypeFree ==
    ASSUME TypeOK, NEW e \in Envs,
           proc' = [proc EXCEPT ![job[e].proc].step = "none"]
    PROVE  proc' \in [Procs -> Proc]
<1> USE Shapes
<1>1. job[e].proc \in Procs => proc[job[e].proc] \in Proc
  OBVIOUS
<1>2. proc' = [proc EXCEPT ![job[e].proc] =
                  [proc[job[e].proc] EXCEPT !.step = "none"]]
  OBVIOUS
<1> QED
  BY <1>1, <1>2 DEF Proc

LEMMA TypeStart ==
    ASSUME TypeOK, NEW e \in Envs, EditSpec(e) \/ Start(e)
    PROVE  TypeOK'
<1> USE Shapes
<1>1. CASE EditSpec(e)
  BY <1>1 DEF EditSpec, TypeOK, files
<1>2. CASE Start(e)
  <2>1. PICK g \in seen[e] .. gen[e], l \in {NoFile, pin[e]} :
            /\ seen' = [seen EXCEPT ![e] = g]
            /\ job'  = [job EXCEPT ![e] =
                           [NoJob EXCEPT !.pc = "manifest", !.gen = g, !.lock = l]]
    BY <1>2 DEF Start
  <2>2. g \in Nat /\ l \in File
    BY BlankTypes
  <2>3. [NoJob EXCEPT !.pc = "manifest", !.gen = g, !.lock = l] \in Job
    BY <2>2, BlankTypes DEF Job, Steps
  <2>4. calm' \in [Envs -> BOOLEAN]
    BY <1>2 DEF Start, Alone
  <2> QED
    BY <1>2, <2>1, <2>2, <2>3, <2>4 DEF Start, TypeOK, files
<1> QED
  BY <1>1, <1>2

LEMMA TypeRealize ==
    ASSUME TypeOK, NEW e \in Envs, Realize(e)
    PROVE  TypeOK'
<1> USE Shapes
<1>1. CASE WriteManifest(e)
  <2>1. Goto(e, "lock") /\ Manifest(e, job[e].gen) \in File
    BY <1>1, ManifestType DEF WriteManifest
  <2> QED
    BY <1>1, <2>1, GotoType DEF WriteManifest, Steps, TypeOK
<1>2. CASE WriteLock(e)
  <2>1. Goto(e, "spawn")
    BY <1>2 DEF WriteLock
  <2>2. lock' \in [Dirs -> File]
    BY <1>2 DEF WriteLock
  <2> QED
    BY <1>2, <2>1, <2>2, GotoType DEF WriteLock, Steps, TypeOK
<1>3. CASE SpawnBuild(e)
  <2>1. "activate" \in Commands /\ "wait" \in Steps
    BY DEF Commands, Steps, Waiting
  <2> QED
    BY <1>3, <2>1, TypeSpawn DEF SpawnBuild, TypeOK, files
<1>4. CASE BuildDone(e)
  <2>1. [job[e] EXCEPT !.pc = "clean", !.proc = NoProc,
                       !.closure = run[DirOf[e]]] \in Job
    BY JobUpdate DEF Steps
  <2>2. job' \in [Envs -> Job]
    BY <1>4, <2>1 DEF BuildDone
  <2> QED
    BY <1>4, <2>2, TypeFree DEF BuildDone, TypeOK, files
<1>5. CASE CleanStage(e)
  <2>1. Goto(e, "stage_toml") /\ [NoStage EXCEPT !.there = TRUE] \in Stage
    BY <1>5, BlankTypes DEF CleanStage, Stage
  <2> QED
    BY <1>5, <2>1, GotoType DEF CleanStage, Steps, Staging, TypeOK
<1>6. CASE StageToml(e)
  <2>1. Goto(e, "stage_lock") /\ stage' \in [Dirs -> Stage]
    BY <1>6 DEF StageToml, Stage
  <2> QED
    BY <1>6, <2>1, GotoType DEF StageToml, Steps, Staging, TypeOK
<1>7. CASE StageLock(e)
  <2>1. Goto(e, "add") /\ stage' \in [Dirs -> Stage]
    BY <1>7 DEF StageLock, Stage
  <2> QED
    BY <1>7, <2>1, GotoType DEF StageLock, Steps, Staging, TypeOK
<1>8. CASE AddSubtree(e)
  <2>1. [toml |-> stage[DirOf[e]].toml, lock |-> stage[DirOf[e]].lock] \in Tree
    BY DEF Stage, Tree
  <2> DEFINE tree == [toml |-> stage[DirOf[e]].toml, lock |-> stage[DirOf[e]].lock]
  <2>2. [job[e] EXCEPT !.pc = "unstage", !.tree = tree] \in Job
    BY <2>1, JobUpdate DEF Steps, Staging
  <2>3. job' \in [Envs -> Job]
    BY <1>8, <2>2 DEF AddSubtree
  <2> QED
    BY <1>8, <2>3 DEF AddSubtree, TypeOK, files
<1>9. CASE Unstage(e)
  <2>1. Goto(e, "link")
    BY <1>9 DEF Unstage
  <2> QED
    BY <1>9, <2>1, GotoType, BlankTypes DEF Unstage, Steps, TypeOK
<1>10. CASE LinkEnv(e)
  <2>1. Goto(e, "activation")
    BY <1>10 DEF LinkEnv
  <2> QED
    BY <1>10, <2>1, GotoType DEF LinkEnv, Steps, TypeOK
<1>11. CASE LinkActivation(e)
  <2>1. PICK pc \in {"image", "capture"} : Goto(e, pc)
    BY <1>11 DEF LinkActivation
  <2> QED
    BY <1>11, <2>1, GotoType DEF LinkActivation, Steps, TypeOK
<1>12. CASE Containerize(e)
  <2>1. "containerize" \in Commands /\ "pack" \in Steps
    BY DEF Commands, Steps, Waiting
  <2> QED
    BY <1>12, <2>1, TypeSpawn DEF Containerize, TypeOK, files
<1>13. CASE ImportImage(e)
  <2>1. Goto(e, "import") /\ "import" \in Commands /\ "import" \in Steps
    BY <1>13 DEF ImportImage, Commands, Steps, Waiting
  <2>2. proc' \in [Procs -> Proc]
    BY <1>13, <2>1, BlankTypes DEF ImportImage
  <2> QED
    BY <1>13, <2>1, <2>2, GotoType DEF ImportImage, TypeOK, files
<1>14. CASE ImportDone(e)
  <2>1. [job[e] EXCEPT !.pc = "capture", !.proc = NoProc] \in Job
    BY JobUpdate DEF Steps
  <2>2. job' = [job EXCEPT ![e] = [job[e] EXCEPT !.pc = "capture", !.proc = NoProc]]
    BY <1>14 DEF ImportDone
  <2>3. job' \in [Envs -> Job]
    BY <2>1, <2>2
  <2> QED
    BY <1>14, <2>3, TypeFree DEF ImportDone, TypeOK, files
<1>15. CASE Capture(e)
  BY <1>15, BlankTypes DEF Capture, TypeOK, files
<1> QED
  BY <1>1, <1>2, <1>3, <1>4, <1>5, <1>6, <1>7, <1>8, <1>9, <1>10, <1>11,
     <1>12, <1>13, <1>14, <1>15 DEF Realize

LEMMA TypeFails ==
    ASSUME TypeOK, NEW e \in Envs, StepFails(e) \/ BuildCut(e)
    PROVE  TypeOK'
<1> USE Shapes
<1>1. job' \in [Envs -> Job] /\ stage' \in [Dirs -> Stage]
  BY BlankTypes DEF StepFails, BuildCut, Return
<1>2. faults' \in Nat
  BY DEF StepFails, BuildCut, Fault, TypeOK
<1>3. proc' \in [Procs -> Proc]
  <2>1. StepFails(e) => UNCHANGED proc
    BY DEF StepFails
  <2>2. ASSUME BuildCut(e), proc' # proc PROVE proc' \in [Procs -> Proc]
    <3>1. proc' = [proc EXCEPT ![job[e].proc].step = "none"]
      BY <2>2 DEF BuildCut
    <3> QED
      BY <3>1, TypeFree
  <2> QED
    BY <2>1, <2>2
<1> QED
  BY <1>1, <1>2, <1>3 DEF StepFails, BuildCut, TypeOK

LEMMA TypeCrash == TypeOK /\ Crash => TypeOK'
<1> SUFFICES ASSUME TypeOK, Crash PROVE TypeOK'
  OBVIOUS
<1>1. PICK survivors \in SUBSET Procs :
          proc' = [p \in Procs |-> IF p \in survivors THEN proc[p]
                                   ELSE [proc[p] EXCEPT !.step = "none"]]
  BY DEF Crash
<1>2. ASSUME NEW p \in Procs PROVE [proc[p] EXCEPT !.step = "none"] \in Proc
  BY Shapes DEF Proc
<1>3. proc' \in [Procs -> Proc]
  BY <1>1, <1>2, Shapes
<1> QED
  BY <1>3, BlankTypes DEF Crash, Fault, TypeOK, files

LEMMA TypeStep == TypeOK /\ [Next]_vars => TypeOK'
<1> SUFFICES ASSUME TypeOK, [Next]_vars PROVE TypeOK'
  OBVIOUS
<1>1. CASE UNCHANGED vars
  BY <1>1 DEF vars, files, TypeOK
<1> QED
  BY <1>1, TypeCommand, TypeStart, TypeRealize, TypeFails, TypeCrash DEF Next

\* Every variable keeps its type, whatever envs share a directory.
THEOREM TypeCorrect == Spec => []TypeOK
<1> QED
  BY TypeInit, TypeStep, PTL DEF Spec

-----------------------------------------------------------------------------
(* Reports: each env has a directory of its own.                            *)
(*                                                                          *)
(* ReportCovered is not inductive: what is reported is the generation of    *)
(* the call, what is linked is whatever manifest was staged.  The two are   *)
(* the same because manifest, staging directory, tree and root are this     *)
(* call's from the step on that writes them: nobody else writes into the    *)
(* directory, and a command that outlived its call writes no manifest.      *)

Ordered(e) ==
    /\ done[e] <= root[DirOf[e]].toml.gen
    /\ root[DirOf[e]].toml.gen <= seen[e]
    /\ 1 <= seen[e] /\ seen[e] <= gen[e]
    /\ Busy(e) => /\ 1 <= job[e].gen /\ job[e].gen <= seen[e]
                  /\ root[DirOf[e]].toml.gen <= job[e].gen

\* Whose generation each file is for, along the call.
Carried(e) ==
    /\ job[e].pc \notin {"idle", "manifest"} => toml[DirOf[e]].gen = job[e].gen
    /\ job[e].pc \in {"stage_lock", "add"} =>
           stage[DirOf[e]].toml.gen = job[e].gen
    /\ job[e].pc \in {"unstage", "link"} => job[e].tree.toml.gen = job[e].gen
    /\ job[e].pc \in {"activation", "image", "pack", "import", "capture"} =>
           root[DirOf[e]].toml.gen = job[e].gen

ReportInv == TypeOK /\ \A e \in Envs : Ordered(e) /\ Carried(e)

\* A call for f.
Call(f) == Start(f) \/ Realize(f) \/ StepFails(f) \/ BuildCut(f)

\* A call changes nothing of the others, and nothing in other directories.
LEMMA Elsewhere ==
    ASSUME TypeOK, NEW f \in Envs, Call(f)
    PROVE  /\ gen' = gen
           /\ \A e \in Envs : e # f => /\ job'[e] = job[e]
                                       /\ seen'[e] = seen[e]
                                       /\ done'[e] = done[e]
                                       /\ pin'[e] = pin[e]
           /\ run' = run /\ tar' = tar /\ image' = image
           /\ \A d \in Dirs : d # DirOf[f] => /\ toml'[d] = toml[d]
                                              /\ lock'[d] = lock[d]
                                              /\ stage'[d] = stage[d]
                                              /\ root'[d] = root[d]
                                              /\ act'[d] = act[d]
                                              /\ quiet'[d] = quiet[d]
<1> USE Shapes
<1>1. CASE Start(f)
  BY <1>1 DEF Start, files
<1>2. CASE WriteManifest(f) \/ WriteLock(f) \/ SpawnBuild(f) \/ BuildDone(f)
  BY <1>2 DEF WriteManifest, WriteLock, SpawnBuild, Spawn, BuildDone, Goto, files
<1>3. CASE CleanStage(f) \/ StageToml(f) \/ StageLock(f) \/ AddSubtree(f)
           \/ Unstage(f)
  BY <1>3 DEF CleanStage, StageToml, StageLock, AddSubtree, Unstage, Goto, files
<1>4. CASE LinkEnv(f) \/ LinkActivation(f) \/ Capture(f)
  BY <1>4 DEF LinkEnv, LinkActivation, Capture, Goto, files
<1>6. CASE Containerize(f) \/ ImportImage(f) \/ ImportDone(f)
  BY <1>6 DEF Containerize, Spawn, ImportImage, ImportDone, Goto, files
<1>5. CASE StepFails(f) \/ BuildCut(f)
  BY <1>5 DEF StepFails, BuildCut, Return
<1> QED
  BY <1>1, <1>2, <1>3, <1>4, <1>5, <1>6 DEF Call, Realize

\* What a command on the host leaves alone, whoever waits for it.
LEMMA CommandKeeps ==
    ASSUME TypeOK, NEW p \in Procs, Command(p)
    PROVE  /\ UNCHANGED <<gen, seen, pin, done, job, toml, stage, root, act,
                          calm, quiet, faults>>
           /\ \A q \in Procs : q # p => proc'[q] = proc[q]
           /\ \A d \in Dirs : d # proc[p].dir =>
                  /\ lock'[d] = lock[d] /\ run'[d] = run[d]
                  /\ tar'[d] = tar[d] /\ image'[d] = image[d]
<1> USE Shapes
<1>1. CASE FloxReads(p) \/ FloxLocks(p) \/ CtrReads(p)
  BY <1>1 DEF FloxReads, FloxLocks, CtrReads, files
<1>2. CASE FloxBuilds(p) \/ FloxPacks(p) \/ CtrImports(p)
  BY <1>2 DEF FloxBuilds, FloxPacks, CtrImports, Makes
<1> QED
  BY <1>1, <1>2 DEF Command

LEMMA ReportInit == Init => ReportInv
<1> SUFFICES ASSUME Init PROVE ReportInv
  OBVIOUS
<1>1. TypeOK /\ \A e \in Envs : DirOf[e] \in Dirs
  BY TypeInit, DirAssumption
<1> QED
  BY <1>1 DEF Init, ReportInv, Ordered, Carried, Busy, NoJob, NoTree, NoFile

\* The numbers of an env, typed.
LEMMA Numbers ==
    ASSUME TypeOK, NEW e \in Envs
    PROVE  /\ gen[e] \in Nat /\ seen[e] \in Nat /\ done[e] \in Nat
           /\ job[e].gen \in Nat
           /\ toml[DirOf[e]].gen \in Nat
           /\ stage[DirOf[e]].toml.gen \in Nat
           /\ root[DirOf[e]].toml.gen \in Nat
           /\ job[e].tree.toml.gen \in Nat
BY Shapes DEF File, Tree, Stage

\* One step of the call for e, seen from e.
LEMMA ReportCall ==
    ASSUME ReportInv, NEW e \in Envs, Call(e)
    PROVE  Ordered(e)' /\ Carried(e)'
<1> USE Shapes, Numbers DEF ReportInv, Ordered, Carried, Busy, At, Goto
<1>1. TypeOK /\ Ordered(e) /\ Carried(e) /\ gen' = gen
  BY Elsewhere
<1>2. CASE Start(e)
  <2>1. PICK g \in seen[e] .. gen[e], l \in {NoFile, pin[e]} :
            /\ seen' = [seen EXCEPT ![e] = g]
            /\ job'  = [job EXCEPT ![e] =
                           [NoJob EXCEPT !.pc = "manifest", !.gen = g, !.lock = l]]
    BY <1>2 DEF Start
  <2>2. job'[e].pc = "manifest" /\ job'[e].gen = g /\ seen'[e] = g
    BY <2>1 DEF NoJob
  <2> QED
    BY <1>1, <1>2, <2>2 DEF Start, files
<1>3. CASE WriteManifest(e)
  <2>1. toml'[DirOf[e]].gen = job[e].gen
    BY <1>3, ManifestType DEF WriteManifest
  <2> QED
    BY <1>1, <1>3, <2>1 DEF WriteManifest, Job
<1>4. CASE WriteLock(e)
  BY <1>1, <1>4 DEF WriteLock, Job
<1>5. CASE SpawnBuild(e)
  BY <1>1, <1>5 DEF SpawnBuild, Spawn, Job, files
<1>6. CASE BuildDone(e)
  BY <1>1, <1>6 DEF BuildDone, Ended, Job, files
<1>7. CASE CleanStage(e)
  BY <1>1, <1>7 DEF CleanStage, Job
<1>8. CASE StageToml(e)
  BY <1>1, <1>8 DEF StageToml, Job, Stage
<1>9. CASE StageLock(e)
  BY <1>1, <1>9 DEF StageLock, Job, Stage
<1>10. CASE AddSubtree(e)
  BY <1>1, <1>10 DEF AddSubtree, Job, files
<1>11. CASE Unstage(e)
  BY <1>1, <1>11 DEF Unstage, Job
<1>12. CASE LinkEnv(e)
  BY <1>1, <1>12 DEF LinkEnv, Job
<1>13. CASE LinkActivation(e)
  BY <1>1, <1>13 DEF LinkActivation, Job
<1>14. CASE Containerize(e)
  BY <1>1, <1>14 DEF Containerize, Spawn, Job, files
<1>17. CASE ImportImage(e)
  BY <1>1, <1>17 DEF ImportImage, Ended, Job, files
<1>18. CASE ImportDone(e)
  BY <1>1, <1>18 DEF ImportDone, Ended, Job, files
<1>15. CASE Capture(e)
  BY <1>1, <1>15, BlankTypes DEF Capture, files
<1>16. CASE StepFails(e) \/ BuildCut(e)
  <2>1. job'[e].pc = "idle" /\ UNCHANGED <<seen, done, root>>
    BY <1>16, BlankTypes DEF StepFails, BuildCut, Return
  <2> QED
    BY <1>1, <2>1
<1> QED
  BY <1>2, <1>3, <1>4, <1>5, <1>6, <1>7, <1>8, <1>9, <1>10, <1>11, <1>12,
     <1>13, <1>14, <1>15, <1>16, <1>17, <1>18 DEF Call, Realize

LEMMA ReportStep ==
    ASSUME OwnDirs, ReportInv, [Next]_vars
    PROVE  ReportInv'
<1> USE Shapes, Numbers DEF ReportInv
<1>1. TypeOK'
  BY TypeStep
<1>2. ASSUME NEW f \in Envs, Call(f), NEW e \in Envs
      PROVE  Ordered(e)' /\ Carried(e)'
  <2>1. CASE e = f
    BY <1>2, <2>1, ReportCall
  <2>2. CASE e # f
    <3>1. DirOf[e] # DirOf[f] /\ DirOf[e] \in Dirs
      BY <2>2 DEF OwnDirs
    <3> QED
      BY <1>2, <2>2, <3>1, Elsewhere DEF Ordered, Carried, Busy
  <2> QED
    BY <2>1, <2>2
<1>3. ASSUME NEW f \in Envs, EditSpec(f) PROVE ReportInv'
  BY <1>1, <1>3 DEF EditSpec, Ordered, Carried, Busy, files
<1>4. ASSUME NEW p \in Procs, Command(p)
      PROVE  ReportInv'
  <2>1. UNCHANGED <<gen, seen, done, job, toml, stage, root>>
    BY <1>4, CommandKeeps
  <2> QED
    BY <1>1, <2>1 DEF Ordered, Carried, Busy
<1>5. CASE Crash
  BY <1>1, <1>5, BlankTypes DEF Crash, Ordered, Carried, Busy, files
<1>6. CASE UNCHANGED vars
  BY <1>1, <1>6 DEF vars, files, Ordered, Carried, Busy
<1> QED
  BY <1>1, <1>2, <1>3, <1>4, <1>5, <1>6 DEF Next, Call

\* With a directory for each env, what is reported of an env is covered by the
\* tree its GC-root points at, through failures, crashes and orphaned builds.
THEOREM ReportsCovered ==
    ASSUME OwnDirs
    PROVE  Spec => []ReportCovered
<1>1. ReportInv => ReportCovered
  BY DEF ReportInv, Ordered, ReportCovered
<1>2. ReportInv /\ [Next]_vars => ReportInv'
  BY ReportStep
<1> QED
  BY <1>1, <1>2, ReportInit, PTL DEF Spec

-----------------------------------------------------------------------------
(* The contract: each env has a directory of its own.                       *)

\* What the contract sees, as the steps change it.
Reported == [e \in Envs |-> [n \in {Self} |-> done[e]]]
Rooted   == [n \in {Self} |-> [e \in Envs |-> root[DirOf[e]].toml.gen]]

LEMMA SeenStart == Init => Seen!RealizationInit
<1> SUFFICES ASSUME Init PROVE Seen!RealizationInit
  OBVIOUS
<1>1. \A e \in Envs : DirOf[e] \in Dirs
  BY DirAssumption
<1>2. Reported = [e \in Envs |-> [n \in {Self} |-> 0]]
  BY DEF Init, Reported
<1>3. Rooted = [n \in {Self} |-> [e \in Envs |-> 0]]
  BY <1>1 DEF Init, Rooted, NoTree, NoFile
<1> QED
  BY <1>2, <1>3 DEF Init, Reported, Rooted, Seen!RealizationInit

\* The editor's step.
LEMMA SeenEdit ==
    ASSUME TypeOK, NEW e \in Envs, EditSpec(e)
    PROVE  Seen!Edit(e)
BY DEF EditSpec, Seen!Edit, files

\* The new root of e is the tree of its call.
LEMMA SeenRealise ==
    ASSUME OwnDirs, ReportInv, NEW e \in Envs, LinkEnv(e)
    PROVE  Seen!RealizationNext
<1> USE Shapes, Numbers DEF ReportInv
<1>0. PICK g \in Nat : g = job[e].gen
  OBVIOUS
<1>1. At(e, "link") /\ root' = [root EXCEPT ![DirOf[e]] = job[e].tree]
  BY DEF LinkEnv
<1>2. /\ g \in 1 .. gen[e]
      /\ root[DirOf[e]].toml.gen <= g
      /\ job[e].tree.toml.gen = g
  BY <1>0, <1>1 DEF Ordered, Carried, Busy, At
<1>3. \A f \in Envs : root'[DirOf[f]].toml.gen =
                          IF f = e THEN g ELSE root[DirOf[f]].toml.gen
  BY <1>1, <1>2 DEF OwnDirs
<1>4. Rooted' = [Rooted EXCEPT ![Self][e] = g]
  BY <1>3 DEF Rooted
<1>5. UNCHANGED <<gen, Reported>>
  BY DEF LinkEnv, Reported
<1>6. Rooted[Self][e] <= g
  BY <1>2 DEF Rooted
<1>7. Seen!Realise(Self, e, g)
  BY <1>2, <1>4, <1>5, <1>6 DEF Seen!Realise, Rooted, Reported
<1> QED
  BY <1>2, <1>7 DEF Seen!RealizationNext

\* A report is covered by the root that has just been linked.
LEMMA SeenReport ==
    ASSUME ReportInv, NEW e \in Envs, Capture(e)
    PROVE  Seen!Report(e)
<1> USE Shapes, Numbers DEF ReportInv
<1> DEFINE report == [n \in {Self} |-> job[e].gen]
<1>1. At(e, "capture") /\ done' = [done EXCEPT ![e] = job[e].gen]
  BY DEF Capture
<1>2. /\ job[e].gen \in 1 .. gen[e]
      /\ root[DirOf[e]].toml.gen = job[e].gen
  BY <1>1 DEF Ordered, Carried, Busy, At
<1>3. report \in Seen!Reportable(e)
  BY <1>2 DEF Seen!Reportable
<1>4. Reported' = [Reported EXCEPT ![e] = report]
  BY <1>1 DEF Reported
<1>5. UNCHANGED <<gen, Rooted>>
  BY DEF Capture, Rooted, files
<1> HIDE DEF report
<1> QED
  BY <1>3, <1>4, <1>5 DEF Seen!Report, Reported, Rooted

LEMMA SeenStutter ==
    ASSUME UNCHANGED <<gen, done, root>>
    PROVE  UNCHANGED Seen!rvars
BY DEF Seen!rvars

LEMMA SeenNext ==
    ASSUME OwnDirs, ReportInv, [Next]_vars
    PROVE  [Seen!RealizationNext]_(Seen!rvars)
<1>1. TypeOK
  BY DEF ReportInv
<1>2. ASSUME NEW e \in Envs, Call(e)
      PROVE  LinkEnv(e) \/ Capture(e) \/ UNCHANGED <<gen, done, root>>
  <2>1. CASE Start(e) \/ StepFails(e) \/ BuildCut(e)
    BY <2>1 DEF Start, StepFails, BuildCut, files
  <2>2. CASE Realize(e)
    BY <2>2 DEF Realize, WriteManifest, WriteLock, SpawnBuild, BuildDone,
                CleanStage, StageToml, StageLock, AddSubtree, Unstage,
                LinkActivation, Containerize, ImportImage, ImportDone, files
  <2> QED
    BY <1>2, <2>1, <2>2 DEF Call
<1>3. ASSUME NEW e \in Envs, EditSpec(e) PROVE Seen!RealizationNext
  BY <1>1, <1>3, SeenEdit DEF Seen!RealizationNext
<1>4. ASSUME NEW e \in Envs, Capture(e) PROVE Seen!RealizationNext
  BY <1>4, SeenReport DEF Seen!RealizationNext
<1>5. \/ \E e \in Envs : EditSpec(e) \/ LinkEnv(e) \/ Capture(e)
      \/ UNCHANGED <<gen, done, root>>
  <2>1. ASSUME NEW p \in Procs, Command(p)
        PROVE  UNCHANGED <<gen, done, root>>
    BY <1>1, <2>1, CommandKeeps
  <2>2. Crash => UNCHANGED <<gen, done, root>>
    BY DEF Crash, files
  <2>3. UNCHANGED vars => UNCHANGED <<gen, done, root>>
    BY DEF vars, files
  <2> QED
    BY <1>2, <2>1, <2>2, <2>3 DEF Next, Call
<1> QED
  BY <1>3, <1>4, <1>5, SeenRealise, SeenStutter

\* With a directory for each env the host side implements NodeRealization: a
\* GC-root is never taken away and never goes back, and what is reported has one.
THEOREM HostKeepsContract ==
    ASSUME OwnDirs
    PROVE  Spec => KeepsContract
<1>1. ReportInv /\ [Next]_vars => ReportInv' /\ [Seen!RealizationNext]_(Seen!rvars)
  BY ReportStep, SeenNext
<1> QED
  BY <1>1, ReportInit, SeenStart, PTL DEF Spec, KeepsContract, Seen!RealizationSpec

-----------------------------------------------------------------------------
(* A calm realise.                                                          *)

\* A call that waits holds a command of its own, of the kind its step is
\* for and in its directory, and nobody else does.
CommandOf(pc) == CASE pc = "wait" -> "activate"
                   [] pc = "pack" -> "containerize"
                   [] OTHER       -> "import"

Held(e) ==
    /\ Waits(e) <=> job[e].proc # NoProc
    /\ Waits(e) => /\ proc[job[e].proc].step # "none"
                   /\ proc[job[e].proc].dir = DirOf[e]
                   /\ proc[job[e].proc].cmd = CommandOf(job[e].pc)

CommandsHeld ==
    /\ \A e \in Envs : Held(e)
    /\ \A e, f \in Envs :
          Waits(e) /\ Waits(f) /\ job[e].proc = job[f].proc => e = f

\* Nobody is at work in d but e, with its own command while it waits for one.
Only(e, d) ==
    /\ \A f \in Envs : Busy(f) /\ DirOf[f] = d => f = e
    /\ \A p \in Procs : Live(p) /\ proc[p].dir = d =>
                            Waits(e) /\ p = job[e].proc

Request(e) == Manifest(e, job[e].gen)

\* The command has read what this call is for, leaves its lock alone from
\* then on, and has made in the end what its kind is for.
Working(e) ==
    LET q == proc[job[e].proc]
        d == DirOf[e]
        m == Request(e)
    IN  /\ q.step \in {"lock", "build", "done"} => q.file = m
        /\ q.step = "lock" => (q.locked <=> lock[d] = m)
        /\ q.step \in {"build", "done"} => lock[d] = m
        /\ q.step = "done" => CASE job[e].pc = "wait" -> run[d] = m
                                [] job[e].pc = "pack" -> tar[d] = m
                                [] OTHER              -> image[d] = m

\* What each step of a calm call has made of the directory.
Own(e) ==
    LET d  == DirOf[e]
        pc == job[e].pc
        m  == Request(e)
    IN  /\ pc # "manifest" => toml[d] = m
        /\ Waits(e) => Working(e)
        /\ pc \in Staging \cup {"clean", "link", "activation", "image", "pack",
                                "import", "capture"} =>
               lock[d] = m /\ job[e].closure = m
        /\ pc \in {"stage_lock", "add"} => stage[d].toml = m
        /\ pc = "add" => stage[d].lock = m
        /\ pc \in {"unstage", "link"} => job[e].tree = [toml |-> m, lock |-> m]
        /\ pc \in {"activation", "image", "pack", "import", "capture"} =>
               root[d] = [toml |-> m, lock |-> m]
        /\ pc \in {"image", "pack", "import", "capture"} => act[d] = m
        /\ pc = "import" => tar[d] = m
        /\ pc = "capture" /\ e \in ImageEnvs => image[d] = m

CalmCalls ==
    \A e \in Envs : calm[e] /\ Busy(e) => Only(e, DirOf[e]) /\ Own(e)

\* What a calm call leaves, until the next one starts.
Whole(e) ==
    LET d == DirOf[e]
    IN  /\ root[d].lock = root[d].toml
        /\ act[d] = root[d].toml
        /\ e \in ImageEnvs => image[d] = root[d].toml
        /\ pin[e] = root[d].lock

QuietDirs ==
    \A e \in Envs :
        quiet[DirOf[e]] =>
            /\ \A f \in Envs : DirOf[f] = DirOf[e] => ~Busy(f)
            /\ \A p \in Procs : Live(p) => proc[p].dir # DirOf[e]
            /\ root[DirOf[e]].toml.env = e => Whole(e)

HealInv == TypeOK /\ CommandsHeld /\ CalmCalls /\ QuietDirs

LEMMA HealInit == Init => HealInv
<1> SUFFICES ASSUME Init PROVE HealInv
  OBVIOUS
<1>1. TypeOK /\ \A e \in Envs : DirOf[e] \in Dirs
  BY TypeInit, DirAssumption
<1>2. \A e \in Envs : ~Busy(e) /\ ~Waits(e) /\ job[e].proc = NoProc
  BY BlankTypes DEF Init, Busy, Waits, Waiting
<1> QED
  BY <1>1, <1>2 DEF Init, HealInv, CommandsHeld, Held, CalmCalls, QuietDirs

\* The steps of a call that start a command.
Spawns(f) == SpawnBuild(f) \/ Containerize(f) \/ ImportImage(f)

LEMMA SpawnedFields ==
    ASSUME NEW cmd, NEW d
    PROVE  /\ Spawned(cmd, d).step = "read" /\ Spawned(cmd, d).dir = d
           /\ Spawned(cmd, d).cmd = cmd
BY DEF Spawned

LEMMA SpawnsIn ==
    ASSUME TypeOK, NEW f \in Envs, SpawnBuild(f) \/ Containerize(f)
    PROVE  \E q \in Procs : \E pc \in {"wait", "pack"} :
               /\ proc[q].step = "none" /\ ~Waits(f)
               /\ proc' = [proc EXCEPT ![q] = Spawned(CommandOf(pc), DirOf[f])]
               /\ proc'[q] = Spawned(CommandOf(pc), DirOf[f])
               /\ job'[f].pc = pc /\ job'[f].proc = q
               /\ job'[f].gen = job[f].gen /\ job'[f].closure = job[f].closure
<1> USE Shapes
<1>1. PICK cmd \in Commands, pc \in {"wait", "pack"} :
          cmd = CommandOf(pc) /\ Spawn(f, cmd, pc) /\ ~Waits(f)
  BY DEF SpawnBuild, Containerize, Commands, CommandOf, Waits, Waiting, At
<1>2. PICK q \in Procs :
          /\ proc[q].step = "none"
          /\ proc' = [proc EXCEPT ![q] = Spawned(cmd, DirOf[f])]
          /\ job'  = [job EXCEPT ![f].pc = pc, ![f].proc = q]
  BY <1>1 DEF Spawn
<1>3. /\ job'[f].pc = pc /\ job'[f].proc = q
      /\ job'[f].gen = job[f].gen /\ job'[f].closure = job[f].closure
  BY <1>2 DEF Job
<1> QED
  BY <1>1, <1>2, <1>3

LEMMA ImportsIn ==
    ASSUME TypeOK, CommandsHeld, NEW f \in Envs, ImportImage(f)
    PROVE  /\ Waits(f) /\ job[f].pc = "pack" /\ job[f].proc \in Procs
           /\ proc[job[f].proc].step = "done"
           /\ proc' = [proc EXCEPT ![job[f].proc] = Spawned("import", DirOf[f])]
           /\ proc'[job[f].proc] = Spawned("import", DirOf[f])
           /\ job' = [job EXCEPT ![f].pc = "import"]
           /\ job'[f].pc = "import" /\ job'[f].proc = job[f].proc
           /\ job'[f].gen = job[f].gen /\ job'[f].closure = job[f].closure
BY Shapes DEF ImportImage, Ended, At, Goto, Waits, Waiting, CommandsHeld, Held, Job

\* The steps of a call that come upon a command they wait for.
LEMMA EndsOrCuts ==
    ASSUME NEW f \in Envs, Call(f), Waits(f)
    PROVE  BuildDone(f) \/ ImportImage(f) \/ ImportDone(f) \/ BuildCut(f)
<1> USE DEF Waits, Waiting, At
<1>1. ~Start(f) /\ ~StepFails(f)
  BY DEF Start, Busy, StepFails
<1>2. ~WriteManifest(f) /\ ~WriteLock(f) /\ ~SpawnBuild(f)
  BY DEF WriteManifest, WriteLock, SpawnBuild
<1>3. ~CleanStage(f) /\ ~StageToml(f) /\ ~StageLock(f) /\ ~AddSubtree(f)
  BY DEF CleanStage, StageToml, StageLock, AddSubtree
<1>4. ~Unstage(f) /\ ~LinkEnv(f) /\ ~LinkActivation(f) /\ ~Containerize(f)
      /\ ~Capture(f)
  BY DEF Unstage, LinkEnv, LinkActivation, Containerize, Capture
<1> QED
  BY <1>1, <1>2, <1>3, <1>4 DEF Call, Realize

\* What the call for f does to the commands: it starts one in its directory,
\* in a free slot or after one that has ended well, or ends the one it waits
\* for.
LEMMA CallCommands ==
    ASSUME TypeOK, CommandsHeld, NEW f \in Envs, Call(f), NEW p \in Procs
    PROVE  \/ proc'[p] = proc[p]
           \/ /\ proc[p].step = "none" \/ (Waits(f) /\ p = job[f].proc)
              /\ proc'[p].step = "read" /\ proc'[p].dir = DirOf[f]
              /\ Spawns(f) /\ job'[f].proc = p
           \/ /\ Waits(f) /\ p = job[f].proc
              /\ proc'[p].step = "none" /\ proc'[p].dir = proc[p].dir
              /\ job'[f].proc = NoProc
<1> USE Shapes
<1>1. CASE SpawnBuild(f) \/ Containerize(f)
  <2>1. PICK q \in Procs, pc \in {"wait", "pack"} :
            /\ proc[q].step = "none" /\ job'[f].proc = q
            /\ proc' = [proc EXCEPT ![q] = Spawned(CommandOf(pc), DirOf[f])]
            /\ proc'[q] = Spawned(CommandOf(pc), DirOf[f])
    BY <1>1, SpawnsIn
  <2>2. p = q => proc'[p].step = "read" /\ proc'[p].dir = DirOf[f]
    BY <2>1, SpawnedFields
  <2> QED
    BY <1>1, <2>1, <2>2 DEF Spawns
<1>2. CASE ImportImage(f)
  <2>1. p = job[f].proc => proc'[p].step = "read" /\ proc'[p].dir = DirOf[f]
    BY <1>2, ImportsIn, SpawnedFields
  <2> QED
    BY <1>2, <2>1, ImportsIn DEF Spawns
<1>3. CASE BuildDone(f)
  <2>1. Waits(f) /\ proc' = [proc EXCEPT ![job[f].proc].step = "none"]
    BY <1>3 DEF BuildDone, Ended, At, Waits, Waiting
  <2>2. job'[f].proc = NoProc
    BY <1>3 DEF BuildDone, Job
  <2> QED
    BY <2>1, <2>2 DEF Proc
<1>4. CASE ImportDone(f)
  <2>1. Waits(f) /\ proc' = [proc EXCEPT ![job[f].proc].step = "none"]
    BY <1>4 DEF ImportDone, Ended, At, Waits, Waiting
  <2>2. job'[f].proc = NoProc
    BY <1>4 DEF ImportDone, Job
  <2> QED
    BY <2>1, <2>2 DEF Proc
<1>5. CASE BuildCut(f)
  <2>1. /\ Waits(f) /\ job'[f].proc = NoProc
        /\ \/ proc' = [proc EXCEPT ![job[f].proc].step = "none"]
           \/ UNCHANGED proc
    BY <1>5, BlankTypes DEF BuildCut, Return
  <2> QED
    BY <2>1 DEF Proc
<1>6. CASE Start(f) \/ StepFails(f)
  BY <1>6 DEF Start, StepFails
<1>7. CASE \/ WriteManifest(f) \/ WriteLock(f) \/ CleanStage(f) \/ StageToml(f)
           \/ StageLock(f) \/ AddSubtree(f) \/ Unstage(f) \/ LinkEnv(f)
           \/ LinkActivation(f) \/ Capture(f)
  BY <1>7 DEF WriteManifest, WriteLock, CleanStage, StageToml, StageLock,
              AddSubtree, Unstage, LinkEnv, LinkActivation, Capture
<1> QED
  BY <1>1, <1>2, <1>3, <1>4, <1>5, <1>6, <1>7 DEF Call, Realize

\* A call waits exactly while it holds a command.
LEMMA CallWaits ==
    ASSUME TypeOK, CommandsHeld, NEW f \in Envs, Call(f)
    PROVE  IF Spawns(f) THEN Waits(f)' /\ job'[f].proc \in Procs
                        ELSE ~Waits(f)' /\ job'[f].proc = NoProc
<1> USE Shapes
<1>1. CASE SpawnBuild(f) \/ Containerize(f)
  BY <1>1, SpawnsIn DEF Spawns, Waits, Waiting
<1>2. CASE ImportImage(f)
  BY <1>2, ImportsIn DEF Spawns, Waits, Waiting
<1> USE DEF CommandsHeld, Held, At, Waits, Waiting
<1> DEFINE Free == ~Waits(f)' /\ job'[f].proc = NoProc
<1>3. Start(f) => Free
  <2>1. Start(f) => job'[f].pc = "manifest" /\ job'[f].proc = NoProc
    BY DEF Start, NoJob
  <2> QED
    BY <2>1
<1>4. WriteManifest(f) \/ WriteLock(f) \/ BuildDone(f) \/ CleanStage(f) => Free
  BY DEF WriteManifest, WriteLock, BuildDone, CleanStage, Goto, Job
<1>5. StageToml(f) \/ StageLock(f) \/ AddSubtree(f) \/ Unstage(f) => Free
  <2>1. ASSUME ~Waits(f), NEW pc, pc \notin Waiting, Goto(f, pc) PROVE Free
    BY <2>1 DEF Goto, Job
  <2>2. StageToml(f) => Free
    BY <2>1 DEF StageToml
  <2>3. StageLock(f) => Free
    BY <2>1 DEF StageLock
  <2>4. Unstage(f) => Free
    BY <2>1 DEF Unstage
  <2>5. ASSUME AddSubtree(f) PROVE Free
    <3>1. job[f].pc = "add" /\ job[f].proc = NoProc
      BY <2>5 DEF AddSubtree
    <3>2. job'[f].pc = "unstage" /\ job'[f].proc = job[f].proc
      BY <2>5 DEF AddSubtree, Job
    <3> QED
      BY <3>1, <3>2
  <2> QED
    BY <2>2, <2>3, <2>4, <2>5
<1>6. LinkEnv(f) \/ LinkActivation(f) \/ ImportDone(f) => Free
  BY DEF LinkEnv, LinkActivation, ImportDone, Goto, Job
<1>7. Capture(f) \/ StepFails(f) \/ BuildCut(f) => Free
  BY BlankTypes DEF Capture, StepFails, BuildCut, Return
<1> HIDE DEF Free
<1>8. Spawns(f) \/ Free
  BY <1>3, <1>4, <1>5, <1>6, <1>7 DEF Call, Realize, Spawns
<1> QED
  BY <1>1, <1>2, <1>8 DEF Spawns, Free

LEMMA CommandMoves ==
    ASSUME TypeOK, NEW p \in Procs, Command(p)
    PROVE  /\ Live(p)
           /\ proc'[p].dir = proc[p].dir /\ proc'[p].cmd = proc[p].cmd
           /\ \A e \in Envs : job[e].proc = p => proc'[p].step # "none"
<1> USE Shapes
<1>1. Live(p)
  BY DEF Command, FloxReads, FloxLocks, FloxBuilds, FloxPacks, CtrReads,
         CtrImports, Makes, Live
<1>2. CASE FloxReads(p) \/ FloxLocks(p) \/ CtrReads(p)
  BY <1>1, <1>2 DEF FloxReads, FloxLocks, CtrReads, Proc
<1>3. CASE FloxBuilds(p) \/ FloxPacks(p) \/ CtrImports(p)
  BY <1>1, <1>3 DEF FloxBuilds, FloxPacks, CtrImports, Makes, Proc
<1> QED
  BY <1>2, <1>3 DEF Command

LEMMA HeldStep ==
    ASSUME TypeOK, TypeOK', CommandsHeld, [Next]_vars
    PROVE  CommandsHeld'
<1> USE Shapes, ProcAssumption
<1>1. ASSUME NEW f \in Envs, Call(f) PROVE CommandsHeld'
  <2>1. ASSUME NEW e \in Envs, e # f PROVE Held(e)'
    <3>1. job'[e] = job[e]
      BY <1>1, <2>1, Elsewhere
    <3>2. Waits(e) => /\ job[e].proc \in Procs
                      /\ proc'[job[e].proc] = proc[job[e].proc]
      <4>1. Waits(e) => job[e].proc \in Procs
        BY DEF CommandsHeld, Held
      <4> QED
        BY <1>1, <2>1, <4>1, CallCommands DEF CommandsHeld, Held
    <3> QED
      BY <3>1, <3>2 DEF CommandsHeld, Held, Waits
  <2>2. Held(f)'
    <3>1. CASE SpawnBuild(f) \/ Containerize(f)
      <4>1. PICK q \in Procs, pc \in {"wait", "pack"} :
                /\ proc'[q] = Spawned(CommandOf(pc), DirOf[f])
                /\ job'[f].pc = pc /\ job'[f].proc = q
        BY <3>1, SpawnsIn
      <4> QED
        BY <4>1, SpawnedFields DEF Held, Waits, Waiting
    <3>2. CASE ImportImage(f)
      BY <3>2, ImportsIn, SpawnedFields DEF Held, Waits, Waiting, CommandOf
    <3>3. CASE ~Spawns(f)
      BY <1>1, <3>3, CallWaits DEF Held
    <3> QED
      BY <3>1, <3>2, <3>3 DEF Spawns
  <2>3. ASSUME NEW e \in Envs, e # f, Waits(e)', Waits(f)'
        PROVE  job'[e].proc # job'[f].proc
    <3>1. job'[e] = job[e] /\ Waits(e)
      BY <1>1, <2>3, Elsewhere DEF Waits
    <3>2. CASE SpawnBuild(f) \/ Containerize(f)
      BY <3>1, <3>2, SpawnsIn DEF CommandsHeld, Held
    <3>3. CASE ImportImage(f)
      BY <2>3, <3>1, <3>3, ImportsIn DEF CommandsHeld
    <3> QED
      BY <1>1, <2>3, <3>2, <3>3, CallWaits DEF Spawns
  <2>4. ASSUME NEW e \in Envs, NEW g \in Envs, e # f, g # f,
               Waits(e)', Waits(g)', job'[e].proc = job'[g].proc
        PROVE  e = g
    BY <1>1, <2>4, Elsewhere DEF CommandsHeld, Waits
  <2> QED
    BY <2>1, <2>2, <2>3, <2>4 DEF CommandsHeld
<1>2. ASSUME NEW p \in Procs, Command(p)
      PROVE  CommandsHeld'
  BY <1>2, CommandKeeps, CommandMoves DEF CommandsHeld, Held, Waits
<1>3. ASSUME NEW e \in Envs, EditSpec(e) PROVE CommandsHeld'
  BY <1>3 DEF EditSpec, CommandsHeld, Held, Waits
<1>4. CASE Crash
  BY <1>4, BlankTypes DEF Crash, CommandsHeld, Held, Waits, Waiting
<1>5. CASE UNCHANGED vars
  BY <1>5 DEF vars, CommandsHeld, Held, Waits
<1> QED
  BY <1>1, <1>2, <1>3, <1>4, <1>5 DEF Next, Call

\* A call under way does not touch the history variables before its end.
LEMMA CallHistory ==
    ASSUME NEW f \in Envs, Realize(f) \/ StepFails(f) \/ BuildCut(f)
    PROVE  Busy(f) /\ calm' = calm /\ (Capture(f) \/ quiet' = quiet)
<1>1. Busy(f)
  BY DEF Realize, StepFails, BuildCut, Waits, Waiting, Busy, At, Ended,
         WriteManifest, WriteLock, SpawnBuild, BuildDone, CleanStage, StageToml,
         StageLock, AddSubtree, Unstage, LinkEnv, LinkActivation, Containerize,
         ImportImage, ImportDone, Capture
<1>2. calm' = calm /\ (Capture(f) \/ quiet' = quiet)
  BY DEF Realize, StepFails, BuildCut, WriteManifest, WriteLock, SpawnBuild,
         BuildDone, CleanStage, StageToml, StageLock, AddSubtree, Unstage,
         LinkEnv, LinkActivation, Containerize, ImportImage, ImportDone,
         Capture
<1> QED
  BY <1>1, <1>2

\* A calm call meets nobody: another call is for another directory.
LEMMA OthersCalm ==
    ASSUME HealInv, NEW f \in Envs, Call(f), NEW e \in Envs, e # f,
           calm'[e], Busy(e)'
    PROVE  Only(e, DirOf[e])' /\ Own(e)'
<1> USE Shapes DEF HealInv
<1>1. job'[e] = job[e] /\ Busy(e)
  BY Elsewhere DEF Busy
<1>2. calm[e] /\ DirOf[e] # DirOf[f]
  <2>1. CASE Start(f)
    BY <2>1 DEF Start
  <2>2. CASE ~Start(f)
    BY <1>1, <2>2, CallHistory DEF Call, CalmCalls, Only
  <2> QED
    BY <2>1, <2>2
<1>3. Only(e, DirOf[e]) /\ Own(e)
  BY <1>1, <1>2 DEF CalmCalls
<1>4. Waits(e) => /\ job[e].proc \in Procs
                       /\ proc'[job[e].proc] = proc[job[e].proc]
  <2>1. Waits(e) => job[e].proc \in Procs
    BY DEF CommandsHeld, Held
  <2> QED
    BY <2>1, CallCommands DEF CommandsHeld, Held
<1>5. Only(e, DirOf[e])'
  <2>1. ASSUME NEW g \in Envs, Busy(g)', DirOf[g] = DirOf[e] PROVE g = e
    BY <1>2, <1>3, <2>1, Elsewhere DEF Only, Busy
  <2>2. ASSUME NEW p \in Procs, Live(p)', proc'[p].dir = DirOf[e]
        PROVE  Waits(e)' /\ p = job'[e].proc
    <3>1. proc'[p] = proc[p]
      BY <1>2, <2>2, CallCommands DEF Live
    <3> QED
      BY <1>1, <1>3, <2>2, <3>1 DEF Only, Live, Waits
  <2> QED
    BY <2>1, <2>2 DEF Only
<1>6. Own(e)'
  <2>1. /\ toml'[DirOf[e]] = toml[DirOf[e]] /\ lock'[DirOf[e]] = lock[DirOf[e]]
        /\ stage'[DirOf[e]] = stage[DirOf[e]] /\ root'[DirOf[e]] = root[DirOf[e]]
        /\ act'[DirOf[e]] = act[DirOf[e]]
        /\ run' = run /\ tar' = tar /\ image' = image
    BY <1>2, Elsewhere
  <2> QED
    BY <1>1, <1>3, <1>4, <2>1 DEF Own, Working, Request, Waits
<1> QED
  BY <1>5, <1>6

\* Nobody joins a calm call in its directory.
LEMMA CallerAlone ==
    ASSUME HealInv, NEW f \in Envs, Call(f), calm'[f], Busy(f)'
    PROVE  Only(f, DirOf[f])'
<1> USE Shapes DEF HealInv
<1>1. CASE Start(f)
  <2>1. calm'[f] = Alone(f) /\ proc' = proc
    BY <1>1 DEF Start
  <2>2. Alone(f)
    BY <2>1
  <2>3. ASSUME NEW g \in Envs, Busy(g)', DirOf[g] = DirOf[f] PROVE g = f
    <3>1. g # f => job'[g] = job[g]
      BY Elsewhere
    <3> QED
      BY <2>2, <2>3, <3>1 DEF Alone, Busy
  <2> QED
    BY <2>1, <2>2, <2>3 DEF Only, Alone, Live
<1>2. CASE ~Start(f)
  <2>1. calm[f] /\ Busy(f) /\ Only(f, DirOf[f])
    BY <1>2, CallHistory DEF Call, CalmCalls
  <2>2. ASSUME NEW g \in Envs, Busy(g)', DirOf[g] = DirOf[f] PROVE g = f
    <3>1. g # f => job'[g] = job[g]
      BY Elsewhere
    <3> QED
      BY <2>1, <2>2, <3>1 DEF Only, Busy
  <2>3. ASSUME NEW p \in Procs, Live(p)', proc'[p].dir = DirOf[f]
        PROVE  Waits(f)' /\ p = job'[f].proc
    <3>1. CASE proc'[p] = proc[p]
      <4>1. Waits(f) /\ p = job[f].proc
        BY <2>1, <2>3, <3>1 DEF Only, Live
      <4>2. ~BuildDone(f) /\ ~ImportImage(f) /\ ~ImportDone(f)
        BY <2>3, <3>1, <4>1 DEF BuildDone, ImportImage, ImportDone, Ended, Live
      <4>3. ~BuildCut(f)
        BY BlankTypes DEF BuildCut, Return, Busy
      <4> QED
        BY <4>1, <4>2, <4>3, EndsOrCuts
    <3>2. CASE proc'[p] # proc[p]
      <4>1. Spawns(f) /\ job'[f].proc = p
        BY <2>3, <3>2, CallCommands DEF Live
      <4> QED
        BY <4>1, CallWaits
    <3> QED
      BY <3>1, <3>2
  <2> QED
    BY <2>2, <2>3 DEF Only
<1> QED
  BY <1>1, <1>2

\* Each step of a calm call makes of the directory what the call is for.
LEMMA CallerOwn ==
    ASSUME HealInv, NEW f \in Envs, Call(f), calm'[f], Busy(f)'
    PROVE  Own(f)'
<1> USE Shapes DEF HealInv, Request, Manifest
<1> DEFINE d == DirOf[f]
           m == Manifest(f, job[f].gen)
<1>1. CASE Start(f)
  <2>1. job'[f].pc = "manifest"
    BY <1>1 DEF Start, NoJob
  <2> QED
    BY <2>1 DEF Own, Staging, Waits, Waiting
<1>2. ASSUME ~Start(f)
      PROVE  Own(f)
  BY <1>2, CallHistory DEF Call, CalmCalls
<1>3. CASE StepFails(f) \/ BuildCut(f) \/ Capture(f)
  BY <1>3, BlankTypes DEF StepFails, BuildCut, Capture, Return, Busy
<1> USE DEF Own, At, Goto, Staging, Job, Waits, Waiting
<1>4. CASE WriteManifest(f)
  BY <1>4 DEF WriteManifest
<1>5. CASE WriteLock(f)
  <2>1. job[f].pc = "lock" /\ job'[f] = [job[f] EXCEPT !.pc = "spawn"] /\ toml' = toml
    BY <1>5 DEF WriteLock
  <2>2. toml[d] = m
    BY <1>2, <1>5, <2>1 DEF Start, Busy
  <2> QED
    BY <2>1, <2>2
<1>6. CASE SpawnBuild(f)
  <2>1. job[f].pc = "spawn" /\ UNCHANGED files
    BY <1>6 DEF SpawnBuild
  <2>2. PICK q \in Procs :
            /\ proc'[q].step = "read"
            /\ job'[f].pc = "wait" /\ job'[f].proc = q /\ job'[f].gen = job[f].gen
    BY <1>6 DEF SpawnBuild, Spawn, Spawned
  <2>3. toml'[d] = m
    BY <1>2, <1>6, <2>1 DEF Start, Busy, files
  <2> QED
    BY <2>2, <2>3 DEF Working
<1>7. CASE BuildDone(f)
  <2>1. /\ job[f].pc = "wait" /\ proc[job[f].proc].step = "done"
        /\ job'[f].pc = "clean" /\ job'[f].gen = job[f].gen
        /\ job'[f].closure = run[d]
        /\ UNCHANGED <<toml, lock>>
    BY <1>7 DEF BuildDone, Ended, files
  <2>2. toml[d] = m /\ lock[d] = m /\ run[d] = m
    BY <1>2, <2>1 DEF Start, Busy, Waits, Waiting, Working
  <2> QED
    BY <2>1, <2>2 DEF Waits, Waiting
<1>8. CASE CleanStage(f)
  BY <1>2, <1>8 DEF CleanStage, Start, Busy
<1>9. CASE StageToml(f)
  BY <1>2, <1>9 DEF StageToml, Start, Busy, Stage
<1>10. CASE StageLock(f)
  BY <1>2, <1>10 DEF StageLock, Start, Busy, Stage
<1>11. CASE AddSubtree(f)
  BY <1>2, <1>11 DEF AddSubtree, Start, Busy, files
<1>12. CASE Unstage(f)
  BY <1>2, <1>12 DEF Unstage, Start, Busy
<1>13. CASE LinkEnv(f)
  BY <1>2, <1>13 DEF LinkEnv, Start, Busy
<1>14. CASE LinkActivation(f)
  BY <1>2, <1>14 DEF LinkActivation, Start, Busy
<1>15. CASE Containerize(f)
  <2>1. job[f].pc = "image" /\ UNCHANGED files
    BY <1>15 DEF Containerize
  <2>2. /\ job'[f].pc = "pack" /\ job'[f].gen = job[f].gen
        /\ job'[f].closure = job[f].closure
        /\ proc'[job'[f].proc].step = "read"
    BY <1>15 DEF Containerize, Spawn, Spawned
  <2>3. /\ toml[d] = m /\ lock[d] = m /\ job[f].closure = m /\ act[d] = m
        /\ root[d] = [toml |-> m, lock |-> m]
    BY <1>2, <2>1 DEF Start, Busy
  <2> QED
    BY <2>1, <2>2, <2>3 DEF Working, files
<1>16. CASE ImportImage(f)
  <2>1. /\ job[f].pc = "pack" /\ proc[job[f].proc].step = "done"
        /\ job'[f].pc = "import" /\ job'[f].gen = job[f].gen
        /\ job'[f].closure = job[f].closure
    BY <1>16, ImportsIn
  <2>5. proc'[job'[f].proc].step = "read"
    BY <1>16, ImportsIn, SpawnedFields
  <2>2. UNCHANGED files
    BY <1>16 DEF ImportImage
  <2>3. /\ toml[d] = m /\ lock[d] = m /\ job[f].closure = m /\ act[d] = m
        /\ root[d] = [toml |-> m, lock |-> m] /\ Working(f)
    BY <1>2, <2>1 DEF Start, Busy, Waits, Waiting
  <2>4. tar[d] = m
    BY <2>1, <2>3 DEF Working
  <2> QED
    BY <2>1, <2>2, <2>3, <2>4, <2>5 DEF Working, files
<1>17. CASE ImportDone(f)
  <2>1. /\ job[f].pc = "import" /\ proc[job[f].proc].step = "done"
        /\ job'[f].pc = "capture" /\ job'[f].gen = job[f].gen
        /\ job'[f].closure = job[f].closure
    BY <1>17 DEF ImportDone, Ended
  <2>2. UNCHANGED files
    BY <1>17 DEF ImportDone
  <2>3. /\ toml[d] = m /\ lock[d] = m /\ job[f].closure = m /\ act[d] = m
        /\ root[d] = [toml |-> m, lock |-> m] /\ Working(f)
    BY <1>2, <2>1 DEF Start, Busy, Waits, Waiting
  <2>4. image[d] = m
    BY <2>1, <2>3 DEF Working
  <2> QED
    BY <2>1, <2>2, <2>3, <2>4 DEF Waits, Waiting, files
<1> QED
  BY <1>1, <1>3, <1>4, <1>5, <1>6, <1>7, <1>8, <1>9, <1>10, <1>11, <1>12,
     <1>13, <1>14, <1>15, <1>16, <1>17 DEF Call, Realize

\* The command a calm call waits for goes on with what the call is for.
LEMMA Works ==
    ASSUME HealInv, NEW e \in Envs, Own(e), Waits(e), Command(job[e].proc)
    PROVE  Working(e)'
<1> USE Shapes DEF HealInv
<1> DEFINE p == job[e].proc
           d == DirOf[e]
           m == Request(e)
<1>1. /\ p \in Procs /\ proc[p] \in Proc /\ proc[p].dir = d
      /\ proc[p].cmd = CommandOf(job[e].pc)
  BY ProcAssumption DEF CommandsHeld, Held
<1>2. UNCHANGED <<job, toml>> /\ Request(e)' = m
  BY <1>1, CommandKeeps DEF Request
<1>3. toml[d] = m /\ Working(e) /\ (job[e].pc # "wait" => lock[d] = m)
      /\ (job[e].pc = "import" => tar[d] = m)
  BY DEF Own, Waits, Waiting
<1>4. CASE FloxReads(p)
  <2>1. /\ proc'[p].step = "lock" /\ proc'[p].file = toml[d]
        /\ proc'[p].locked = (toml[d] = lock[d])
        /\ UNCHANGED lock
    BY <1>1, <1>4 DEF FloxReads, Proc, files
  <2> QED
    BY <1>2, <1>3, <2>1 DEF Working
<1>5. CASE FloxLocks(p)
  <2>1. /\ proc[p].step = "lock" /\ proc'[p].step = "build"
        /\ proc'[p].file = proc[p].file
        /\ lock'[d] = IF proc[p].locked THEN lock[d] ELSE proc[p].file
    BY <1>1, <1>5 DEF FloxLocks, Proc
  <2> QED
    BY <1>2, <1>3, <2>1 DEF Working
<1>6. CASE CtrReads(p)
  <2>1. /\ proc'[p].step = "build" /\ proc'[p].file = tar[d]
        /\ proc[p].cmd = "import" /\ UNCHANGED lock
    BY <1>1, <1>6 DEF CtrReads, Proc, files
  <2>2. job[e].pc = "import"
    BY <1>1, <2>1 DEF CommandOf, Waits, Waiting
  <2> QED
    BY <1>2, <1>3, <2>1, <2>2 DEF Working
<1>7. CASE FloxBuilds(p) \/ FloxPacks(p) \/ CtrImports(p)
  <2>1. /\ proc[p].step = "build" /\ proc'[p].step \in {"done", "none"}
        /\ proc'[p].file = proc[p].file /\ UNCHANGED lock
    BY <1>1, <1>7 DEF FloxBuilds, FloxPacks, CtrImports, Makes, Proc
  <2>2. /\ job[e].pc = "wait" => run'[d] = proc[p].file
        /\ job[e].pc = "pack" => tar'[d] = proc[p].file
        /\ job[e].pc = "import" => image'[d] = proc[p].file
    BY <1>1, <1>7 DEF FloxBuilds, FloxPacks, CtrImports, Makes, CommandOf
  <2>3. proc[p].file = m /\ lock'[d] = m
    BY <1>3, <2>1 DEF Working
  <2>4. job[e].pc \in {"wait", "pack", "import"}
    BY DEF Waits, Waiting
  <2> QED
    BY <1>2, <2>1, <2>2, <2>3, <2>4 DEF Working
<1> QED
  BY <1>4, <1>5, <1>6, <1>7 DEF Command

\* A command in the directory of a calm call is the call's own.
LEMMA CommandCalm ==
    ASSUME HealInv, NEW p \in Procs, Command(p)
    PROVE  CalmCalls' /\ QuietDirs'
<1> USE Shapes DEF HealInv
<1>1. UNCHANGED <<job, toml, stage, root, act, pin, calm, quiet>>
  BY CommandKeeps
<1>2. Live(p)
  BY CommandMoves
<1>3. ASSUME NEW q \in Procs PROVE proc'[q].dir = proc[q].dir
  BY CommandKeeps, CommandMoves
<1>4. ASSUME NEW q \in Procs, Live(q)' PROVE Live(q)
  BY <1>2, <1>4, CommandKeeps DEF Live
<1>5. ASSUME NEW d \in Dirs, d # proc[p].dir
      PROVE  /\ lock'[d] = lock[d] /\ run'[d] = run[d]
             /\ tar'[d] = tar[d] /\ image'[d] = image[d]
  BY <1>5, CommandKeeps
<1>6. QuietDirs'
  <2>1. ASSUME NEW e \in Envs, quiet[DirOf[e]]
        PROVE  /\ \A q \in Procs : Live(q)' => proc'[q].dir # DirOf[e]
               /\ image'[DirOf[e]] = image[DirOf[e]]
    BY <1>2, <1>3, <1>4, <1>5, <2>1 DEF QuietDirs
  <2>2. ASSUME NEW e \in Envs PROVE Busy(e)' = Busy(e)
    BY <1>1 DEF Busy
  <2> QED
    BY <1>1, <2>1, <2>2 DEF QuietDirs, Whole
<1>7. ASSUME NEW e \in Envs, calm'[e], Busy(e)'
      PROVE  Only(e, DirOf[e])' /\ Own(e)'
  <2>1. calm[e] /\ Busy(e) /\ Only(e, DirOf[e]) /\ Own(e)
    BY <1>1, <1>7 DEF CalmCalls, Busy
  <2>2. Waits(e)' = Waits(e) /\ Request(e)' = Request(e)
    BY <1>1 DEF Waits, Request
  <2>3. Only(e, DirOf[e])'
    <3>1. \A f \in Envs : Busy(f)' = Busy(f)
      BY <1>1 DEF Busy
    <3>2. ASSUME NEW q \in Procs, Live(q)', proc'[q].dir = DirOf[e]
          PROVE  Waits(e)' /\ q = job'[e].proc
      BY <1>1, <1>3, <1>4, <2>1, <2>2, <3>2 DEF Only
    <3> QED
      BY <2>1, <3>1, <3>2 DEF Only
  <2>4. CASE proc[p].dir # DirOf[e]
    <3>1. Waits(e) => /\ job[e].proc \in Procs
                      /\ proc'[job[e].proc] = proc[job[e].proc]
      BY <2>4, CommandKeeps DEF CommandsHeld, Held
    <3> QED
      BY <1>1, <1>5, <2>1, <2>2, <2>3, <2>4, <3>1 DEF Own, Working
  <2>5. CASE proc[p].dir = DirOf[e]
    <3>1. Waits(e) /\ p = job[e].proc
      BY <1>2, <2>1, <2>5 DEF Only
    <3>2. Working(e)'
      BY <2>1, <3>1, Works
    <3>3. job[e].pc # "wait" => lock'[DirOf[e]] = lock[DirOf[e]]
      <4>1. ASSUME FloxLocks(p), job[e].pc # "wait"
            PROVE  lock'[DirOf[e]] = lock[DirOf[e]]
        <5>1. Working(e) /\ lock[DirOf[e]] = Request(e)
          BY <2>1, <3>1, <4>1 DEF Own, Waits, Waiting
        <5>2. proc[p].step = "lock" /\ proc[p].locked
          BY <3>1, <4>1, <5>1 DEF FloxLocks, Working
        <5> QED
          BY <2>5, <4>1, <5>2 DEF FloxLocks
      <4> QED
        BY <4>1 DEF Command, FloxReads, FloxBuilds, FloxPacks, CtrReads,
                    CtrImports, Makes, files
    <3>4. job[e].pc = "import" => tar' = tar
      <4>1. ASSUME FloxPacks(p) PROVE job[e].pc = "pack"
        BY <3>1, <4>1 DEF FloxPacks, Makes, CommandsHeld, Held, CommandOf,
                          Waits, Waiting
      <4> QED
        BY <4>1 DEF Command, FloxReads, FloxLocks, FloxBuilds, CtrReads,
                    CtrImports, files
    <3>5. job[e].pc \in {"wait", "pack", "import"}
      BY <3>1 DEF Waits, Waiting
    <3> QED
      BY <1>1, <2>1, <2>2, <2>3, <3>1, <3>2, <3>3, <3>4, <3>5 DEF Own, Staging
  <2> QED
    BY <2>4, <2>5
<1> QED
  BY <1>6, <1>7 DEF CalmCalls

\* A call ends the quiet of its directory; only a calm one brings it back.
LEMMA CallQuiet ==
    ASSUME HealInv, NEW f \in Envs, Call(f)
    PROVE  QuietDirs'
<1> USE Shapes DEF HealInv
<1>1. ASSUME NEW e \in Envs, DirOf[e] # DirOf[f], quiet'[DirOf[e]]
      PROVE  /\ \A g \in Envs : DirOf[g] = DirOf[e] => ~Busy(g)'
             /\ \A p \in Procs : Live(p)' => proc'[p].dir # DirOf[e]
             /\ root'[DirOf[e]].toml.env = e => Whole(e)'
  <2>1. quiet[DirOf[e]]
    BY <1>1, Elsewhere
  <2>2. /\ root'[DirOf[e]] = root[DirOf[e]] /\ act'[DirOf[e]] = act[DirOf[e]]
        /\ image'[DirOf[e]] = image[DirOf[e]] /\ pin'[e] = pin[e]
    BY <1>1, Elsewhere
  <2>3. ASSUME NEW g \in Envs, DirOf[g] = DirOf[e] PROVE ~Busy(g)'
    BY <1>1, <2>1, <2>3, Elsewhere DEF QuietDirs, Busy
  <2>4. ASSUME NEW p \in Procs, Live(p)' PROVE proc'[p].dir # DirOf[e]
    BY <1>1, <2>1, <2>4, CallCommands DEF QuietDirs, Live
  <2> QED
    BY <2>1, <2>2, <2>3, <2>4 DEF QuietDirs, Whole
<1>2. CASE Start(f)
  <2>1. ~quiet'[DirOf[f]]
    BY <1>2 DEF Start
  <2> QED
    BY <1>1, <2>1 DEF QuietDirs
<1>3. CASE Capture(f)
  <2>1. /\ At(f, "capture") /\ Busy(f) /\ quiet'[DirOf[f]] = calm[f]
        /\ job'[f] = NoJob /\ pin'[f] = lock[DirOf[f]]
        /\ UNCHANGED <<proc, lock, root, act, image>>
    BY <1>3 DEF Capture, At, Busy, files
  <2>2. ASSUME quiet'[DirOf[f]]
        PROVE  Only(f, DirOf[f]) /\ Own(f)
    BY <2>1, <2>2 DEF CalmCalls
  <2>3. ASSUME quiet'[DirOf[f]], NEW g \in Envs, DirOf[g] = DirOf[f]
        PROVE  ~Busy(g)'
    <3>1. g # f => job'[g] = job[g]
      BY Elsewhere
    <3> QED
      BY <2>1, <2>2, <2>3, <3>1, BlankTypes DEF Only, Busy
  <2>4. ASSUME quiet'[DirOf[f]], NEW p \in Procs, Live(p)'
        PROVE  proc'[p].dir # DirOf[f]
    BY <2>1, <2>2, <2>4 DEF Only, Live, At, Waits, Waiting
  <2>5. ASSUME quiet'[DirOf[f]], NEW e \in Envs, DirOf[e] = DirOf[f],
               root'[DirOf[e]].toml.env = e
        PROVE  Whole(e)'
    <3>1. root[DirOf[f]].toml = Request(f) /\ root[DirOf[f]].lock = Request(f)
      BY <2>1, <2>2, <2>5 DEF Own, At
    <3>2. e = f
      BY <2>1, <2>5, <3>1, ManifestType DEF Request
    <3>3. /\ act[DirOf[f]] = Request(f) /\ lock[DirOf[f]] = Request(f)
          /\ f \in ImageEnvs => image[DirOf[f]] = Request(f)
      BY <2>1, <2>2, <2>5 DEF Own, At
    <3> QED
      BY <2>1, <3>1, <3>2, <3>3 DEF Whole
  <2> QED
    BY <1>1, <2>3, <2>4, <2>5 DEF QuietDirs
<1>4. CASE ~Start(f) /\ ~Capture(f)
  <2>1. Busy(f) /\ quiet' = quiet
    BY <1>4, CallHistory DEF Call
  <2>2. ~quiet'[DirOf[f]]
    BY <2>1 DEF QuietDirs
  <2> QED
    BY <1>1, <2>2 DEF QuietDirs
<1> QED
  BY <1>2, <1>3, <1>4

LEMMA HealStep == HealInv /\ [Next]_vars => HealInv'
<1> SUFFICES ASSUME HealInv, [Next]_vars PROVE HealInv'
  OBVIOUS
<1>1. TypeOK' /\ CommandsHeld'
  BY TypeStep, HeldStep DEF HealInv
<1>2. ASSUME NEW f \in Envs, Call(f) PROVE HealInv'
  <2>1. ASSUME NEW e \in Envs, calm'[e], Busy(e)'
        PROVE  Only(e, DirOf[e])' /\ Own(e)'
    <3>1. CASE e = f
      BY <1>2, <2>1, <3>1, CallerAlone, CallerOwn
    <3>2. CASE e # f
      BY <1>2, <2>1, <3>2, OthersCalm
    <3> QED
      BY <3>1, <3>2
  <2>2. CalmCalls'
    BY <2>1 DEF CalmCalls
  <2> QED
    BY <1>1, <1>2, <2>2, CallQuiet DEF HealInv
<1>3. ASSUME NEW p \in Procs, Command(p)
      PROVE  HealInv'
  BY <1>1, <1>3, CommandCalm DEF HealInv
<1>4. CASE UNCHANGED <<job, proc, files, pin, calm, quiet>>
  BY <1>1, <1>4 DEF files, HealInv, CalmCalls, QuietDirs, Busy, Live, Only, Own,
                    Working, Request, Waits, Whole
<1>5. ASSUME NEW e \in Envs, EditSpec(e) PROVE HealInv'
  BY <1>4, <1>5 DEF EditSpec
<1>6. CASE UNCHANGED vars
  BY <1>4, <1>6 DEF vars
<1>7. CASE Crash
  <2>1. /\ \A e \in Envs : ~Busy(e)'
        /\ \A p \in Procs : Live(p)' => Live(p) /\ proc'[p] = proc[p]
        /\ UNCHANGED <<files, pin, calm, quiet>>
    BY <1>7, Shapes, BlankTypes DEF Crash, HealInv, Busy, Live, Proc
  <2>2. CalmCalls'
    BY <2>1 DEF CalmCalls
  <2>3. QuietDirs'
    BY <2>1 DEF HealInv, QuietDirs, Whole, files
  <2> QED
    BY <1>1, <2>2, <2>3 DEF HealInv
<1> QED
  BY <1>2, <1>3, <1>5, <1>6, <1>7 DEF Next, Call

\* Whatever earlier calls left half way and whoever shares the directory, a
\* realise that nobody runs into leaves tree, activation root, image and pin
\* of one manifest.
THEOREM CalmRealisesHeal == Spec => []CalmRealiseHeals
<1>1. HealInv => CalmRealiseHeals
  BY DEF HealInv, QuietDirs, Whole, CalmRealiseHeals
<1> QED
  BY <1>1, HealInit, HealStep, PTL DEF Spec
=============================================================================
