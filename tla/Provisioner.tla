----------------------------- MODULE Provisioner -----------------------------
(***************************************************************************)
(* The host side of a realise on one node (internal/provisioner/exec.go):  *)
(* the env directory, the commands that run on the host, the staging of    *)
(* the env subtree, the two GC-roots and the image.                        *)
(*                                                                         *)
(* Covered: realises of several envs at once, a step that fails, a realise *)
(* cut off by RealizeTimeout, an agent that dies, and host commands that   *)
(* outlive both - flox activate and flox containerize run behind nsenter   *)
(* and in a systemd scope of their own (hostScopedCommand), where killing  *)
(* the caller does not reach, ctr behind nsenter (command).                *)
(* Not covered: the host's garbage collector, a disk that loses files, a   *)
(* file that is read half written.                                         *)
(*                                                                         *)
(* A file is abstracted to the manifest it is about: manifest.toml to the  *)
(* env and generation it spells out, manifest.lock to the manifest it      *)
(* locks, a closure or an image to the lock it was built from.             *)
(***************************************************************************)
EXTENDS Integers

CONSTANTS
    Self,       \* the node
    Envs,       \* the FloxEnvs
    NoEnv,      \* no env: the owner of a file that is not there
    Dirs,       \* the env directories, <EnvRoot>/<folder>/<name>
    DirOf,      \* envDir: the directory of each env, by folder and name
    ImageEnvs,  \* the envs with consumption: image
    Procs,      \* bound on host commands that run at once
    NoProc,     \* no command
    MaxGen,     \* bound: spec edits stop at this generation
    MaxFaults   \* bound on failed steps, timeouts and crashes

ASSUME DirAssumption  == DirOf \in [Envs -> Dirs]
ASSUME ProcAssumption == NoProc \notin Procs
ASSUME HostBoundAssumption == MaxGen \in Nat /\ MaxFaults \in Nat

VARIABLES
    gen,    \* gen[e]: metadata.generation
    seen,   \* seen[e]: the generation in the agent's informer
    pin,    \* pin[e]: status.lock
    done,   \* done[e]: the generation of the last realise that succeeded
    job,    \* job[e]: the call of Realize for e
    proc,   \* proc[p]: a flox activate, flox containerize or ctr import
    toml,   \* toml[d]: .flox/env/manifest.toml
    lock,   \* lock[d]: .flox/env/manifest.lock
    run,    \* run[d]: what the .flox/run/<...>-dev symlink points at
    stage,  \* stage[d]: the staging directory of the subtree
    root,   \* root[d]: the tree the plugin-facing GC-root points at
    act,    \* act[d]: the closure the activation GC-root points at
    tar,    \* tar[d]: .flox/containerize.tar
    image,  \* image[d]: the image in containerd
    calm,   \* calm[e]: history: nobody else was at work in e's directory
    quiet,  \* quiet[d]: history: the last realise in d succeeded, and calmly
    faults  \* failed steps, timeouts and crashes so far

files == <<toml, lock, run, stage, root, act, tar, image>>
vars  == <<gen, seen, pin, done, job, proc, files, calm, quiet, faults>>
-----------------------------------------------------------------------------
File   == [env : Envs \cup {NoEnv}, gen : Nat]
NoFile == [env |-> NoEnv, gen |-> 0]

\* Mutant: the manifest is written without the name of its env.
AnonymousManifest(e, g) == [gen |-> g]

Manifest(e, g) == [env |-> e, gen |-> g]

\* What a subtree holds; the staging directory may be absent, or half full.
Tree    == [toml : File, lock : File]
NoTree  == [toml |-> NoFile, lock |-> NoFile]
Stage   == [there : BOOLEAN, toml : File, lock : File]
NoStage == [there |-> FALSE, toml |-> NoFile, lock |-> NoFile]

\* Where Realize and addEnvSubtree stand between two effects on the host.
Staging == {"stage_toml", "stage_lock", "add", "unstage"}
Waiting == {"wait", "pack", "import"}
Steps   == {"idle", "manifest", "lock", "spawn", "clean", "link",
            "activation", "image", "capture"} \cup Staging \cup Waiting

\* The request and what Realize has found out so far.
Job   == [pc : Steps, gen : Nat, lock : File, proc : Procs \cup {NoProc},
          closure : File, tree : Tree]
NoJob == [pc |-> "idle", gen |-> 0, lock |-> NoFile, proc |-> NoProc,
          closure |-> NoFile, tree |-> NoTree]

\* A command on the host.  flox activate and flox containerize read manifest
\* and lock, lock, and build; ctr import reads what the latter has packed.
Commands == {"activate", "containerize", "import"}
Proc   == [cmd : Commands, step : {"none", "read", "lock", "build", "done"},
           dir : Dirs, file : File, locked : BOOLEAN]

Spawned(cmd, d) == [cmd |-> cmd, step |-> "read", dir |-> d, file |-> NoFile,
                    locked |-> FALSE]

Live(p)  == proc[p].step \in {"read", "lock", "build"}
Busy(e)  == job[e].pc # "idle"
Waits(e) == job[e].pc \in Waiting
Alone(e) == /\ \A p \in Procs : Live(p) => proc[p].dir # DirOf[e]
            /\ \A f \in Envs \ {e} : Busy(f) => DirOf[f] # DirOf[e]
-----------------------------------------------------------------------------
Init ==
    /\ gen    = [e \in Envs |-> 1]
    /\ seen   = [e \in Envs |-> 1]
    /\ pin    = [e \in Envs |-> NoFile]
    /\ done   = [e \in Envs |-> 0]
    /\ job    = [e \in Envs |-> NoJob]
    /\ \E d \in Dirs :
          proc = [p \in Procs |-> [Spawned("activate", d) EXCEPT !.step = "none"]]
    /\ toml   = [d \in Dirs |-> NoFile]
    /\ lock   = [d \in Dirs |-> NoFile]
    /\ run    = [d \in Dirs |-> NoFile]
    /\ stage  = [d \in Dirs |-> NoStage]
    /\ root   = [d \in Dirs |-> NoTree]
    /\ act    = [d \in Dirs |-> NoFile]
    /\ tar    = [d \in Dirs |-> NoFile]
    /\ image  = [d \in Dirs |-> NoFile]
    /\ calm   = [e \in Envs |-> FALSE]
    /\ quiet  = [d \in Dirs |-> FALSE]
    /\ faults = 0
-----------------------------------------------------------------------------
(* The surroundings: the editor, the reconciler, the host's flox.           *)

EditSpec(e) ==
    /\ gen[e] < MaxGen
    /\ gen' = [gen EXCEPT ![e] = @ + 1]
    /\ UNCHANGED <<seen, pin, done, job, proc, files, calm, quiet, faults>>

\* The reconciler calls Realize with the manifest its informer has, and the
\* pin of record or, on a relock, no lock.  One reconcile of an env at a time.
Start(e) ==
    /\ ~Busy(e)
    /\ \E g \in seen[e] .. gen[e], l \in {NoFile, pin[e]} :
          /\ seen' = [seen EXCEPT ![e] = g]
          /\ job'  = [job EXCEPT ![e] =
                         [NoJob EXCEPT !.pc = "manifest", !.gen = g, !.lock = l]]
    /\ calm'  = [f \in Envs |->
                    IF f = e THEN Alone(e)
                             ELSE calm[f] /\ DirOf[f] # DirOf[e]]
    /\ quiet' = [quiet EXCEPT ![DirOf[e]] = FALSE]
    /\ UNCHANGED <<gen, pin, done, proc, files, faults>>

FloxReads(p) ==
    /\ proc[p].step = "read" /\ proc[p].cmd # "import"
    /\ proc' = [proc EXCEPT ![p].step   = "lock",
                            ![p].file   = toml[proc[p].dir],
                            ![p].locked = toml[proc[p].dir] = lock[proc[p].dir]]
    /\ UNCHANGED <<gen, seen, pin, done, job, files, calm, quiet, faults>>

\* Lock if needed: a lock that is for this manifest is left alone.
FloxLocks(p) ==
    /\ proc[p].step = "lock"
    /\ proc' = [proc EXCEPT ![p].step = "build"]
    /\ lock' = [lock EXCEPT ![proc[p].dir] =
                   IF proc[p].locked THEN @ ELSE proc[p].file]
    /\ UNCHANGED <<gen, seen, pin, done, job, toml, run, stage, root, act,
                   tar, image, calm, quiet, faults>>

CtrReads(p) ==
    /\ proc[p].step = "read" /\ proc[p].cmd = "import"
    /\ proc' = [proc EXCEPT ![p].step = "build",
                            ![p].file = tar[proc[p].dir]]
    /\ UNCHANGED <<gen, seen, pin, done, job, files, calm, quiet, faults>>

\* The command has made what it is for; one that nobody waits for any more
\* just ends.
Makes(p, cmd) ==
    /\ proc[p].step = "build" /\ proc[p].cmd = cmd
    /\ proc' = [proc EXCEPT ![p].step =
                   IF \E e \in Envs : job[e].proc = p THEN "done" ELSE "none"]
    /\ UNCHANGED <<gen, seen, pin, done, job, toml, lock, stage, root, act,
                   calm, quiet, faults>>

\* flox activate leaves the closure, and the run symlink.
FloxBuilds(p) ==
    /\ Makes(p, "activate")
    /\ run' = [run EXCEPT ![proc[p].dir] = proc[p].file]
    /\ UNCHANGED <<tar, image>>

\* flox containerize leaves the image in the env directory.
FloxPacks(p) ==
    /\ Makes(p, "containerize")
    /\ tar' = [tar EXCEPT ![proc[p].dir] = proc[p].file]
    /\ UNCHANGED <<run, image>>

CtrImports(p) ==
    /\ Makes(p, "import")
    /\ image' = [image EXCEPT ![proc[p].dir] = proc[p].file]
    /\ UNCHANGED <<run, tar>>
-----------------------------------------------------------------------------
(* Realize.                                                                 *)

At(e, pc) == job[e].pc = pc

Goto(e, pc) == job' = [job EXCEPT ![e].pc = pc]

WriteManifest(e) ==
    /\ At(e, "manifest")
    /\ Goto(e, "lock")
    /\ toml' = [toml EXCEPT ![DirOf[e]] = Manifest(e, job[e].gen)]
    /\ UNCHANGED <<gen, seen, pin, done, proc, lock, run, stage, root, act,
                   tar, image, calm, quiet, faults>>

\* An empty lock in the request leaves the file that is there.
WriteLock(e) ==
    /\ At(e, "lock")
    /\ Goto(e, "spawn")
    /\ lock' = [lock EXCEPT ![DirOf[e]] =
                   IF job[e].lock = NoFile THEN @ ELSE job[e].lock]
    /\ UNCHANGED <<gen, seen, pin, done, proc, toml, run, stage, root, act,
                   tar, image, calm, quiet, faults>>

\* A command is started on the host, and waited for at pc.
Spawn(e, cmd, pc) ==
    \E p \in Procs :
        /\ proc[p].step = "none"
        /\ proc' = [proc EXCEPT ![p] = Spawned(cmd, DirOf[e])]
        /\ job'  = [job EXCEPT ![e].pc = pc, ![e].proc = p]

\* The command e waits for at pc has ended well.
Ended(e, pc) == At(e, pc) /\ proc[job[e].proc].step = "done"

\* buildEnv: flox activate ...
SpawnBuild(e) ==
    /\ At(e, "spawn")
    /\ Spawn(e, "activate", "wait")
    /\ UNCHANGED <<gen, seen, pin, done, files, calm, quiet, faults>>

\* ... has ended, and the run symlink says what was built.
BuildDone(e) ==
    /\ Ended(e, "wait")
    /\ proc' = [proc EXCEPT ![job[e].proc].step = "none"]
    /\ job'  = [job EXCEPT ![e].pc      = "clean",
                           ![e].proc    = NoProc,
                           ![e].closure = run[DirOf[e]]]
    /\ UNCHANGED <<gen, seen, pin, done, files, calm, quiet, faults>>

\* addEnvSubtree starts from an empty staging directory.
CleanStage(e) ==
    /\ At(e, "clean")
    /\ Goto(e, "stage_toml")
    /\ stage' = [stage EXCEPT ![DirOf[e]] = [NoStage EXCEPT !.there = TRUE]]
    /\ UNCHANGED <<gen, seen, pin, done, proc, toml, lock, run, root, act,
                   tar, image, calm, quiet, faults>>

\* Mutant: what was published last time is staged again.
KeptStageToml(e) ==
    /\ At(e, "stage_toml")
    /\ Goto(e, "stage_lock")
    /\ stage' = [stage EXCEPT ![DirOf[e]].toml =
                    IF root[DirOf[e]] = NoTree THEN toml[DirOf[e]]
                                               ELSE root[DirOf[e]].toml]
    /\ UNCHANGED <<gen, seen, pin, done, proc, toml, lock, run, root, act,
                   tar, image, calm, quiet, faults>>

StageToml(e) ==
    /\ At(e, "stage_toml")
    /\ stage[DirOf[e]].there
    /\ Goto(e, "stage_lock")
    /\ stage' = [stage EXCEPT ![DirOf[e]].toml = toml[DirOf[e]]]
    /\ UNCHANGED <<gen, seen, pin, done, proc, toml, lock, run, root, act,
                   tar, image, calm, quiet, faults>>

StageLock(e) ==
    /\ At(e, "stage_lock")
    /\ stage[DirOf[e]].there
    /\ lock[DirOf[e]] # NoFile
    /\ Goto(e, "add")
    /\ stage' = [stage EXCEPT ![DirOf[e]].lock = lock[DirOf[e]]]
    /\ UNCHANGED <<gen, seen, pin, done, proc, toml, lock, run, root, act,
                   tar, image, calm, quiet, faults>>

\* nix-store --add: an immutable copy of what is staged at that moment.
AddSubtree(e) ==
    /\ At(e, "add")
    /\ stage[DirOf[e]].there
    /\ job' = [job EXCEPT ![e].pc   = "unstage",
                          ![e].tree = [toml |-> stage[DirOf[e]].toml,
                                       lock |-> stage[DirOf[e]].lock]]
    /\ UNCHANGED <<gen, seen, pin, done, proc, files, calm, quiet, faults>>

\* The deferred RemoveAll.
Unstage(e) ==
    /\ At(e, "unstage")
    /\ Goto(e, "link")
    /\ stage' = [stage EXCEPT ![DirOf[e]] = NoStage]
    /\ UNCHANGED <<gen, seen, pin, done, proc, toml, lock, run, root, act,
                   tar, image, calm, quiet, faults>>

\* Mutant: the old GC-root is removed before the new one is linked.
UnlinkThenLink(e) ==
    /\ At(e, "link")
    /\ IF root[DirOf[e]] = NoTree
       THEN Goto(e, "activation") /\ root' = [root EXCEPT ![DirOf[e]] = job[e].tree]
       ELSE UNCHANGED job /\ root' = [root EXCEPT ![DirOf[e]] = NoTree]
    /\ UNCHANGED <<gen, seen, pin, done, proc, toml, lock, run, stage, act,
                   tar, image, calm, quiet, faults>>

\* writeGcroot: a symlink beside the root is renamed over it.
LinkEnv(e) ==
    /\ At(e, "link")
    /\ Goto(e, "activation")
    /\ root' = [root EXCEPT ![DirOf[e]] = job[e].tree]
    /\ UNCHANGED <<gen, seen, pin, done, proc, toml, lock, run, stage, act,
                   tar, image, calm, quiet, faults>>

\* Mutant: the activation root is written once and for all.
LinkActivationOnce(e) ==
    /\ At(e, "activation")
    /\ Goto(e, IF e \in ImageEnvs THEN "image" ELSE "capture")
    /\ act' = [act EXCEPT ![DirOf[e]] = IF @ = NoFile THEN job[e].closure ELSE @]
    /\ UNCHANGED <<gen, seen, pin, done, proc, toml, lock, run, stage, root,
                   tar, image, calm, quiet, faults>>

LinkActivation(e) ==
    /\ At(e, "activation")
    /\ Goto(e, IF e \in ImageEnvs THEN "image" ELSE "capture")
    /\ act' = [act EXCEPT ![DirOf[e]] = job[e].closure]
    /\ UNCHANGED <<gen, seen, pin, done, proc, toml, lock, run, stage, root,
                   tar, image, calm, quiet, faults>>

\* containerizeAndImport: flox containerize ...
Containerize(e) ==
    /\ At(e, "image")
    /\ Spawn(e, "containerize", "pack")
    /\ UNCHANGED <<gen, seen, pin, done, files, calm, quiet, faults>>

\* ... and, once that has ended, ctr images import.
ImportImage(e) ==
    /\ Ended(e, "pack")
    /\ proc' = [proc EXCEPT ![job[e].proc] = Spawned("import", DirOf[e])]
    /\ Goto(e, "import")
    /\ UNCHANGED <<gen, seen, pin, done, files, calm, quiet, faults>>

ImportDone(e) ==
    /\ Ended(e, "import")
    /\ proc' = [proc EXCEPT ![job[e].proc].step = "none"]
    /\ job'  = [job EXCEPT ![e].pc = "capture", ![e].proc = NoProc]
    /\ UNCHANGED <<gen, seen, pin, done, files, calm, quiet, faults>>

\* Realize returns the lock that is there now, and the reconciler publishes.
Capture(e) ==
    /\ At(e, "capture")
    /\ job'   = [job EXCEPT ![e] = NoJob]
    /\ pin'   = [pin EXCEPT ![e] = lock[DirOf[e]]]
    /\ done'  = [done EXCEPT ![e] = job[e].gen]
    /\ quiet' = [quiet EXCEPT ![DirOf[e]] = calm[e]]
    /\ UNCHANGED <<gen, seen, proc, files, calm, faults>>
-----------------------------------------------------------------------------
(* Failures.                                                                *)

Fault == faults < MaxFaults /\ faults' = faults + 1

\* Realize returns an error; out of addEnvSubtree the staging is removed.
Return(e) ==
    /\ job'   = [job EXCEPT ![e] = NoJob]
    /\ stage' = [stage EXCEPT ![DirOf[e]] = IF job[e].pc \in Staging
                                            THEN NoStage ELSE @]

\* What is to be copied or added next is not there (any more).
Lost(e) ==
    \/ job[e].pc \in {"stage_toml", "stage_lock", "add"} /\ ~stage[DirOf[e]].there
    \/ At(e, "stage_lock") /\ lock[DirOf[e]] = NoFile

\* A host command or a file operation fails, for that reason or another.
StepFails(e) ==
    /\ Busy(e) /\ ~Waits(e)
    /\ IF Lost(e) THEN UNCHANGED faults ELSE Fault
    /\ Return(e)
    /\ UNCHANGED <<gen, seen, pin, done, proc, toml, lock, run, root, act,
                   tar, image, calm, quiet>>

\* The command fails, or RealizeTimeout is over and it is killed: what runs
\* behind nsenter may go on.
BuildCut(e) ==
    /\ Waits(e)
    /\ Live(job[e].proc)
    /\ Fault
    /\ Return(e)
    /\ \/ proc' = [proc EXCEPT ![job[e].proc].step = "none"]
       \/ UNCHANGED proc
    /\ UNCHANGED <<gen, seen, pin, done, toml, lock, run, root, act, tar,
                   image, calm, quiet>>

\* The agent dies with all its calls; what runs in a scope of its own stays.
Crash ==
    /\ Fault
    /\ seen' = gen
    /\ job'  = [e \in Envs |-> NoJob]
    /\ \E survivors \in SUBSET {p \in Procs : Live(p)} :
          proc' = [p \in Procs |-> IF p \in survivors THEN proc[p]
                                   ELSE [proc[p] EXCEPT !.step = "none"]]
    /\ UNCHANGED <<gen, pin, done, files, calm, quiet>>
-----------------------------------------------------------------------------
Realize(e) ==
    \/ WriteManifest(e)
    \/ WriteLock(e)
    \/ SpawnBuild(e)
    \/ BuildDone(e)
    \/ CleanStage(e)
    \/ StageToml(e)
    \/ StageLock(e)
    \/ AddSubtree(e)
    \/ Unstage(e)
    \/ LinkEnv(e)
    \/ LinkActivation(e)
    \/ Containerize(e)
    \/ ImportImage(e)
    \/ ImportDone(e)
    \/ Capture(e)

\* What goes on on the host, whoever waits for it.
Command(p) ==
    \/ FloxReads(p) \/ FloxLocks(p) \/ FloxBuilds(p) \/ FloxPacks(p)
    \/ CtrReads(p) \/ CtrImports(p)

Next ==
    \/ \E p \in Procs : Command(p)
    \/ \E e \in Envs :
          \/ EditSpec(e) \/ Start(e) \/ Realize(e)
          \/ StepFails(e) \/ BuildCut(e)
    \/ Crash

Spec == Init /\ [][Next]_vars
-----------------------------------------------------------------------------
(* Properties.                                                              *)

\* Every variable keeps its type.
TypeOK ==
    /\ gen \in [Envs -> Nat] /\ seen \in [Envs -> Nat] /\ done \in [Envs -> Nat]
    /\ pin   \in [Envs -> File]
    /\ job   \in [Envs -> Job]
    /\ proc  \in [Procs -> Proc]
    /\ toml  \in [Dirs -> File] /\ lock \in [Dirs -> File]
    /\ run   \in [Dirs -> File] /\ act  \in [Dirs -> File]
    /\ tar   \in [Dirs -> File] /\ image \in [Dirs -> File]
    /\ stage \in [Dirs -> Stage]
    /\ root  \in [Dirs -> Tree]
    /\ calm  \in [Envs -> BOOLEAN]
    /\ quiet \in [Dirs -> BOOLEAN]
    /\ faults \in Nat

\* Each env has a directory of its own.
OwnDirs == \A e, f \in Envs : DirOf[e] = DirOf[f] => e = f

\* A realise that nobody else's build or realise runs into leaves the node
\* whole, whatever earlier ones left behind half way: tree, activation root,
\* image and the lock it returns are those of one manifest.
CalmRealiseHeals ==
    \A e \in Envs :
        LET d == DirOf[e]
        IN  quiet[d] /\ root[d].toml.env = e =>
                /\ root[d].lock = root[d].toml
                /\ act[d] = root[d].toml
                /\ e \in ImageEnvs => image[d] = root[d].toml
                /\ pin[e] = root[d].lock

\* What a node has reported is there: the tree under the GC-root is for the
\* reported generation of the env or a later one, across failed and repeated
\* realises, crashes and builds that outlive them.
ReportCovered ==
    \A e \in Envs : done[e] <= root[DirOf[e]].toml.gen

\* The plugin never reads a tree without its manifest or without its lock.
TreeWhole ==
    \A d \in Dirs :
        root[d] # NoTree => root[d].toml # NoFile /\ root[d].lock # NoFile

\* A tree pairs a manifest with the lock of that manifest.
TreeConsistent == \A d \in Dirs : root[d].lock = root[d].toml

\* What the rest of the system sees of this node.
Seen == INSTANCE NodeRealization WITH
            Nodes <- {Self},
            gen   <- gen,
            entry <- [e \in Envs |-> [n \in {Self} |-> done[e]]],
            root  <- [n \in {Self} |-> [e \in Envs |-> root[DirOf[e]].toml.gen]]

\* The host side keeps the contract of the node agents: a GC-root is never
\* taken away and never goes back to an older manifest, and what is reported
\* has one.
KeepsContract == Seen!RealizationSpec
=============================================================================
