--------------------------- MODULE Checkpointing ---------------------------
(***************************************************************************)
(* Saving, publishing, trimming and reloading global distributed           *)
(* checkpoints: training/checkpointing.py, with its callers in train.py,   *)
(* pretrain.py and setup.py, across crashes and relaunches of the job.     *)
(*                                                                         *)
(* A checkpoint of iteration s in place p is the directory <<p, s>>.  All  *)
(* ranks write their shards into it; rank 0 then writes, one file at a     *)
(* time, iter_s/train_state.pt, latest_train_state.pt, the Megatron-LM     *)
(* tracker and iter_s/run_config.yaml.  A save is a request: a synchronous *)
(* save waits for it, an asynchronous one leaves it in the queue and       *)
(* training goes on until all ranks find it finished.                      *)
(***************************************************************************)
EXTENDS Integers, Sequences, FiniteSets

CONSTANTS
    Ranks,              \* the ranks of the job, each writing one shard
    TrainIters,         \* cfg.train.train_iters
    AsyncSave,          \* cfg.checkpoint.async_save
    MostRecentK,        \* cfg.checkpoint.most_recent_k; -1 keeps everything
    NonPersistent,      \* TRUE iff non_persistent_ckpt_type = "global"
    SavesTwice,         \* TRUE iff a step may be saved again (batch ramp-up, the
                        \* final save, a relaunch of a finished job)
    MaxCrashes,         \* bound: how often the job is killed
    MaxInFlight         \* bound: asynchronous saves not yet published

ASSUME ConstantsAssumption ==
    /\ TrainIters \in Nat
    /\ AsyncSave \in BOOLEAN
    /\ NonPersistent \in BOOLEAN
    /\ SavesTwice \in BOOLEAN
    /\ MostRecentK \in Nat \cup {-1}
    /\ MaxCrashes \in Nat
    /\ MaxInFlight \in Nat \ {0}

NoStep == 0                    \* "no such file"; step 0 is never saved
Steps  == 1 .. TrainIters
Places == {"save", "non_persistent"}
Dirs   == Places \X Steps
PlaceOf(d) == d[1]
StepOf(d)  == d[2]

(***************************************************************************)
(* todo: ranks that have not begun to write their shard; busy: ranks in    *)
(* the middle of it; snapshot: the step train_state_dict captured.         *)
(***************************************************************************)
Requests == [dir : Dirs, snapshot : Steps, todo : SUBSET Ranks, busy : SUBSET Ranks]

Publishing == {"train_state", "latest", "tracker", "config"}
Running    == {"top", "boundary", "save", "trim"} \cup Publishing
Phases     == Running \cup {"down", "failed"}

VARIABLES
    phase,              \* what the job is doing; "down": not running
    step,               \* state.train_state.step
    queue,              \* saves scheduled and not yet published, oldest first
    doomed,             \* directories the removal threads have still to delete
    iterDirs,           \* iter_* directories that exist
    shards,             \* per directory, the ranks whose shard is whole
    trainState,         \* per directory, the step in its train_state.pt
    runConfig,          \* directories holding a run_config.yaml
    latest,             \* per place, the step in latest_train_state.pt
    tracker,            \* per place, the step in latest_checkpointed_iteration.txt
    crashes             \* how often the job was killed, up to MaxCrashes

memory == <<phase, step, queue, doomed>>
disk   == <<iterDirs, shards, trainState, runConfig, latest, tracker>>
vars   == <<memory, disk, crashes>>

TypeOK ==
    /\ phase \in Phases
    /\ step \in Steps \cup {NoStep}
    /\ queue \in Seq(Requests)
    /\ doomed \subseteq Dirs
    /\ iterDirs \subseteq Dirs
    /\ shards \in [Dirs -> SUBSET Ranks]
    /\ trainState \in [Dirs -> Steps \cup {NoStep}]
    /\ runConfig \subseteq Dirs
    /\ latest \in [Places -> Steps \cup {NoStep}]
    /\ tracker \in [Places -> Steps \cup {NoStep}]
    /\ crashes \in Nat

Init ==
    /\ phase = "down" /\ step = 0 /\ queue = <<>> /\ doomed = {}
    /\ iterDirs = {}
    /\ shards = [d \in Dirs |-> {}]
    /\ trainState = [d \in Dirs |-> NoStep]
    /\ runConfig = {}
    /\ latest = [p \in Places |-> NoStep]
    /\ tracker = [p \in Places |-> NoStep]
    /\ crashes = 0

----------------------------------------------------------------------------
(* Operations on the checkpoint directories.                               *)

\* shutil.rmtree of every directory in S.
Remove(S) ==
    /\ iterDirs' = iterDirs \ S
    /\ shards' = [d \in Dirs |-> IF d \in S THEN {} ELSE shards[d]]
    /\ trainState' = [d \in Dirs |-> IF d \in S THEN NoStep ELSE trainState[d]]
    /\ runConfig' = runConfig \ S

\* Path(save_dir).rglob("iter_*"): the non-persistent directory lies below
\* the save directory, so a glob of the latter finds both.
Globbed(p) == {d \in iterDirs : p = "save" \/ PlaceOf(d) = p}

\* Mutant of AllButLast: the slice taken from the wrong end, [k:].
AllButFirst(S, k) ==
    LET n == IF k = 0 \/ k > Cardinality(S) THEN 0 ELSE Cardinality(S) - k
    IN  {R \in SUBSET S : /\ Cardinality(R) = n
                          /\ \A d \in R, e \in S \ R : StepOf(d) >= StepOf(e)}

\* sorted(...)[:-k] of a set: for k = 0 the slice is empty.  The order of two
\* directories of one step is that of the glob, so either may come first.
AllButLast(S, k) ==
    LET n == IF k = 0 \/ k > Cardinality(S) THEN 0 ELSE Cardinality(S) - k
    IN  {R \in SUBSET S : /\ Cardinality(R) = n
                          /\ \A d \in R, e \in S \ R : StepOf(d) <= StepOf(e)}

\* No save of step is already published or under way in place p.
Fresh(p) ==
    /\ latest[p] # step
    /\ \A i \in DOMAIN queue : queue[i].dir # <<p, step>>

----------------------------------------------------------------------------
(* The training loop.                                                      *)

\* Mutant of TrainStep: one iteration too many.
TrainStepPastEnd ==
    /\ phase = "top"
    /\ step <= TrainIters
    /\ step' = step + 1
    /\ phase' = "boundary"
    /\ UNCHANGED <<queue, doomed, disk, crashes>>

\* One iteration, from the top of the loop to its checkpoint decisions.
TrainStep ==
    /\ phase = "top"
    /\ step < TrainIters
    /\ step' = step + 1
    /\ phase' = "boundary"
    /\ UNCHANGED <<queue, doomed, disk, crashes>>

\* checkpoint_and_decide_exit (or the `continue` of a skipped iteration) saves nothing.
NoSave ==
    /\ phase = "boundary"
    /\ phase' = "top"
    /\ UNCHANGED <<step, queue, doomed, disk, crashes>>

\* Where the code may save in place p: after an iteration (interval, signal,
\* duration, straggler); persistently also at the top of the loop (batch size
\* ramp-up, rerun state machine) and, once the queue is drained, at the end.
SavePoint(p) ==
    /\ step # 0
    /\ \/ phase = "boundary"
       \/ phase = "top" /\ p = "save" /\ (step = TrainIters => queue = <<>>)
    /\ p = "non_persistent" => NonPersistent
    /\ SavesTwice \/ Fresh(p)

(***************************************************************************)
(* save_checkpoint up to the point where the shards are being written.     *)
(* Non-persistent saves trim their own directory to one checkpoint first.  *)
(***************************************************************************)
StartSave(p) ==
    LET d == <<p, step>> IN
    /\ SavePoint(p)
    /\ Len(queue) < MaxInFlight
    /\ queue' = Append(queue, [dir |-> d, snapshot |-> step, todo |-> Ranks, busy |-> {}])
    /\ \E old \in IF p = "non_persistent" THEN AllButLast(Globbed(p), 1) ELSE {{}} :
         LET gone == IF AsyncSave THEN {} ELSE old IN
         /\ doomed' = IF AsyncSave THEN doomed \cup old ELSE doomed
         /\ iterDirs' = (iterDirs \ gone) \cup {d}
         /\ shards' = [e \in Dirs |-> IF e \in gone THEN {} ELSE shards[e]]
         /\ trainState' = [e \in Dirs |-> IF e \in gone THEN NoStep ELSE trainState[e]]
         /\ runConfig' = runConfig \ gone
    /\ phase' = IF AsyncSave THEN "trim" ELSE "save"
    /\ UNCHANGED <<step, latest, tracker, crashes>>

\* Request req once rank r has begun, or ended, its shard.
Begun(req, r) == [req EXCEPT !.todo = @ \ {r}, !.busy = @ \cup {r}]
Ended(req, r) == [req EXCEPT !.busy = @ \ {r}]

\* dist_checkpointing.save on one rank: its requests are written in order,
\* and a shard that is being (re)written in place is of no use.
BeginShard(r) ==
    \E i \in DOMAIN queue :
        /\ phase \in Running
        /\ r \in queue[i].todo
        /\ \A j \in DOMAIN queue : j < i => r \notin queue[j].todo \cup queue[j].busy
        /\ queue[i].dir \in iterDirs
        /\ queue' = [queue EXCEPT ![i] = Begun(@, r)]
        /\ shards' = [shards EXCEPT ![queue[i].dir] = @ \ {r}]
        /\ UNCHANGED <<phase, step, doomed, iterDirs, trainState, runConfig, latest, tracker, crashes>>

EndShard(r) ==
    \E i \in DOMAIN queue :
        /\ phase \in Running
        /\ r \in queue[i].busy
        /\ queue[i].dir \in iterDirs
        /\ queue' = [queue EXCEPT ![i] = Ended(@, r)]
        /\ shards' = [shards EXCEPT ![queue[i].dir] = @ \cup {r}]
        /\ UNCHANGED <<phase, step, doomed, iterDirs, trainState, runConfig, latest, tracker, crashes>>

\* Mutant of AllRanksDone: every rank has begun, without the barrier.
AllRanksBegun(req) == req.todo = {}

\* Every rank has written its shard: the barrier of a synchronous save, the
\* all-reduce over the ranks' writers of an asynchronous one.
AllRanksDone(req) == req.todo = {} /\ req.busy = {}

\* Past the barrier, or maybe_finalize_async_save at the top of the loop (and,
\* waiting for the writers, after the loop).
Finalize ==
    /\ phase = IF AsyncSave THEN "top" ELSE "save"
    /\ queue # <<>>
    /\ AllRanksDone(Head(queue))
    /\ phase' = "train_state"
    /\ UNCHANGED <<step, queue, doomed, disk, crashes>>

----------------------------------------------------------------------------
(* train_state_finalize_fn, on rank 0, while the others wait at a barrier. *)

\* Mutant of WriteTrainState: the train state captured by reference.
WriteLiveTrainState ==
    LET req == Head(queue) IN
    /\ phase = "train_state"
    /\ req.dir \in iterDirs
    /\ trainState' = [trainState EXCEPT ![req.dir] = step]
    /\ phase' = "latest"
    /\ UNCHANGED <<step, queue, doomed, iterDirs, shards, runConfig, latest, tracker, crashes>>

WriteTrainState ==
    LET req == Head(queue) IN
    /\ phase = "train_state"
    /\ req.dir \in iterDirs
    /\ trainState' = [trainState EXCEPT ![req.dir] = req.snapshot]
    /\ phase' = "latest"
    /\ UNCHANGED <<step, queue, doomed, iterDirs, shards, runConfig, latest, tracker, crashes>>

\* shutil.copy of iter_s/train_state.pt to latest_train_state.pt.
PublishLatest ==
    LET d == Head(queue).dir IN
    /\ phase = "latest"
    /\ d \in iterDirs
    /\ latest' = [latest EXCEPT ![PlaceOf(d)] = trainState[d]]
    /\ phase' = "tracker"
    /\ UNCHANGED <<step, queue, doomed, iterDirs, shards, trainState, runConfig, tracker, crashes>>

\* str(train_state.step): the step the live object holds by now, not the snapshot.
WriteTracker ==
    LET d == Head(queue).dir IN
    /\ phase = "tracker"
    /\ tracker' = [tracker EXCEPT ![PlaceOf(d)] = step]
    /\ phase' = "config"
    /\ UNCHANGED <<step, queue, doomed, iterDirs, shards, trainState, runConfig, latest, crashes>>

\* Mutant of WriteRunConfig: the queue is cleared with its oldest request.
WriteRunConfigAndForget ==
    LET d == Head(queue).dir IN
    /\ phase = "config"
    /\ d \in iterDirs
    /\ runConfig' = runConfig \cup {d}
    /\ queue' = IF AsyncSave THEN <<>> ELSE queue
    /\ phase' = IF AsyncSave THEN "top" ELSE "trim"
    /\ UNCHANGED <<step, doomed, iterDirs, shards, trainState, latest, tracker, crashes>>

\* cfg.to_yaml(config_filename), the last file of a checkpoint.
WriteRunConfig ==
    LET d == Head(queue).dir IN
    /\ phase = "config"
    /\ d \in iterDirs
    /\ runConfig' = runConfig \cup {d}
    /\ queue' = IF AsyncSave THEN Tail(queue) ELSE queue
    /\ phase' = IF AsyncSave THEN "top" ELSE "trim"
    /\ UNCHANGED <<step, doomed, iterDirs, shards, trainState, latest, tracker, crashes>>

----------------------------------------------------------------------------
(* "keep only last k checkpoints", the end of save_checkpoint.             *)

\* The save that is ending is the last request; a synchronous one leaves here.
Trim ==
    LET p == PlaceOf(queue[Len(queue)].dir) IN
    /\ phase = "trim"
    /\ \E old \in IF MostRecentK > -1 THEN AllButLast(Globbed(p), MostRecentK) ELSE {{}} :
         IF AsyncSave
         THEN doomed' = doomed \cup old /\ UNCHANGED <<queue, disk>>
         ELSE Remove(old) /\ queue' = Tail(queue) /\ UNCHANGED <<doomed, latest, tracker>>
    /\ phase' = "top"
    /\ UNCHANGED <<step, crashes>>

\* A removal thread deletes one directory of its list.
RemoveDoomed ==
    /\ phase \in Running
    /\ \E d \in doomed :
         /\ doomed' = doomed \ {d}
         /\ Remove({d})
    /\ UNCHANGED <<phase, step, queue, latest, tracker, crashes>>

----------------------------------------------------------------------------
(* The end of the process and the next launch.                             *)

Stop ==
    /\ phase' = "down" /\ queue' = <<>> /\ doomed' = {}
    /\ UNCHANGED <<step, disk>>

\* The loop ended or an exit condition was met: the queue has been drained
\* and the interpreter waits for the removal threads.
Exit ==
    /\ phase = "top"
    /\ queue = <<>> /\ doomed = {}
    /\ Stop
    /\ UNCHANGED crashes

Crash ==
    /\ phase \in Running
    /\ crashes < MaxCrashes
    /\ crashes' = crashes + 1
    /\ Stop

\* A writer, or rank 0, opens a file below a directory that was removed.
WriteFails ==
    /\ phase \in Running
    /\ \E i \in DOMAIN queue :
         /\ queue[i].dir \notin iterDirs
         /\ ~AllRanksDone(queue[i]) \/ (i = 1 /\ phase \in {"train_state", "latest", "config"})
    /\ Stop
    /\ UNCHANGED crashes

\* checkpoint_exists(cfg.checkpoint.load)
CheckpointExists == latest["save"] # NoStep \/ tracker["save"] # NoStep

\* _resolve_checkpoint_iteration
PersistentIteration == IF latest["save"] # NoStep THEN latest["save"] ELSE tracker["save"]

\* Mutant of Target: a non-persistent checkpoint wins whatever its age.
TargetNonPersistent ==
    IF NonPersistent /\ latest["non_persistent"] # NoStep
    THEN <<"non_persistent", latest["non_persistent"]>>
    ELSE <<"save", PersistentIteration>>

\* _load_base_checkpoint: a non-persistent checkpoint wins unless it is older.
Target ==
    IF NonPersistent /\ latest["non_persistent"] # NoStep
                     /\ latest["non_persistent"] >= PersistentIteration
    THEN <<"non_persistent", latest["non_persistent"]>>
    ELSE <<"save", PersistentIteration>>

\* The weights, the optimizer and the step of a checkpoint can be read back.
Restorable(d) == d \in iterDirs /\ shards[d] = Ranks /\ trainState[d] = StepOf(d)

\* _load_checkpoint_from_path also needs run_config.yaml: without it the code
\* takes the checkpoint for a Megatron-LM one and looks for its args.
Loadable(d) == d \in iterDirs /\ shards[d] = Ranks /\ d \in runConfig

StepAfterLoad(d) == IF trainState[d] # NoStep THEN trainState[d] ELSE StepOf(d)

LaunchFresh ==
    /\ phase = "down"
    /\ ~CheckpointExists
    /\ phase' = "top" /\ step' = 0
    /\ UNCHANGED <<queue, doomed, disk, crashes>>

\* Mutant of LaunchResume: the weights are loaded and the train state is not.
LaunchResumeAtZero ==
    /\ phase = "down"
    /\ CheckpointExists
    /\ Loadable(Target)
    /\ phase' = "top" /\ step' = 0
    /\ UNCHANGED <<queue, doomed, disk, crashes>>

LaunchResume ==
    /\ phase = "down"
    /\ CheckpointExists
    /\ Loadable(Target)
    /\ phase' = "top" /\ step' = StepAfterLoad(Target)
    /\ UNCHANGED <<queue, doomed, disk, crashes>>

LaunchFails ==
    /\ phase = "down"
    /\ CheckpointExists
    /\ ~Loadable(Target)
    /\ phase' = "failed"
    /\ UNCHANGED <<step, queue, doomed, disk, crashes>>

\* The scheduler launches a failed job again.
Requeue ==
    /\ phase = "failed"
    /\ phase' = "down"
    /\ UNCHANGED <<step, queue, doomed, disk, crashes>>

----------------------------------------------------------------------------
Next ==
    \/ TrainStep \/ NoSave
    \/ \E p \in Places : StartSave(p)
    \/ \E r \in Ranks : BeginShard(r) \/ EndShard(r)
    \/ Finalize \/ WriteTrainState \/ PublishLatest \/ WriteTracker \/ WriteRunConfig
    \/ Trim \/ RemoveDoomed
    \/ Exit \/ Crash \/ WriteFails
    \/ LaunchFresh \/ LaunchResume \/ LaunchFails \/ Requeue

Spec == Init /\ [][Next]_vars

(***************************************************************************)
(* Fairness.  The writers of every rank run in processes of their own; the *)
(* trainer keeps iterating, runs each finalize function once it has begun, *)
(* and asks at the top of every iteration whether the oldest save is done, *)
(* hence strong fairness of Finalize.  Nothing is assumed of saves, exits, *)
(* crashes or launches.                                                    *)
(***************************************************************************)
FairSpec ==
    /\ Spec
    /\ \A r \in Ranks : WF_vars(BeginShard(r)) /\ WF_vars(EndShard(r))
    /\ SF_vars(Finalize)
    /\ WF_vars(WriteTrainState) /\ WF_vars(PublishLatest)
    /\ WF_vars(WriteTracker) /\ WF_vars(WriteRunConfig)
    /\ WF_vars(TrainStep) /\ WF_vars(NoSave) /\ WF_vars(Trim) /\ WF_vars(WriteFails)

----------------------------------------------------------------------------
(* Properties.                                                             *)

(***************************************************************************)
(* The checkpoint that latest_train_state.pt of the save directory names   *)
(* exists, holds every rank's shard and the train state of that step.      *)
(* This is what the "necessary" barrier of save_checkpoint, the order of   *)
(* the finalize functions and the trimming must preserve together.         *)
(***************************************************************************)
LatestRestorable ==
    latest["save"] # NoStep => Restorable(<<"save", latest["save"]>>)

(***************************************************************************)
(* A pointer only ever moves to a directory that all ranks have finished   *)
(* and whose train_state.pt is written, in either place and in either mode.*)
(***************************************************************************)
PublishesOnlyRestorable ==
    [][\A p \in Places : latest'[p] # latest[p] => Restorable(<<p, latest'[p]>>)]_vars

(***************************************************************************)
(* The persistent pointer never moves back, over saves that overlap,       *)
(* crashes and relaunches.                                                 *)
(***************************************************************************)
LatestNeverRegresses ==
    [][latest'["save"] >= latest["save"]]_vars

(***************************************************************************)
(* A relaunched job resumes no earlier than the persistent pointer.        *)
(***************************************************************************)
ResumesFromLatest ==
    [][phase = "down" /\ phase' = "top" => step' >= latest["save"]]_vars

(***************************************************************************)
(* The Megatron-LM tracker, which "rescords the latest chckpoint during    *)
(* training to restart from" (checkpoint_utils.py), names a checkpoint that*)
(* can be restored.                                                        *)
(***************************************************************************)
TrackerNamesCheckpoint ==
    tracker["save"] # NoStep => Restorable(<<"save", tracker["save"]>>)

(***************************************************************************)
(* When a synchronous save_checkpoint returns, a job killed right after it *)
(* resumes from exactly that step.                                         *)
(***************************************************************************)
SaveReturnsDurable ==
    [][phase = "trim" /\ phase' = "top" => Loadable(Target)' /\ StepAfterLoad(Target)' = step]_vars

(***************************************************************************)
(* Overlapping saves publish in the order in which they were taken: what   *)
(* waits in the queue is newer than the pointer, and ordered.              *)
(***************************************************************************)
QueueIsAhead ==
    \A i \in DOMAIN queue :
        /\ queue[i].snapshot <= step
        /\ \A j \in DOMAIN queue : i < j => queue[i].snapshot <= queue[j].snapshot
        /\ PlaceOf(queue[i].dir) = "save" => queue[i].snapshot >= latest["save"]

(***************************************************************************)
(* A relaunch finds a checkpoint it can load, or none was ever published.  *)
(***************************************************************************)
RelaunchNeverFails == phase # "failed"

(***************************************************************************)
(* Removing old non-persistent checkpoints leaves the one the pointer of   *)
(* their directory names.                                                  *)
(***************************************************************************)
NonPersistentRestorable ==
    latest["non_persistent"] # NoStep =>
        Restorable(<<"non_persistent", latest["non_persistent"]>>)

(***************************************************************************)
(* Every persistent save that was scheduled is published, or a newer one   *)
(* is, or the process ends first.                                          *)
(***************************************************************************)
SavesEventuallyPublished ==
    \A s \in Steps :
        (\E i \in DOMAIN queue : queue[i].dir = <<"save", s>>)
            ~> (latest["save"] >= s \/ phase \in {"down", "failed"})

(***************************************************************************)
(* Without non-persistent checkpoints this is DurableProgress: the pointer *)
(* is the durable point, and a job that is not running stands where its    *)
(* next launch resumes.                                                    *)
(***************************************************************************)
Progress == IF phase \in Running THEN step ELSE latest["save"]

Abstract == INSTANCE DurableProgress WITH progress <- Progress, durable <- latest["save"]

ImplementsDurableProgress == Abstract!Spec

=============================================================================
