# TLA+ models of Megatron Bridge training

This directory specifies the parts of Megatron Bridge whose correctness depends on order: how
checkpoints are written, published, trimmed and found again by a relaunch; how the ranks of a job
decide together to save and to stop; what a rank reports to its fault tolerance monitor; which
samples each rank trains on, through epochs and restarts; how weights are carried between a Hugging
Face checkpoint and a model spread over ranks; and how fine-tuning samples are packed. TLC checks
the modules on small instances; TLAPS proves the main invariants for every value of the constants.

Paths below are relative to `src/megatron/bridge/` of the repository.

## 1. Inventory

| Component | State | Operations | Talks to | What is hard | Correct when |
|---|---|---|---|---|---|
| Checkpoint saving (`training/checkpointing.py`) | directory per iteration, shards per rank, `train_state.pt`, `run_config.yaml`, per save directory `latest_train_state.pt` and the Megatron-LM tracker; queue of asynchronous requests; removal threads | `save_checkpoint`, `schedule_async_save`, `maybe_finalize_async_save`, `cleanup_old_non_persistent_checkpoint` | called by the loop and by `pretrain`; `megatron.core` writers; the file system | writers of all ranks, a finalize function on rank 0 that writes file by file, overlapping saves, threads that delete; a crash between any two of them | what is published is whole; pointers move forward; the newest published checkpoint is never deleted |
| Checkpoint loading (`training/checkpointing.py`, `utils/checkpoint_utils.py`, `setup.py`) | the same files | `checkpoint_exists`, `_resolve_checkpoint_iteration`, `_load_base_checkpoint`, `_load_checkpoint_from_path` | `setup`; reads what saving left | reads whatever a crash left, persistent and non-persistent pointers of any age | resumes from the newest published work, or starts from scratch if there is none |
| Training loop (`training/train.py`, `pretrain.py`, `eval.py`) | `train_state.step`, `should_exit`, `saved_checkpoint` per rank | `train`, `train_step`, `checkpoint_and_decide_exit`, `evaluate`, `_finish_train` | one collective after the other with the other ranks; saving; FT callbacks | each rank decides by its own clock, signal and detector; a rank that takes another branch hangs the job | ranks stay in step; every exit is saved and drained |
| Exit signal (`utils/sig_utils.py`, `state.py`) | flag per rank | `__enter__`, `signals_received` | the loop | a signal reaches some ranks only, at any moment | a signal leads to a saved exit of all ranks |
| Straggler detection (`nvrx_straggler.py`) | manager per rank | `initialize`, `check_stragglers` | the loop; NVRx | starts per rank, but reports collectively | never blocks the loop |
| Rerun state machine (`megatron.core`, set up in `initialize.py`) | external | asks `train_step` to repeat, save, exit | the loop | early returns out of `train_step` | its exits are saved when it asks for it |
| Training state (`state.py`) | step, sample counters, flags | `state_dict`, `load_state_dict` | saved and restored | captured at the save or read later; int32 fields | a save sees one moment |
| Fault tolerance (`fault_tolerance.py`) | open section, counters, `ft_state.json` | callbacks around steps, evaluations, saves | the loop; the rank monitor | section nesting across early exits; torn JSON | sections open and close in pairs; timeouts change only when they may |
| In-process restart (`inprocess_restart.py`, `state.py`) | everything that outlives an attempt: caches, `cfg`, FT state | `destroy_state`, `reset_for_restart`, abort and finalize hooks | all of the above | state that is not reset; exceptions swallowed | an attempt cannot be told from a fresh process |
| Samplers and loaders (`data/samplers.py`, `data/loaders.py`) | per rank and stream: position, epoch, the count it was built with | `__iter__` of three samplers, `cyclic_iter`, `_get_iterator` | drawn from by `train_step`, `_dummy_train_step` and `evaluate`; restored by sample counters of a checkpoint | each rank draws alone; partial batches, passes, resumes on other layouts | each sample goes to one rank once per epoch; a resume continues the stream |
| Model conversion (`models/conversion/`) | per rank: task list, caches of the mapping objects, shards | `build_conversion_tasks`, `load_weights_hf_to_megatron`, `stream_weights_megatron_to_hf`, `hf_to_megatron` and `megatron_to_hf` of each mapping | collectives over pipeline, tensor, expert and embedding groups | every rank decides for itself which collective comes next; caches; layouts interleaved before they are cut | collectives meet; shards hold the whole checkpoint; export undoes import |
| Packing (`data/datasets/packed_sequence.py`, `packing_utils.py`, `sft.py`) | tokens, masks, bins of lengths, stacks | `tokenize_dataset`, `create_hist`, `first_fit`, `fill_packing_strategy`, `collate_fn` | sequential; read by the training loop | only lengths are packed, the samples follow later | each sample is trained once, on its own tokens and answer |
| Setup and configuration (`setup.py`, `initialize.py`, `config.py`) | process groups, validated settings | `setup`, `validate` | everything | sequential | - |
| Models, PEFT, recipes, tokenizers, step functions, logging, profiling, inference | tensors, tables | numeric and formatting code | - | sequential | - |

The behaviours a test hardly reaches are listed one by one, with the line where each bites and
the property that watches it, under `hazards` in `PROJECT.json`.

## 2. Modules

| Module | Contents |
|---|---|
| `DurableProgress` | Abstract specification: work advances, a point of it becomes durable, a fault loses only work after that point. |
| `Checkpointing` | Saving, publishing, trimming, crashing and relaunching; refines `DurableProgress`. |
| `MCCheckpointing` | Its instances for TLC. |
| `CheckpointingProofs` | Theorems about it. |
| `TrainLoop` | All ranks in the training loop, from one collective to the next. |
| `MCTrainLoop` | Its instances for TLC. |
| `TrainLoopProofs` | Theorems about it. |
| `FaultTolerance` | The callbacks of one rank, the monitor's sections and timeouts, `ft_state.json`, kills, relaunches and restarts in place. |
| `FaultToleranceProofs` | Theorems about it. |
| `DataPipeline` | The samplers of every data-parallel rank, the draws of training and evaluation, counters and checkpoints. |
| `MCDataPipeline` | Its instances for TLC. |
| `CountingLemmas` | Division, induction, disjoint unions, sums, sequences laid end to end and places in an order, for the proofs about data and tasks. |
| `DataPipelineProofs` | Theorems about it. |
| `WeightConversion` | Import and export on every rank: task lists, collectives, caches, layouts. |
| `MCWeightConversion` | Its instances for TLC. |
| `WeightConversionProofs` | Theorems about its collectives and its layouts. |
| `RoundTripProofs` | Theorems about what its ranks carry and the shares the layouts make. |
| `Packing` | From samples to packed rows. |
| `MCPacking` | Its instances for TLC. |
| `PackingProofs` | Theorems about it. |

### Checkpointing and the code

A global checkpoint of step `s` in place `p` ("save", or "non_persistent" below it) is the
directory `<<p, s>>`. `iterDirs`, `shards`, `trainState`, `runConfig`, `latest` and `tracker` are
the files; `phase`, `step`, `queue` and `doomed` are what a process holds in memory, and a crash
forgets all of that.

| Action | Code |
|---|---|
| `TrainStep`, `NoSave` | an iteration of `train`, without a save at its end |
| `StartSave(p)` | `save_checkpoint` up to `dist_checkpointing.save`; a non-persistent save first trims its directory to one |
| `BeginShard(r)`, `EndShard(r)` | the writer of rank `r`, external; rewriting a shard spoils it in between |
| `Finalize` | the "necessary" barrier of a synchronous save; `maybe_finalize_async_save` of an asynchronous one |
| `WriteTrainState`, `PublishLatest`, `WriteTracker`, `WriteRunConfig` | `train_state_finalize_fn`, file by file, for a crash can fall between any two |
| `Trim`, `RemoveDoomed` | `most_recent_k`; the removal threads of `cleanup_old_non_persistent_checkpoint` |
| `WriteFails` | a file is opened below a directory a thread has removed: an exception ends the job |
| `Exit`, `Crash` | the process ends, drained or killed |
| `LaunchFresh`, `LaunchResume`, `LaunchFails`, `Requeue` | `setup` and `load_checkpoint` of the next launch |

While rank 0 is in the finalize function the other ranks wait at the barrier after it, so
one `phase` describes the trainers; only the writers and the removal threads run beside them.
`SavesTwice` says whether a step may be saved again. The code does so in three situations: the
save after the loop when `train_iters` is a multiple of `save_interval`, a ramp-up save at
the head of the loop after an interval save, and a relaunch of a job that had finished.
**The first is common**, so `SavesTwice = FALSE` is an assumption about the configuration and not
the general case; *Known to fail* shows what happens otherwise.

### TrainLoop and the code

`at[r]` names the collective rank `r` is in or on its way to. `Enter(r)` takes the rank in with its
own vote (clock past the limit, signal noted); the action of the collective fires once all ranks
are inside the same one, and sends each rank where its own variables and the reduced value lead.
The operators `LoopTop`, `AfterPoll`, `AfterRampUp`, `AfterIteration`, `Decide`, `AfterSignals`, `AfterSave`,
`AfterDuration` and `Leaving` are the code between two collectives, in its order. A skipped iteration meets no other
rank: it is an action of one rank. `step`, `saved` and `exit` are variables **per rank**: that the
ranks agree on them is a result (`InStep`), not a feature of the model.

`cfg.checkpoint.save` is taken as set. External: the answer of the rerun state machine and the
verdict of the straggler report (both arbitrary).

`Checkpointing` abstracts from when saves happen (anywhere the loop may save), `TrainLoop` from
how they are done (a save is one collective, its durability one step). They meet at `stored`: what
`TrainLoop` calls stored is what `Checkpointing` has published. `FaultTolerance` and `DataPipeline` follow
one launch after the other through the same loop, and see of a checkpoint the step and the counters it carries.

### FaultTolerance and the code

`at` is the place of rank 0 in `pretrain`; each action is a callback of `fault_tolerance.py` at the place where
`train.py`, `eval.py`, `checkpointing.py` or `pretrain.py` makes it, with the state change of the caller between it and the
next. `client` is the rank monitor's client (external: it holds open sections and timeouts, and records misuse); `ft` is
`FaultToleranceState`; `file` is `ft_state.json`.

| Action | Code |
|---|---|
| `Setup`, `Load` | `setup` (reads `ft_state.json`, raises if it is torn), `on_checkpoint_loaded` |
| `OnCheckpointingStart`, `OnFinalizationEnd` | around `maybe_finalize_async_save`: at the head of an iteration, after the loop, in `_finish_train` |
| `OnStepStart`, `OnStepEnd`, `SkipIteration` | one iteration of `train`; a skipped one has no callback |
| `OnEvalStart`, `OnEvalEnd` | one iteration of `evaluate`, during and after training; the time limit may end it after any |
| `OnSaveStart`, `OnSaveEnd`, `Decide` | `save_checkpoint` at the head of an iteration (ramp-up), in `checkpoint_and_decide_exit` and after training; deciding without a save |
| `MaybeUpdate`, `WriteState`, `Shutdown` | `_maybe_update_timeouts`, `_update_timeouts` (opening the file empties it of all it held, a step before it is written), `shutdown` |
| `Kill`, `Relaunch` | the process is killed, by the monitor or `maybe_setup_simulated_fault`; a new one starts |
| `Catch`, `Reenter` | `inprocess_restart`: the exception is caught, `destroy_state` resets, `_pretrain` runs again |

`run` is a history variable: what this run has loaded and trained, and whether it learned a timeout without
evidence; `learned` is every timeout a written `ft_state.json` has held. `inproc` notes that the process was restarted in place: `TimeoutsFounded` exempts
that case, where a counter may be of the attempt before. `WarmupUnwatched` does not, and fails there (*Known to fail*).

### DataPipeline and the code

The dataset, its length and `dataloader_type` are chosen at the start ("cyclic" is split by `data_sharding`); the layout
(`micro_batch_size` and data-parallel size) at each launch. `cursor[s][r]` is the generator of rank `r`'s sampler on stream
`s`: `mark` is `consumed_samples` of the sampler, `at` its offset in the pass. A sample is tagged with its epoch. `Outcome` is what
`next()` on the rank's iterator comes to, `cyclic_iter` included: a batch of this pass, one of the next, the end of the data, an
exception, or no return.

| Action | Code |
|---|---|
| `Draw(r)` | `next()` on rank `r`'s iterator |
| `EndTrainStep` | the end of `train_step` and the counters of `train`, or `_should_skip_and_handle_iteration` with `_dummy_train_step` |
| `EndEvalStep` | one iteration of `evaluate` |
| `Save`, `Crash`, `Restart(l)` | counters into a checkpoint; killed; launched again on layout `l` with new samplers built from the counters |
| `Finish` | the end of `train` |

Samplers with `drop_last = False` are left out: every caller leaves the default. `torch.randperm` is the constant
`Perm`. `diverged` is a history variable: a sampler went on where the stream of the uninterrupted run does
not, because the counter alone cannot tell it (another layout for the cyclic ones; a
dataset the global batch does not divide for the whole-batch one). It is about the training stream. `ResumesTheStream` exempts it, and `ExactlyOnce` for
all but single-pass data, which no layout disturbs; `OnceOnAnyLayout` is `ExactlyOnce` without the proviso, and fails (*Known to fail*).
`Finishes` does not look at it: the only end it grants is a sampler, of either stream, that has no batch in the pass it resumed in (`Starved`).

### WeightConversion and the code

Each rank runs down its own task list; `todo[r]` are the collectives left of its current task, worked out from its own
module, caches and mapping class, and a collective fires when its whole group is in the same call. `ExportCalls`,
`ImportCalls` and `ClosingCalls` are the sequences of calls of `megatron_to_hf`, `hf_to_megatron` and `_broadcast_shared_embeddings`; `known` is what
the mapping objects have cached. Tensors are sequences of named rows, so that the interleaving of query
groups, key-value pairs, key heads and gates is modelled by what it does. `Jobs` are the conversions: a grid of ranks, the
parameters with their mapping class and shape, the tensors the checkpoint lacks, and the plan (imports and exports, with fresh
or reused tasks).

The names are gathered at each call that makes fresh tasks: the list is cached in the instance of a bridge, and `AutoBridge._model_bridge` makes one
per call. In the order of tasks the number of a sequential expert comes after the rest of its name (`SortKey`), in the code within the name, before
`linear_fc1` and character by character; the list of a sequential MLP is another permutation of the same tasks, alike on all ranks.

### Packing and the code

`Tokenize`, `Order`, `Place`, `Handle`, `Fill` and `Save` are the stages of `prepare_packed_sequence_data`; `Row` is what `__getitem__` and `collate_fn` make of a
packed item. Shuffles are arbitrary permutations. Errors of the code are modelled: a
chat sample that has to be padded, a sample above `max_seq_length` or above the pack size, and masks of two lengths end in an
exception (`stage = "raised"`). `context_ids` are padded with the tokens, and raise as they do: of chats with a multiple to pad to only those come through whose
context alone is longer than `max_seq_length`, or that mask nothing and so are all context. `PackedFaithfully` speaks of the samples with something to predict (a sample of one token takes a place of
length 0 in a bin and no place in a row), and of their loss only where `~CutApart`: where it is cut apart, *Known to fail* says what comes of it.

## 3. Runs

| Run | Instance | Distinct states | Shows |
|---|---|---|---|
| `ckpt_sync` | 2 ranks, 4 iterations, synchronous, `most_recent_k` = 2, 1 crash | 2,530 | `TypeOK`, `LatestRestorable`, `TrackerNamesCheckpoint`; `SaveReturnsDurable`: a save that returned is what a killed job resumes; refinement of `DurableProgress` |
| `ckpt_async` | 2 ranks, 2 iterations, asynchronous, non-persistent saves too, up to 2 in flight, 1 crash, fair | 223,154 | `LatestRestorable`, `QueueIsAhead`, `PublishesOnlyRestorable`, `LatestNeverRegresses`, `ResumesFromLatest`, `SavesEventuallyPublished`; refinement of `DurableProgress` |
| `loop` | 3 ranks, 6 iterations, asynchronous, every exit (a signal to 2 ranks, the handler entered by the script), both intervals, skipped iterations, ramp-up, reruns, fair | 81,304 | `TypeOK`, `InStep`, `EndsSaved`, `TimeLimitHonoured`, `JobEnds` |
| `data` | 5 datasets (2 whole-batch, one not divided by the global batch), 3 layouts, 4 iterations, 1 skipped, ramp-up, an evaluation after each, 2 crashes, fair | 38,736 | `TypeOK`, `RanksAligned`, `DisjointBatches`, `ExactlyOnce`, `ResumesTheStream`, `CountersFollowSteps`, `Finishes` |
| `ft` | 3 iterations, 2 evaluation iterations, warm-up 1, threshold 2, 2 faults of either kind, fair | 604,090 | `TypeOK`, `SectionsPaired`, `SectionsMatchWork`, `TimeoutsFounded`, `TimeoutsKept`, `JobEnds` |
| `conversion` | 13 conversions: tied and dense over 2 stages and exported twice, experts over 2 ranks, 12 experts, expert tensor parallelism with fused layouts, a sequential MLP, missing and indivisible tensors on 1 and 2 ranks | 15,376 | `TypeOK`, `ShardsComplete`, `RoundTrip`, `NoHang` |
| `packing` | 9 data sets by both algorithms | 752 | `PackedFaithfully`, `NoTwoBinsMerge` |

Every property of these runs is broken by at least one plausible bug of the code, kept as an operator
next to the definition it alters ("Mutant of ...").

Five runs end in a counterexample, each to something the repository says of itself; the quotations are under
`findings` in `PROJECT.json`.

| Run | Property | Disagreement |
|---|---|---|
| `viol_publish` | `RelaunchNeverFails` | the pointer moves before `run_config.yaml` exists; a crash in between blocks every relaunch |
| `viol_data_spin` | `NeverSpins` | the whole-batch sampler, resumed with less than a batch left of the dataset, is empty in every later pass too |
| `viol_experts` | `ShardsComplete` | sequential experts keep their local number: each expert-parallel rank loads the first ones |
| `viol_signal` | `SignalSavesBeforeExit` | the signal handler is constructed and never entered (`state.py:335`): the signal kills the rank, no checkpoint is saved |
| `viol_torn` | `LaunchesStart` | `ft_state.json` is emptied before it is written; a fault in between fails every later launch in `setup`, and what was learned is gone |

`viol_signal` leaves `HandlerInstalled = FALSE`, as everything in `training/` does. `loop` sets it, for a user's script that
enters the handler itself (`state.signal_handler` is a context manager): its behaviours are those in which no signal comes, the only ones in which training as it is goes on,
and those in which one reaches some ranks and not the others, which must then all enter `signals_received` and the save after it.

### Known to fail

The same modules contain further counterexamples, each reached by the constants named here (all others as in the
cfg of the module's passing run). The theorems and passing runs exclude these settings by assumption; the two properties `WarmupUnwatched` and `OnceOnAnyLayout` are in no run.

| Property | Constants | Behaviour of the code |
|---|---|---|
| `TrackerNamesCheckpoint` | `ckpt_async` with `MaxCrashes = 0` | the finalize function writes the live step into the Megatron-LM tracker, an iteration that has no checkpoint (`checkpointing.py:737`) |
| `LatestRestorable` | `ckpt_async` with `MostRecentK = 1` | trimming counts the unfinished save as the newest and deletes the published one (`checkpointing.py:806`, `:841`) |
| `LatestRestorable` | `ckpt_sync` with `MostRecentK = 1`, or with `MaxCrashes = 2` | a save that a crash tore is newer than what the job resumed from; saves at earlier steps (a signal, a time limit) are trimmed in its favour (`checkpointing.py:841`) |
| `LatestRestorable` | `SavesTwice = TRUE` | saving a step again, as the final save does after an interval save of the last step, rewrites the published directory in place (`pretrain.py:148`) |
| `NonPersistentRestorable` | `NonPersistent = TRUE`, `MaxCrashes = 2` | cleanup keeps the newest directory although a crash tore it, and deletes the published one (`checkpointing.py:511`) |
| `InStep` | `Detecting <- TwoDetectors` | a detector that fails to start on one rank leaves the others waiting (`train.py:195`) |
| `RanksAligned` | `Datasets = {[kind \|-> "shuffled", total \|-> 11]}` | without data sharding a rank may find one more batch in the incomplete end of a pass than another (`samplers.py:429`) |
| `WarmupUnwatched` | `ft` | `reset_for_restart` keeps the fault tolerance counters: the first iteration after a restart in place is held to the step timeout (`state.py:337`, `fault_tolerance.py:126`), against `fault_tolerance.py:27` |
| `OnceOnAnyLayout` | `Datasets <- EvenShards` | a cyclic sampler resumed in mid-epoch on another data-parallel size deals the rest of the epoch out anew: samples come twice and others not at all (`samplers.py:417`), against `docs/training/checkpointing.md:17` and `:130` |
| `NoHang` | `Jobs <- ReusedJobs` | tasks built once and used for an import, then for an export: a stage that imported has cached the type of the mapping (`param_mapping.py:1235`) and does not enter the collective that asks for it, which the others are in, against `auto_bridge.py:930` |
| `MasksCorrespond` | `Jobs <- CutJobs` | a chat whose context alone is longer than `max_seq_length`, or that has nothing masked, is cut in its tokens and not in its loss mask (`packed_sequence.py:112`), against `data/datasets/utils.py:911`: the samples packed after it in a row are trained on the wrong positions. Other long chats raise, for their context has to be padded |

### Bounds

- Ranks: two suffice to have one shard whole and another not. The loop has three: a signal or a
  clock may then split them two to one either way.
- Iterations: a save is disturbed by the one before it, in flight or on disk, and by one trimmed: 2
  steps in each of two places, or 3 or 4 in one. The loop needs a multiple of every interval,
  steps where several coincide (4: save, evaluation, exit interval), two skipped in a row (1, 2),
  and a last step that is none of them or all.
- `MaxInFlight` = 2 is the smallest overlap; `MaxCrashes` = 1 reaches every crash point and the
  relaunch after it, and 2 is needed only where a second crash strikes what the first left.
- `MaxSignals` = 2 of 3 ranks: one rank, several, never all.

- `ft`: a threshold of 2 instead of 16 iterations, which 3 iterations pass, one short of it, at it or beyond; 2 faults: one that leaves
  something behind and one that strikes what was left.
- `data`: a step of 8 samples takes 1, 2 or 4 draws per rank; 32 samples go 2 to 4 times through the cyclic datasets and end in the
  middle of a pass; 2 crashes suffice for a restart on a second layout and back. With an evaluation after every iteration the validation stream is resumed
  in the middle of a pass too, and at its end, where a whole-batch sampler has nothing left to give.
- `conversion`: two ranks in each group, which is enough for a wrong order, owner or share; 12 experts for names of two digits.
  Heads and rows are as few as tell the layouts apart (2 groups of 2 heads, 2 key heads of 2 value heads).
- `packing`: 2 to 5 samples, with ties of one length (for the stacks), and each limit met, missed and exceeded, by tokens and by context.

The proofs below have none of these bounds.

### Fairness

`Checkpointing!FairSpec`: the writers are processes of their own (weak fairness of `BeginShard`, `EndShard` per
rank); the loop keeps iterating and runs a finalize function it has begun. `Finalize` has strong
fairness: it is enabled only at the head of the loop, which the loop leaves and comes back to, and
the code asks there at each iteration. Nothing is assumed of saves, exits, crashes, launches, nor of
the removal threads.

`TrainLoop!FairSpec`: each rank runs on to its next collective, and a collective all ranks are in
ends. Clocks and signals are not fair: they need never come.

`FaultTolerance!FairSpec`: the program runs on, a killed process is launched again and a caught exception re-enters; faults are not fair, and are bounded.

`DataPipeline!FairSpec`: some rank that has a batch to draw draws it, the loop goes on when all have, a dead job is launched again. Saves
and crashes are not fair. Per-rank fairness is not needed: a step takes finitely many draws.

Deadlock is checked in the runs of `Checkpointing` and `TrainLoop`, where `JobOver` stands for the job that is over; a rank that waits for
another one forever would show as a deadlock. The four other models really stop (the job has ended, failed or spins; the conversion or
packing is over or raised), so their runs do not check it: `Finishes`, `JobEnds` and `NoHang` say instead where they may stop.

## 4. Proofs

`tlapm` checks every step. SMT, Zenon and, for temporal steps, LS4 are used.

**CheckpointingProofs.** `TypeCorrect`: `Spec => []TypeOK` for all constants; it needs only that a save in
progress has a request (`QueueHeld`). `LatestRestorable` is not inductive: a writer could tear the
published directory, the pointer could move to one that is not whole, a thread could delete it. `IInv` adds
that each request is newer than the pointer until it is published and exactly it from
then on (`RequestSound`), that requests are ordered and own distinct directories (`QueueOrdered`), that
ranks which are done have left their shard and the head is complete while it is being published (`HeadSound`),
that only non-persistent directories are removed (`DoomedSound`), that each `train_state.pt` carries
the step of its directory (`Stamped`), and that nothing is queued by a job that is not running. From it
follow `LatestAlwaysRestorable`, `LatestMonotone`, `ResumeNeverLosesPublished`, `QueueAlwaysAhead`, and `Refinement`
(`Spec => ImplementsDurableProgress`: a publication is `Persist`, a training step `Advance`, a crash, exit or relaunch `FallBack`).
These five assume `MostRecentK = -1` (the default) and `~SavesTwice`; `Refinement` also
`~NonPersistent`. Without either, `LatestRestorable` has a counterexample (*Known to fail*).
They hold for any number of ranks, iterations, crashes and overlapping saves, in both modes.

Without that default: `PointersMoveToWholeCheckpoints` (`Spec => PublishesOnlyRestorable`) holds for every `MostRecentK`, in both modes and
places, and assumes `~SavesTwice` only. Directories may vanish here, so its invariant `PublishInv` says of each request what is whole *as
long as* its directory exists, and that no two requests share one. The other three theorems are about synchronous saves that trim.
Trimming keeps the k newest directories, the torn ones a crash left ahead of the pointer included. `SaveInv` counts
these (`Strays`): each crash adds at most one, so with `MaxCrashes < MostRecentK` there is a place left for the published checkpoint (`TrimSpares`,
by comparing cardinalities). Hence `TrimmingSparesLatest`, `SynchronousSaveIsDurable` and `TrimmedRefinement`, which assume this bound (`Forgiving`, also met by
`MostRecentK = -1`), `~AsyncSave`, `~NonPersistent` and `~SavesTwice`: the setting of `ckpt_sync`. With k crashes the published checkpoint is lost (*Known to fail*).

**TrainLoopProofs.** `LoopTypeCorrect`: `Spec => []TypeOK`. `JobEndsSaved`: `Spec => []EndsSaved`, with no assumption
but `LoopAssumption`; the invariant says what `should_exit` and `saved_checkpoint` stand for at each place
(`LocalInv`) and that a rank past the save of an exit has a checkpoint of its step pending or stored (`CkptInv`).
`RanksNeverSplit`: `Spec => []InStep` if the detector runs on all ranks or none (`UniformDetector`; the other case is *known to fail*). Its invariant `Together` compares every two ranks: either they are at the same
place with the same step, or one is behind by skipped iterations only and will reach the
other's place without meeting anyone.

`TrackerAlwaysNamesCheckpoint` completes `CheckpointingProofs`: with synchronous saves, `MostRecentK = -1` and `~SavesTwice` the tracker
follows the pointer, because at most one save is in flight and the loop waits for it (`OneSave`).

**FaultToleranceProofs.** `SectionsPaired` is not inductive: whether ending a section is an error depends on whether the callback
that opened it counted the same warm-up. `IInv` names the open sections at every place of the program (`OpenSections`), that the counters exceed
what the client has seen by no more than the warm-up (`Learned`), that a client which is up knows every timeout learned so far, as does the file unless it is torn (`Kept`: a launch that meets a torn file
fails before it has a client, and nobody writes a whole one over it), and where `step` and `next` may stand (`Flow`). From it follow `FTTypeCorrect`, `SectionsAlwaysPaired`, `SectionsAlwaysMatchWork`,
`TimeoutsAlwaysFounded` and `TimeoutsAlwaysKept`, all with no assumption but
`FaultToleranceAssumption`: any thresholds, iterations and faults, with or without restarts in place. `TimeoutsAlwaysKept` does not say that timeouts survive every fault:
one that strikes during the write loses them with the file, which is then torn for good (`viol_torn`).

**DataPipelineProofs.** `DataTypeCorrect` (`Spec => []TypeOK`) and `CountersAlwaysFollow` assume nothing but the module's own assumptions. The other
four are about the stream of samples, and need more than the properties say, for ranks draw at different times.

- `RanksAlwaysAligned`: there is one path of generators, each the successor of the one before, and a rank with `n` draws behind it stands
  at the `n`-th (`OnePath`, with the shapes of the variables in `Shapes`).
- `BatchesAlwaysDisjoint`: what the ranks draw at the same or at different points of the path are different chunks of one stream, and a
  permutation deals each index once.
- `AlwaysResumesTheStream`: the samplers of a launch stand at the counts of the checkpoint it began with, plus the strides drawn since (`Trail`), and
  the windows of all earlier steps, of the run and of the checkpoint, follow each other up to the counter (`Course`).
- `AlwaysExactlyOnce`: a window holds as many samples as its step moves the counter (`WindowSize`) and overlaps none of the
  earlier ones (`WindowsApart`). Single-pass data never diverge (`SingleStays`), so for them it holds on any layouts; for the others while the stream continues.

They are stated under `EvenShuffle`, and the second and fourth also under `PermInjective`. `PermInjective` says what `torch.randperm` is: every index
once. `EvenShuffle` says of the shuffled sampler only that no rank finds a batch of its own in the incomplete end of a pass; without it
ranks do disagree there (*Known to fail*, `RanksAligned`). It holds of the datasets of `data`, and of all other kinds of sampler for any constants.

**PackingProofs.** `NoTwoBinsEverMerge` is first-fit's own argument: a bin opened later holds nothing an earlier one could have taken (`FirstFit`), which
sums that only grow preserve. `PackedAlwaysFaithful` (`Spec => []PackedFaithfully`) follows a sample from its tokens to its row. Its invariant
`PackingInv` has four parts: the samples are prepared as `Tokens` and `Mask` say (`PreparedFirst`); a bin is overfull only by a length above
the pack size, for which there is no stack (`BinsInv`); there is a bijection between the samples and the places of the queue and the bins
(`AllPlaced`); and the bins filled so far hold distinct samples of the lengths planned for them, the stacks hold all others, tokens and masks
in the same order and enough for the places left (`Filling`). When the job is done the stacks are empty, so every sample is in a bin; `RowFacts` then finds its
tokens, labels, loss and `cu_seqlens` in the row that `collate_fn` cuts out of the bin. Neither theorem assumes more than `JobAssumption`.

**WeightConversionProofs.** First the collectives. No rank knows what another is going to call, so `NoHang` has to come out of what each computes alone. What a
rank will call is written down in advance: `Program(r, p, a)` is the sequence of collectives of rank `r` in call `p` of the plan at
task `a`, and depends on no variable but `job`.

- *Same tasks.* The task lists of two ranks are one list, with the grouped experts renumbered by a constant (`SameTasks`): renumbering keeps the order of
  `extract_sort_key` (`ShiftKeepsOrder`), and a sorted list places a name by how many come before it.
- *Same programs.* Two members of a group a call is made in have that program in common (`SharedCall`), whichever owns the module: what tells their calls
  apart (owner, stage, mapping class) either does not enter the program or is the same in the group.
- *In step.* `IInv` says that what is left of a task is the end of its program (`Follows`), which holds only if the caches are what the place in the
  program implies (`Caching`); that a rank has made the calls of a group exactly when the others have (`InStep`); that a list is there
  when it is needed (`Listing`); who has a tensor before it is broadcast (`Working`); and that a task no stage can answer has not been passed (`Noticed`,
  `Passed`), for the clauses about exceptions. `InStepAlways` is `Spec => []IInv`.
- *Nobody waits in a circle.* A rank that is furthest behind, by call of the plan, task and calls left, finds all of its group in the
  same call, for none of them can have left it: `NoHangAlways`.
- `TypeOKAlways` adds that shards and cached answers are of the rank's own tasks (`Sized`).

All three hold of any grid, parameters, shapes, missing tensors and plans that meet `JobAssumption`, and assume `ExportsAfterExports`: tasks that are used again for an
export were used for an export before. The callers in the repository build their tasks anew for each call; the sharing a docstring shows (`auto_bridge.py:930`) does hang (*Known to fail*, `ReusedJobs`).

Then the layouts. Each mapping class permutes rows, cuts the result into chunks and is undone by its inverse: for every class and shape,
the places of `split` are those of `merge` (`HeadAt`, `Column` and `Beside`, `MergeKV`), and the chunks of all ranks, laid end to end, are the
parts again. `LayoutsRoundTrip`: `Joined` of the shards is `HF`, if the ranks divide every part.

**RoundTripProofs.** What the ranks carry in step is right as well.

- *Carried.* Three formulas about one rank, by call of the plan, task and calls left: it has exactly its slice of what it has imported, and has imported what is
  its own and behind it (`HoldsAt`); before the tensor parallel gather it has nothing or one slice, after it the shards of all ranks in order (`GathersAt`); what it has exported is
  right, and is there under each of its names once the task is done (`ExportsAt`). `Carried` is their conjunction; TLC finds it to hold in all states of `conversion`.
- *Steps.* Within a task the calls come in one order (`InTurn`), so that a gather finds every member with the shard that the broadcast over the stages left it, and a
  gather over expert parallel ranks finds every member with all shards of its own expert.
- *End.* Every name of the checkpoint belongs to a task of the rank or is made by a gather in one (`ThroughAll`), so that `out` is `Expected`: `RoundTripAlways`.
- *Shares.* The parts of a parameter are made of the same number of units each, a run of rows to a unit (`PartLaid`, `Spread`, class by class: `QKVSpread`,
  `GDNSpread`, `ChunkedSpread`, ...), and a chunk is a whole number of those runs. `SharesAreFair`: the shards are of one length, of whole units, and have every row.
- *Complete.* A rank past the import has its slice of each parameter of its stage (`StageHolds`, from `Carried`); for each expert and each tensor parallel rank the grid
  has a rank with it (`NumberListed`, `Peers`); and a shared output layer is still some first stage's shard, as no step changes what is loaded (`Shared`, `LoadedStays`;
  TLC finds `Shared` to hold in all states of `conversion`). `ShardsCompleteAlways` follows.

Besides `ExportsAfterExports`, `RoundTripAlways` assumes `ImportsFirst`, as there is nothing to export in a model not loaded, and `ModelsAsBuilt`: shapes divide as the
configurations demand (query groups divide heads), grouped experts have the mappings `GroupedMLP` has, an embedding is not fused, and a
tied model has one embedding that the checkpoint names under both or neither of its names. `ShardsCompleteAlways` assumes `ModelsSpreadOut` as well:
the tensor parallel ranks divide the query groups, as attention itself demands (`gemma2_provider.py:100`), without which an even shard may end inside a group;
a tied embedding is on the first stage and in the checkpoint; and a sequential MLP is not spread over expert parallel ranks, where the theorem's claim is false
(*Known to fail*, `SequentialJobs`). All jobs of `conversion` meet the four.

**CountingLemmas.** Induction is over sets of numbers (`CountingUp`: a set with 0 and with each successor has all of them), as the library's
induction theorem can be instantiated once for such sets and not for operators. The sum and concatenation of sequences are folds; what a proof needs of them is stated by their
running sums (`Partial`, `SumIsLast`) and by where each element ends up (`EndToEnd`, `FlattenPlaces`).

**Only model-checked:** the liveness properties (`SavesEventuallyPublished`, `TimeLimitHonoured`, `JobEnds`, `Finishes`), which rest on
fairness and are beyond the prover; `most_recent_k` > 0 together with non-persistent checkpoints.

## 5. Not modelled

- Local (per-node) checkpoints, `fsdp_dtensor` saves, `ckpt_step`, pretrained and finetune loading, the
  Megatron-LM release format, resharding, contents of shards.
- Of the restart inside one process: the caches by path, `cfg`, the abort of writers and process groups, rank reassignment.
  `Checkpointing` relaunches a fresh process; `FaultTolerance` does both.
- A copy of `latest_train_state.pt` torn in the middle; the file is written in one step.
- The int32 width of the saved sample counters.
- Evaluations after training in `TrainLoop`, logging, profiling, garbage collection, CUDA graphs, parameter hooks: they
  change nothing the properties speak of.
- External data loaders, worker processes, building of datasets, blends and index files; unpacked collation and prompt templates.
- Of conversion: dtypes, quantized and adapter weights, virtual pipeline stages, the name patterns of the registry, safetensors files.
- Configuration: validation is one pass of checks and derived values at start-up, without state to interleave; what the models depend on
  is a constant with a named assumption. Model providers, PEFT, recipes, tokenizers, step functions, inference: tables, tensor
  computation and wrappers. They are the larger part of the repository's lines, and nothing in them is a transition a model could add to.

## 6. Plan

Order: what loses work first, then what hangs a job, then what miscounts.

1. *Done.* `DurableProgress`, `Checkpointing`, its runs and proofs.
2. *Done.* `TrainLoop`, its runs and proofs.
3. *Done.* `FaultTolerance` with restarts in place, its run and proofs.
4. *Done.* `DataPipeline`, its run and the proofs of all its safety properties.
5. *Done.* `WeightConversion` and `Packing`, their runs and proofs, the units of `ShardsComplete` included.
6. `TrainingJob`: `TrainLoop` composed with `Checkpointing` and relaunches, for exits after non-persistent saves and the gate of `setup`
   (a job with only non-persistent checkpoints starts again at 0).
7. Proofs: trimming together with non-persistent checkpoints.
