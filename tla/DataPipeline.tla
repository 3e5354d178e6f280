---------------------------- MODULE DataPipeline ----------------------------
(***************************************************************************)
(* The samples each data-parallel rank trains and evaluates on: the three  *)
(* samplers of data/samplers.py, the iterators data/loaders.py puts around *)
(* them, the loops of training/train.py and training/eval.py that draw     *)
(* from the iterators, and the counters a checkpoint carries over a        *)
(* restart, perhaps on another number of ranks.                            *)
(*                                                                         *)
(* A rank's sampler is an offset into the current pass over the dataset.   *)
(* Nothing but the step's reductions keeps the ranks together: each draws  *)
(* its own batches and none compares its offset with the others'.          *)
(***************************************************************************)
EXTENDS Integers, FiniteSets, Sequences

CONSTANTS
    Datasets,       \* what may be trained on: records [kind, total], kind one of Kinds
    ValidTotal,     \* length of the validation dataset
    Layouts,        \* records [mbs, dp]: micro_batch_size and data-parallel size
    GBS,            \* cfg.train.global_batch_size
    RampGBS,        \* the global batch size before RampUntil samples (rampup_batch_size)
    RampUntil,
    TrainIters,     \* cfg.train.train_iters
    EvalInterval,   \* cfg.train.eval_interval
    EvalIters,      \* cfg.train.eval_iters
    Skip,           \* cfg.train.iterations_to_skip
    Perm(_, _),     \* external: torch.randperm(n) seeded with the epoch, as a sequence
    MaxCrashes      \* bound on crashes

\* dataloader_type, "cyclic" split by data_sharding.
Kinds   == {"single", "batch", "sharded", "shuffled"}
Streams == {"train", "valid"}

ASSUME DataAssumption ==
    /\ Datasets \subseteq [kind : Kinds, total : Nat \ {0}]
    /\ Layouts \subseteq [mbs : Nat \ {0}, dp : Nat \ {0}]
    /\ {ValidTotal, GBS, RampGBS, EvalInterval} \subseteq Nat \ {0}
    /\ {RampUntil, TrainIters, EvalIters, MaxCrashes} \subseteq Nat
    /\ Skip \subseteq Nat

\* The microbatch calculator refuses a global batch the layout does not divide.
ASSUME DivisibleAssumption ==
    \A l \in Layouts : GBS % (l.mbs * l.dp) = 0 /\ RampGBS % (l.mbs * l.dp) = 0

VARIABLES
    dataset,        \* the dataset and dataloader_type of this job
    layout,         \* the layout of this launch
    status,         \* "running", "down", or how the job ended
    doing,          \* the stream the step in progress draws from
    evals,          \* iterations left of the evaluation in progress
    cursor,         \* per stream and rank, the state of the sampler's generator
    drawn,          \* per rank, the batches drawn in this step, as sets of samples
    step,           \* train_state.step
    consumed,       \* per stream, train_state.consumed_train_samples, _valid_samples
    skipped,        \* train_state.skipped_train_samples
    lineage,        \* per step trained on: the sample count it began at, its size and samples
    ckpt,           \* the last checkpoint
    crashes,
    diverged        \* history: the training stream was resumed on another layout that
                    \* deals it out anew, or at a count that is not its place

job   == <<dataset, layout, status, crashes>>
data  == <<cursor, drawn, diverged>>
turn  == <<doing, evals>>
model == <<step, consumed, skipped, lineage>>
vars  == <<job, turn, data, model, ckpt>>

----------------------------------------------------------------------------
(* The samplers.                                                           *)

\* build_train_valid_test_data_loaders: GPT datasets validate cyclically.
KindOf(s)  == IF s = "valid" /\ dataset.kind = "single" THEN "sharded" ELSE dataset.kind
TotalOf(s) == IF s = "valid" THEN ValidTotal ELSE dataset.total

Ranks   == 0 .. layout.dp - 1
Chunk   == layout.mbs * layout.dp       \* micro_batch_times_data_parallel_size
Random(s) == KindOf(s) \in {"sharded", "shuffled"}

Active(s) == TotalOf(s) - (TotalOf(s) % Chunk)         \* active_total_samples
Bucket(s) == (TotalOf(s) \div Chunk) * layout.mbs    \* bucket_size
Full(s)   == (TotalOf(s) \div layout.mbs) * layout.mbs

\* Samples of the global stream one batch of every rank takes up.
Stride(s) == IF KindOf(s) = "batch" THEN GBS ELSE Chunk

\* Batches one step draws from the iterator.
Needed(s, gbs) == IF KindOf(s) = "batch" THEN 1 ELSE gbs \div Chunk

\* __iter__: where a pass begins, by the sampler's consumed_samples.
PassStart(s, mark) ==
    CASE KindOf(s) = "single" -> mark
      [] KindOf(s) = "batch"  -> mark % TotalOf(s)
      [] OTHER                -> mark % Active(s)

\* The generator's head, run by the first next() of a pass.
Begin(s, c) ==
    [c EXCEPT !.open  = TRUE,
              !.at    = PassStart(s, c.mark),
              !.epoch = IF Random(s) THEN c.mark \div Active(s)
                        ELSE IF c.open THEN c.epoch + 1 ELSE c.epoch]

\* The division and the assertion in the random sampler's head.
BeginRaises(s, c) ==
    Random(s) /\ (Active(s) = 0 \/ PassStart(s, c.mark) % Chunk # 0)

\* Mutant of HasNext: a rank looks for its own share of the global batch only.
HasNextOwnShare(s, r, at) ==
    CASE KindOf(s) = "batch"    -> at + r + layout.dp * (GBS \div layout.dp - 1) < TotalOf(s)
      [] KindOf(s) = "single"   -> at + Chunk <= TotalOf(s)
      [] KindOf(s) = "sharded"  -> at \div layout.dp + layout.mbs <= Bucket(s)
      [] KindOf(s) = "shuffled" -> at + r + layout.dp * (layout.mbs - 1) < Full(s)

\* Mutant of HasNext: the last full batch of a pass is dropped with the incomplete one.
HasNextShort(s, r, at) == at + Stride(s) < Active(s)

\* The rank's share of the pass holds another full batch at this offset.
HasNext(s, r, at) ==
    CASE KindOf(s) = "sharded"  -> at \div layout.dp + layout.mbs <= Bucket(s)
      [] KindOf(s) = "shuffled" -> at + r + layout.dp * (layout.mbs - 1) < Full(s)
      [] OTHER                  -> at + Stride(s) <= TotalOf(s)

\* Mutant of Batch: ranks offset by one sample instead of one micro batch.
BatchOverlapping(s, r, at, epoch) ==
    IF Random(s)
      THEN {<<epoch, Perm(epoch, Bucket(s))[at \div layout.dp + i]>> : i \in 1 .. layout.mbs}
      ELSE {<<epoch, at + r + i>> : i \in 0 .. Stride(s) \div layout.dp - 1}

\* The batch a rank is given at an offset, each sample tagged with its epoch.
Batch(s, r, at, epoch) ==
    CASE KindOf(s) = "single" ->
            {<<epoch, at + r * layout.mbs + i>> : i \in 0 .. layout.mbs - 1}
      [] KindOf(s) = "batch" ->
            {<<epoch, at + r + layout.dp * i>> : i \in 0 .. GBS \div layout.dp - 1}
      [] KindOf(s) = "sharded" ->
            {<<epoch, r * Bucket(s) + Perm(epoch, Bucket(s))[at \div layout.dp + i]>> :
                i \in 1 .. layout.mbs}
      [] KindOf(s) = "shuffled" ->
            {<<epoch, Perm(epoch, Full(s))[at + r + layout.dp * i + 1]>> :
                i \in 0 .. layout.mbs - 1}

\* Mutant of Yield: the random sampler forgets to count what it yields.
YieldUncounted(s, c) == [c EXCEPT !.at = @ + Stride(s)]

\* The generator after its yield: the random sampler also moves its mark.
Yield(s, c) ==
    [c EXCEPT !.at = @ + Stride(s), !.mark = IF Random(s) THEN @ + Chunk ELSE @]

\* Samples of the stream one pass delivers.
PassLength(s) == IF KindOf(s) = "batch" THEN TotalOf(s) - (TotalOf(s) % GBS) ELSE Active(s)

\* The epoch of the other samplers is history: they have none.
Fresh(s, mark) ==
    [mark |-> mark, at |-> 0, open |-> FALSE,
     epoch |-> IF KindOf(s) = "batch" /\ TotalOf(s) >= GBS THEN mark \div PassLength(s) ELSE 0]

----------------------------------------------------------------------------
(* One launch.                                                             *)

\* update_num_microbatches: the global batch size after this many samples.  The
\* whole-batch sampler knows no ramp-up, so it is not combined with one here.
BatchSize(s, count) ==
    IF s = "train" /\ dataset.kind # "batch" /\ count < RampUntil THEN RampGBS ELSE GBS

Size == BatchSize(doing, consumed.train)

NothingDrawn == [r \in Ranks |-> <<>>]
AllDrawn     == \A r \in Ranks : Len(drawn[r]) = Needed(doing, Size)
AtBoundary   == status = "running" /\ doing = "train" /\ drawn = NothingDrawn

\* build_train_valid_test_data_iterators, at the start of a launch: fresh samplers
\* that know only the two counts.
Samplers(count) == [s \in Streams |-> [r \in Ranks |-> Fresh(s, count[s])]]

Init ==
    /\ dataset \in Datasets
    /\ layout \in Layouts
    /\ status = "running" /\ doing = "train" /\ evals = 0
    /\ consumed = [s \in Streams |-> 0]
    /\ skipped = 0 /\ step = 0 /\ lineage = <<>>
    /\ cursor = Samplers(consumed)
    /\ drawn = NothingDrawn
    /\ ckpt = [step |-> 0, consumed |-> consumed, skipped |-> 0, lineage |-> <<>>,
               layout |-> layout, diverged |-> FALSE]
    /\ crashes = 0 /\ diverged = FALSE

\* The generator of rank r's sampler once its head has run, and that of the next pass.
Here(s, r)  == IF cursor[s][r].open THEN cursor[s][r] ELSE Begin(s, cursor[s][r])
Again(s, r) == Begin(s, Here(s, r))

\* What next() on rank r's iterator comes to.  All but "single" iterate over cyclic_iter,
\* which starts another pass when one ends: one that has nothing to give, for ever.
Outcome(s, r) ==
    IF ~cursor[s][r].open /\ BeginRaises(s, cursor[s][r]) THEN "failed"
    ELSE IF HasNext(s, r, Here(s, r).at)                  THEN "here"
    ELSE IF KindOf(s) = "single"                          THEN "exhausted"
    ELSE IF HasNext(s, r, Again(s, r).at)                 THEN "again"
    ELSE "spinning"

\* Rank r takes the next batch of the step.
Draw(r) ==
    /\ status = "running"
    /\ doing = "train" => step < TrainIters
    /\ Len(drawn[r]) < Needed(doing, Size)
    /\ LET s == doing
           o == Outcome(s, r)
           c == IF o = "here" THEN Here(s, r) ELSE Again(s, r)
       IN  /\ IF o \in {"here", "again"}
                THEN /\ drawn'  = [drawn EXCEPT ![r] = Append(@, Batch(s, r, c.at, c.epoch))]
                     /\ cursor' = [cursor EXCEPT ![s][r] = Yield(s, c)]
                     /\ UNCHANGED status
                ELSE status' = o /\ UNCHANGED <<drawn, cursor>>
           \* The whole-batch sampler skips a resumed prefix in every later pass too.
           /\ diverged' = (diverged \/ (/\ o \in {"again", "spinning"}
                                       /\ s = "train" /\ KindOf(s) = "batch"
                                       /\ c.at # 0))
    /\ UNCHANGED <<dataset, layout, crashes, turn, model, ckpt>>

Entry == [from |-> consumed.train, size |-> Size,
          samples |-> UNION {drawn[b[1]][b[2]] : b \in Ranks \X (1 .. Needed(doing, Size))}]

\* The end of train_step and the counters of train, or _should_skip_and_handle_iteration,
\* which draws the same batches and throws them away; an evaluation when it is due.
EndTrainStep ==
    /\ status = "running" /\ doing = "train" /\ step < TrainIters /\ AllDrawn
    /\ step' = step + 1
    /\ consumed' = [consumed EXCEPT !.train = @ + Size]
    /\ IF step \in Skip
         THEN skipped' = skipped + Size /\ UNCHANGED <<lineage, turn>>
         ELSE /\ lineage' = Append(lineage, Entry)
              /\ IF (step + 1) % EvalInterval = 0 /\ EvalIters > 0
                   THEN doing' = "valid" /\ evals' = EvalIters
                   ELSE UNCHANGED turn
              /\ UNCHANGED skipped
    /\ drawn' = NothingDrawn
    /\ UNCHANGED <<job, cursor, diverged, ckpt>>

\* Mutant of EndEvalStep: an evaluation counts for training.
EndEvalStepAsTraining ==
    /\ status = "running" /\ doing = "valid" /\ AllDrawn
    /\ consumed' = [consumed EXCEPT !.train = @ + GBS]
    /\ evals' = evals - 1
    /\ doing' = IF evals = 1 THEN "train" ELSE "valid"
    /\ drawn' = NothingDrawn
    /\ UNCHANGED <<job, step, skipped, lineage, cursor, diverged, ckpt>>

\* Mutant of EndEvalStep: the evaluation never hands back to training.
EndEvalStepForever ==
    /\ status = "running" /\ doing = "valid" /\ AllDrawn
    /\ consumed' = [consumed EXCEPT !.valid = @ + GBS]
    /\ evals' = evals - 1
    /\ drawn' = NothingDrawn
    /\ UNCHANGED <<job, doing, step, skipped, lineage, cursor, diverged, ckpt>>

\* One iteration of evaluate.
EndEvalStep ==
    /\ status = "running" /\ doing = "valid" /\ AllDrawn
    /\ consumed' = [consumed EXCEPT !.valid = @ + GBS]
    /\ evals' = evals - 1
    /\ doing' = IF evals = 1 THEN "train" ELSE "valid"
    /\ drawn' = NothingDrawn
    /\ UNCHANGED <<job, step, skipped, lineage, cursor, diverged, ckpt>>

\* A checkpoint, at the end of any iteration: the counters, never the samplers.
Save ==
    /\ AtBoundary
    /\ ckpt.step # step
    /\ ckpt' = [step |-> step, consumed |-> consumed, skipped |-> skipped,
                lineage |-> lineage, layout |-> layout, diverged |-> diverged]
    /\ UNCHANGED <<job, turn, data, model>>

Finish ==
    /\ AtBoundary
    /\ step >= TrainIters
    /\ status' = "done"
    /\ UNCHANGED <<dataset, layout, crashes, turn, data, model, ckpt>>

Crash ==
    /\ status = "running"
    /\ crashes < MaxCrashes
    /\ status' = "down" /\ crashes' = crashes + 1
    /\ UNCHANGED <<dataset, layout, turn, data, model, ckpt>>

\* Whether the counts alone tell a new sampler where the stream was.  The random samplers
\* deal an epoch out by layout: on another one the same count is another set of samples.
\* The whole-batch one counts in samples of the dataset, of which its passes skip the last.
Continues(l) ==
    CASE dataset.kind = "single" -> TRUE
      [] dataset.kind = "batch"  ->
            \/ ckpt.consumed.train = 0
            \/ ckpt.consumed.train % dataset.total = ckpt.consumed.train % PassLength("train")
      [] OTHER                   -> l = ckpt.layout

\* Mutant of Restart: the samplers are built before the checkpoint's counts are read.
RestartStale(l) ==
    /\ status = "down"
    /\ layout' = l /\ UNCHANGED <<dataset, crashes>>
    /\ doing' = "train" /\ evals' = 0
    /\ step' = ckpt.step /\ consumed' = ckpt.consumed
    /\ skipped' = ckpt.skipped /\ lineage' = ckpt.lineage
    /\ cursor' = [s \in Streams |-> [r \in 0 .. l.dp - 1 |-> Fresh(s, 0)]]
    /\ drawn' = [r \in 0 .. l.dp - 1 |-> <<>>]
    /\ diverged' = (ckpt.diverged \/ ~Continues(l))
    /\ status' = "running"
    /\ UNCHANGED ckpt

\* The job starts again from the last checkpoint, on any layout.
Restart(l) ==
    /\ status = "down"
    /\ layout' = l /\ UNCHANGED <<dataset, crashes>>
    /\ doing' = "train" /\ evals' = 0
    /\ step' = ckpt.step /\ consumed' = ckpt.consumed
    /\ skipped' = ckpt.skipped /\ lineage' = ckpt.lineage
    /\ cursor' = [s \in Streams |-> [r \in 0 .. l.dp - 1 |-> Fresh(s, ckpt.consumed[s])]]
    /\ drawn' = [r \in 0 .. l.dp - 1 |-> <<>>]
    /\ diverged' = (ckpt.diverged \/ ~Continues(l))
    /\ status' = IF dataset.kind = "single" /\ ckpt.consumed.train >= dataset.total
                   THEN "failed" ELSE "running"
    /\ UNCHANGED ckpt

Next ==
    \/ \E r \in Ranks : Draw(r)
    \/ EndTrainStep \/ EndEvalStep
    \/ Save \/ Finish
    \/ Crash
    \/ \E l \in Layouts : Restart(l)

Spec == Init /\ [][Next]_vars

\* A rank with a batch to take takes it, the loop goes on, a dead job is launched again.
FairSpec ==
    /\ Spec
    /\ WF_vars(\E r \in Ranks : Draw(r))
    /\ WF_vars(EndTrainStep \/ EndEvalStep \/ Finish)
    /\ WF_vars(\E l \in Layouts : Restart(l))

----------------------------------------------------------------------------
(* Properties.                                                             *)

TypeOK ==
    /\ dataset \in Datasets /\ layout \in Layouts
    /\ status \in {"running", "down", "done", "exhausted", "spinning", "failed"}
    /\ doing \in Streams /\ evals \in 0 .. EvalIters
    /\ (doing = "valid") = (evals > 0)
    /\ cursor \in [Streams -> [Ranks -> [mark : Nat, at : Nat, epoch : Nat, open : BOOLEAN]]]
    /\ \A r \in Ranks : Len(drawn[r]) \in 0 .. Needed(doing, Size)
    /\ step \in 0 .. TrainIters /\ ckpt.step \in 0 .. TrainIters
    /\ consumed \in [Streams -> Nat] /\ skipped \in Nat
    /\ diverged \in BOOLEAN

(***************************************************************************)
(* Ranks that have drawn the same number of batches of a step are at the   *)
(* same place of the same epoch, on both streams, though none looks at     *)
(* another's sampler.                                                      *)
(***************************************************************************)
RanksAligned ==
    \A r1, r2 \in Ranks :
        Len(drawn[r1]) = Len(drawn[r2]) => \A s \in Streams : cursor[s][r1] = cursor[s][r2]

(***************************************************************************)
(* No sample reaches two ranks, or one rank twice, within a step: the      *)
(* batches of a step are disjoint.                                         *)
(***************************************************************************)
Batches == {b \in Ranks \X (1 .. Needed(doing, Size)) : b[2] <= Len(drawn[b[1]])}

DisjointBatches ==
    \A b, c \in Batches : b # c => drawn[b[1]][b[2]] \cap drawn[c[1]][c[2]] = {}

(***************************************************************************)
(* Every sample consumed_train_samples counts was trained on or skipped,   *)
(* once in its epoch: the model has seen no sample twice and the counter   *)
(* is the number it has seen.  In the sequential order that holds through  *)
(* any crashes, restarts and changes of layout; with the random samplers   *)
(* as long as every restart keeps the layout of its checkpoint, and with   *)
(* whole batches as long as none resumes at a count that is not the place  *)
(* of the stream, or comes round to a prefix it has skipped.               *)
(***************************************************************************)
SeenSamples == UNION {lineage[i].samples : i \in DOMAIN lineage}

ExactlyOnce ==
    status = "running" /\ (dataset.kind = "single" \/ ~diverged)
        => Cardinality(SeenSamples) + skipped = consumed.train

(***************************************************************************)
(* The same without the proviso: "You can change tensor parallelism,       *)
(* pipeline parallelism, or data parallelism sizes between checkpoint save *)
(* and load operations" (docs/training/checkpointing.md).                  *)
(***************************************************************************)
OnceOnAnyLayout == status = "running" => Cardinality(SeenSamples) + skipped = consumed.train

(***************************************************************************)
(* A run with crashes trains every step on the samples the run without     *)
(* them would have used: the window of the epoch's order that begins at    *)
(* the step's consumed count.                                              *)
(***************************************************************************)
\* One batch of every rank, at a count of the uninterrupted stream.
StreamChunk(s, count) ==
    LET epoch == IF KindOf(s) = "single" THEN 0 ELSE count \div PassLength(s)
        at    == IF KindOf(s) = "single" THEN count ELSE count % PassLength(s)
    IN  UNION {Batch(s, r, at, epoch) : r \in Ranks}

StreamWindow(s, from, size) ==
    UNION {StreamChunk(s, from + k * Stride(s)) : k \in 0 .. Needed(s, size) - 1}

ResumesTheStream ==
    ~diverged =>
        \A i \in DOMAIN lineage :
            lineage[i].samples = StreamWindow("train", lineage[i].from, lineage[i].size)

(***************************************************************************)
(* Steps and evaluations never disturb each other's stream, and a counter  *)
(* falls back only to the checkpoint's value, in a restart.                *)
(***************************************************************************)
CountersFollowSteps ==
    [][\A s \in Streams :
          consumed'[s] # consumed[s] =>
             \/ status = "down" /\ consumed'[s] = ckpt.consumed[s]
             \/ doing = s /\ consumed'[s] = consumed[s] + BatchSize(s, consumed.train)]_vars

(***************************************************************************)
(* The job finishes: no sampler runs dry before the last iteration, in     *)
(* training or in evaluation, and the only cyclic iterator that may go     *)
(* round without giving anything is a whole-batch one that a restart has   *)
(* built at a count within a batch of the end of its pass.                 *)
(***************************************************************************)
Starved(s) ==
    /\ KindOf(s) = "batch" /\ crashes > 0
    /\ \E r \in Ranks : ~HasNext(s, r, PassStart(s, cursor[s][r].mark))

Finishes == <>(status = "done" \/ (status = "spinning" /\ Starved(doing)))

\* Cyclic iterators go on for ever ("allows train_iters > dataset size").
NeverSpins == status # "spinning"

=============================================================================
