--------------------------- MODULE FaultTolerance ---------------------------
(***************************************************************************)
(* The in-job restart integration of training/fault_tolerance.py: the      *)
(* sections a rank reports to its rank monitor, the counters that decide   *)
(* which section timeouts are learned, and ft_state.json, which carries    *)
(* them to later runs.  The callers in train.py, eval.py, checkpointing.py *)
(* and pretrain.py give the order of the callbacks; a fault kills the      *)
(* process, or is caught by the in-process restart wrapper                 *)
(* (training/inprocess_restart.py), which runs _pretrain again in it.      *)
(*                                                                         *)
(* The rank is the one that writes the file, rank 0.                       *)
(***************************************************************************)
EXTENDS Integers, FiniteSets

CONSTANTS
    Warmup,         \* _NUM_WARMUP_ITERS (1)
    MinIters,       \* _MIN_ITERS_FOR_STEP_TIMEOUT_UPDATE (16)
    TrainIters,     \* cfg.train.train_iters
    EvalIters,      \* cfg.train.eval_iters
    Calculating,    \* cfg.ft.calc_ft_timeouts
    AsyncSave,      \* cfg.checkpoint.async_save
    InProcess,      \* cfg.inprocess_restart.enabled
    MaxFaults       \* bound on faults

ASSUME FaultToleranceAssumption ==
    /\ {Warmup, MinIters, TrainIters, EvalIters, MaxFaults} \subseteq Nat /\ Warmup > 0
    /\ {Calculating, AsyncSave, InProcess} \subseteq BOOLEAN

Sections == {"setup", "step", "checkpointing"}
Places   == {"launch", "load", "loop", "finalize", "ready", "ramp_save", "ramped", "step", "after",
             "eval", "save", "left", "drain", "drained", "final_save", "final_eval", "last_drain", "closing",
             "shut", "writing", "caught", "dead"}
Ended    == {"finished", "failed"}

VARIABLES
    at,         \* where the rank is in the program
    next,       \* in an evaluation, or while it writes ft_state.json: where it goes on
    leaving,    \* should_exit of the loop
    step,       \* train_state.step
    evals,      \* evaluation iterations left
    ft,         \* global_state.fault_tolerance_state
    client,     \* global_state.rank_monitor_client; NoClient: None
    file,       \* ft_state.json: its state, and the sections it has timeouts for
    stored,     \* the checkpoints on disk, by kind: step, or -1
    learned,    \* history: every timeout an ft_state.json has held
    run,        \* history: what this run of _pretrain has done
    inproc,     \* history: this process has been restarted in place
    faults

memory == <<ft, client, inproc>>
disk   == <<file, stored, learned>>
vars   == <<at, next, leaving, step, evals, memory, disk, run, faults>>

----------------------------------------------------------------------------
(* The rank monitor client, external: it holds the open sections and the   *)
(* timeouts, and counts the intervals it has seen.  Starting an open       *)
(* section or ending a closed one is an error of the caller.               *)

NoClient  == [up |-> FALSE, open |-> {}, seen |-> [s \in Sections |-> 0], known |-> {},
              misused |-> FALSE]
NewClient == [NoClient EXCEPT !.up = TRUE]

StartSection(c, s) ==
    [c EXCEPT !.open = @ \cup {s}, !.misused = @ \/ s \in c.open]

\* Counting stops at the number that matters.
EndSection(c, s) ==
    [c EXCEPT !.open = @ \ {s}, !.misused = @ \/ s \notin c.open,
              !.seen[s] = IF @ < MinIters + 1 THEN @ + 1 ELSE @]

\* Of seen_checkpoints_cnt, saved keeps whether it is above 0.
FreshFT == [setup_open |-> FALSE, persistent |-> FALSE, iters |-> 0, saved |-> FALSE, eval_idx |-> 0]

FreshRun == [loaded |-> "none", trained |-> FALSE, unfounded |-> FALSE]

----------------------------------------------------------------------------
(* _maybe_update_timeouts.                                                 *)

\* Mutant of ToUpdate: setup is learned whatever was loaded.
ToUpdateEager(f) ==
    {s \in Sections :
        \/ s = "setup"
        \/ s = "step" /\ f.iters >= MinIters
        \/ s = "checkpointing" /\ f.saved /\ ~AsyncSave}

\* sections_to_update
ToUpdate(f) ==
    {s \in Sections :
        \/ s = "setup" /\ f.persistent
        \/ s = "step" /\ f.iters >= MinIters
        \/ s = "checkpointing" /\ f.saved /\ ~AsyncSave}

\* update_out_of_section: at closing time, after a complete run.
UpdateOut(f, closing) == closing /\ {"setup", "step"} \subseteq ToUpdate(f) /\ f.saved

\* What the run has seen of a section.  Setup counts if it read a persistent checkpoint,
\* and may still be open: only an iteration ends it.
Evidence(s, c) ==
    CASE s = "setup"         -> run.loaded = "persistent"
      [] s = "step"          -> c.seen["step"] + Warmup >= MinIters
      [] s = "checkpointing" -> c.seen["checkpointing"] > 0

\* Update the timeouts of client c, by the counters f, and go on to where.  The file is
\* opened for writing, which empties it; json.dump follows in WriteState.
MaybeUpdate(f, c, closing, where) ==
    LET chosen == ToUpdate(f)
        out    == IF UpdateOut(f, closing) THEN {"out"} ELSE {}
    IN  IF Calculating /\ chosen \cup out # {}
          THEN /\ client' = [c EXCEPT !.known = @ \cup chosen \cup out]
               /\ run' = [run EXCEPT !.unfounded = @ \/ \E s \in chosen : ~Evidence(s, c)]
               /\ file' = [state |-> "torn", known |-> {}]
               /\ at' = "writing" /\ next' = where
          ELSE client' = c /\ at' = where /\ UNCHANGED <<run, file, next>>

WriteState ==
    /\ at = "writing"
    /\ file' = [state |-> "whole", known |-> client.known]
    /\ learned' = learned \cup client.known
    /\ at' = next
    /\ UNCHANGED <<next, leaving, step, evals, memory, stored, run, faults>>

----------------------------------------------------------------------------
(* The callbacks, in the order of the program.                             *)

Init ==
    /\ at = "launch" /\ next = "launch" /\ leaving = FALSE
    /\ step = 0 /\ evals = 0
    /\ ft = FreshFT /\ client = NoClient /\ inproc = FALSE
    /\ file = [state |-> "absent", known |-> {}]
    /\ stored = [persistent |-> -1, local |-> -1] /\ learned = {}
    /\ run = FreshRun /\ faults = 0

\* Mutant of Setup: the learned timeouts are not read back.
SetupForgetful ==
    /\ at = "launch"
    /\ client' = StartSection(NewClient, "setup")
    /\ ft' = [ft EXCEPT !.setup_open = TRUE]
    /\ at' = "load"
    /\ UNCHANGED <<next, leaving, step, evals, inproc, disk, run, faults>>

\* fault_tolerance.setup, at the head of setup(): json.load raises on a torn file.  The
\* counters of fault_tolerance_state are left as they are.
Setup ==
    /\ at = "launch"
    /\ IF file.state = "torn"
         THEN at' = "failed" /\ UNCHANGED <<client, ft>>
         ELSE /\ client' = StartSection([NewClient EXCEPT !.known = file.known], "setup")
              /\ ft' = [ft EXCEPT !.setup_open = TRUE]
              /\ at' = "load"
    /\ UNCHANGED <<next, leaving, step, evals, inproc, disk, run, faults>>

\* Mutant of Load: the run resumes one iteration late.
LoadNextStep ==
    /\ at = "load"
    /\ \E kind \in {"none", "persistent", "local"} :
        /\ IF kind = "none" THEN stored = [persistent |-> -1, local |-> -1]
           ELSE stored[kind] >= 0 /\ \A k \in DOMAIN stored : stored[k] <= stored[kind]
        /\ step' = IF kind = "none" THEN 0 ELSE stored[kind] + 1
        /\ ft' = IF kind = "none" THEN ft ELSE [ft EXCEPT !.persistent = (kind = "persistent")]
        /\ run' = [run EXCEPT !.loaded = kind]
    /\ at' = "loop"
    /\ UNCHANGED <<next, leaving, evals, client, inproc, disk, faults>>

\* load_checkpoint and on_checkpoint_loaded: the later of the checkpoints on disk.
Load ==
    /\ at = "load"
    /\ \E kind \in {"none", "persistent", "local"} :
        /\ IF kind = "none" THEN stored = [persistent |-> -1, local |-> -1]
           ELSE stored[kind] >= 0 /\ \A k \in DOMAIN stored : stored[k] <= stored[kind]
        /\ step' = IF kind = "none" THEN 0 ELSE stored[kind]
        /\ ft' = IF kind = "none" THEN ft ELSE [ft EXCEPT !.persistent = (kind = "persistent")]
        /\ run' = [run EXCEPT !.loaded = kind]
    /\ at' = "loop"
    /\ UNCHANGED <<next, leaving, evals, client, inproc, disk, faults>>

\* on_checkpointing_start: at the head of an iteration, after the loop and before the end.
OnCheckpointingStart ==
    /\ \/ at = "loop" /\ step < TrainIters /\ at' = "finalize"
       \/ at = "loop" /\ step >= TrainIters /\ at' = "drain"
       \/ at = "left" /\ at' = "drain"
       \/ at = "final_eval" /\ evals = 0 /\ at' = "last_drain"
    /\ client' = StartSection(client, "checkpointing")
    /\ UNCHANGED <<next, leaving, step, evals, ft, inproc, disk, run, faults>>

\* on_checkpointing_end(is_async_finalization=True)
OnFinalizationEnd ==
    /\ \/ at = "finalize" /\ at' = "ready"
       \/ at = "drain" /\ at' = IF leaving THEN "closing" ELSE "drained"
       \/ at = "last_drain" /\ at' = "closing"
    /\ client' = EndSection(client, "checkpointing")
    /\ UNCHANGED <<next, leaving, step, evals, ft, inproc, disk, run, faults>>

\* Mutant of EndSetup: the flag is cleared, the section left open.
EndSetupNever(c) == c

\* The setup section lasts until the first iteration of either kind.
EndSetup(c) == IF ft.setup_open THEN EndSection(c, "setup") ELSE c

\* on_training_step_start
OnStepStart ==
    /\ at \in {"ready", "ramped"}
    /\ client' = IF ft.iters >= Warmup THEN StartSection(EndSetup(client), "step")
                 ELSE EndSetup(client)
    /\ ft' = [ft EXCEPT !.setup_open = FALSE, !.eval_idx = 0]
    /\ at' = "step"
    /\ UNCHANGED <<next, leaving, step, evals, inproc, disk, run, faults>>

\* Mutant of SkipIteration: the loop goes round before the step is counted.
SkipIterationUncounted ==
    /\ at \in {"ready", "ramped"}
    /\ at' = "loop"
    /\ UNCHANGED <<next, leaving, step, evals, memory, disk, run, faults>>

\* An iteration of iterations_to_skip: no callback.
SkipIteration ==
    /\ at \in {"ready", "ramped"}
    /\ step' = step + 1 /\ at' = "loop"
    /\ UNCHANGED <<next, leaving, evals, memory, disk, run, faults>>

\* Mutant of OnStepEnd: the iteration is counted before its section is ended.
OnStepEndCountedFirst ==
    /\ at = "step"
    /\ client' = IF ft.iters + 1 >= Warmup THEN EndSection(client, "step") ELSE client
    /\ ft' = [ft EXCEPT !.iters = @ + 1]
    /\ \/ step' = step + 1 /\ evals' \in {0, EvalIters} /\ UNCHANGED leaving
       \/ step' = step /\ leaving' = TRUE /\ UNCHANGED evals
    /\ at' = "after"
    /\ run' = [run EXCEPT !.trained = TRUE]
    /\ UNCHANGED <<next, inproc, disk, faults>>

\* on_training_step_end.  The rerun state machine may have ended the step without an
\* update and with an order to leave; otherwise an evaluation may be due.
OnStepEnd ==
    /\ at = "step"
    /\ client' = IF ft.iters >= Warmup THEN EndSection(client, "step") ELSE client
    /\ ft' = [ft EXCEPT !.iters = @ + 1]
    /\ \/ step' = step + 1 /\ evals' \in {0, EvalIters} /\ UNCHANGED leaving
       \/ step' = step /\ leaving' = TRUE /\ UNCHANGED evals
    /\ at' = "after"
    /\ run' = [run EXCEPT !.trained = TRUE]
    /\ UNCHANGED <<next, inproc, disk, faults>>

\* on_eval_step_start
OnEvalStart ==
    /\ at \in {"after", "final_eval"} /\ evals > 0
    /\ client' = IF ft.eval_idx >= Warmup THEN StartSection(EndSetup(client), "step")
                 ELSE EndSetup(client)
    /\ ft' = [ft EXCEPT !.setup_open = FALSE]
    /\ at' = "eval" /\ next' = at
    /\ UNCHANGED <<leaving, step, evals, inproc, disk, run, faults>>

\* on_eval_step_end.  evaluate leaves early when the time limit has passed.
OnEvalEnd ==
    /\ at = "eval"
    /\ client' = IF ft.eval_idx >= Warmup THEN EndSection(client, "step") ELSE client
    /\ ft' = [ft EXCEPT !.eval_idx = @ + 1]
    /\ evals' \in {evals - 1, 0}
    /\ at' = next
    /\ UNCHANGED <<next, leaving, step, inproc, disk, run, faults>>

\* on_checkpointing_start, in save_checkpoint.  At the head of an iteration, the ramp-up
\* of the batch size may have raised the number of microbatches; checkpoint.save is set,
\* for setup refuses a configuration without it.
OnSaveStart ==
    /\ \/ at = "ready" /\ step # 0 /\ at' = "ramp_save"
       \/ at = "after" /\ evals = 0 /\ at' = "save"
       \/ at = "drained" /\ at' = "final_save"
    /\ client' = StartSection(client, "checkpointing")
    /\ UNCHANGED <<next, leaving, step, evals, ft, inproc, disk, run, faults>>

\* Where the program goes on after a save.
AfterSave(leave) ==
    CASE at = "ramp_save"  -> "ramped"
      [] at = "save"       -> IF leave THEN "left" ELSE "loop"
      [] at = "final_save" -> "final_eval"

\* The end of save_checkpoint: a checkpoint more, local only at its interval, and
\* on_checkpointing_end.
OnSaveEnd ==
    /\ at \in {"ramp_save", "save", "final_save"}
    /\ \E kind \in IF at = "save" THEN {"persistent", "local"} ELSE {"persistent"} :
          stored' = [stored EXCEPT ![kind] = step]
    /\ ft' = [ft EXCEPT !.saved = TRUE]
    /\ leaving' \in IF at = "save" THEN {leaving, TRUE} ELSE {leaving}
    /\ evals' \in IF at = "final_save" THEN {0, EvalIters} ELSE {0}
    /\ MaybeUpdate(ft', EndSection(client, "checkpointing"), FALSE, AfterSave(leaving'))
    /\ UNCHANGED <<step, inproc, learned, faults>>

\* checkpoint_and_decide_exit without a save.
Decide ==
    /\ at = "after" /\ evals = 0
    /\ leaving' \in {leaving, TRUE}
    /\ at' = IF leaving' THEN "left" ELSE "loop"
    /\ UNCHANGED <<next, step, evals, memory, disk, run, faults>>

\* fault_tolerance.shutdown
Shutdown ==
    \/ /\ at = "closing"
       /\ MaybeUpdate(ft, client, TRUE, "shut")
       /\ UNCHANGED <<leaving, step, evals, ft, inproc, stored, learned, faults>>
    \/ /\ at = "shut"
       /\ client' = NoClient /\ at' = "finished"
       /\ UNCHANGED <<next, leaving, step, evals, ft, inproc, disk, run, faults>>

\* The process is killed, by the monitor or the simulated fault among others.
Kill ==
    /\ at \notin Ended \cup {"dead", "caught"} /\ faults < MaxFaults
    /\ at' = "dead" /\ faults' = faults + 1
    /\ UNCHANGED <<next, leaving, step, evals, memory, disk, run>>

\* The launcher starts a new process.
Relaunch ==
    /\ at = "dead"
    /\ ft' = FreshFT /\ client' = NoClient /\ inproc' = FALSE
    /\ step' = 0 /\ evals' = 0 /\ leaving' = FALSE
    /\ at' = "launch" /\ run' = FreshRun
    /\ UNCHANGED <<next, disk, faults>>

\* The in-process wrapper catches an exception.
Catch ==
    /\ InProcess
    /\ at \notin Ended \cup {"dead", "caught"} /\ faults < MaxFaults
    /\ at' = "caught" /\ faults' = faults + 1
    /\ UNCHANGED <<next, leaving, step, evals, memory, disk, run>>

\* destroy_state and the next attempt: reset_for_restart drops train_state, but neither
\* fault_tolerance_state nor the client.
Reenter ==
    /\ at = "caught"
    /\ step' = 0 /\ evals' = 0 /\ leaving' = FALSE
    /\ inproc' = TRUE
    /\ at' = "launch" /\ run' = FreshRun
    /\ UNCHANGED <<next, ft, client, disk, faults>>

Run ==
    \/ Setup \/ Load
    \/ OnCheckpointingStart \/ OnFinalizationEnd
    \/ OnStepStart \/ SkipIteration \/ OnStepEnd
    \/ OnEvalStart \/ OnEvalEnd
    \/ OnSaveStart \/ OnSaveEnd \/ Decide
    \/ WriteState \/ Shutdown
    \/ Relaunch \/ Reenter

Next == Run \/ Kill \/ Catch

Spec     == Init /\ [][Next]_vars
\* The program goes on, and so do the launcher and the wrapper.
FairSpec == Spec /\ WF_vars(Run)

----------------------------------------------------------------------------
(* Properties.                                                             *)

TypeOK ==
    /\ at \in Places \cup Ended /\ next \in Places
    /\ leaving \in BOOLEAN /\ inproc \in BOOLEAN
    /\ step \in 0 .. TrainIters /\ evals \in 0 .. EvalIters /\ faults \in 0 .. MaxFaults
    /\ ft \in [setup_open : BOOLEAN, persistent : BOOLEAN, iters : Nat, saved : BOOLEAN,
                eval_idx : Nat]
    /\ client \in [up : BOOLEAN, open : SUBSET Sections, seen : [Sections -> Nat],
                    known : SUBSET (Sections \cup {"out"}), misused : BOOLEAN]
    /\ file \in [state : {"absent", "torn", "whole"}, known : SUBSET (Sections \cup {"out"})]
    /\ stored \in [{"persistent", "local"} -> -1 .. TrainIters]
    /\ learned \in SUBSET (Sections \cup {"out"})
    /\ run \in [loaded : {"none", "persistent", "local"}, trained : BOOLEAN, unfounded : BOOLEAN]

(***************************************************************************)
(* Every section is started closed and ended open, whatever order          *)
(* training, evaluation, saving and faults come in, and a step section is  *)
(* never open together with another one.                                   *)
(***************************************************************************)
SectionsPaired ==
    /\ ~client.misused
    /\ "step" \in client.open => client.open = {"step"}

(***************************************************************************)
(* A timeout watches what its section names: outside the callbacks' own    *)
(* stretch of the program nothing is open but setup, and while a           *)
(* checkpoint is written or awaited the checkpointing section is.          *)
(***************************************************************************)
Saving   == at \in {"finalize", "ramp_save", "save", "drain", "final_save", "last_drain"}
Stepping == at \in {"step", "eval"}

SectionsMatchWork ==
    client.up /\ at \notin {"caught", "dead", "launch"} =>
        /\ Saving <=> "checkpointing" \in client.open
        /\ "step" \in client.open => Stepping
        /\ "setup" \in client.open => ~Stepping

(***************************************************************************)
(* Timeouts are learned from what this run has seen: setup from a setup    *)
(* that read a persistent checkpoint, step from enough iterations,         *)
(* checkpointing from a save.  In a process restarted in place the         *)
(* counters of the run before are left over.                               *)
(***************************************************************************)
TimeoutsFounded == ~inproc => ~run.unfounded

(***************************************************************************)
(* The initial iterations may be slow, and are not held to the short step  *)
(* timeout: no step section is open in the first training iteration of a   *)
(* run, in a new process or in one restarted in place.                     *)
(***************************************************************************)
WarmupUnwatched == at = "step" /\ ~run.trained => "step" \notin client.open

(***************************************************************************)
(* What is learned is kept: every whole ft_state.json has all the timeouts *)
(* any earlier one had, though each process writes the file anew, and      *)
(* empties it first.                                                       *)
(***************************************************************************)
TimeoutsKept == file.state = "whole" => learned \subseteq file.known

(***************************************************************************)
(* A fault costs one run and the job still ends, unless it strikes between *)
(* the opening of ft_state.json and the end of its writing.                *)
(***************************************************************************)
TornByFault == at \in {"dead", "caught"} /\ file.state = "torn"

JobEnds == <>(at = "finished" \/ TornByFault)

(***************************************************************************)
(* Training is restarted from the last checkpoint when a fault is          *)
(* detected: no launch fails in setup.                                     *)
(***************************************************************************)
LaunchesStart == at # "failed"

=============================================================================
