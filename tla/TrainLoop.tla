----------------------------- MODULE TrainLoop -----------------------------
(***************************************************************************)
(* The training loop of every rank: train and checkpoint_and_decide_exit   *)
(* of training/train.py, up to the end of _pretrain in pretrain.py.        *)
(*                                                                         *)
(* A rank runs from one collective operation to the next.  It enters with  *)
(* what it knows itself (its clock, a signal it got); the operation ends   *)
(* once all ranks are inside, and each goes on by its own variables and    *)
(* by the reduced value.  Ranks that enter different operations, or the    *)
(* same one for different iterations, hang.                                *)
(***************************************************************************)
EXTENDS Integers, FiniteSets

CONSTANTS
    Ranks,
    TrainIters,             \* cfg.train.train_iters
    SaveInterval,           \* cfg.checkpoint.save_interval (save is set); 0: neither
                            \* interval saves nor one after the loop
    NonPersistentInterval,  \* non_persistent_save_interval; 0: none
    AsyncSave,              \* cfg.checkpoint.async_save
    EvalInterval,           \* cfg.train.eval_interval; 0: none
    ExitInterval,           \* cfg.train.exit_interval; 0: none
    ExitOnDuration,         \* TRUE iff cfg.train.exit_duration_in_mins is set
    ExitOnSignal,           \* cfg.train.exit_signal_handler
    HandlerInstalled,       \* TRUE iff DistributedSignalHandler was entered; training/
                            \* only constructs it, a caller who has the state can enter it
    MaxSignals,             \* bound: how many ranks are sent the exit signal
    Detecting,              \* ranks whose straggler detector runs; {}: not configured
    Skip,                   \* cfg.train.iterations_to_skip
    RampUp,                 \* steps at which the number of microbatches goes up
    RerunResults            \* external: what the rerun state machine may ask for

ASSUME LoopAssumption ==
    /\ TrainIters \in Nat \ {0}
    /\ {SaveInterval, NonPersistentInterval, EvalInterval, ExitInterval} \subseteq Nat
    /\ {AsyncSave, ExitOnDuration, ExitOnSignal, HandlerInstalled} \subseteq BOOLEAN
    /\ MaxSignals \in Nat
    /\ Detecting \subseteq Ranks
    /\ Skip \subseteq Nat /\ RampUp \subseteq Nat
    /\ RerunResults \subseteq {"continue", "resume", "invalid"}

Steps  == 0 .. TrainIters
Places == {"save", "non_persistent"}

Collectives == {"poll", "rampup_save", "forward", "rerun_save", "eval", "signals", "signal_save",
                "save", "np_save", "duration", "exit_save", "straggler", "exit_barrier", "drain",
                "final_barrier", "final_save", "last_drain"}
Ended       == {"exited", "finished", "killed"}

VARIABLES
    at,             \* per rank, the collective it is in or on its way to
    inside,         \* ranks that entered it
    vote,           \* per rank, the value it entered with
    step,           \* per rank, train_state.step
    saved,          \* per rank, saved_checkpoint of checkpoint_and_decide_exit
    exit,           \* per rank, should_exit, with the reason its exit code gives
    late,           \* ranks whose clock is past exit_duration_in_mins
    signalled,      \* ranks that were sent the exit signal
    received,       \* ranks whose handler has noted it
    start,          \* the step the job was launched at, the same on every rank
    pending,        \* asynchronous saves not finalized
    stored          \* checkpoints on disk, by place and step

local == <<step, saved, exit>>
env   == <<late, signalled, received, start>>
disk  == <<pending, stored>>
vars  == <<at, inside, vote, local, env, disk>>

TypeOK ==
    /\ at \in [Ranks -> Collectives \cup {"skip"} \cup Ended]
    /\ inside \subseteq Ranks
    /\ vote \in [Ranks -> BOOLEAN]
    /\ step \in [Ranks -> Steps]
    /\ saved \in [Ranks -> BOOLEAN]
    /\ exit \in [Ranks -> {"none", "requested", "resume", "invalid"}]
    /\ late \subseteq Ranks /\ signalled \subseteq Ranks /\ received \subseteq signalled
    /\ start \in Steps
    /\ pending \subseteq Places \X Steps
    /\ stored \subseteq Places \X Steps

----------------------------------------------------------------------------
(* Where a rank goes next, by what it knows.                               *)

Due(s, interval) == interval # 0 /\ s % interval = 0

AfterRampUp(s) == IF s \in Skip THEN "skip" ELSE "forward"
AfterPoll(s)   == IF s \in RampUp /\ s # start THEN "rampup_save" ELSE AfterRampUp(s)

\* Mutant of LoopTop: one iteration too many.
LoopTopOffByOne(s) ==
    IF s > TrainIters THEN "drain" ELSE IF AsyncSave THEN "poll" ELSE AfterPoll(s)

\* The head of the while loop, up to its first collective.
LoopTop(s) ==
    IF s >= TrainIters THEN "drain" ELSE IF AsyncSave THEN "poll" ELSE AfterPoll(s)

\* An exit condition holds: save first, unless this call has saved already.
Leaving(sv) == IF sv THEN "exit_barrier" ELSE "exit_save"

AfterDuration(r, s, sv) ==
    IF Due(s, ExitInterval) THEN Leaving(sv)
    ELSE IF r \in Detecting THEN "straggler"
    ELSE LoopTop(s)

AfterSave(r, s, sv) == IF ExitOnDuration THEN "duration" ELSE AfterDuration(r, s, sv)

AfterSignals(r, s) ==
    IF Due(s, SaveInterval) THEN "save"
    ELSE IF Due(s, NonPersistentInterval) THEN "np_save"
    ELSE AfterSave(r, s, FALSE)

\* checkpoint_and_decide_exit, up to its first collective.
Decide(r, s) == IF ExitOnSignal THEN "signals" ELSE AfterSignals(r, s)

AfterIteration(r, s) == IF Due(s, EvalInterval) THEN "eval" ELSE Decide(r, s)

Init ==
    /\ start \in Steps
    /\ step = [r \in Ranks |-> start]
    /\ at = [r \in Ranks |-> LoopTop(start)]
    /\ inside = {} /\ vote = [r \in Ranks |-> FALSE]
    /\ saved = [r \in Ranks |-> FALSE] /\ exit = [r \in Ranks |-> "none"]
    /\ late = {} /\ signalled = {} /\ received = {}
    /\ pending = {}
    /\ stored = IF start = 0 THEN {} ELSE {<<"save", start>>}

----------------------------------------------------------------------------
(* The environment of a rank.                                              *)

\* train_time > exit_duration_in_mins holds from now on, by this rank's clock.
Tick(r) ==
    /\ ExitOnDuration
    /\ at[r] \notin Ended
    /\ r \notin late
    /\ late' = late \cup {r}
    /\ UNCHANGED <<at, inside, vote, local, signalled, received, start, disk>>

\* The exit signal: noted by the handler, or, without one, the end of the process.
Signal(r) ==
    /\ at[r] \notin Ended
    /\ r \notin signalled
    /\ Cardinality(signalled) < MaxSignals
    /\ signalled' = signalled \cup {r}
    /\ IF HandlerInstalled
       THEN received' = received \cup {r} /\ UNCHANGED <<at, inside>>
       ELSE at' = [at EXCEPT ![r] = "killed"] /\ inside' = inside \ {r} /\ UNCHANGED received
    /\ UNCHANGED <<vote, local, late, start, disk>>

----------------------------------------------------------------------------
(* Collectives.                                                            *)

\* What rank r contributes to the reduction it enters.
Vote(r) ==
    \/ ExitOnDuration /\ at[r] \in {"eval", "duration"} /\ r \in late
    \/ at[r] = "signals" /\ r \in received

Enter(r) ==
    /\ at[r] \in Collectives
    /\ r \notin inside
    /\ inside' = inside \cup {r}
    /\ vote' = [vote EXCEPT ![r] = Vote(r)]
    /\ UNCHANGED <<at, local, env, disk>>

AllIn(c) == inside = Ranks /\ \A r \in Ranks : at[r] = c

\* Mutant of Reduced: the rank's own value, without the all-reduce.
OwnValue(r) == vote[r]

\* The all_reduce with MAX, or any() of an all_gather, as rank r sees it.
Reduced(r) == \E q \in Ranks : vote[q]

\* All ranks leave the collective, rank r for f[r].
LeaveFor(f) == at' = f /\ inside' = {} /\ UNCHANGED env

\* A save of every rank's own step; asynchronous ones wait to be finalized.
SaveNow(p) ==
    LET ckpts == {<<p, step[r]>> : r \in Ranks} IN
    IF AsyncSave THEN pending' = pending \cup ckpts /\ UNCHANGED stored
                 ELSE stored' = stored \cup ckpts /\ UNCHANGED pending

\* maybe_finalize_async_save(blocking=True)
FinalizeAll == pending' = {} /\ stored' = stored \cup pending

----------------------------------------------------------------------------
(* One iteration.                                                          *)

\* maybe_finalize_async_save(blocking=False): the oldest saves, if finished.
Poll ==
    /\ AllIn("poll")
    /\ \E n \in 0 .. TrainIters :
         LET finished == {c \in pending : c[2] <= n} IN
         pending' = pending \ finished /\ stored' = stored \cup finished
    /\ LeaveFor([r \in Ranks |-> AfterPoll(step[r])])
    /\ UNCHANGED <<vote, local>>

RampUpSave ==
    /\ AllIn("rampup_save")
    /\ SaveNow("save")
    /\ LeaveFor([r \in Ranks |-> AfterRampUp(step[r])])
    /\ UNCHANGED <<vote, local>>

\* Mutant of SkipIteration: the step counter left alone.
SkipWithoutCounting(r) ==
    /\ at[r] = "skip"
    /\ at' = [at EXCEPT ![r] = LoopTop(step[r])]
    /\ UNCHANGED <<inside, vote, local, env, disk>>

\* _should_skip_and_handle_iteration and `continue`: local to the rank.
SkipIteration(r) ==
    /\ at[r] = "skip"
    /\ step' = [step EXCEPT ![r] = @ + 1]
    /\ at' = [at EXCEPT ![r] = LoopTop(step[r] + 1)]
    /\ UNCHANGED <<inside, vote, saved, exit, env, disk>>

\* train_step runs to its end; the rerun state machine has nothing to ask.
Forward ==
    /\ "continue" \in RerunResults
    /\ AllIn("forward")
    /\ step' = [r \in Ranks |-> step[r] + 1]
    /\ saved' = [r \in Ranks |-> FALSE]
    /\ LeaveFor([r \in Ranks |-> AfterIteration(r, step[r] + 1)])
    /\ UNCHANGED <<vote, exit, disk>>

\* train_step returns early: the job is to exit, with or without a checkpoint.
ForwardExits ==
    /\ AllIn("forward")
    /\ \E result \in RerunResults \ {"continue"} :
         /\ exit' = [r \in Ranks |-> result]
         /\ LeaveFor([r \in Ranks |-> IF result = "resume" THEN "rerun_save" ELSE "drain"])
    /\ UNCHANGED <<vote, step, saved, disk>>

RerunSave ==
    /\ AllIn("rerun_save")
    /\ SaveNow("save")
    /\ LeaveFor([r \in Ranks |-> "drain"])
    /\ UNCHANGED <<vote, local>>

\* Mutant of Eval: an evaluation that ran out of time ends the decisions too.
EvalEndsIteration ==
    /\ AllIn("eval")
    /\ LeaveFor([r \in Ranks |-> IF Reduced(r) THEN LoopTop(step[r]) ELSE Decide(r, step[r])])
    /\ UNCHANGED <<vote, local, disk>>

\* evaluate: its iterations stop once the reduced clock is past the limit; the
\* loop goes on to its decisions either way.
Eval ==
    /\ AllIn("eval")
    /\ LeaveFor([r \in Ranks |-> Decide(r, step[r])])
    /\ UNCHANGED <<vote, local, disk>>

----------------------------------------------------------------------------
(* checkpoint_and_decide_exit.                                             *)

SignalsReceived ==
    /\ AllIn("signals")
    /\ LeaveFor([r \in Ranks |->
           IF Reduced(r) THEN "signal_save" ELSE AfterSignals(r, step[r])])
    /\ UNCHANGED <<vote, local, disk>>

SignalSave ==
    /\ AllIn("signal_save")
    /\ SaveNow("save")
    /\ LeaveFor([r \in Ranks |-> "exit_barrier"])
    /\ UNCHANGED <<vote, local>>

RegularSave ==
    /\ AllIn("save")
    /\ SaveNow("save")
    /\ saved' = [r \in Ranks |-> TRUE]
    /\ LeaveFor([r \in Ranks |-> AfterSave(r, step[r], TRUE)])
    /\ UNCHANGED <<vote, step, exit>>

NonPersistentSave ==
    /\ AllIn("np_save")
    /\ SaveNow("non_persistent")
    /\ saved' = [r \in Ranks |-> TRUE]
    /\ LeaveFor([r \in Ranks |-> AfterSave(r, step[r], TRUE)])
    /\ UNCHANGED <<vote, step, exit>>

Duration ==
    /\ AllIn("duration")
    /\ LeaveFor([r \in Ranks |->
           IF Reduced(r) THEN Leaving(saved[r]) ELSE AfterDuration(r, step[r], saved[r])])
    /\ UNCHANGED <<vote, local, disk>>

\* external: a report is due on all ranks together; rank 0's verdict is broadcast.
Straggler ==
    /\ AllIn("straggler")
    /\ \E found \in BOOLEAN :
         LeaveFor([r \in Ranks |-> IF found THEN Leaving(saved[r]) ELSE LoopTop(step[r])])
    /\ UNCHANGED <<vote, local, disk>>

ExitSave ==
    /\ AllIn("exit_save")
    /\ SaveNow("save")
    /\ LeaveFor([r \in Ranks |-> "exit_barrier"])
    /\ UNCHANGED <<vote, local>>

\* barrier_and_log("exiting program ..."), and should_exit is returned.
ExitBarrier ==
    /\ AllIn("exit_barrier")
    /\ exit' = [r \in Ranks |-> "requested"]
    /\ LeaveFor([r \in Ranks |-> "drain"])
    /\ UNCHANGED <<vote, step, saved, disk>>

----------------------------------------------------------------------------
(* After the loop.                                                         *)

\* Mutant of Drain: the blocking finalization left out.
DrainNothing ==
    /\ AllIn("drain")
    /\ LeaveFor([r \in Ranks |-> IF exit[r] # "none" THEN "exited" ELSE "final_barrier"])
    /\ UNCHANGED <<vote, local, disk>>

\* The saves under way are waited for; then sys.exit, or back to _pretrain.
Drain ==
    /\ AllIn("drain")
    /\ FinalizeAll
    /\ LeaveFor([r \in Ranks |-> IF exit[r] # "none" THEN "exited" ELSE "final_barrier"])
    /\ UNCHANGED <<vote, local>>

FinalBarrier ==
    /\ AllIn("final_barrier")
    /\ LeaveFor([r \in Ranks |->
           IF step[r] # 0 /\ SaveInterval # 0 THEN "final_save" ELSE "last_drain"])
    /\ UNCHANGED <<vote, local, disk>>

FinalSave ==
    /\ AllIn("final_save")
    /\ SaveNow("save")
    /\ LeaveFor([r \in Ranks |-> "last_drain"])
    /\ UNCHANGED <<vote, local>>

\* _finish_train
LastDrain ==
    /\ AllIn("last_drain")
    /\ FinalizeAll
    /\ LeaveFor([r \in Ranks |-> "finished"])
    /\ UNCHANGED <<vote, local>>

\* The job is over; a killed rank makes the launcher end the others.
JobOver ==
    /\ (\A r \in Ranks : at[r] \in Ended) \/ (\E r \in Ranks : at[r] = "killed")
    /\ UNCHANGED vars

----------------------------------------------------------------------------
Collective ==
    \/ Poll \/ RampUpSave \/ Forward \/ ForwardExits \/ RerunSave \/ Eval
    \/ SignalsReceived \/ SignalSave \/ RegularSave \/ NonPersistentSave
    \/ Duration \/ Straggler \/ ExitSave \/ ExitBarrier
    \/ Drain \/ FinalBarrier \/ FinalSave \/ LastDrain

Next ==
    \/ \E r \in Ranks : Tick(r) \/ Signal(r) \/ Enter(r) \/ SkipIteration(r)
    \/ Collective
    \/ JobOver

Spec == Init /\ [][Next]_vars

\* Every rank keeps running, and an operation all ranks have entered ends.
FairSpec ==
    /\ Spec
    /\ \A r \in Ranks : WF_vars(Enter(r)) /\ WF_vars(SkipIteration(r))
    /\ WF_vars(Collective)

----------------------------------------------------------------------------
(* Properties.                                                             *)

(***************************************************************************)
(* Ranks that wait for each other wait in the same operation of the same   *)
(* iteration: the decisions of the loop (clocks that differ, signals that  *)
(* only some ranks get, skipped iterations) never split them.              *)
(***************************************************************************)
InStep ==
    \A r, q \in inside : at[r] = at[q] /\ step[r] = step[q]

(***************************************************************************)
(* A job that ends, other than by a failed result validation, leaves a     *)
(* finalized checkpoint of the very step it stopped at, whichever of the   *)
(* exit conditions and saves came first; one that finishes has trained     *)
(* every iteration and saved it persistently, if it saves at all.          *)
(***************************************************************************)
EndsSaved ==
    \A r \in Ranks :
        /\ at[r] = "exited" =>
             /\ pending = {}
             /\ exit[r] # "invalid" => \E p \in Places : <<p, step[r]>> \in stored
        /\ at[r] = "finished" =>
             /\ pending = {}
             /\ step[r] = TrainIters
             /\ SaveInterval # 0 => <<"save", TrainIters>> \in stored

(***************************************************************************)
(* Once one rank enters the clock of an evaluation or of the duration      *)
(* check past the limit, all ranks exit at that step, with a checkpoint.   *)
(***************************************************************************)
TimeLimitHonoured ==
    \A s \in Steps :
        (\E r \in inside : vote[r] /\ at[r] \in {"eval", "duration"} /\ step[r] = s)
            ~> (\A q \in Ranks : at[q] = "exited" /\ step[q] = s
                                 /\ \E p \in Places : <<p, s>> \in stored)

(***************************************************************************)
(* Every rank comes to the end: no combination of exit conditions, skipped *)
(* iterations and pending saves leaves a rank waiting or looping.          *)
(***************************************************************************)
JobEnds == <>(\A r \in Ranks : at[r] \in {"exited", "finished"})

(***************************************************************************)
(* A rank that is sent the exit signal after it has trained an iteration   *)
(* ends with a checkpoint of its step: "saves a checkpoint before exiting  *)
(* when the signal is received" (docs/training/resiliency.md).             *)
(***************************************************************************)
SignalSavesBeforeExit ==
    \A r \in signalled :
        at[r] \in Ended /\ exit[r] # "invalid" /\ step[r] > start =>
            \E p \in Places : <<p, step[r]>> \in stored

=============================================================================
