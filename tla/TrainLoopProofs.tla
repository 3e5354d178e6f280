-------------------------- MODULE TrainLoopProofs --------------------------
(***************************************************************************)
(* Proofs about TrainLoop, for any number of ranks and every combination   *)
(* of intervals, skipped iterations and exit conditions: the loop is well  *)
(* typed, the ranks never wait in different operations (if the straggler   *)
(* detector runs on all of them or on none), and the job ends saved.       *)
(***************************************************************************)
EXTENDS TrainLoop, TLAPS

----------------------------------------------------------------------------
(* The inductive invariant.                                                *)

\* A rank is inside a collective only.
EntryInv == \A r \in inside : at[r] \in Collectives

\* Before the end of an iteration there is an iteration to do.
RoomInv ==
    \A r \in Ranks :
        at[r] \in {"poll", "rampup_save", "forward", "skip"} => step[r] < TrainIters

\* Two ranks that are not at the same operation differ by skipped iterations:
\* the one behind will reach the other's place without meeting anyone.
Meets(r, q) ==
    /\ at[r] # "skip" /\ at[q] # "skip" => at[r] = at[q] /\ step[r] = step[q]
    /\ at[r] = "skip" /\ at[q] = "skip" =>
         \A m \in Steps : step[r] < m /\ m <= step[q] => LoopTop(m) = "skip"
    /\ at[r] = "skip" /\ at[q] # "skip" =>
         /\ step[r] < step[q]
         /\ at[q] = LoopTop(step[q])
         /\ \A m \in Steps : step[r] < m /\ m < step[q] => LoopTop(m) = "skip"

Together ==
    \A r, q \in Ranks :
        at[r] # "killed" /\ at[q] # "killed" =>
            Meets(r, q) /\ saved[r] = saved[q] /\ exit[r] = exit[q]

\* What should_exit and saved_checkpoint stand for at each place of the code.
LocalInv ==
    \A r \in Ranks :
        /\ at[r] \notin {"rerun_save", "drain", "exited", "killed"} => exit[r] = "none"
        /\ at[r] \in {"eval", "signals", "save", "np_save"} => ~saved[r]
        /\ at[r] = "exited" => exit[r] # "none"
        /\ at[r] = "drain" /\ exit[r] = "none" => step[r] = TrainIters
        /\ at[r] = "rerun_save" => exit[r] = "resume"
        /\ at[r] \in {"final_barrier", "final_save", "last_drain", "finished"} =>
             step[r] = TrainIters

\* A checkpoint of the rank's step is on disk or on its way there.
HasCkpt(r) == \E p \in Places : <<p, step[r]>> \in pending \cup stored

CkptInv ==
    \A r \in Ranks :
        /\ at[r] \in {"duration", "straggler"} /\ saved[r] => HasCkpt(r)
        /\ at[r] = "exit_barrier" => HasCkpt(r)
        /\ at[r] = "drain" /\ exit[r] \in {"requested", "resume"} => HasCkpt(r)
        /\ at[r] = "last_drain" /\ SaveInterval # 0 =>
             <<"save", TrainIters>> \in pending \cup stored

LoopInv == TypeOK /\ EntryInv /\ RoomInv

SavedInv == LocalInv /\ CkptInv /\ EndsSaved

----------------------------------------------------------------------------
(* Where the code between two collectives can lead.                        *)

TopStops    == {"drain", "poll", "rampup_save", "skip", "forward"}
DecideStops == TopStops \cup {"exit_barrier", "exit_save", "straggler", "duration"}
SaveStops   == {"save", "np_save"}

\* The head of the loop is left for another iteration, or for the drain.
LEMMA LoopTopLeads ==
    ASSUME NEW s \in Steps
    PROVE  /\ LoopTop(s) \in TopStops
           /\ LoopTop(s) = "drain" => s = TrainIters
           /\ LoopTop(s) # "drain" => s < TrainIters
           /\ AfterPoll(s) \in {"rampup_save", "skip", "forward"}
           /\ AfterRampUp(s) \in {"skip", "forward"}
BY LoopAssumption DEF Steps, TopStops, LoopTop, AfterPoll, AfterRampUp

\* The decisions lead to an exit, the latter saved or still to be saved, or to
\* the head of the loop.
LEMMA DecisionsLead ==
    ASSUME NEW s \in Steps, NEW r, NEW sv \in BOOLEAN
    PROVE  /\ Leaving(sv) \in {"exit_barrier", "exit_save"}
           /\ Leaving(sv) = "exit_barrier" => sv
           /\ AfterDuration(r, s, sv) \in DecideStops
           /\ AfterDuration(r, s, sv) \in TopStops => AfterDuration(r, s, sv) = LoopTop(s)
           /\ AfterDuration(r, s, sv) = "exit_barrier" => sv
           /\ AfterSave(r, s, sv) \in DecideStops
           /\ AfterSave(r, s, sv) \in TopStops => AfterSave(r, s, sv) = LoopTop(s)
           /\ AfterSave(r, s, sv) = "exit_barrier" => sv
<1>1. LoopTop(s) \in TopStops
  BY LoopTopLeads
<1>2. Leaving(sv) \in {"exit_barrier", "exit_save"} /\ (Leaving(sv) = "exit_barrier" => sv)
  BY DEF Leaving
<1>3. /\ AfterDuration(r, s, sv) \in DecideStops
      /\ AfterDuration(r, s, sv) \in TopStops => AfterDuration(r, s, sv) = LoopTop(s)
      /\ AfterDuration(r, s, sv) = "exit_barrier" => sv
  BY <1>1, <1>2 DEF AfterDuration, DecideStops, TopStops
<1>4. AfterSave(r, s, sv) \in {"duration", AfterDuration(r, s, sv)}
  BY DEF AfterSave
<1> QED
  BY <1>2, <1>3, <1>4 DEF DecideStops, TopStops

\* So does the end of an iteration, which has saved nothing yet.
LEMMA IterationLeads ==
    ASSUME NEW s \in Steps, NEW r
    PROVE  /\ AfterSignals(r, s) \in (DecideStops \ {"exit_barrier"}) \cup SaveStops
           /\ AfterSignals(r, s) \in TopStops => AfterSignals(r, s) = LoopTop(s)
           /\ Decide(r, s) \in (DecideStops \ {"exit_barrier"}) \cup SaveStops \cup {"signals"}
           /\ Decide(r, s) \in TopStops => Decide(r, s) = LoopTop(s)
           /\ AfterIteration(r, s) \in
                (DecideStops \ {"exit_barrier"}) \cup SaveStops \cup {"signals", "eval"}
           /\ AfterIteration(r, s) \in TopStops => AfterIteration(r, s) = LoopTop(s)
<1>1. AfterSignals(r, s) \in {"save", "np_save", AfterSave(r, s, FALSE)}
  BY DEF AfterSignals
<1>2. Decide(r, s) \in {"signals", AfterSignals(r, s)}
  BY DEF Decide
<1>3. AfterIteration(r, s) \in {"eval", Decide(r, s)}
  BY DEF AfterIteration
<1>4. /\ AfterSave(r, s, FALSE) \in DecideStops \ {"exit_barrier"}
      /\ AfterSave(r, s, FALSE) \in TopStops => AfterSave(r, s, FALSE) = LoopTop(s)
  BY DecisionsLead
<1> QED
  BY <1>1, <1>2, <1>3, <1>4 DEF DecideStops, TopStops, SaveStops

----------------------------------------------------------------------------
(* Type correctness.                                                       *)

\* What all collectives have in common.
LEMMA InCollective ==
    ASSUME LoopInv, NEW c, AllIn(c)
    PROVE  /\ inside = Ranks
           /\ \A r \in Ranks : at[r] = c
           /\ c \in {"poll", "rampup_save", "forward"} => \A r \in Ranks : step[r] < TrainIters
BY DEF LoopInv, RoomInv, AllIn

\* A save of the ranks' steps is well typed, and it is on disk or pending.
LEMMA SaveNowDoes ==
    ASSUME TypeOK, NEW p \in Places, SaveNow(p)
    PROVE  /\ pending' \subseteq Places \X Steps /\ stored' \subseteq Places \X Steps
           /\ pending \cup stored \subseteq pending' \cup stored'
           /\ \A r \in Ranks : <<p, step[r]>> \in pending' \cup stored'
<1> DEFINE ckpts == {<<p, step[r]>> : r \in Ranks}
<1>1. ckpts \subseteq Places \X Steps
  BY DEF TypeOK
<1>2. \A r \in Ranks : <<p, step[r]>> \in ckpts
  OBVIOUS
<1>3. CASE AsyncSave
  BY <1>1, <1>2, <1>3 DEF SaveNow, TypeOK
<1>4. CASE ~AsyncSave
  BY <1>1, <1>2, <1>4 DEF SaveNow, TypeOK
<1> QED
  BY <1>3, <1>4

LEMMA InitTyped == Init => LoopInv
<1> SUFFICES ASSUME Init PROVE LoopInv
  OBVIOUS
<1>1. start \in Steps /\ \A r \in Ranks : step[r] = start /\ at[r] = LoopTop(start)
  BY DEF Init
<1>2. /\ LoopTop(start) \in TopStops
      /\ LoopTop(start) # "drain" => start < TrainIters
  BY <1>1, LoopTopLeads
<1>3. stored \subseteq Places \X Steps
  BY <1>1 DEF Init, Places
<1>4. TypeOK
  BY <1>1, <1>2, <1>3 DEF Init, TypeOK, TopStops, Collectives
<1>5. EntryInv /\ RoomInv
  BY <1>1, <1>2 DEF Init, EntryInv, RoomInv
<1> QED
  BY <1>4, <1>5 DEF LoopInv

\* The steps of one rank alone.
LEMMA RankStepTyped ==
    ASSUME LoopInv, NEW r \in Ranks, Tick(r) \/ Signal(r) \/ Enter(r) \/ SkipIteration(r)
    PROVE  LoopInv'
<1> USE DEF LoopInv, local, env, disk
<1>1. CASE Tick(r)
  BY <1>1 DEF Tick, TypeOK, EntryInv, RoomInv
<1>2. CASE Signal(r)
  <2>1. TypeOK'
    BY <1>2 DEF Signal, TypeOK, Ended
  <2>2. EntryInv' /\ RoomInv'
    BY <1>2 DEF Signal, TypeOK, EntryInv, RoomInv
  <2> QED
    BY <2>1, <2>2
<1>3. CASE Enter(r)
  <2>1. Vote(r) \in BOOLEAN
    BY DEF Vote
  <2>2. TypeOK'
    BY <1>3, <2>1 DEF Enter, TypeOK
  <2>3. EntryInv' /\ RoomInv'
    BY <1>3 DEF Enter, TypeOK, EntryInv, RoomInv
  <2> QED
    BY <2>2, <2>3
<1>4. CASE SkipIteration(r)
  <2>1. step[r] \in Steps /\ step[r] + 1 \in Steps
    BY <1>4, LoopAssumption DEF SkipIteration, TypeOK, RoomInv, Steps
  <2>2. /\ LoopTop(step[r] + 1) \in TopStops
        /\ LoopTop(step[r] + 1) # "drain" => step[r] + 1 < TrainIters
    BY <2>1, LoopTopLeads
  <2>3. TypeOK'
    BY <1>4, <2>1, <2>2 DEF SkipIteration, TypeOK, TopStops, Collectives
  <2>4. EntryInv' /\ RoomInv'
    BY <1>4, <2>1, <2>2 DEF SkipIteration, TypeOK, EntryInv, RoomInv, Collectives
  <2> QED
    BY <2>3, <2>4
<1> QED
  BY <1>1, <1>2, <1>3, <1>4

(***************************************************************************)
(* A collective that leaves every rank at a place it may be at, with a     *)
(* step that fits the place, keeps the types.                              *)
(***************************************************************************)
LEMMA LeaveTyped ==
    ASSUME LoopInv, UNCHANGED <<env, vote>>, inside' = {},
           at' \in [Ranks -> Collectives \cup {"skip"} \cup Ended],
           step' \in [Ranks -> Steps],
           saved' \in [Ranks -> BOOLEAN],
           exit' \in [Ranks -> {"none", "requested", "resume", "invalid"}],
           pending' \subseteq Places \X Steps, stored' \subseteq Places \X Steps,
           \A r \in Ranks :
               at'[r] \in TopStops => at'[r] = "drain" \/ step'[r] < TrainIters
    PROVE  LoopInv'
BY DEF LoopInv, TypeOK, EntryInv, RoomInv, env, TopStops

LEMMA CollectiveTyped ==
    ASSUME LoopInv, Collective
    PROVE  LoopInv'
<1> USE DEF LeaveFor, local, disk, env
<1>t. TypeOK
  BY DEF LoopInv
<1>s. \A r \in Ranks : step[r] \in Steps /\ saved[r] \in BOOLEAN
  BY <1>t DEF TypeOK
<1>k. TopStops \cup DecideStops \cup SaveStops \cup {"signals", "eval"} \subseteq Collectives \cup {"skip"}
  BY DEF TopStops, DecideStops, SaveStops, Collectives
<1>1. CASE Poll
  <2>1. \A r \in Ranks : /\ AfterPoll(step[r]) \in {"rampup_save", "skip", "forward"}
                         /\ step[r] < TrainIters
    BY <1>1, <1>s, LoopTopLeads, InCollective DEF Poll
  <2>2. pending' \subseteq Places \X Steps /\ stored' \subseteq Places \X Steps
    BY <1>1, <1>t DEF Poll, TypeOK
  <2> QED
    BY <1>1, <1>t, <2>1, <2>2, LeaveTyped DEF Poll, TypeOK, Collectives
<1>2. CASE RampUpSave
  <2>1. \A r \in Ranks : /\ AfterRampUp(step[r]) \in {"skip", "forward"}
                         /\ step[r] < TrainIters
    BY <1>2, <1>s, LoopTopLeads, InCollective DEF RampUpSave
  <2>2. pending' \subseteq Places \X Steps /\ stored' \subseteq Places \X Steps
    BY <1>2, <1>t, SaveNowDoes DEF RampUpSave, Places
  <2> QED
    BY <1>2, <1>t, <2>1, <2>2, LeaveTyped DEF RampUpSave, TypeOK, Collectives
<1>3. CASE Forward
  <2>1. \A r \in Ranks : step[r] + 1 \in Steps
    BY <1>3, <1>s, InCollective, LoopAssumption DEF Forward, Steps
  <2>2. \A r \in Ranks :
          LET x == AfterIteration(r, step[r] + 1) IN
          /\ x \in Collectives \cup {"skip"}
          /\ x \in TopStops => x = "drain" \/ step[r] + 1 < TrainIters
    BY <2>1, <1>k, IterationLeads, LoopTopLeads
  <2> QED
    BY <1>3, <1>t, <2>1, <2>2, LeaveTyped DEF Forward, TypeOK
<1>4. CASE ForwardExits
  <2>1. PICK result \in RerunResults \ {"continue"} :
          /\ exit' = [r \in Ranks |-> result]
          /\ at' = [r \in Ranks |-> IF result = "resume" THEN "rerun_save" ELSE "drain"]
    BY <1>4 DEF ForwardExits
  <2>2. result \in {"resume", "invalid"}
    BY LoopAssumption
  <2> QED
    BY <1>4, <1>t, <2>1, <2>2, LeaveTyped DEF ForwardExits, TypeOK, Collectives, TopStops
<1>5. CASE RerunSave \/ SignalSave \/ ExitSave \/ FinalSave
  <2>1. pending' \subseteq Places \X Steps /\ stored' \subseteq Places \X Steps
    BY <1>5, <1>t, SaveNowDoes DEF RerunSave, SignalSave, ExitSave, FinalSave, Places
  <2>2. \E x \in {"drain", "exit_barrier", "last_drain"} : at' = [r \in Ranks |-> x]
    BY <1>5 DEF RerunSave, SignalSave, ExitSave, FinalSave
  <2>3. inside' = {} /\ UNCHANGED <<env, vote, step, saved, exit>>
    BY <1>5 DEF RerunSave, SignalSave, ExitSave, FinalSave
  <2> QED
    BY <1>t, <2>1, <2>2, <2>3, LeaveTyped DEF TypeOK, Collectives, TopStops
<1>6. CASE Eval
  <2>1. \A r \in Ranks :
          LET x == Decide(r, step[r]) IN
          /\ x \in Collectives \cup {"skip"}
          /\ x \in TopStops => x = "drain" \/ step[r] < TrainIters
    BY <1>s, <1>k, IterationLeads, LoopTopLeads
  <2> QED
    BY <1>6, <1>t, <2>1, LeaveTyped DEF Eval, TypeOK
<1>7. CASE SignalsReceived
  <2>1. \A r \in Ranks :
          LET x == IF Reduced(r) THEN "signal_save" ELSE AfterSignals(r, step[r]) IN
          /\ x \in Collectives \cup {"skip"}
          /\ x \in TopStops => x = "drain" \/ step[r] < TrainIters
    BY <1>s, <1>k, IterationLeads, LoopTopLeads DEF TopStops, Collectives
  <2> QED
    BY <1>7, <1>t, <2>1, LeaveTyped DEF SignalsReceived, TypeOK
<1>8. CASE RegularSave \/ NonPersistentSave
  <2>1. \A r \in Ranks :
          LET x == AfterSave(r, step[r], TRUE) IN
          /\ x \in Collectives \cup {"skip"}
          /\ x \in TopStops => x = "drain" \/ step[r] < TrainIters
    BY <1>s, <1>k, DecisionsLead, LoopTopLeads
  <2>2. pending' \subseteq Places \X Steps /\ stored' \subseteq Places \X Steps
    BY <1>8, <1>t, SaveNowDoes DEF RegularSave, NonPersistentSave, Places
  <2>3. /\ at' = [r \in Ranks |-> AfterSave(r, step[r], TRUE)] /\ saved' = [r \in Ranks |-> TRUE]
        /\ inside' = {} /\ UNCHANGED <<env, vote, step, exit>>
    BY <1>8 DEF RegularSave, NonPersistentSave, LeaveFor
  <2>4. step' \in [Ranks -> Steps] /\ exit' \in [Ranks -> {"none", "requested", "resume", "invalid"}]
    BY <1>t, <2>3 DEF TypeOK
  <2> QED
    BY <2>1, <2>2, <2>3, <2>4, LeaveTyped
<1>9. CASE Duration
  <2>1. \A r \in Ranks :
          LET x == IF Reduced(r) THEN Leaving(saved[r])
                                 ELSE AfterDuration(r, step[r], saved[r]) IN
          /\ x \in Collectives \cup {"skip"}
          /\ x \in TopStops => x = "drain" \/ step[r] < TrainIters
    BY <1>s, <1>k, DecisionsLead, LoopTopLeads DEF TopStops, Collectives
  <2> QED
    BY <1>9, <1>t, <2>1, LeaveTyped DEF Duration, TypeOK
<1>10. CASE Straggler
  <2>1. PICK found \in BOOLEAN :
          at' = [r \in Ranks |-> IF found THEN Leaving(saved[r]) ELSE LoopTop(step[r])]
    BY <1>10 DEF Straggler
  <2>2. \A r \in Ranks :
          LET x == IF found THEN Leaving(saved[r]) ELSE LoopTop(step[r]) IN
          /\ x \in Collectives \cup {"skip"}
          /\ x \in TopStops => x = "drain" \/ step[r] < TrainIters
    BY <1>s, <1>k, DecisionsLead, LoopTopLeads DEF TopStops, Collectives
  <2> QED
    BY <1>10, <1>t, <2>1, <2>2, LeaveTyped DEF Straggler, TypeOK
<1>11. CASE ExitBarrier
  BY <1>11, <1>t, LeaveTyped DEF ExitBarrier, TypeOK, Collectives
<1>12. CASE Drain
  <2>1. pending' \subseteq Places \X Steps /\ stored' \subseteq Places \X Steps
    BY <1>12, <1>t DEF Drain, FinalizeAll, TypeOK
  <2> QED
    BY <1>12, <1>t, <2>1, LeaveTyped DEF Drain, TypeOK, Collectives, Ended, TopStops
<1>13. CASE FinalBarrier
  BY <1>13, <1>t, LeaveTyped DEF FinalBarrier, TypeOK, Collectives, TopStops
<1>14. CASE LastDrain
  <2>1. pending' \subseteq Places \X Steps /\ stored' \subseteq Places \X Steps
    BY <1>14, <1>t DEF LastDrain, FinalizeAll, TypeOK
  <2> QED
    BY <1>14, <1>t, <2>1, LeaveTyped DEF LastDrain, TypeOK, Ended, TopStops
<1> QED
  BY <1>1, <1>2, <1>3, <1>4, <1>5, <1>6, <1>7, <1>8, <1>9, <1>10, <1>11, <1>12, <1>13, <1>14
     DEF Collective

LEMMA StepTyped == LoopInv /\ [Next]_vars => LoopInv'
<1> SUFFICES ASSUME LoopInv, [Next]_vars PROVE LoopInv'
  OBVIOUS
<1>1. CASE UNCHANGED vars
  BY <1>1 DEF vars, local, env, disk, LoopInv, TypeOK, EntryInv, RoomInv
<1>2. CASE JobOver
  BY <1>1, <1>2 DEF JobOver
<1> QED
  BY <1>1, <1>2, RankStepTyped, CollectiveTyped DEF Next

\* TypeOK holds of every reachable state: no rank counts past train_iters.
THEOREM LoopTypeCorrect == Spec => []TypeOK
<1>1. Spec => []LoopInv
  BY InitTyped, StepTyped, PTL DEF Spec
<1>2. LoopInv => TypeOK
  BY DEF LoopInv
<1> QED
  BY <1>1, <1>2, PTL

----------------------------------------------------------------------------
(* The job ends saved.                                                     *)

LEMMA InitSaved == Init => SavedInv
<1> SUFFICES ASSUME Init PROVE SavedInv
  OBVIOUS
<1>1. /\ start \in Steps
      /\ \A r \in Ranks : step[r] = start /\ at[r] = LoopTop(start) /\ exit[r] = "none"
  BY DEF Init
<1>2. LoopTop(start) \in TopStops /\ (LoopTop(start) = "drain" => start = TrainIters)
  BY <1>1, LoopTopLeads
<1> QED
  BY <1>1, <1>2 DEF SavedInv, LocalInv, CkptInv, EndsSaved, TopStops

LEMMA RankStepSaved ==
    ASSUME LoopInv, SavedInv, NEW r \in Ranks,
           Tick(r) \/ Signal(r) \/ Enter(r) \/ SkipIteration(r)
    PROVE  SavedInv'
<1> USE DEF SavedInv, LocalInv, CkptInv, EndsSaved, HasCkpt, local, env, disk
<1>1. CASE Tick(r) \/ Enter(r)
  BY <1>1 DEF Tick, Enter
<1>2. CASE Signal(r)
  <2>1. at' = at \/ at' = [at EXCEPT ![r] = "killed"]
    BY <1>2 DEF Signal
  <2>2. UNCHANGED <<step, saved, exit, pending, stored>>
    BY <1>2 DEF Signal
  <2>3. \A q \in Ranks : at'[q] = at[q] \/ at'[q] = "killed"
    BY <2>1 DEF LoopInv, TypeOK
  <2> QED
    BY <2>2, <2>3
<1>3. CASE SkipIteration(r)
  <2>1. step[r] \in Steps /\ step[r] + 1 \in Steps
    BY <1>3, LoopAssumption DEF SkipIteration, LoopInv, TypeOK, RoomInv, Steps
  <2>2. /\ LoopTop(step[r] + 1) \in TopStops
        /\ LoopTop(step[r] + 1) = "drain" => step[r] + 1 = TrainIters
    BY <2>1, LoopTopLeads
  <2>3. at'[r] = LoopTop(step[r] + 1) /\ step'[r] = step[r] + 1 /\ exit'[r] = "none"
    BY <1>3 DEF SkipIteration, LoopInv, TypeOK
  <2>4. \A q \in Ranks \ {r} : at'[q] = at[q] /\ step'[q] = step[q]
    BY <1>3 DEF SkipIteration, LoopInv, TypeOK
  <2>5. UNCHANGED <<saved, exit, pending, stored>>
    BY <1>3 DEF SkipIteration
  <2> QED
    BY <2>2, <2>3, <2>4, <2>5 DEF TopStops
<1> QED
  BY <1>1, <1>2, <1>3

(***************************************************************************)
(* What the places a collective leads to ask for, rank by rank: nothing at *)
(* the head of the loop but an end of training at the drain, and a         *)
(* checkpoint wherever the code relies on one.                             *)
(***************************************************************************)
LEMMA LeaveSaved ==
    ASSUME LoopInv',
           \A r \in Ranks :
              /\ at'[r] \in Collectives \cup {"skip"}
              /\ at'[r] # "drain" => exit'[r] = IF at'[r] = "rerun_save" THEN "resume" ELSE "none"
              /\ at'[r] \in {"eval", "signals", "save", "np_save"} => ~saved'[r]
              /\ at'[r] = "drain" /\ exit'[r] = "none" => step'[r] = TrainIters
              /\ at'[r] \in {"final_barrier", "final_save", "last_drain"} => step'[r] = TrainIters
              /\ at'[r] \in {"duration", "straggler"} /\ saved'[r] => HasCkpt(r)'
              /\ at'[r] = "exit_barrier" => HasCkpt(r)'
              /\ at'[r] = "drain" /\ exit'[r] \in {"requested", "resume"} => HasCkpt(r)'
              /\ at'[r] = "last_drain" /\ SaveInterval # 0 =>
                   <<"save", TrainIters>> \in pending' \cup stored'
    PROVE  SavedInv'
BY DEF SavedInv, LocalInv, CkptInv, EndsSaved, Collectives

\* Saving now gives every rank its checkpoint.
LEMMA SavedNow ==
    ASSUME TypeOK, NEW p \in Places, SaveNow(p), UNCHANGED step
    PROVE  \A r \in Ranks : HasCkpt(r)'
BY SaveNowDoes DEF HasCkpt

LEMMA CollectiveSaved ==
    ASSUME LoopInv, SavedInv, Collective
    PROVE  SavedInv'
<1> USE DEF LeaveFor, local, disk, env
<1>i. LoopInv'
  BY CollectiveTyped
<1>t. TypeOK
  BY DEF LoopInv
<1>s. \A r \in Ranks : step[r] \in Steps /\ saved[r] \in BOOLEAN
  BY <1>t DEF TypeOK
<1>n. \A r \in Ranks : /\ at[r] \notin {"rerun_save", "drain", "exited", "killed"} => exit[r] = "none"
                       /\ at[r] \in {"eval", "signals", "save", "np_save"} => ~saved[r]
  BY DEF SavedInv, LocalInv
<1>1. CASE Poll
  <2>1. \A r \in Ranks : AfterPoll(step[r]) \in {"rampup_save", "skip", "forward"}
    BY <1>s, LoopTopLeads
  <2>2. \A r \in Ranks : exit[r] = "none"
    BY <1>1, <1>n DEF Poll, AllIn
  <2> QED
    BY <1>1, <1>i, <2>1, <2>2, LeaveSaved DEF Poll, Collectives
<1>2. CASE RampUpSave
  <2>1. \A r \in Ranks : AfterRampUp(step[r]) \in {"skip", "forward"}
    BY <1>s, LoopTopLeads
  <2>2. \A r \in Ranks : exit[r] = "none"
    BY <1>2, <1>n DEF RampUpSave, AllIn
  <2> QED
    BY <1>2, <1>i, <2>1, <2>2, LeaveSaved DEF RampUpSave, Collectives
<1>3. CASE Forward
  <2>1. \A r \in Ranks : step[r] + 1 \in Steps
    BY <1>3, <1>s, InCollective, LoopAssumption DEF Forward, Steps
  <2>2. \A r \in Ranks :
          LET x == AfterIteration(r, step[r] + 1) IN
          /\ x \in (DecideStops \ {"exit_barrier"}) \cup SaveStops \cup {"signals", "eval"}
          /\ x = "drain" => step[r] + 1 = TrainIters
    BY <2>1, IterationLeads, LoopTopLeads DEF TopStops
  <2>3. \A r \in Ranks : exit[r] = "none"
    BY <1>3, <1>n DEF Forward, AllIn
  <2> QED
    BY <1>3, <1>i, <2>2, <2>3, LeaveSaved
    DEF Forward, Collectives, DecideStops, SaveStops, TopStops
<1>4. CASE ForwardExits
  <2>1. PICK result \in RerunResults \ {"continue"} :
          /\ exit' = [r \in Ranks |-> result]
          /\ at' = [r \in Ranks |-> IF result = "resume" THEN "rerun_save" ELSE "drain"]
    BY <1>4 DEF ForwardExits
  <2>2. result \in {"resume", "invalid"}
    BY LoopAssumption
  <2> QED
    BY <1>i, <2>1, <2>2, LeaveSaved DEF Collectives
<1>5. CASE RerunSave
  <2>1. \A r \in Ranks : HasCkpt(r)' /\ exit[r] = "resume"
    BY <1>5, <1>t, SavedNow DEF RerunSave, Places, AllIn, SavedInv, LocalInv
  <2> QED
    BY <1>5, <1>i, <2>1, LeaveSaved DEF RerunSave, Collectives
<1>6. CASE SignalSave \/ ExitSave
  <2>1. \A r \in Ranks : HasCkpt(r)' /\ exit[r] = "none"
    BY <1>6, <1>t, <1>n, SavedNow DEF SignalSave, ExitSave, Places, AllIn
  <2> QED
    BY <1>6, <1>i, <2>1, LeaveSaved DEF SignalSave, ExitSave, Collectives
<1>7. CASE Eval
  <2>1. \A r \in Ranks :
          LET x == Decide(r, step[r]) IN
          /\ x \in (DecideStops \ {"exit_barrier"}) \cup SaveStops \cup {"signals"}
          /\ x = "drain" => step[r] = TrainIters
    BY <1>s, IterationLeads, LoopTopLeads DEF TopStops
  <2>2. \A r \in Ranks : exit[r] = "none" /\ ~saved[r]
    BY <1>7, <1>n DEF Eval, AllIn
  <2> QED
    BY <1>7, <1>i, <2>1, <2>2, LeaveSaved DEF Eval, Collectives, DecideStops, SaveStops, TopStops
<1>8. CASE SignalsReceived
  <2>1. \A r \in Ranks :
          LET x == IF Reduced(r) THEN "signal_save" ELSE AfterSignals(r, step[r]) IN
          /\ x \in (DecideStops \ {"exit_barrier"}) \cup SaveStops \cup {"signal_save"}
          /\ x = "drain" => step[r] = TrainIters
    BY <1>s, IterationLeads, LoopTopLeads DEF TopStops
  <2>2. \A r \in Ranks : exit[r] = "none" /\ ~saved[r]
    BY <1>8, <1>n DEF SignalsReceived, AllIn
  <2> QED
    BY <1>8, <1>i, <2>1, <2>2, LeaveSaved
    DEF SignalsReceived, Collectives, DecideStops, SaveStops, TopStops
<1>9. CASE RegularSave \/ NonPersistentSave
  <2>1. \A r \in Ranks :
          LET x == AfterSave(r, step[r], TRUE) IN
          x \in DecideStops /\ (x = "drain" => step[r] = TrainIters)
    BY <1>s, DecisionsLead, LoopTopLeads DEF TopStops
  <2>2. \A r \in Ranks : HasCkpt(r)' /\ exit[r] = "none"
    BY <1>9, <1>t, <1>n, SavedNow DEF RegularSave, NonPersistentSave, Places, AllIn
  <2>3. /\ at' = [r \in Ranks |-> AfterSave(r, step[r], TRUE)]
        /\ UNCHANGED <<step, exit>>
    BY <1>9 DEF RegularSave, NonPersistentSave
  <2> QED
    BY <1>i, <2>1, <2>2, <2>3, LeaveSaved DEF Collectives, DecideStops, TopStops
<1>10. CASE Duration
  <2>1. \A r \in Ranks :
          LET x == IF Reduced(r) THEN Leaving(saved[r])
                                 ELSE AfterDuration(r, step[r], saved[r]) IN
          /\ x \in DecideStops
          /\ x = "drain" => step[r] = TrainIters
          /\ x = "exit_barrier" => saved[r]
    BY <1>s, DecisionsLead, LoopTopLeads DEF TopStops, DecideStops
  <2>2. \A r \in Ranks : exit[r] = "none" /\ (saved[r] => HasCkpt(r))
    BY <1>10, <1>n DEF Duration, AllIn, SavedInv, CkptInv
  <2>3. \A r \in Ranks : HasCkpt(r)' = HasCkpt(r)
    BY <1>10 DEF Duration, HasCkpt
  <2> QED
    BY <1>10, <1>i, <2>1, <2>2, <2>3, LeaveSaved DEF Duration, Collectives, DecideStops, TopStops
<1>11. CASE Straggler
  <2>1. PICK found \in BOOLEAN :
          at' = [r \in Ranks |-> IF found THEN Leaving(saved[r]) ELSE LoopTop(step[r])]
    BY <1>11 DEF Straggler
  <2>2. \A r \in Ranks :
          LET x == IF found THEN Leaving(saved[r]) ELSE LoopTop(step[r]) IN
          /\ x \in DecideStops
          /\ x = "drain" => step[r] = TrainIters
          /\ x = "exit_barrier" => saved[r]
    BY <1>s, DecisionsLead, LoopTopLeads DEF TopStops, DecideStops
  <2>3. \A r \in Ranks : exit[r] = "none" /\ (saved[r] => HasCkpt(r))
    BY <1>11, <1>n DEF Straggler, AllIn, SavedInv, CkptInv
  <2>4. \A r \in Ranks : HasCkpt(r)' = HasCkpt(r)
    BY <1>11 DEF Straggler, HasCkpt
  <2> QED
    BY <1>11, <1>i, <2>1, <2>2, <2>3, <2>4, LeaveSaved
    DEF Straggler, Collectives, DecideStops, TopStops
<1>12. CASE ExitBarrier
  <2>1. \A r \in Ranks : HasCkpt(r) /\ HasCkpt(r)' = HasCkpt(r)
    BY <1>12 DEF ExitBarrier, AllIn, SavedInv, CkptInv, HasCkpt
  <2> QED
    BY <1>12, <1>i, <2>1, LeaveSaved DEF ExitBarrier, Collectives
<1>13. CASE Drain
  <2>1. pending' = {} /\ stored' = stored \cup pending /\ UNCHANGED <<step, exit>>
    BY <1>13 DEF Drain, FinalizeAll
  <2>2. \A r \in Ranks : at'[r] = IF exit[r] # "none" THEN "exited" ELSE "final_barrier"
    BY <1>13 DEF Drain
  <2>3. \A r \in Ranks :
          /\ exit[r] = "none" => step[r] = TrainIters
          /\ exit[r] \in {"requested", "resume"} => HasCkpt(r)
    BY <1>13 DEF Drain, AllIn, SavedInv, LocalInv, CkptInv
  <2>4. \A r \in Ranks :
          exit[r] \in {"requested", "resume"} => \E p \in Places : <<p, step'[r]>> \in stored'
    BY <2>1, <2>3 DEF HasCkpt
  <2>5. \A r \in Ranks : exit[r] \in {"none", "requested", "resume", "invalid"}
    BY <1>t DEF TypeOK
  <2> QED
    BY <2>1, <2>2, <2>3, <2>4, <2>5 DEF SavedInv, LocalInv, CkptInv, EndsSaved
<1>14. CASE FinalBarrier
  <2>1. \A r \in Ranks : exit[r] = "none" /\ step[r] = TrainIters
    BY <1>14, <1>n DEF FinalBarrier, AllIn, SavedInv, LocalInv
  <2>2. TrainIters # 0
    BY LoopAssumption
  <2> QED
    BY <1>14, <1>i, <2>1, <2>2, LeaveSaved DEF FinalBarrier, Collectives
<1>15. CASE FinalSave
  <2>1. \A r \in Ranks : exit[r] = "none" /\ step[r] = TrainIters
    BY <1>15, <1>n DEF FinalSave, AllIn, SavedInv, LocalInv
  <2>2. \A r \in Ranks : <<"save", TrainIters>> \in pending' \cup stored'
    BY <1>15, <1>t, <2>1, SaveNowDoes DEF FinalSave, Places
  <2> QED
    BY <1>15, <1>i, <2>1, <2>2, LeaveSaved DEF FinalSave, Collectives
<1>16. CASE LastDrain
  <2>1. pending' = {} /\ stored' = stored \cup pending /\ UNCHANGED <<step, exit>>
    BY <1>16 DEF LastDrain, FinalizeAll
  <2>2. \A r \in Ranks : at'[r] = "finished"
    BY <1>16 DEF LastDrain
  <2>3. \A r \in Ranks :
          /\ exit[r] = "none"
          /\ step[r] = TrainIters
          /\ SaveInterval # 0 => <<"save", TrainIters>> \in pending \cup stored
    BY <1>16, <1>n DEF LastDrain, AllIn, SavedInv, LocalInv, CkptInv
  <2> QED
    BY <2>1, <2>2, <2>3 DEF SavedInv, LocalInv, CkptInv, EndsSaved
<1> QED
  BY <1>1, <1>2, <1>3, <1>4, <1>5, <1>6, <1>7, <1>8, <1>9, <1>10, <1>11, <1>12, <1>13,
     <1>14, <1>15, <1>16 DEF Collective

LEMMA StepSaved == LoopInv /\ SavedInv /\ [Next]_vars => SavedInv'
<1> SUFFICES ASSUME LoopInv, SavedInv, [Next]_vars PROVE SavedInv'
  OBVIOUS
<1>1. CASE UNCHANGED vars
  BY <1>1 DEF vars, local, env, disk, SavedInv, LocalInv, CkptInv, EndsSaved, HasCkpt
<1>2. CASE JobOver
  BY <1>1, <1>2 DEF JobOver
<1> QED
  BY <1>1, <1>2, RankStepSaved, CollectiveSaved DEF Next

\* EndsSaved: however the exit conditions, the regular saves, the skipped
\* iterations and the asynchronous finalizations interleave, a job that ends
\* has a finalized checkpoint of the step it stopped at.
THEOREM JobEndsSaved == Spec => []EndsSaved
<1>1. Init => LoopInv /\ SavedInv
  BY InitTyped, InitSaved
<1>2. LoopInv /\ SavedInv /\ [Next]_vars => (LoopInv /\ SavedInv)'
  BY StepTyped, StepSaved
<1>3. LoopInv /\ SavedInv => EndsSaved
  BY DEF SavedInv
<1> QED
  BY <1>1, <1>2, <1>3, PTL DEF Spec

----------------------------------------------------------------------------
(* The ranks stay together.                                                *)

\* The detector runs on every rank or on none: what initialize() of
\* nvrx_straggler.py promises as long as it fails on no rank alone.
UniformDetector == Detecting \in {{}, Ranks}

\* With it, what a rank decides does not depend on which rank it is.
LEMMA SameDecisions ==
    ASSUME UniformDetector, NEW r \in Ranks, NEW q \in Ranks, NEW s, NEW sv
    PROVE  /\ AfterDuration(r, s, sv) = AfterDuration(q, s, sv)
           /\ AfterSave(r, s, sv) = AfterSave(q, s, sv)
           /\ AfterSignals(r, s) = AfterSignals(q, s)
           /\ Decide(r, s) = Decide(q, s)
           /\ AfterIteration(r, s) = AfterIteration(q, s)
           /\ Reduced(r) = Reduced(q)
<1>1. r \in Detecting <=> q \in Detecting
  BY DEF UniformDetector
<1>2. \A t, v : AfterDuration(r, t, v) = AfterDuration(q, t, v)
  BY <1>1 DEF AfterDuration
<1>3. \A t, v : AfterSave(r, t, v) = AfterSave(q, t, v)
  BY <1>2 DEF AfterSave
<1>4. \A t : AfterSignals(r, t) = AfterSignals(q, t)
  BY <1>3 DEF AfterSignals
<1>5. \A t : Decide(r, t) = Decide(q, t)
  BY <1>4 DEF Decide
<1>6. \A t : AfterIteration(r, t) = AfterIteration(q, t)
  BY <1>5 DEF AfterIteration
<1>7. Reduced(r) = Reduced(q)
  BY DEF Reduced
<1> QED
  BY <1>2, <1>3, <1>4, <1>5, <1>6, <1>7

\* The head of the loop leads to the same place as long as the job runs.
LEMMA LoopTopFixed ==
    ASSUME start' = start
    PROVE  \A m : LoopTop(m)' = LoopTop(m)
BY DEF LoopTop, AfterPoll, AfterRampUp

\* Ranks that all do the same are together.
LEMMA UniformTogether ==
    ASSUME \A r \in Ranks : step'[r] \in Steps,
           \A r, q \in Ranks :
               /\ at'[r] = at'[q] /\ step'[r] = step'[q]
               /\ saved'[r] = saved'[q] /\ exit'[r] = exit'[q]
    PROVE  Together'
BY DEF Together, Meets, Steps

LEMMA InitTogether == Init => Together
BY DEF Init, Together, Meets, Steps

LEMMA CollectiveTogether ==
    ASSUME UniformDetector, LoopInv, LoopInv', Together, Collective
    PROVE  Together'
<1> USE DEF LeaveFor
<1>t. \A r \in Ranks : step'[r] \in Steps
  BY DEF LoopInv, TypeOK
<1>0. PICK c \in Collectives : AllIn(c)
  <2>1. \E c \in {"poll", "rampup_save", "forward", "rerun_save", "eval", "signals", "signal_save",
                  "save", "np_save", "duration", "straggler", "exit_save", "exit_barrier",
                  "drain", "final_barrier", "final_save", "last_drain"} : AllIn(c)
    BY DEF Collective, Poll, RampUpSave, Forward, ForwardExits, RerunSave, Eval, SignalsReceived,
           SignalSave, RegularSave, NonPersistentSave, Duration, Straggler, ExitSave, ExitBarrier,
           Drain, FinalBarrier, FinalSave, LastDrain
  <2> QED BY <2>1 DEF Collectives
<1>a. \A r \in Ranks : at[r] \in Collectives
  BY <1>0 DEF AllIn
<1>b. \A r, q \in Ranks : at[r] = at[q]
  BY <1>0 DEF AllIn
<1>c. \A r, q \in Ranks : step[r] = step[q] /\ saved[r] = saved[q] /\ exit[r] = exit[q]
  BY <1>a, <1>b DEF Together, Meets, Collectives
<1> SUFFICES ASSUME NEW r \in Ranks, NEW q \in Ranks
             PROVE  /\ at'[r] = at'[q] /\ step'[r] = step'[q]
                    /\ saved'[r] = saved'[q] /\ exit'[r] = exit'[q]
  BY <1>t, UniformTogether
<1>d. step[r] = step[q] /\ saved[r] = saved[q] /\ exit[r] = exit[q]
  BY <1>c
<1>e. \A s, sv : /\ AfterDuration(r, s, sv) = AfterDuration(q, s, sv)
                /\ AfterSave(r, s, sv) = AfterSave(q, s, sv)
                /\ AfterSignals(r, s) = AfterSignals(q, s)
                /\ Decide(r, s) = Decide(q, s)
                /\ AfterIteration(r, s) = AfterIteration(q, s)
                /\ Reduced(r) = Reduced(q)
  BY SameDecisions
<1>1. CASE Poll \/ RampUpSave \/ RerunSave \/ FinalBarrier \/ FinalSave \/ LastDrain \/ Drain
  BY <1>1, <1>d DEF Poll, RampUpSave, RerunSave, FinalBarrier, FinalSave, LastDrain, Drain, local
<1>2. CASE Forward
  BY <1>2, <1>d, <1>e DEF Forward
<1>3. CASE ForwardExits
  BY <1>3, <1>d DEF ForwardExits
<1>4. CASE Eval \/ SignalsReceived
  BY <1>4, <1>d, <1>e DEF Eval, SignalsReceived, local
<1>5. CASE SignalSave \/ ExitSave \/ ExitBarrier
  BY <1>5, <1>d DEF SignalSave, ExitSave, ExitBarrier, local
<1>6. CASE RegularSave \/ NonPersistentSave
  <2>1. /\ at' = [k \in Ranks |-> AfterSave(k, step[k], TRUE)]
        /\ saved' = [k \in Ranks |-> TRUE]
        /\ UNCHANGED <<step, exit>>
    BY <1>6 DEF RegularSave, NonPersistentSave
  <2>2. AfterSave(r, step[r], TRUE) = AfterSave(q, step[q], TRUE)
    BY <1>d, <1>e
  <2> QED
    BY <1>d, <2>1, <2>2
<1>7. CASE Duration
  BY <1>7, <1>d, <1>e DEF Duration, local
<1>8. CASE Straggler
  BY <1>8, <1>d DEF Straggler, local
<1> QED
  BY <1>1, <1>2, <1>3, <1>4, <1>5, <1>6, <1>7, <1>8 DEF Collective

\* A rank that skips an iteration comes closer to the others or runs ahead of
\* them to a place they will skip to.
LEMMA SkipTogether ==
    ASSUME LoopInv, Together, NEW k \in Ranks, SkipIteration(k)
    PROVE  Together'
<1> DEFINE s == step[k]
<1>1. s \in Nat /\ s < TrainIters /\ s + 1 \in Steps
  BY LoopAssumption DEF SkipIteration, LoopInv, TypeOK, RoomInv, Steps
<1>2. /\ at[k] = "skip" /\ at'[k] = LoopTop(s + 1) /\ step'[k] = s + 1
      /\ LoopTop(s + 1) # "killed"
  BY <1>1, LoopTopLeads DEF SkipIteration, LoopInv, TypeOK, TopStops
<1>3. \A q \in Ranks \ {k} : at'[q] = at[q] /\ step'[q] = step[q] /\ step[q] \in Nat
  BY DEF SkipIteration, LoopInv, TypeOK, Steps
<1>4. saved' = saved /\ exit' = exit
  BY DEF SkipIteration
<1>f. \A m : LoopTop(m)' = LoopTop(m)
  BY LoopTopFixed DEF SkipIteration, env
<1>5. \A q \in Ranks : at[q] # "killed" =>
        saved[q] = saved[k] /\ exit[q] = exit[k] /\ Meets(k, q) /\ Meets(q, k)
  BY <1>2 DEF Together
<1>6. ASSUME NEW q \in Ranks \ {k}, at[q] # "killed"
      PROVE  Meets(k, q)' /\ Meets(q, k)'
  <2> DEFINE t == step[q]
  <2>1. Meets(k, q) /\ Meets(q, k) /\ at'[q] = at[q] /\ step'[q] = t /\ t \in Nat /\ t \in Steps
    BY <1>3, <1>5, <1>6 DEF LoopInv, TypeOK
  <2>2. CASE at[q] = "skip"
    <3>1. /\ \A m \in Steps : s < m /\ m <= t => LoopTop(m) = "skip"
          /\ \A m \in Steps : t < m /\ m <= s => LoopTop(m) = "skip"
      BY <1>2, <2>1, <2>2 DEF Meets
    <3>2. \A m \in Steps : t < m /\ m < s + 1 => LoopTop(m) = "skip"
      BY <1>1, <2>1, <3>1 DEF Steps
    <3>3. CASE LoopTop(s + 1) = "skip"
      <4>1. \A m \in Steps : s + 1 < m /\ m <= t => LoopTop(m) = "skip"
        BY <1>1, <2>1, <3>1 DEF Steps
      <4>2. \A m \in Steps : t < m /\ m <= s + 1 => LoopTop(m) = "skip"
        BY <1>1, <2>1, <3>2, <3>3 DEF Steps
      <4> QED
        BY <1>2, <2>1, <2>2, <3>3, <4>1, <4>2, <1>f DEF Meets
    <3>4. CASE LoopTop(s + 1) # "skip"
      <4>1. t < s + 1
        BY <1>1, <2>1, <3>1, <3>4 DEF Steps
      <4> QED
        BY <1>2, <2>1, <2>2, <3>2, <3>4, <4>1, <1>f DEF Meets
    <3> QED
      BY <3>3, <3>4
  <2>3. CASE at[q] # "skip"
    <3>1. /\ s < t /\ at[q] = LoopTop(t)
          /\ \A m \in Steps : s < m /\ m < t => LoopTop(m) = "skip"
      BY <1>2, <2>1, <2>3 DEF Meets
    <3>2. CASE s + 1 = t
      BY <1>2, <2>1, <2>3, <3>1, <3>2, <1>f DEF Meets
    <3>3. CASE s + 1 < t
      <4>1. LoopTop(s + 1) = "skip"
        BY <1>1, <3>1, <3>3
      <4>2. \A m \in Steps : s + 1 < m /\ m < t => LoopTop(m) = "skip"
        BY <1>1, <2>1, <3>1 DEF Steps
      <4> QED
        BY <1>2, <2>1, <2>3, <3>1, <3>3, <4>1, <4>2, <1>f DEF Meets
    <3> QED
      BY <1>1, <2>1, <3>1, <3>2, <3>3
  <2> QED
    BY <2>2, <2>3
<1>7. Meets(k, k)'
  BY <1>1, <1>2, <1>f DEF Meets, Steps
<1>8. ASSUME NEW r \in Ranks, NEW q \in Ranks, at'[r] # "killed", at'[q] # "killed"
      PROVE  Meets(r, q)' /\ saved'[r] = saved'[q] /\ exit'[r] = exit'[q]
  <2>1. at[r] # "killed" /\ at[q] # "killed"
    BY <1>2, <1>3, <1>8
  <2>2. Meets(r, q) /\ saved[r] = saved[q] /\ exit[r] = exit[q]
    BY <2>1 DEF Together
  <2>3. CASE r # k /\ q # k
    <3>1. at'[r] = at[r] /\ at'[q] = at[q] /\ step'[r] = step[r] /\ step'[q] = step[q]
      BY <1>3, <2>3
    <3>2. Meets(r, q)'
      BY <1>f, <2>2, <3>1 DEF Meets
    <3> QED
      BY <1>4, <2>2, <3>2
  <2>4. CASE r = k \/ q = k
    <3>1. Meets(r, q)'
      BY <1>6, <1>7, <2>1, <2>4
    <3> QED
      BY <1>4, <2>2, <3>1
  <2> QED
    BY <2>3, <2>4
<1> QED
  BY <1>8 DEF Together

LEMMA StepTogether ==
    ASSUME UniformDetector
    PROVE  LoopInv /\ Together /\ [Next]_vars => Together'
<1> SUFFICES ASSUME LoopInv, Together, [Next]_vars PROVE Together'
  OBVIOUS
<1>1. CASE UNCHANGED vars \/ JobOver
  BY <1>1, LoopTopFixed DEF vars, local, env, JobOver, Together, Meets
<1>2. ASSUME NEW r \in Ranks, Tick(r) \/ Enter(r)
      PROVE  Together'
  BY <1>2, LoopTopFixed DEF Tick, Enter, local, env, Together, Meets
<1>3. ASSUME NEW r \in Ranks, Signal(r)
      PROVE  Together'
  <2>1. at' = at \/ at' = [at EXCEPT ![r] = "killed"]
    BY <1>3 DEF Signal
  <2>2. \A q \in Ranks : at'[q] = at[q] \/ at'[q] = "killed"
    BY <2>1 DEF LoopInv, TypeOK
  <2>3. UNCHANGED <<step, saved, exit>>
    BY <1>3 DEF Signal, local
  <2>4. \A m : LoopTop(m)' = LoopTop(m)
    BY <1>3, LoopTopFixed DEF Signal
  <2> QED
    BY <2>2, <2>3, <2>4 DEF Together, Meets
<1>4. ASSUME NEW r \in Ranks, SkipIteration(r)
      PROVE  Together'
  BY <1>4, SkipTogether
<1>5. CASE Collective
  BY <1>5, CollectiveTyped, CollectiveTogether
<1> QED
  BY <1>1, <1>2, <1>3, <1>4, <1>5 DEF Next

(***************************************************************************)
(* InStep: whatever their clocks show, whichever of them are signalled and *)
(* however far skipped iterations let one run ahead, ranks that wait for   *)
(* each other wait in the same operation of the same iteration.            *)
(***************************************************************************)
THEOREM RanksNeverSplit ==
    ASSUME UniformDetector
    PROVE  Spec => []InStep
<1>1. Init => LoopInv /\ Together
  BY InitTyped, InitTogether
<1>2. LoopInv /\ Together /\ [Next]_vars => (LoopInv /\ Together)'
  BY StepTyped, StepTogether
<1>3. LoopInv /\ Together => InStep
  BY DEF LoopInv, TypeOK, EntryInv, Together, Meets, InStep, Collectives
<1> QED
  BY <1>1, <1>2, <1>3, PTL DEF Spec

=============================================================================
