-------------------------- MODULE DurableProgress --------------------------
(***************************************************************************)
(* What periodic checkpointing promises a training job, with no files, no  *)
(* ranks and no queues: work advances one iteration at a time, a point of  *)
(* it becomes durable now and then, and a fault throws away only work done *)
(* after the last durable point.  Checkpointing.tla implements this.       *)
(***************************************************************************)
EXTENDS Naturals

CONSTANT TrainIters            \* number of iterations of the job, a natural number

VARIABLES
    progress,                  \* iterations whose effect the model weights hold
    durable                    \* iteration a restarted job is sure to reach

vars == <<progress, durable>>

Init == progress = 0 /\ durable = 0

Advance ==
    /\ progress < TrainIters
    /\ progress' = progress + 1
    /\ UNCHANGED durable

\* The durable point only moves forward, and only to work that was done.
Persist ==
    /\ durable' \in (durable + 1) .. progress
    /\ UNCHANGED progress

\* A fault or a restart: nothing older than the durable point is lost.
FallBack ==
    /\ progress' \in durable .. progress
    /\ UNCHANGED durable

Next == Advance \/ Persist \/ FallBack

Spec == Init /\ [][Next]_vars

=============================================================================
