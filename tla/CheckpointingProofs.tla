------------------------ MODULE CheckpointingProofs ------------------------
(***************************************************************************)
(* Proofs about Checkpointing: type correctness for every value of the     *)
(* constants, and, for a job that keeps all its checkpoints and saves no   *)
(* step twice, that the persistent pointer always names a checkpoint that  *)
(* can be restored, never moves back, and that no relaunch resumes behind  *)
(* it.  Then, for jobs that trim: a pointer moves only to a whole          *)
(* checkpoint, in either place and however old checkpoints are trimmed;    *)
(* and synchronous saves that trim lose nothing that was published, as     *)
(* long as the job was killed less often than checkpoints are kept.        *)
(***************************************************************************)
EXTENDS Checkpointing, FiniteSetTheorems, SequenceTheorems, TLAPS

----------------------------------------------------------------------------
(* Type correctness.                                                       *)

\* Between a save's start and its end there is a request to work on.
QueueHeld == phase \in Publishing \cup {"save", "trim"} => queue # <<>>

TypeInv == TypeOK /\ QueueHeld

\* A slice of a set of directories is a set of directories.
LEMMA AllButLastIsSubset ==
    ASSUME NEW S, NEW k, NEW R \in AllButLast(S, k)
    PROVE  R \subseteq S
BY DEF AllButLast

\* Removing directories keeps the types of the files.
LEMMA RemoveTyped ==
    ASSUME TypeOK, NEW S, Remove(S)
    PROVE  /\ iterDirs' \subseteq Dirs
           /\ shards' \in [Dirs -> SUBSET Ranks]
           /\ trainState' \in [Dirs -> Steps \cup {NoStep}]
           /\ runConfig' \subseteq Dirs
BY DEF TypeOK, Remove

\* The requests of a well-typed queue, and their fields.
LEMMA QueueTyped ==
    ASSUME queue \in Seq(Requests)
    PROVE  /\ Len(queue) \in Nat
           /\ DOMAIN queue = 1 .. Len(queue)
           /\ \A i \in DOMAIN queue :
                /\ queue[i] \in Requests
                /\ queue[i].dir \in Dirs
                /\ queue[i].snapshot \in Steps
                /\ queue[i].todo \in SUBSET Ranks
                /\ queue[i].busy \in SUBSET Ranks
           /\ queue # <<>> =>
                /\ Head(queue) = queue[1]
                /\ 1 \in DOMAIN queue
                /\ Tail(queue) \in Seq(Requests)
                /\ Len(Tail(queue)) = Len(queue) - 1
                /\ \A i \in 1 .. Len(Tail(queue)) : Tail(queue)[i] = queue[i + 1]
<1>1. Len(queue) \in Nat /\ DOMAIN queue = 1 .. Len(queue)
  BY LenProperties
<1>2. ASSUME NEW i \in DOMAIN queue PROVE queue[i] \in Requests
  <2>1. i \in 1 .. Len(queue)
    BY <1>1
  <2> QED
    BY <2>1, ElementOfSeq
<1>3. \A x \in Requests :
        /\ x.dir \in Dirs /\ x.snapshot \in Steps
        /\ x.todo \in SUBSET Ranks /\ x.busy \in SUBSET Ranks
  BY DEF Requests
<1>4. ASSUME queue # <<>>
      PROVE  /\ Head(queue) = queue[1]
             /\ 1 \in DOMAIN queue
             /\ Tail(queue) \in Seq(Requests)
             /\ Len(Tail(queue)) = Len(queue) - 1
             /\ \A i \in 1 .. Len(Tail(queue)) : Tail(queue)[i] = queue[i + 1]
  <2>1. Len(queue) \in Nat \ {0}
    BY <1>4, EmptySeq
  <2>2. 1 \in DOMAIN queue
    BY <1>1, <2>1
  <2>3. Head(queue) = queue[1]
    OBVIOUS
  <2> QED
    BY <1>4, <2>2, <2>3, HeadTailProperties
<1> QED
  BY <1>1, <1>2, <1>3, <1>4

(***************************************************************************)
(* What a rank that begins or ends a shard does to the queue: one request  *)
(* changes its sets of ranks.                                              *)
(***************************************************************************)
LEMMA BeginShardStep ==
    ASSUME TypeOK, NEW r \in Ranks, BeginShard(r)
    PROVE  \E i \in DOMAIN queue :
             /\ r \in queue[i].todo
             /\ queue' \in Seq(Requests) /\ Len(queue') = Len(queue)
             /\ DOMAIN queue' = DOMAIN queue
             /\ \A j \in DOMAIN queue :
                  /\ queue'[j].dir = queue[j].dir
                  /\ queue'[j].snapshot = queue[j].snapshot
                  /\ queue'[j].todo = IF j = i THEN queue[i].todo \ {r} ELSE queue[j].todo
                  /\ queue'[j].busy = IF j = i THEN queue[i].busy \cup {r} ELSE queue[j].busy
             /\ shards' = [shards EXCEPT ![queue[i].dir] = @ \ {r}]
             /\ UNCHANGED <<phase, step, doomed, iterDirs, trainState, runConfig, latest, tracker, crashes>>
<1>1. PICK i \in DOMAIN queue :
        /\ r \in queue[i].todo
        /\ queue' = [queue EXCEPT ![i] = Begun(@, r)]
        /\ shards' = [shards EXCEPT ![queue[i].dir] = @ \ {r}]
        /\ UNCHANGED <<phase, step, doomed, iterDirs, trainState, runConfig, latest, tracker, crashes>>
  BY DEF BeginShard
<1>2. queue \in Seq(Requests)
  BY DEF TypeOK
<1> DEFINE e == Begun(queue[i], r)
<1>3. queue[i] \in Requests /\ DOMAIN queue = 1 .. Len(queue)
  BY <1>2, QueueTyped
<1>4. /\ e \in Requests
      /\ e.dir = queue[i].dir /\ e.snapshot = queue[i].snapshot
      /\ e.todo = queue[i].todo \ {r} /\ e.busy = queue[i].busy \cup {r}
  BY <1>3 DEF Requests, Begun
<1>5. queue' = [queue EXCEPT ![i] = e]
  BY <1>1
<1> HIDE DEF e
<1>6. /\ [queue EXCEPT ![i] = e] \in Seq(Requests)
      /\ Len([queue EXCEPT ![i] = e]) = Len(queue)
      /\ \A j \in 1 .. Len(queue) : [queue EXCEPT ![i] = e][j] = IF j = i THEN e ELSE queue[j]
  BY <1>2, <1>3, <1>4, ExceptSeq
<1>7. DOMAIN queue' = DOMAIN queue
  BY <1>5
<1> QED
  BY <1>1, <1>3, <1>4, <1>5, <1>6, <1>7

LEMMA EndShardStep ==
    ASSUME TypeOK, NEW r \in Ranks, EndShard(r)
    PROVE  \E i \in DOMAIN queue :
             /\ r \in queue[i].busy
             /\ queue' \in Seq(Requests) /\ Len(queue') = Len(queue)
             /\ DOMAIN queue' = DOMAIN queue
             /\ \A j \in DOMAIN queue :
                  /\ queue'[j].dir = queue[j].dir
                  /\ queue'[j].snapshot = queue[j].snapshot
                  /\ queue'[j].todo = queue[j].todo
                  /\ queue'[j].busy = IF j = i THEN queue[i].busy \ {r} ELSE queue[j].busy
             /\ shards' = [shards EXCEPT ![queue[i].dir] = @ \cup {r}]
             /\ UNCHANGED <<phase, step, doomed, iterDirs, trainState, runConfig, latest, tracker, crashes>>
<1>1. PICK i \in DOMAIN queue :
        /\ r \in queue[i].busy
        /\ queue' = [queue EXCEPT ![i] = Ended(@, r)]
        /\ shards' = [shards EXCEPT ![queue[i].dir] = @ \cup {r}]
        /\ UNCHANGED <<phase, step, doomed, iterDirs, trainState, runConfig, latest, tracker, crashes>>
  BY DEF EndShard
<1>2. queue \in Seq(Requests)
  BY DEF TypeOK
<1> DEFINE e == Ended(queue[i], r)
<1>3. queue[i] \in Requests /\ DOMAIN queue = 1 .. Len(queue)
  BY <1>2, QueueTyped
<1>4. /\ e \in Requests
      /\ e.dir = queue[i].dir /\ e.snapshot = queue[i].snapshot
      /\ e.todo = queue[i].todo /\ e.busy = queue[i].busy \ {r}
  BY <1>3 DEF Requests, Ended
<1>5. queue' = [queue EXCEPT ![i] = e]
  BY <1>1
<1> HIDE DEF e
<1>6. /\ [queue EXCEPT ![i] = e] \in Seq(Requests)
      /\ Len([queue EXCEPT ![i] = e]) = Len(queue)
      /\ \A j \in 1 .. Len(queue) : [queue EXCEPT ![i] = e][j] = IF j = i THEN e ELSE queue[j]
  BY <1>2, <1>3, <1>4, ExceptSeq
<1>7. DOMAIN queue' = DOMAIN queue
  BY <1>5
<1> QED
  BY <1>1, <1>3, <1>4, <1>5, <1>6, <1>7

(***************************************************************************)
(* The types of all variables are preserved: in particular the queue holds *)
(* only requests for steps that were trained, and no file names a step     *)
(* outside 1 .. TrainIters.                                                *)
(***************************************************************************)
LEMMA InitTyped == Init => TypeInv
<1> SUFFICES ASSUME Init PROVE TypeInv
  OBVIOUS
<1>1. queue \in Seq(Requests)
  BY DEF Init
<1>2. step \in Steps \cup {NoStep} /\ phase \in Phases
  BY DEF Init, NoStep, Phases
<1> QED
  BY <1>1, <1>2 DEF Init, TypeInv, TypeOK, QueueHeld, Publishing, NoStep

\* What stops a job leaves every file as it is and empties the queue.
LEMMA StopTyped ==
    ASSUME TypeOK, Stop, crashes' \in Nat
    PROVE  TypeInv'
<1>1. queue' \in Seq(Requests)
  BY EmptySeq DEF Stop
<1>2. TypeOK'
  BY <1>1 DEF TypeOK, Stop, disk, Phases
<1> QED
  BY <1>2 DEF TypeInv, QueueHeld, Publishing, Stop

LEMMA NextTyped == TypeInv /\ [Next]_vars => TypeInv'
<1> SUFFICES ASSUME TypeInv, [Next]_vars PROVE TypeInv'
  OBVIOUS
<1> USE ConstantsAssumption
<1>t. TypeOK /\ QueueHeld
  BY DEF TypeInv
<1>a. phase \in Publishing \cup {"save", "trim"} =>
        /\ queue # <<>>
        /\ Head(queue).dir \in Dirs
        /\ Head(queue).snapshot \in Steps
        /\ Tail(queue) \in Seq(Requests)
  BY <1>t, QueueTyped DEF TypeOK, QueueHeld
<1>b. \A i \in DOMAIN queue : queue[i].dir \in Dirs
  BY <1>t, QueueTyped DEF TypeOK
<1>1. CASE TrainStep
  <2>1. step' \in Steps
    BY <1>1, <1>t DEF TypeOK, TrainStep, Steps, NoStep
  <2> QED
    BY <1>1, <1>t, <2>1 DEF TypeInv, TypeOK, QueueHeld, TrainStep, Phases, Running, Publishing, disk
<1>2. CASE NoSave
  BY <1>2, <1>t DEF TypeInv, TypeOK, QueueHeld, NoSave, Phases, Running, Publishing, disk
<1>3. ASSUME NEW p \in Places, StartSave(p) PROVE TypeInv'
  <2> DEFINE d == <<p, step>>
             req == [dir |-> d, snapshot |-> step, todo |-> Ranks, busy |-> {}]
  <2>1. step \in Steps /\ d \in Dirs
    BY <1>3, <1>t DEF TypeOK, StartSave, SavePoint, NoStep, Dirs
  <2>2. queue' \in Seq(Requests) /\ queue' # <<>>
    <3>1. req \in Requests
      BY <2>1 DEF Requests
    <3>2. queue' = Append(queue, req)
      BY <1>3 DEF StartSave
    <3> HIDE DEF req
    <3> QED
      BY <1>t, <3>1, <3>2, AppendProperties DEF TypeOK
  <2>3. PICK old \in IF p = "non_persistent" THEN AllButLast(Globbed(p), 1) ELSE {{}} :
          LET gone == IF AsyncSave THEN {} ELSE old IN
          /\ doomed' = IF AsyncSave THEN doomed \cup old ELSE doomed
          /\ iterDirs' = (iterDirs \ gone) \cup {d}
          /\ shards' = [e \in Dirs |-> IF e \in gone THEN {} ELSE shards[e]]
          /\ trainState' = [e \in Dirs |-> IF e \in gone THEN NoStep ELSE trainState[e]]
          /\ runConfig' = runConfig \ gone
    BY <1>3 DEF StartSave
  <2>4. old \subseteq iterDirs
    BY <2>3, AllButLastIsSubset DEF Globbed
  <2>5. doomed' \subseteq Dirs /\ iterDirs' \subseteq Dirs /\ runConfig' \subseteq Dirs
    BY <1>t, <2>1, <2>3, <2>4 DEF TypeOK
  <2>6. shards' \in [Dirs -> SUBSET Ranks]
    BY <1>t, <2>3 DEF TypeOK
  <2>7. trainState' \in [Dirs -> Steps \cup {NoStep}]
    BY <1>t, <2>3 DEF TypeOK
  <2>8. phase' \in Phases /\ UNCHANGED <<step, latest, tracker, crashes>>
    BY <1>3 DEF StartSave, Phases, Running
  <2> QED
    BY <1>t, <2>2, <2>5, <2>6, <2>7, <2>8 DEF TypeInv, TypeOK, QueueHeld
<1>4. ASSUME NEW r \in Ranks, BeginShard(r) PROVE TypeInv'
  <2>1. PICK i \in DOMAIN queue :
          /\ queue' \in Seq(Requests) /\ Len(queue') = Len(queue)
          /\ shards' = [shards EXCEPT ![queue[i].dir] = @ \ {r}]
          /\ UNCHANGED <<phase, step, doomed, iterDirs, trainState, runConfig, latest, tracker, crashes>>
    BY <1>4, <1>t, BeginShardStep
  <2>2. shards' \in [Dirs -> SUBSET Ranks]
    BY <1>t, <2>1, <1>b DEF TypeOK
  <2>3. queue # <<>> => queue' # <<>>
    BY <1>t, <2>1, EmptySeq DEF TypeOK
  <2> QED
    BY <1>t, <2>1, <2>2, <2>3 DEF TypeInv, TypeOK, QueueHeld
<1>5. ASSUME NEW r \in Ranks, EndShard(r) PROVE TypeInv'
  <2>1. PICK i \in DOMAIN queue :
          /\ queue' \in Seq(Requests) /\ Len(queue') = Len(queue)
          /\ shards' = [shards EXCEPT ![queue[i].dir] = @ \cup {r}]
          /\ UNCHANGED <<phase, step, doomed, iterDirs, trainState, runConfig, latest, tracker, crashes>>
    BY <1>5, <1>t, EndShardStep
  <2>2. shards' \in [Dirs -> SUBSET Ranks]
    BY <1>t, <2>1, <1>b DEF TypeOK
  <2>3. queue # <<>> => queue' # <<>>
    BY <1>t, <2>1, EmptySeq DEF TypeOK
  <2> QED
    BY <1>t, <2>1, <2>2, <2>3 DEF TypeInv, TypeOK, QueueHeld
<1>6. CASE Finalize
  BY <1>6, <1>t DEF TypeInv, TypeOK, QueueHeld, Finalize, Phases, Running, Publishing, disk
<1>7. CASE WriteTrainState
  <2>1. trainState' \in [Dirs -> Steps \cup {NoStep}]
    BY <1>7, <1>a, <1>t DEF WriteTrainState, TypeOK, Publishing
  <2> QED
    BY <1>7, <1>a, <1>t, <2>1
    DEF WriteTrainState, TypeInv, TypeOK, QueueHeld, Phases, Running, Publishing
<1>8. CASE PublishLatest
  <2>1. latest' \in [Places -> Steps \cup {NoStep}]
    BY <1>8, <1>a, <1>t DEF PublishLatest, TypeOK, Publishing
  <2> QED
    BY <1>8, <1>a, <1>t, <2>1
    DEF PublishLatest, TypeInv, TypeOK, QueueHeld, Phases, Running, Publishing
<1>9. CASE WriteTracker
  <2>1. tracker' \in [Places -> Steps \cup {NoStep}]
    BY <1>9, <1>t DEF WriteTracker, TypeOK
  <2> QED
    BY <1>9, <1>a, <1>t, <2>1
    DEF WriteTracker, TypeInv, TypeOK, QueueHeld, Phases, Running, Publishing
<1>10. CASE WriteRunConfig
  <2>1. queue' \in Seq(Requests) /\ runConfig' \subseteq Dirs
    BY <1>10, <1>a, <1>t DEF WriteRunConfig, TypeOK, Publishing
  <2>2. phase' = "trim" => queue' # <<>>
    BY <1>10, <1>a DEF WriteRunConfig, Publishing
  <2> QED
    BY <1>10, <1>t, <2>1, <2>2
    DEF WriteRunConfig, TypeInv, TypeOK, QueueHeld, Phases, Running, Publishing
<1>11. CASE Trim
  <2> DEFINE p == PlaceOf(queue[Len(queue)].dir)
  <2>1. PICK old \in IF MostRecentK > -1 THEN AllButLast(Globbed(p), MostRecentK) ELSE {{}} :
          IF AsyncSave
          THEN doomed' = doomed \cup old /\ UNCHANGED <<queue, disk>>
          ELSE Remove(old) /\ queue' = Tail(queue) /\ UNCHANGED <<doomed, latest, tracker>>
    BY <1>11 DEF Trim
  <2>2. old \subseteq iterDirs
    BY <2>1, AllButLastIsSubset DEF Globbed
  <2>3. phase = "trim" /\ phase' = "top" /\ UNCHANGED <<step, crashes>>
    BY <1>11 DEF Trim
  <2>4. CASE AsyncSave
    BY <1>t, <2>1, <2>2, <2>3, <2>4 DEF TypeInv, TypeOK, QueueHeld, Phases, Running, Publishing, disk
  <2>5. CASE ~AsyncSave
    BY <1>a, <1>t, <2>1, <2>3, <2>5, RemoveTyped DEF TypeInv, TypeOK, QueueHeld, Phases, Running, Publishing
  <2> QED
    BY <2>4, <2>5
<1>12. CASE RemoveDoomed
  <2>1. PICK d \in doomed : doomed' = doomed \ {d} /\ Remove({d})
    BY <1>12 DEF RemoveDoomed
  <2> QED
    BY <1>12, <1>t, <2>1, RemoveTyped DEF RemoveDoomed, TypeInv, TypeOK, QueueHeld
<1>13. CASE Exit
  BY <1>13, <1>t, StopTyped DEF Exit, TypeOK
<1>14. CASE Crash
  BY <1>14, <1>t, StopTyped DEF Crash, TypeOK
<1>15. CASE WriteFails
  BY <1>15, <1>t, StopTyped DEF WriteFails, TypeOK
<1>16. CASE LaunchFresh
  BY <1>16, <1>t DEF LaunchFresh, TypeInv, TypeOK, QueueHeld, Phases, Running, Publishing, NoStep, disk
<1>17. CASE LaunchResume
  <2>1. Target \in Dirs
    BY <1>17, <1>t DEF LaunchResume, Loadable, TypeOK
  <2>2. step' \in Steps \cup {NoStep}
    BY <1>17, <1>t, <2>1 DEF LaunchResume, StepAfterLoad, StepOf, Dirs, TypeOK
  <2> QED
    BY <1>17, <1>t, <2>2 DEF LaunchResume, TypeInv, TypeOK, QueueHeld, Phases, Running, Publishing, disk
<1>18. CASE LaunchFails
  BY <1>18, <1>t DEF LaunchFails, TypeInv, TypeOK, QueueHeld, Phases, Running, Publishing, disk
<1>19. CASE Requeue
  BY <1>19, <1>t DEF Requeue, TypeInv, TypeOK, QueueHeld, Phases, Running, Publishing, disk
<1>20. CASE UNCHANGED vars
  BY <1>20, <1>t DEF vars, memory, disk, TypeInv, TypeOK, QueueHeld
<1> QED
  BY <1>1, <1>2, <1>3, <1>4, <1>5, <1>6, <1>7, <1>8, <1>9, <1>10, <1>11, <1>12,
     <1>13, <1>14, <1>15, <1>16, <1>17, <1>18, <1>19, <1>20 DEF Next

(***************************************************************************)
(* Type correctness, for every number of ranks, every number of            *)
(* iterations, every policy and every bound.                               *)
(***************************************************************************)
THEOREM TypeCorrect == Spec => []TypeOK
<1>1. Spec => []TypeInv
  BY InitTyped, NextTyped, PTL DEF Spec
<1>2. TypeInv => TypeOK
  BY DEF TypeInv
<1> QED
  BY <1>1, <1>2, PTL

----------------------------------------------------------------------------
(***************************************************************************)
(* The inductive invariant.  LatestRestorable is not inductive by itself:  *)
(* a writer could tear the published directory, a pointer could move to    *)
(* one that is not whole, and a removal thread could delete it.  What      *)
(* excludes this is that each request of the queue owns a directory newer  *)
(* than the pointer until it is published, that ranks which are done have  *)
(* left their shard in it, and that only non-persistent directories are    *)
(* ever removed.                                                           *)
(***************************************************************************)

\* Request i has moved the pointer of its place and is still in the queue.
Published(i) ==
    /\ i = 1
    /\ phase \in {"tracker", "config"} \/ (phase = "trim" /\ ~AsyncSave)

RequestSound(i) ==
    LET req == queue[i] IN
    /\ req.snapshot = StepOf(req.dir)
    /\ req.snapshot <= step
    /\ PlaceOf(req.dir) = "save" =>
         /\ req.dir \in iterDirs
         /\ Ranks \ (req.todo \cup req.busy) \subseteq shards[req.dir]
         /\ Published(i) => latest["save"] = req.snapshot
         /\ ~Published(i) => latest["save"] < req.snapshot

RequestsSound == \A i \in DOMAIN queue : RequestSound(i)

QueueOrdered ==
    \A i, j \in DOMAIN queue : i < j =>
        /\ queue[i].snapshot <= queue[j].snapshot
        /\ queue[i].dir # queue[j].dir

HeadSound ==
    /\ phase \in Publishing \/ (phase = "trim" /\ ~AsyncSave) => AllRanksDone(queue[1])
    /\ phase = "latest" /\ PlaceOf(queue[1].dir) = "save" =>
         trainState[queue[1].dir] = queue[1].snapshot

\* Only non-persistent directories are ever removed.
DoomedSound == \A d \in doomed : PlaceOf(d) # "save"

\* A train_state.pt holds the step its directory is named after.
Stamped == \A d \in Dirs : trainState[d] \in {NoStep, StepOf(d)}

IdleEmpty == phase \in {"down", "failed"} => queue = <<>>

PointersSound ==
    /\ latest["save"] <= step
    /\ tracker["save"] # NoStep => latest["save"] # NoStep

IInv ==
    /\ TypeInv
    /\ RequestsSound
    /\ QueueOrdered
    /\ HeadSound
    /\ DoomedSound
    /\ Stamped
    /\ IdleEmpty
    /\ PointersSound
    /\ LatestRestorable

LEMMA InitSound == Init => IInv
<1> SUFFICES ASSUME Init PROVE IInv
  OBVIOUS
<1>1. TypeInv
  BY InitTyped
<1>2. queue = <<>> /\ DOMAIN queue = {}
  BY DEF Init
<1>3. phase = "down" /\ step = 0 /\ doomed = {}
  BY DEF Init
<1>4. latest["save"] = 0 /\ tracker["save"] = 0
  BY DEF Init, Places, NoStep
<1>5. Stamped
  BY DEF Init, Stamped
<1> QED
  BY <1>1, <1>2, <1>3, <1>4, <1>5
  DEF IInv, RequestsSound, QueueOrdered, HeadSound, DoomedSound, IdleEmpty,
      PointersSound, LatestRestorable, Publishing, NoStep

(***************************************************************************)
(* The end of the process, however it comes, keeps the invariant: it       *)
(* empties the memory and leaves the disk alone.                           *)
(***************************************************************************)
LEMMA StopSound ==
    ASSUME IInv, Stop, TypeInv'
    PROVE  IInv'
<1>1. queue' = <<>> /\ DOMAIN queue' = {} /\ doomed' = {} /\ phase' = "down"
  BY DEF Stop
<1>2. UNCHANGED <<step, iterDirs, shards, trainState, runConfig, latest, tracker>>
  BY DEF Stop, disk
<1>3. LatestRestorable' /\ Stamped' /\ PointersSound'
  BY <1>2 DEF IInv, LatestRestorable, Restorable, Stamped, PointersSound
<1> QED
  BY <1>1, <1>3
  DEF IInv, RequestsSound, QueueOrdered, HeadSound, DoomedSound, IdleEmpty, Publishing

(***************************************************************************)
(* What the invariant says of the request at the head of the queue while   *)
(* it is being published.                                                  *)
(***************************************************************************)
LEMMA HeadFacts ==
    ASSUME IInv, phase \in Publishing \/ (phase = "trim" /\ ~AsyncSave)
    PROVE  /\ queue # <<>>
           /\ 1 \in DOMAIN queue
           /\ Head(queue) = queue[1]
           /\ queue[1].todo = {} /\ queue[1].busy = {}
           /\ queue[1].dir \in Dirs /\ queue[1].snapshot \in Steps
           /\ RequestSound(1)
<1>1. queue # <<>> /\ queue \in Seq(Requests)
  BY DEF IInv, TypeInv, QueueHeld, TypeOK
<1>2. /\ 1 \in DOMAIN queue /\ Head(queue) = queue[1]
      /\ queue[1].dir \in Dirs /\ queue[1].snapshot \in Steps
  BY <1>1, QueueTyped
<1>3. queue[1].todo = {} /\ queue[1].busy = {}
  BY DEF IInv, HeadSound, AllRanksDone
<1> QED
  BY <1>1, <1>2, <1>3 DEF IInv, RequestsSound

(***************************************************************************)
(* The published directory belongs to no request with work left: a request *)
(* for it is the published one, at the head and done.                      *)
(***************************************************************************)
LEMMA LatestIsNotWritten ==
    ASSUME IInv, NEW i \in DOMAIN queue, queue[i].todo # {},
           latest["save"] # NoStep
    PROVE  queue[i].dir # <<"save", latest["save"]>>
<1> SUFFICES ASSUME queue[i].dir = <<"save", latest["save"]>> PROVE FALSE
  OBVIOUS
<1>1. RequestSound(i) /\ queue \in Seq(Requests)
  BY DEF IInv, RequestsSound, TypeInv, TypeOK
<1>2. queue[i].snapshot = latest["save"] /\ PlaceOf(queue[i].dir) = "save"
  BY <1>1 DEF RequestSound, StepOf, PlaceOf
<1>3. queue[i].snapshot \in Int
  BY <1>1, QueueTyped, ConstantsAssumption DEF Steps
<1>4. Published(i)
  BY <1>1, <1>2, <1>3 DEF RequestSound
<1> QED
  BY <1>4, HeadFacts DEF Published, Publishing

(***************************************************************************)
(* A step that leaves the queue, the shards and the pointers alone and     *)
(* publishes nothing keeps every request sound.                            *)
(***************************************************************************)
LEMMA RequestsFrame ==
    ASSUME IInv, UNCHANGED <<queue, step, iterDirs, shards, latest>>,
           \A i \in DOMAIN queue : Published(i)' <=> Published(i)
    PROVE  RequestsSound' /\ QueueOrdered'
BY DEF IInv, RequestsSound, RequestSound, QueueOrdered

(***************************************************************************)
(* A relaunch that finds a checkpoint resumes at the persistent pointer or *)
(* after it, whichever of the two places it loads from.                    *)
(***************************************************************************)
LEMMA ResumeIsNotBehind ==
    ASSUME IInv, LaunchResume
    PROVE  latest["save"] <= step'
<1> USE ConstantsAssumption
<1>1. /\ latest["save"] \in Nat /\ latest["non_persistent"] \in Nat
      /\ trainState \in [Dirs -> Steps \cup {NoStep}] /\ iterDirs \subseteq Dirs
  BY DEF IInv, TypeInv, TypeOK, Places, Steps, NoStep
<1>2. Target \in Dirs /\ step' = StepAfterLoad(Target)
  BY <1>1 DEF LaunchResume, Loadable
<1>3. step' = StepOf(Target)
  BY <1>2 DEF IInv, Stamped, StepAfterLoad
<1>4. StepOf(Target) \in Nat
  BY <1>2 DEF Dirs, StepOf, Steps
<1>5. CASE latest["save"] = 0
  BY <1>3, <1>4, <1>5
<1>6. CASE latest["save"] # 0
  <2>1. PersistentIteration = latest["save"]
    BY <1>6 DEF PersistentIteration, NoStep
  <2> QED
    BY <1>1, <1>3, <2>1 DEF Target, StepOf
<1> QED
  BY <1>5, <1>6

(***************************************************************************)
(* The inductive invariant is preserved by every step, but one that trims, *)
(* of a job that saves no step twice.                                      *)
(***************************************************************************)
LEMMA NextSound ==
    ASSUME MostRecentK = -1 \/ ~Trim, ~SavesTwice
    PROVE  IInv /\ [Next]_vars => IInv'
<1> SUFFICES ASSUME IInv, [Next]_vars PROVE IInv'
  OBVIOUS
<1> USE ConstantsAssumption
<1>t. TypeInv /\ TypeInv' /\ TypeOK /\ TypeOK' /\ queue \in Seq(Requests)
  BY NextTyped DEF IInv, TypeInv, TypeOK
<1>n. /\ step \in Nat /\ latest["save"] \in Nat /\ latest["save"] <= step
      /\ \A i \in DOMAIN queue : queue[i].snapshot \in Nat
  <2>1. step \in Nat /\ latest["save"] \in Nat
    BY <1>t DEF TypeOK, Steps, NoStep, Places
  <2> QED
    BY <1>t, <2>1, QueueTyped DEF Steps, IInv, PointersSound
<1>1. CASE TrainStep
  <2>1. /\ phase = "top" /\ phase' = "boundary" /\ step' = step + 1
        /\ UNCHANGED <<queue, doomed, iterDirs, shards, trainState, runConfig, latest, tracker>>
    BY <1>1 DEF TrainStep, disk
  <2>2. RequestsSound' /\ QueueOrdered'
    BY <1>n, <2>1 DEF IInv, RequestsSound, RequestSound, Published, QueueOrdered
  <2>3. HeadSound' /\ DoomedSound' /\ Stamped' /\ IdleEmpty'
    BY <2>1 DEF IInv, HeadSound, DoomedSound, Stamped, IdleEmpty, Publishing
  <2>4. PointersSound' /\ LatestRestorable'
    BY <1>n, <2>1 DEF IInv, PointersSound, LatestRestorable, Restorable
  <2> QED
    BY <1>t, <2>2, <2>3, <2>4 DEF IInv
<1>2. CASE NoSave
  <2>1. /\ phase = "boundary" /\ phase' = "top"
        /\ UNCHANGED <<step, queue, doomed, iterDirs, shards, trainState, runConfig, latest, tracker>>
    BY <1>2 DEF NoSave, disk
  <2>2. RequestsSound' /\ QueueOrdered'
    BY <2>1, RequestsFrame DEF Published
  <2>3. HeadSound' /\ DoomedSound' /\ Stamped' /\ IdleEmpty'
    BY <2>1 DEF IInv, HeadSound, DoomedSound, Stamped, IdleEmpty, Publishing
  <2>4. PointersSound' /\ LatestRestorable'
    BY <2>1 DEF IInv, PointersSound, LatestRestorable, Restorable
  <2> QED
    BY <1>t, <2>2, <2>3, <2>4 DEF IInv
<1>3. ASSUME NEW p \in Places, StartSave(p) PROVE IInv'
  <2> DEFINE d == <<p, step>>
             req == [dir |-> d, snapshot |-> step, todo |-> Ranks, busy |-> {}]
  <2>1. /\ phase \in {"top", "boundary"}
        /\ Fresh(p) /\ step # 0
        /\ queue' = Append(queue, req)
        /\ phase' = IF AsyncSave THEN "trim" ELSE "save"
        /\ UNCHANGED <<step, latest, tracker>>
    BY <1>3 DEF StartSave, SavePoint
  <2>2. PICK old \in IF p = "non_persistent" THEN AllButLast(Globbed(p), 1) ELSE {{}} :
          LET gone == IF AsyncSave THEN {} ELSE old IN
          /\ doomed' = IF AsyncSave THEN doomed \cup old ELSE doomed
          /\ iterDirs' = (iterDirs \ gone) \cup {d}
          /\ shards' = [e \in Dirs |-> IF e \in gone THEN {} ELSE shards[e]]
          /\ trainState' = [e \in Dirs |-> IF e \in gone THEN NoStep ELSE trainState[e]]
          /\ runConfig' = runConfig \ gone
    BY <1>3 DEF StartSave
  <2>3. \A e \in old : PlaceOf(e) # "save"
    BY <2>2, AllButLastIsSubset DEF Globbed
  <2>4. step \in Steps /\ d \in Dirs /\ req \in Requests
    BY <1>t, <2>1 DEF TypeOK, NoStep, Dirs, Requests
  <2>5. /\ Len(queue) \in Nat /\ DOMAIN queue = 1 .. Len(queue)
        /\ DOMAIN queue' = 1 .. (Len(queue) + 1)
        /\ \A i \in DOMAIN queue : queue'[i] = queue[i]
        /\ queue'[Len(queue) + 1] = req
    <3>1. Len(queue) \in Nat /\ DOMAIN queue = 1 .. Len(queue)
      BY <1>t, QueueTyped
    <3>2. queue' \in Seq(Requests)
      BY <1>t DEF TypeOK
    <3> HIDE DEF req
    <3> QED
      BY <1>t, <2>1, <2>4, <3>1, <3>2, AppendProperties, LenProperties
  <2>6. /\ PlaceOf(d) = p /\ StepOf(d) = step
        /\ req.dir = d /\ req.snapshot = step /\ req.todo = Ranks
    BY DEF PlaceOf, StepOf
  <2>7. \A e \in Dirs : PlaceOf(e) = "save" =>
          /\ e \in iterDirs => e \in iterDirs'
          /\ shards'[e] = shards[e]
          /\ trainState'[e] = trainState[e]
    BY <2>2, <2>3
  <2> HIDE DEF req
  <2>8. ASSUME NEW i \in DOMAIN queue' PROVE RequestSound(i)'
    <3>1. CASE i \in DOMAIN queue
      <4>1. RequestSound(i) /\ queue'[i] = queue[i] /\ queue[i].dir \in Dirs
        BY <1>t, <2>5, <3>1, QueueTyped DEF IInv, RequestsSound
      <4>2. ~Published(i) /\ ~Published(i)'
        BY <2>1 DEF Published
      <4> QED
        BY <2>1, <2>7, <4>1, <4>2 DEF RequestSound
    <3>2. CASE i = Len(queue) + 1
      <4>1. queue'[i] = req /\ ~Published(i)'
        BY <2>1, <2>5, <3>2 DEF Published
      <4>2. d \in iterDirs'
        BY <2>2
      <4>3. p = "save" => latest["save"] < step
        BY <1>n, <2>1 DEF Fresh
      <4> QED
        BY <1>n, <2>1, <2>6, <4>1, <4>2, <4>3 DEF RequestSound
    <3> QED
      BY <2>5, <3>1, <3>2
  <2>9. QueueOrdered'
    <3> SUFFICES ASSUME NEW i \in DOMAIN queue', NEW j \in DOMAIN queue', i < j
                 PROVE  queue'[i].snapshot <= queue'[j].snapshot /\ queue'[i].dir # queue'[j].dir
      BY DEF QueueOrdered
    <3>1. i \in DOMAIN queue
      BY <2>5
    <3>2. CASE j \in DOMAIN queue
      BY <2>5, <3>1, <3>2 DEF IInv, QueueOrdered
    <3>3. CASE j = Len(queue) + 1
      <4>1. queue'[i] = queue[i] /\ queue'[j] = req
        BY <2>5, <3>1, <3>3
      <4>2. queue[i].snapshot <= step
        BY <3>1 DEF IInv, RequestsSound, RequestSound
      <4>3. queue[i].dir # d
        BY <2>1, <3>1 DEF Fresh
      <4> QED
        BY <2>6, <4>1, <4>2, <4>3
    <3> QED
      BY <2>5, <3>2, <3>3
  <2>10. HeadSound' /\ IdleEmpty' /\ PointersSound'
    BY <2>1 DEF IInv, HeadSound, IdleEmpty, PointersSound, Publishing
  <2>11. DoomedSound'
    BY <2>2, <2>3 DEF IInv, DoomedSound
  <2>12. Stamped'
    BY <2>2 DEF IInv, Stamped
  <2>13. LatestRestorable'
    <3> SUFFICES ASSUME latest["save"] # NoStep
                 PROVE  Restorable(<<"save", latest["save"]>>)'
      BY <2>1 DEF LatestRestorable
    <3>1. Restorable(<<"save", latest["save"]>>) /\ <<"save", latest["save"]>> \in Dirs
      BY <1>t DEF IInv, LatestRestorable, Restorable, TypeOK
    <3>2. PlaceOf(<<"save", latest["save"]>>) = "save"
      BY DEF PlaceOf
    <3> QED
      BY <2>1, <2>7, <3>1, <3>2 DEF Restorable
  <2> QED
    BY <1>t, <2>8, <2>9, <2>10, <2>11, <2>12, <2>13 DEF IInv, RequestsSound
<1>4. ASSUME NEW r \in Ranks, BeginShard(r) PROVE IInv'
  <2>1. PICK k \in DOMAIN queue :
          /\ r \in queue[k].todo
          /\ DOMAIN queue' = DOMAIN queue
          /\ \A j \in DOMAIN queue :
               /\ queue'[j].dir = queue[j].dir
               /\ queue'[j].snapshot = queue[j].snapshot
               /\ queue'[j].todo = IF j = k THEN queue[k].todo \ {r} ELSE queue[j].todo
               /\ queue'[j].busy = IF j = k THEN queue[k].busy \cup {r} ELSE queue[j].busy
          /\ shards' = [shards EXCEPT ![queue[k].dir] = @ \ {r}]
          /\ UNCHANGED <<phase, step, doomed, iterDirs, trainState, runConfig, latest, tracker, crashes>>
    BY <1>4, <1>t, BeginShardStep
  <2>a. \A i \in DOMAIN queue : queue[i].dir \in Dirs
    BY <1>t, QueueTyped
  <2>b. \A e \in Dirs : shards'[e] = IF e = queue[k].dir THEN shards[e] \ {r} ELSE shards[e]
    BY <1>t, <2>1, <2>a DEF TypeOK
  <2>2. ASSUME NEW i \in DOMAIN queue' PROVE RequestSound(i)'
    <3>1. i \in DOMAIN queue /\ RequestSound(i)
      BY <2>1 DEF IInv, RequestsSound
    <3>2. Published(i)' <=> Published(i)
      BY <2>1 DEF Published
    <3>3. i # k => queue[i].dir # queue[k].dir
      BY <1>t, <2>1, <3>1, QueueTyped DEF IInv, QueueOrdered
    <3>4. PlaceOf(queue[i].dir) = "save" =>
            Ranks \ (queue'[i].todo \cup queue'[i].busy) \subseteq shards'[queue[i].dir]
      BY <2>1, <2>a, <2>b, <3>1, <3>3 DEF RequestSound
    <3> QED
      BY <2>1, <3>1, <3>2, <3>4 DEF RequestSound
  <2>3. QueueOrdered'
    BY <2>1 DEF IInv, QueueOrdered
  <2>4. HeadSound'
    <3>1. ASSUME phase \in Publishing \/ (phase = "trim" /\ ~AsyncSave)
          PROVE  /\ 1 \in DOMAIN queue
                 /\ queue'[1].todo = {} /\ queue'[1].busy = {}
      BY <2>1, <3>1, HeadFacts
    <3>2. ASSUME phase = "latest" PROVE 1 \in DOMAIN queue
      BY <3>2, HeadFacts DEF Publishing
    <3> QED
      BY <2>1, <3>1, <3>2 DEF IInv, HeadSound, AllRanksDone
  <2>5. DoomedSound' /\ Stamped' /\ PointersSound'
    BY <2>1 DEF IInv, DoomedSound, Stamped, PointersSound
  <2>6. IdleEmpty'
    BY <1>4, <2>1 DEF IdleEmpty, BeginShard, Running, Publishing
  <2>7. LatestRestorable'
    <3> SUFFICES ASSUME latest["save"] # NoStep
                 PROVE  Restorable(<<"save", latest["save"]>>)'
      BY <2>1 DEF LatestRestorable
    <3>1. Restorable(<<"save", latest["save"]>>) /\ <<"save", latest["save"]>> \in Dirs
      BY <1>t DEF IInv, LatestRestorable, Restorable, TypeOK
    <3>2. queue[k].dir # <<"save", latest["save"]>>
      BY <2>1, LatestIsNotWritten
    <3> QED
      BY <2>1, <2>b, <3>1, <3>2 DEF Restorable
  <2> QED
    BY <1>t, <2>2, <2>3, <2>4, <2>5, <2>6, <2>7 DEF IInv, RequestsSound
<1>5. ASSUME NEW r \in Ranks, EndShard(r) PROVE IInv'
  <2>1. PICK k \in DOMAIN queue :
          /\ r \in queue[k].busy
          /\ DOMAIN queue' = DOMAIN queue
          /\ \A j \in DOMAIN queue :
               /\ queue'[j].dir = queue[j].dir
               /\ queue'[j].snapshot = queue[j].snapshot
               /\ queue'[j].todo = queue[j].todo
               /\ queue'[j].busy = IF j = k THEN queue[k].busy \ {r} ELSE queue[j].busy
          /\ shards' = [shards EXCEPT ![queue[k].dir] = @ \cup {r}]
          /\ UNCHANGED <<phase, step, doomed, iterDirs, trainState, runConfig, latest, tracker, crashes>>
    BY <1>5, <1>t, EndShardStep
  <2>a. \A i \in DOMAIN queue : queue[i].dir \in Dirs
    BY <1>t, QueueTyped
  <2>b. \A e \in Dirs : shards'[e] = IF e = queue[k].dir THEN shards[e] \cup {r} ELSE shards[e]
    BY <1>t, <2>1, <2>a DEF TypeOK
  <2>2. ASSUME NEW i \in DOMAIN queue' PROVE RequestSound(i)'
    <3>1. i \in DOMAIN queue /\ RequestSound(i)
      BY <2>1 DEF IInv, RequestsSound
    <3>2. Published(i)' <=> Published(i)
      BY <2>1 DEF Published
    <3>3. PlaceOf(queue[i].dir) = "save" =>
            Ranks \ (queue'[i].todo \cup queue'[i].busy) \subseteq shards'[queue[i].dir]
      <4> SUFFICES ASSUME PlaceOf(queue[i].dir) = "save"
                   PROVE  Ranks \ (queue'[i].todo \cup queue'[i].busy) \subseteq shards'[queue[i].dir]
        OBVIOUS
      <4>1. Ranks \ (queue[i].todo \cup queue[i].busy) \subseteq shards[queue[i].dir]
        BY <3>1 DEF RequestSound
      <4>2. CASE i = k
        <5>1. /\ queue'[i].todo = queue[i].todo /\ queue'[i].busy = queue[i].busy \ {r}
              /\ shards'[queue[i].dir] = shards[queue[i].dir] \cup {r}
          BY <2>1, <2>a, <2>b, <3>1, <4>2
        <5> QED
          BY <4>1, <5>1
      <4>3. CASE i # k
        <5>1. /\ queue'[i].todo = queue[i].todo /\ queue'[i].busy = queue[i].busy
              /\ shards[queue[i].dir] \subseteq shards'[queue[i].dir]
          BY <2>1, <2>a, <2>b, <3>1, <4>3
        <5> QED
          BY <4>1, <5>1
      <4> QED
        BY <4>2, <4>3
    <3> QED
      BY <2>1, <3>1, <3>2, <3>3 DEF RequestSound
  <2>3. QueueOrdered'
    BY <2>1 DEF IInv, QueueOrdered
  <2>4. HeadSound'
    <3>1. ASSUME phase \in Publishing \/ (phase = "trim" /\ ~AsyncSave)
          PROVE  /\ 1 \in DOMAIN queue
                 /\ queue'[1].todo = {} /\ queue'[1].busy = {}
      BY <2>1, <3>1, HeadFacts
    <3>2. ASSUME phase = "latest" PROVE 1 \in DOMAIN queue
      BY <3>2, HeadFacts DEF Publishing
    <3> QED
      BY <2>1, <3>1, <3>2 DEF IInv, HeadSound, AllRanksDone
  <2>5. DoomedSound' /\ Stamped' /\ PointersSound'
    BY <2>1 DEF IInv, DoomedSound, Stamped, PointersSound
  <2>6. IdleEmpty'
    BY <1>5, <2>1 DEF IdleEmpty, EndShard, Running, Publishing
  <2>7. LatestRestorable'
    <3> SUFFICES ASSUME latest["save"] # NoStep
                 PROVE  Restorable(<<"save", latest["save"]>>)'
      BY <2>1 DEF LatestRestorable
    <3>1. Restorable(<<"save", latest["save"]>>) /\ <<"save", latest["save"]>> \in Dirs
      BY <1>t DEF IInv, LatestRestorable, Restorable, TypeOK
    <3> QED
      BY <2>1, <2>b, <3>1 DEF Restorable
  <2> QED
    BY <1>t, <2>2, <2>3, <2>4, <2>5, <2>6, <2>7 DEF IInv, RequestsSound
<1>6. CASE Finalize
  <2>1. /\ phase = IF AsyncSave THEN "top" ELSE "save"
        /\ queue # <<>> /\ AllRanksDone(Head(queue)) /\ phase' = "train_state"
        /\ UNCHANGED <<step, queue, doomed, iterDirs, shards, trainState, runConfig, latest, tracker>>
    BY <1>6 DEF Finalize, disk
  <2>2. RequestsSound' /\ QueueOrdered'
    BY <2>1, RequestsFrame DEF Published
  <2>3. HeadSound'
    <3>1. Head(queue) = queue[1]
      BY <1>t, <2>1, QueueTyped
    <3> QED
      BY <2>1, <3>1 DEF HeadSound, AllRanksDone
  <2>4. DoomedSound' /\ Stamped' /\ IdleEmpty' /\ PointersSound' /\ LatestRestorable'
    BY <2>1 DEF IInv, DoomedSound, Stamped, IdleEmpty, PointersSound, LatestRestorable, Restorable
  <2> QED
    BY <1>t, <2>2, <2>3, <2>4 DEF IInv
<1>7. CASE WriteTrainState
  <2> DEFINE d == queue[1].dir
  <2>1. /\ phase = "train_state" /\ phase' = "latest"
        /\ 1 \in DOMAIN queue /\ Head(queue) = queue[1]
        /\ d \in Dirs /\ queue[1].snapshot = StepOf(d)
    BY <1>7, HeadFacts DEF WriteTrainState, Publishing, RequestSound
  <2>2. /\ trainState' = [trainState EXCEPT ![d] = queue[1].snapshot]
        /\ UNCHANGED <<step, queue, doomed, iterDirs, shards, runConfig, latest, tracker>>
    BY <1>7, <2>1 DEF WriteTrainState
  <2>3. \A e \in Dirs : trainState'[e] = IF e = d THEN StepOf(d) ELSE trainState[e]
    BY <1>t, <2>1, <2>2 DEF TypeOK
  <2>4. RequestsSound' /\ QueueOrdered'
    BY <2>1, <2>2, RequestsFrame DEF Published
  <2>5. HeadSound'
    BY <2>1, <2>2, <2>3 DEF IInv, HeadSound, AllRanksDone, Publishing
  <2>6. Stamped'
    BY <2>3 DEF IInv, Stamped
  <2>7. LatestRestorable'
    <3> SUFFICES ASSUME latest["save"] # NoStep
                 PROVE  Restorable(<<"save", latest["save"]>>)'
      BY <2>2 DEF LatestRestorable
    <3>1. Restorable(<<"save", latest["save"]>>) /\ <<"save", latest["save"]>> \in Dirs
      BY <1>t DEF IInv, LatestRestorable, Restorable, TypeOK
    <3> QED
      BY <2>2, <2>3, <3>1 DEF Restorable
  <2>8. DoomedSound' /\ IdleEmpty' /\ PointersSound'
    BY <2>1, <2>2 DEF IInv, DoomedSound, IdleEmpty, PointersSound
  <2> QED
    BY <1>t, <2>4, <2>5, <2>6, <2>7, <2>8 DEF IInv
<1>8. CASE PublishLatest
  <2> DEFINE d == queue[1].dir
  <2>1. /\ phase = "latest" /\ phase' = "tracker"
        /\ 1 \in DOMAIN queue /\ Head(queue) = queue[1]
        /\ d \in Dirs /\ RequestSound(1)
        /\ queue[1].todo = {} /\ queue[1].busy = {}
    BY <1>8, HeadFacts DEF PublishLatest, Publishing
  <2>2. /\ latest' = [latest EXCEPT ![PlaceOf(d)] = trainState[d]]
        /\ UNCHANGED <<step, queue, doomed, iterDirs, shards, trainState, runConfig, tracker>>
    BY <1>8, <2>1 DEF PublishLatest
  <2>3. ~Published(1) /\ Published(1)' /\ \A i \in DOMAIN queue : i # 1 => ~Published(i) /\ ~Published(i)'
    BY <2>1 DEF Published
  <2>4. ASSUME PlaceOf(d) = "save"
        PROVE  RequestsSound' /\ LatestRestorable' /\ PointersSound'
    <3>1. trainState[d] = queue[1].snapshot /\ queue[1].snapshot = StepOf(d)
      BY <2>1, <2>4 DEF IInv, HeadSound, RequestSound
    <3>2. latest'["save"] = queue[1].snapshot
      BY <1>t, <2>2, <2>4, <3>1 DEF TypeOK, Places
    <3>3. /\ d \in iterDirs /\ Ranks \subseteq shards[d]
          /\ latest["save"] < queue[1].snapshot /\ queue[1].snapshot <= step
      BY <2>1, <2>3, <2>4 DEF RequestSound
    <3>4. d = <<"save", latest'["save"]>> /\ latest'["save"] # NoStep
      BY <1>n, <2>1, <2>4, <3>1, <3>2, <3>3 DEF Dirs, PlaceOf, StepOf, NoStep
    <3>5. LatestRestorable'
      <4>1. shards[d] = Ranks
        BY <1>t, <2>1, <3>3 DEF TypeOK
      <4>2. d \in iterDirs' /\ shards'[d] = Ranks /\ trainState'[d] = StepOf(d)
        BY <2>2, <3>1, <3>3, <4>1
      <4> QED
        BY <3>4, <4>2 DEF LatestRestorable, Restorable
    <3>6. ASSUME NEW i \in DOMAIN queue' PROVE RequestSound(i)'
      <4>1. i \in DOMAIN queue /\ RequestSound(i)
        BY <2>2 DEF IInv, RequestsSound
      <4>2. CASE i = 1
        BY <2>2, <2>3, <3>2, <4>1, <4>2 DEF RequestSound
      <4>3. CASE i # 1
        <5>1. 1 < i /\ queue[i].dir \in Dirs
          BY <1>t, <4>1, <4>3, QueueTyped
        <5>2. queue[1].snapshot <= queue[i].snapshot /\ queue[i].dir # d
          BY <2>1, <4>1, <5>1 DEF IInv, QueueOrdered
        <5>3. PlaceOf(queue[i].dir) = "save" => queue[i].snapshot # queue[1].snapshot
          BY <2>1, <2>4, <3>1, <4>1, <5>1, <5>2 DEF RequestSound, Dirs, PlaceOf, StepOf
        <5>4. PlaceOf(queue[i].dir) = "save" => latest'["save"] < queue[i].snapshot
          BY <1>n, <2>1, <3>2, <4>1, <5>2, <5>3
        <5> QED
          BY <2>2, <2>3, <4>1, <4>3, <5>4 DEF RequestSound
      <4> QED
        BY <4>2, <4>3
    <3>7. PointersSound'
      BY <2>2, <3>2, <3>3, <3>4 DEF PointersSound
    <3> QED
      BY <3>5, <3>6, <3>7 DEF RequestsSound
  <2>5. ASSUME PlaceOf(d) # "save"
        PROVE  RequestsSound' /\ LatestRestorable' /\ PointersSound'
    <3>1. latest'["save"] = latest["save"]
      BY <1>t, <2>2, <2>5 DEF TypeOK, Places
    <3>2. RequestsSound'
      <4> SUFFICES ASSUME NEW i \in DOMAIN queue' PROVE RequestSound(i)'
        BY DEF RequestsSound
      <4>1. i \in DOMAIN queue /\ RequestSound(i)
        BY <2>2 DEF IInv, RequestsSound
      <4>2. CASE i = 1
        BY <2>2, <2>5, <4>1, <4>2 DEF RequestSound
      <4>3. CASE i # 1
        BY <2>2, <2>3, <3>1, <4>1, <4>3 DEF RequestSound
      <4> QED
        BY <4>2, <4>3
    <3>3. LatestRestorable' /\ PointersSound'
      BY <2>2, <3>1 DEF IInv, LatestRestorable, Restorable, PointersSound
    <3> QED
      BY <3>2, <3>3
  <2>6. RequestsSound' /\ LatestRestorable' /\ PointersSound'
    BY <2>4, <2>5
  <2>7. HeadSound'
    BY <2>1, <2>2 DEF HeadSound, AllRanksDone
  <2>8. QueueOrdered' /\ DoomedSound' /\ Stamped' /\ IdleEmpty'
    BY <2>1, <2>2 DEF IInv, QueueOrdered, DoomedSound, Stamped, IdleEmpty
  <2> QED
    BY <1>t, <2>6, <2>7, <2>8 DEF IInv
<1>9. CASE WriteTracker
  <2>1. /\ phase = "tracker" /\ phase' = "config"
        /\ RequestSound(1) /\ queue[1].snapshot \in Steps
        /\ 1 \in DOMAIN queue /\ Head(queue) = queue[1]
        /\ tracker' = [tracker EXCEPT ![PlaceOf(queue[1].dir)] = step]
        /\ UNCHANGED <<step, queue, doomed, iterDirs, shards, trainState, runConfig, latest>>
    BY <1>9, HeadFacts DEF WriteTracker, Publishing
  <2>2. RequestsSound' /\ QueueOrdered'
    BY <2>1, RequestsFrame DEF Published
  <2>3. HeadSound' /\ DoomedSound' /\ Stamped' /\ IdleEmpty' /\ LatestRestorable'
    BY <2>1 DEF IInv, HeadSound, DoomedSound, Stamped, IdleEmpty, LatestRestorable, Restorable, Publishing
  <2>4. PointersSound'
    <3>1. Published(1)
      BY <2>1 DEF Published
    <3>2. PlaceOf(queue[1].dir) = "save" => latest["save"] # NoStep
      BY <2>1, <3>1 DEF RequestSound, Steps, NoStep
    <3>3. PlaceOf(queue[1].dir) # "save" => tracker'["save"] = tracker["save"]
      BY <1>t, <2>1 DEF TypeOK, Places
    <3> QED
      BY <2>1, <3>2, <3>3 DEF IInv, PointersSound
  <2> QED
    BY <1>t, <2>2, <2>3, <2>4 DEF IInv
<1>a. ASSUME queue # <<>>, queue' = Tail(queue),
             UNCHANGED <<step, iterDirs, shards, latest>>, phase' = "top"
      PROVE  RequestsSound' /\ QueueOrdered'
  <2>1. /\ DOMAIN queue' = 1 .. (Len(queue) - 1)
        /\ \A i \in DOMAIN queue' : queue'[i] = queue[i + 1] /\ i + 1 \in DOMAIN queue
    <3>1. /\ Len(queue) \in Nat /\ DOMAIN queue = 1 .. Len(queue)
          /\ Len(queue') = Len(queue) - 1
          /\ \A i \in 1 .. Len(queue') : queue'[i] = queue[i + 1]
      BY <1>a, <1>t, QueueTyped
    <3>2. DOMAIN queue' = 1 .. Len(queue')
      BY <1>t, LenProperties DEF TypeOK
    <3> QED
      BY <3>1, <3>2
  <2>2. ASSUME NEW i \in DOMAIN queue' PROVE RequestSound(i)'
    <3>1. RequestSound(i + 1) /\ queue'[i] = queue[i + 1]
      BY <2>1 DEF IInv, RequestsSound
    <3>2. ~Published(i + 1) /\ ~Published(i)'
      BY <1>a, <2>1 DEF Published
    <3> QED
      BY <1>a, <3>1, <3>2 DEF RequestSound
  <2>3. QueueOrdered'
    <3> SUFFICES ASSUME NEW i \in DOMAIN queue', NEW j \in DOMAIN queue', i < j
                 PROVE  queue'[i].snapshot <= queue'[j].snapshot /\ queue'[i].dir # queue'[j].dir
      BY DEF QueueOrdered
    <3>1. i + 1 < j + 1
      BY <2>1
    <3> QED
      BY <2>1, <3>1 DEF IInv, QueueOrdered
  <2> QED
    BY <2>2, <2>3 DEF RequestsSound
<1>10. CASE WriteRunConfig
  <2>1. /\ phase = "config"
        /\ queue' = IF AsyncSave THEN Tail(queue) ELSE queue
        /\ phase' = IF AsyncSave THEN "top" ELSE "trim"
        /\ UNCHANGED <<step, doomed, iterDirs, shards, trainState, latest, tracker>>
        /\ queue # <<>>
    BY <1>10, HeadFacts DEF WriteRunConfig, Publishing
  <2>2. RequestsSound' /\ QueueOrdered'
    <3>1. CASE AsyncSave
      BY <1>a, <2>1, <3>1
    <3>2. CASE ~AsyncSave
      BY <2>1, <3>2, RequestsFrame DEF Published
    <3> QED
      BY <3>1, <3>2
  <2>3. HeadSound' /\ IdleEmpty'
    BY <2>1 DEF IInv, HeadSound, AllRanksDone, IdleEmpty, Publishing
  <2>4. DoomedSound' /\ Stamped' /\ PointersSound' /\ LatestRestorable'
    BY <2>1 DEF IInv, DoomedSound, Stamped, PointersSound, LatestRestorable, Restorable
  <2> QED
    BY <1>t, <2>2, <2>3, <2>4 DEF IInv
<1>11. CASE Trim
  <2>1. /\ phase = "trim" /\ phase' = "top" /\ queue # <<>>
        /\ UNCHANGED <<step, doomed, iterDirs, shards, trainState, runConfig, latest, tracker>>
        /\ queue' = IF AsyncSave THEN queue ELSE Tail(queue)
    <3>1. PICK old \in {{}} :
            IF AsyncSave
            THEN doomed' = doomed \cup old /\ UNCHANGED <<queue, disk>>
            ELSE Remove(old) /\ queue' = Tail(queue) /\ UNCHANGED <<doomed, latest, tracker>>
      <4>1. ~(MostRecentK > -1)
        BY <1>11
      <4> QED
        BY <1>11, <4>1, Zenon DEF Trim
    <3>2. old = {}
      OBVIOUS
    <3>3. phase = "trim" /\ phase' = "top" /\ step' = step /\ queue # <<>>
      BY <1>11, <1>t DEF Trim, TypeInv, QueueHeld
    <3>4. CASE AsyncSave
      BY <3>1, <3>2, <3>3, <3>4 DEF disk
    <3>5. CASE ~AsyncSave
      <4>1. /\ iterDirs' = iterDirs /\ runConfig' = runConfig
            /\ shards' = [e \in Dirs |-> shards[e]]
            /\ trainState' = [e \in Dirs |-> trainState[e]]
        BY <3>1, <3>2, <3>5 DEF Remove
      <4> QED
        BY <1>t, <3>1, <3>3, <3>5, <4>1 DEF TypeOK
    <3> QED
      BY <3>4, <3>5
  <2>2. RequestsSound' /\ QueueOrdered'
    <3>1. CASE AsyncSave
      BY <2>1, <3>1, RequestsFrame DEF Published
    <3>2. CASE ~AsyncSave
      BY <1>a, <2>1, <3>2
    <3> QED
      BY <3>1, <3>2
  <2>3. HeadSound' /\ IdleEmpty' /\ DoomedSound' /\ Stamped' /\ PointersSound' /\ LatestRestorable'
    BY <2>1 DEF IInv, HeadSound, IdleEmpty, DoomedSound, Stamped, PointersSound,
                LatestRestorable, Restorable, Publishing
  <2> QED
    BY <1>t, <2>2, <2>3 DEF IInv
<1>12. CASE RemoveDoomed
  <2>1. PICK d \in doomed : doomed' = doomed \ {d} /\ Remove({d})
    BY <1>12 DEF RemoveDoomed
  <2>2. PlaceOf(d) # "save" /\ UNCHANGED <<phase, step, queue, latest, tracker>>
    BY <1>12, <2>1 DEF IInv, DoomedSound, RemoveDoomed
  <2>3. \A e \in Dirs : PlaceOf(e) = "save" =>
          /\ e \in iterDirs => e \in iterDirs'
          /\ shards'[e] = shards[e]
          /\ trainState'[e] = trainState[e]
    BY <2>1, <2>2 DEF Remove
  <2>4. RequestsSound'
    <3> SUFFICES ASSUME NEW i \in DOMAIN queue PROVE RequestSound(i)'
      BY <2>2 DEF RequestsSound
    <3>1. RequestSound(i) /\ queue[i].dir \in Dirs
      BY <1>t, QueueTyped DEF IInv, RequestsSound
    <3>2. Published(i)' <=> Published(i)
      BY <2>2 DEF Published
    <3> QED
      BY <2>2, <2>3, <3>1, <3>2 DEF RequestSound
  <2>5. LatestRestorable'
    <3> SUFFICES ASSUME latest["save"] # NoStep
                 PROVE  Restorable(<<"save", latest["save"]>>)'
      BY <2>2 DEF LatestRestorable
    <3>1. Restorable(<<"save", latest["save"]>>) /\ <<"save", latest["save"]>> \in Dirs
      BY <1>t DEF IInv, LatestRestorable, Restorable, TypeOK
    <3>2. PlaceOf(<<"save", latest["save"]>>) = "save"
      BY DEF PlaceOf
    <3> QED
      BY <2>2, <2>3, <3>1, <3>2 DEF Restorable
  <2>6. HeadSound'
    <3>1. phase \in Publishing => 1 \in DOMAIN queue /\ queue[1].dir \in Dirs
      BY HeadFacts
    <3> QED
      BY <2>2, <2>3, <3>1 DEF IInv, HeadSound, AllRanksDone, Publishing
  <2>7. QueueOrdered' /\ DoomedSound' /\ IdleEmpty' /\ PointersSound'
    BY <2>1, <2>2 DEF IInv, QueueOrdered, DoomedSound, IdleEmpty, PointersSound
  <2>8. Stamped'
    BY <2>1 DEF Remove, IInv, Stamped
  <2> QED
    BY <1>t, <2>4, <2>5, <2>6, <2>7, <2>8 DEF IInv
<1>13. CASE Exit
  BY <1>13, <1>t, StopSound DEF Exit
<1>14. CASE Crash
  BY <1>14, <1>t, StopSound DEF Crash
<1>15. CASE WriteFails
  BY <1>15, <1>t, StopSound DEF WriteFails
<1>b. ASSUME phase \in {"down", "failed"}, phase' \in {"top", "down", "failed"},
             UNCHANGED <<queue, doomed, disk>>, latest["save"] <= step'
      PROVE  IInv'
  <2>1. queue' = <<>> /\ DOMAIN queue' = {}
    BY <1>b DEF IInv, IdleEmpty
  <2>2. UNCHANGED <<doomed, iterDirs, shards, trainState, runConfig, latest, tracker>>
    BY <1>b DEF disk
  <2> QED
    BY <1>b, <1>t, <2>1, <2>2
    DEF IInv, RequestsSound, QueueOrdered, HeadSound, DoomedSound, Stamped, IdleEmpty,
        PointersSound, LatestRestorable, Restorable, Publishing
<1>16. CASE LaunchFresh
  <2>1. latest["save"] = 0
    BY <1>16 DEF LaunchFresh, CheckpointExists, NoStep
  <2> QED
    BY <1>16, <1>b, <2>1 DEF LaunchFresh
<1>17. CASE LaunchResume
  <2>1. latest["save"] <= step'
    BY <1>17, ResumeIsNotBehind
  <2> QED
    BY <1>17, <1>b, <2>1 DEF LaunchResume
<1>18. CASE LaunchFails
  BY <1>18, <1>b, <1>n DEF LaunchFails
<1>19. CASE Requeue
  BY <1>19, <1>b, <1>n DEF Requeue
<1>20. CASE UNCHANGED vars
  <2>1. UNCHANGED <<phase, step, queue, doomed, iterDirs, shards, trainState, runConfig, latest, tracker>>
    BY <1>20 DEF vars, memory, disk
  <2>2. RequestsSound' /\ QueueOrdered'
    BY <2>1, RequestsFrame DEF Published
  <2> QED
    BY <1>t, <2>1, <2>2
    DEF IInv, HeadSound, AllRanksDone, DoomedSound, Stamped, IdleEmpty,
        PointersSound, LatestRestorable, Restorable
<1> QED
  BY <1>1, <1>2, <1>3, <1>4, <1>5, <1>6, <1>7, <1>8, <1>9, <1>10, <1>11, <1>12,
     <1>13, <1>14, <1>15, <1>16, <1>17, <1>18, <1>19, <1>20 DEF Next

LEMMA Soundness ==
    ASSUME MostRecentK = -1, ~SavesTwice
    PROVE  Spec => []IInv
<1>1. IInv /\ [Next]_vars => IInv'
  BY NextSound
<1> QED
  BY <1>1, InitSound, PTL DEF Spec

----------------------------------------------------------------------------
(* What follows from the inductive invariant.                              *)

(***************************************************************************)
(* Whatever crashes, overlapping asynchronous saves and interleavings of   *)
(* writers occur, the checkpoint latest_train_state.pt names exists, is    *)
(* whole and carries the right train state.                                *)
(***************************************************************************)
THEOREM LatestAlwaysRestorable ==
    ASSUME MostRecentK = -1, ~SavesTwice
    PROVE  Spec => []LatestRestorable
<1>1. IInv => LatestRestorable
  BY DEF IInv
<1>2. Spec => []IInv
  BY Soundness
<1> QED
  BY <1>1, <1>2, PTL

\* Only PublishLatest changes a pointer, and it moves the persistent one to
\* the step of a request that is newer.
LEMMA PointerStep ==
    ASSUME IInv, [Next]_vars
    PROVE  \/ latest' = latest
           \/ /\ PublishLatest
              /\ latest'["save"] >= latest["save"]
              /\ latest'["save"] <= step /\ step' = step
<1> USE ConstantsAssumption
<1>1. CASE PublishLatest
  <2>1. /\ phase = "latest" /\ 1 \in DOMAIN queue /\ Head(queue) = queue[1]
        /\ queue[1].dir \in Dirs /\ RequestSound(1) /\ ~Published(1)
        /\ queue[1].snapshot \in Int
    BY <1>1, HeadFacts DEF PublishLatest, Publishing, Published, Steps
  <2>2. /\ latest' = [latest EXCEPT ![PlaceOf(queue[1].dir)] = trainState[queue[1].dir]]
        /\ step' = step
    BY <1>1, <2>1 DEF PublishLatest
  <2>3. latest \in [Places -> Nat] /\ latest["save"] <= step
    BY DEF IInv, TypeInv, TypeOK, Steps, NoStep, PointersSound
  <2>4. CASE PlaceOf(queue[1].dir) = "save"
    <3>1. latest'["save"] = queue[1].snapshot
      BY <2>1, <2>2, <2>3, <2>4 DEF IInv, HeadSound, Places
    <3> QED
      BY <1>1, <2>1, <2>2, <2>3, <2>4, <3>1 DEF RequestSound, Places
  <2>5. CASE PlaceOf(queue[1].dir) # "save"
    BY <1>1, <2>2, <2>3, <2>5 DEF Places
  <2> QED
    BY <2>4, <2>5
<1>2. CASE ~PublishLatest
  BY <1>2
  DEF Next, TrainStep, NoSave, StartSave, BeginShard, EndShard, Finalize, WriteTrainState,
      WriteTracker, WriteRunConfig, Trim, RemoveDoomed, Exit, Crash, WriteFails, Stop,
      LaunchFresh, LaunchResume, LaunchFails, Requeue, Remove, disk, vars
<1> QED
  BY <1>1, <1>2

(***************************************************************************)
(* The persistent pointer never moves back.                                *)
(***************************************************************************)
THEOREM LatestMonotone ==
    ASSUME MostRecentK = -1, ~SavesTwice
    PROVE  Spec => LatestNeverRegresses
<1>1. IInv /\ [Next]_vars => [latest'["save"] >= latest["save"]]_vars
  <2> SUFFICES ASSUME IInv, [Next]_vars PROVE latest'["save"] >= latest["save"]
    OBVIOUS
  <2>1. latest["save"] \in Int
    BY ConstantsAssumption DEF IInv, TypeInv, TypeOK, Places, Steps, NoStep
  <2> QED
    BY <2>1, PointerStep
<1>2. Spec => []IInv
  BY Soundness
<1> QED
  BY <1>1, <1>2, PTL DEF Spec, LatestNeverRegresses

(***************************************************************************)
(* No relaunch resumes behind the persistent pointer.                      *)
(***************************************************************************)
THEOREM ResumeNeverLosesPublished ==
    ASSUME MostRecentK = -1, ~SavesTwice
    PROVE  Spec => ResumesFromLatest
<1>1. IInv /\ [Next]_vars => [phase = "down" /\ phase' = "top" => step' >= latest["save"]]_vars
  <2> SUFFICES ASSUME IInv, [Next]_vars, phase = "down", phase' = "top", ~UNCHANGED vars
               PROVE  step' >= latest["save"]
    OBVIOUS
  <2>1. LaunchFresh \/ LaunchResume
    BY DEF Next, TrainStep, NoSave, StartSave, SavePoint, BeginShard, EndShard, Finalize,
           WriteTrainState, PublishLatest, WriteTracker, WriteRunConfig, Trim, RemoveDoomed,
           Exit, Crash, WriteFails, Stop, LaunchFails, Requeue, Running, Publishing
  <2>2. /\ latest["save"] \in Int /\ step' \in Int
    BY NextTyped, ConstantsAssumption DEF IInv, TypeInv, TypeOK, Places, Steps, NoStep
  <2>3. CASE LaunchFresh
    BY <2>3 DEF LaunchFresh, CheckpointExists, NoStep
  <2>4. CASE LaunchResume
    BY <2>2, <2>4, ResumeIsNotBehind
  <2> QED
    BY <2>1, <2>3, <2>4
<1>2. Spec => []IInv
  BY Soundness
<1> QED
  BY <1>1, <1>2, PTL DEF Spec, ResumesFromLatest

(***************************************************************************)
(* Saves publish in the order they were taken.                             *)
(***************************************************************************)
THEOREM QueueAlwaysAhead ==
    ASSUME MostRecentK = -1, ~SavesTwice
    PROVE  Spec => []QueueIsAhead
<1>1. IInv => QueueIsAhead
  <2> SUFFICES ASSUME IInv, NEW i \in DOMAIN queue
               PROVE  /\ queue[i].snapshot <= step
                      /\ \A j \in DOMAIN queue : i < j => queue[i].snapshot <= queue[j].snapshot
                      /\ PlaceOf(queue[i].dir) = "save" => queue[i].snapshot >= latest["save"]
    BY DEF QueueIsAhead
  <2>1. RequestSound(i) /\ queue \in Seq(Requests)
    BY DEF IInv, RequestsSound, TypeInv, TypeOK
  <2>2. queue[i].snapshot \in Int /\ latest["save"] \in Int
    BY <2>1, QueueTyped, ConstantsAssumption DEF IInv, TypeInv, TypeOK, Places, Steps, NoStep
  <2> QED
    BY <2>1, <2>2 DEF RequestSound, IInv, QueueOrdered
<1>2. Spec => []IInv
  BY Soundness
<1> QED
  BY <1>1, <1>2, PTL

----------------------------------------------------------------------------
(* The Megatron-LM tracker of synchronous saves.                           *)

\* A synchronous save holds the loop: while it lasts it is the only request,
\* of the step the loop stands at.
OneSave ==
    IF phase \in Publishing \cup {"save", "trim"}
      THEN Len(queue) = 1 /\ queue[1].snapshot = step
      ELSE queue = <<>>

TrackerInv == OneSave /\ tracker["save"] <= latest["save"] /\ TrackerNamesCheckpoint

\* A whole persistent checkpoint that no writer still has to write stays whole.
LEMMA WholeStaysWhole ==
    ASSUME MostRecentK = -1, IInv, [Next]_vars,
           NEW e \in Dirs, PlaceOf(e) = "save", Restorable(e),
           \A i \in DOMAIN queue : queue[i].todo # {} => queue[i].dir # e
    PROVE  Restorable(e)'
<1>t. TypeOK /\ queue \in Seq(Requests)
  BY DEF IInv, TypeInv, TypeOK
<1>1. ASSUME NEW p \in Places, StartSave(p) PROVE Restorable(e)'
  <2>1. PICK old \in IF p = "non_persistent" THEN AllButLast(Globbed(p), 1) ELSE {{}} :
          LET gone == IF AsyncSave THEN {} ELSE old IN
          /\ iterDirs' = (iterDirs \ gone) \cup {<<p, step>>}
          /\ shards' = [x \in Dirs |-> IF x \in gone THEN {} ELSE shards[x]]
          /\ trainState' = [x \in Dirs |-> IF x \in gone THEN NoStep ELSE trainState[x]]
    BY <1>1 DEF StartSave
  <2>2. e \notin old
    BY <2>1, AllButLastIsSubset DEF Globbed
  <2> QED
    BY <2>1, <2>2 DEF Restorable
<1>2. ASSUME NEW r \in Ranks, BeginShard(r) PROVE Restorable(e)'
  <2>1. PICK k \in DOMAIN queue :
          /\ r \in queue[k].todo
          /\ shards' = [shards EXCEPT ![queue[k].dir] = @ \ {r}]
          /\ UNCHANGED <<iterDirs, trainState>>
    BY <1>2 DEF BeginShard
  <2>2. queue[k].dir # e
    BY <2>1
  <2> QED
    BY <1>t, <2>1, <2>2 DEF Restorable, TypeOK
<1>3. ASSUME NEW r \in Ranks, EndShard(r) PROVE Restorable(e)'
  <2>1. PICK k \in DOMAIN queue :
          /\ shards' = [shards EXCEPT ![queue[k].dir] = @ \cup {r}]
          /\ UNCHANGED <<iterDirs, trainState>>
    BY <1>3 DEF EndShard
  <2>2. shards'[e] = shards[e] \/ shards'[e] = shards[e] \cup {r}
    BY <1>t, <2>1 DEF TypeOK
  <2> QED
    BY <2>1, <2>2 DEF Restorable
<1>4. CASE WriteTrainState
  <2>1. /\ 1 \in DOMAIN queue /\ Head(queue) = queue[1] /\ queue[1].snapshot = StepOf(queue[1].dir)
    BY <1>4, HeadFacts DEF WriteTrainState, Publishing, RequestSound
  <2>2. /\ trainState' = [trainState EXCEPT ![queue[1].dir] = queue[1].snapshot]
        /\ UNCHANGED <<iterDirs, shards>>
    BY <1>4, <2>1 DEF WriteTrainState
  <2> QED
    BY <1>t, <2>1, <2>2 DEF Restorable, TypeOK
<1>5. CASE Trim
  <2>1. ~(MostRecentK > -1)
    OBVIOUS
  <2>2. UNCHANGED disk \/ Remove({})
    BY <1>5, <2>1 DEF Trim
  <2>3. CASE UNCHANGED disk
    BY <2>3 DEF disk, Restorable
  <2>4. CASE Remove({})
    BY <1>t, <2>4 DEF Remove, Restorable
  <2> QED
    BY <2>2, <2>3, <2>4
<1>6. CASE RemoveDoomed
  <2>1. PICK d \in doomed : Remove({d})
    BY <1>6 DEF RemoveDoomed
  <2>2. e # d
    BY DEF IInv, DoomedSound
  <2> QED
    BY <2>1, <2>2 DEF Remove, Restorable
<1>7. CASE \/ TrainStep \/ NoSave \/ Finalize \/ PublishLatest \/ WriteTracker \/ WriteRunConfig
           \/ Exit \/ Crash \/ WriteFails
           \/ LaunchFresh \/ LaunchResume \/ LaunchFails \/ Requeue \/ UNCHANGED vars
  BY <1>7 DEF TrainStep, NoSave, Finalize, PublishLatest, WriteTracker, WriteRunConfig, Exit, Crash,
              WriteFails, Stop, LaunchFresh, LaunchResume, LaunchFails, Requeue, vars, disk, Restorable
<1> QED
  BY <1>1, <1>2, <1>3, <1>4, <1>5, <1>6, <1>7 DEF Next

\* The request of a synchronous save is the loop's own until Trim takes it out.
LEMMA OneSaveStep ==
    ASSUME ~AsyncSave, IInv, OneSave, [Next]_vars
    PROVE  OneSave'
<1>t. TypeOK /\ TypeOK' /\ queue \in Seq(Requests) /\ Len(queue) \in Nat
  BY NextTyped, LenProperties DEF IInv, TypeInv, TypeOK
<1>1. ASSUME NEW p \in Places, StartSave(p) PROVE OneSave'
  <2> DEFINE req == [dir |-> <<p, step>>, snapshot |-> step, todo |-> Ranks, busy |-> {}]
  <2>1. /\ queue = <<>> /\ queue' = Append(queue, req) /\ phase' = "save" /\ step' = step
    BY <1>1 DEF StartSave, SavePoint, OneSave, Publishing
  <2>2. req.snapshot = step
    OBVIOUS
  <2> HIDE DEF req
  <2>3. queue' = <<req>>
    BY <2>1
  <2> QED
    BY <2>1, <2>2, <2>3 DEF OneSave
<1>2. ASSUME NEW r \in Ranks, BeginShard(r) \/ EndShard(r) PROVE OneSave'
  <2>1. /\ Len(queue') = Len(queue) /\ UNCHANGED <<phase, step>> /\ DOMAIN queue # {}
        /\ \A j \in DOMAIN queue : queue'[j].snapshot = queue[j].snapshot
    BY <1>2, <1>t, BeginShardStep, EndShardStep
  <2>2. phase \in Publishing \cup {"save", "trim"}
    BY <2>1 DEF OneSave
  <2>3. 1 \in DOMAIN queue
    BY <1>t, <2>2, LenProperties DEF OneSave
  <2> QED
    BY <2>1, <2>2, <2>3 DEF OneSave
<1>3. CASE Trim
  <2>1. phase = "trim" /\ phase' = "top" /\ queue' = Tail(queue)
    BY <1>3 DEF Trim
  <2>2. Len(queue) = 1
    BY <2>1 DEF OneSave
  <2>3. queue' = <<>>
    BY <1>t, <2>1, <2>2, EmptySeq, QueueTyped DEF TypeOK
  <2> QED
    BY <2>1, <2>3 DEF OneSave, Publishing
<1>4. CASE TrainStep \/ NoSave \/ LaunchFresh \/ LaunchResume \/ LaunchFails \/ Requeue
  BY <1>4 DEF TrainStep, NoSave, LaunchFresh, LaunchResume, LaunchFails, Requeue, OneSave, Publishing
<1>5. CASE Finalize \/ WriteTrainState \/ PublishLatest \/ WriteTracker \/ WriteRunConfig
  BY <1>5 DEF Finalize, WriteTrainState, PublishLatest, WriteTracker, WriteRunConfig, OneSave, Publishing
<1>6. CASE Exit \/ Crash \/ WriteFails
  BY <1>6 DEF Exit, Crash, WriteFails, Stop, OneSave, Publishing
<1>7. CASE RemoveDoomed \/ UNCHANGED vars
  BY <1>7 DEF RemoveDoomed, OneSave, vars, memory
<1> QED
  BY <1>1, <1>2, <1>3, <1>4, <1>5, <1>6, <1>7 DEF Next

LEMMA TrackerStep ==
    ASSUME MostRecentK = -1, ~AsyncSave, IInv, TrackerInv, [Next]_vars
    PROVE  TrackerInv'
<1> USE ConstantsAssumption
<1>t. TypeOK /\ TypeOK'
  BY NextTyped DEF IInv, TypeInv
<1>n. /\ latest["save"] \in Nat /\ latest'["save"] \in Nat /\ tracker["save"] \in Nat
      /\ latest'["save"] >= latest["save"]
  BY <1>t, PointerStep DEF TypeOK, Places, Steps, NoStep
<1>1. ASSUME NEW d, d = <<"save", tracker["save"]>>, tracker["save"] # NoStep
      PROVE  Restorable(d)'
  <2>1. Restorable(d) /\ d \in Dirs /\ PlaceOf(d) = "save"
    BY <1>1, <1>t DEF TrackerInv, TrackerNamesCheckpoint, Restorable, PlaceOf, TypeOK
  <2>2. ASSUME NEW i \in DOMAIN queue, queue[i].todo # {} PROVE queue[i].dir # d
    <3> SUFFICES ASSUME queue[i].dir = d PROVE FALSE
      OBVIOUS
    <3>1. latest["save"] # NoStep
      BY <1>1 DEF IInv, PointersSound
    <3>2. RequestSound(i) /\ PlaceOf(queue[i].dir) = "save" /\ queue[i].snapshot = tracker["save"]
      BY <1>1 DEF IInv, RequestsSound, RequestSound, PlaceOf, StepOf
    <3>3. Published(i) \/ latest["save"] < tracker["save"]
      BY <3>2 DEF RequestSound
    <3>4. Published(i) => queue[i].todo = {}
      BY HeadFacts DEF Published, Publishing
    <3> QED
      BY <1>n, <2>2, <3>3, <3>4 DEF TrackerInv
  <2> QED
    BY <2>1, <2>2, WholeStaysWhole
<1>2. CASE WriteTracker
  <2>1. /\ phase = "tracker" /\ 1 \in DOMAIN queue /\ Head(queue) = queue[1] /\ RequestSound(1)
        /\ tracker' = [tracker EXCEPT ![PlaceOf(queue[1].dir)] = step]
        /\ UNCHANGED <<step, iterDirs, shards, trainState, latest>>
        /\ queue[1].dir \in Dirs
    BY <1>2, HeadFacts DEF WriteTracker, Publishing
  <2>2. CASE PlaceOf(queue[1].dir) = "save"
    <3>1. latest["save"] = step
      BY <2>1, <2>2 DEF RequestSound, Published, TrackerInv, OneSave, Publishing
    <3>2. tracker'["save"] = step
      BY <1>t, <2>1, <2>2 DEF TypeOK, Places
    <3>3. TrackerNamesCheckpoint'
      BY <2>1, <3>1, <3>2 DEF IInv, LatestRestorable, TrackerNamesCheckpoint, Restorable
    <3> QED
      BY <1>n, <2>1, <3>1, <3>2, <3>3, OneSaveStep DEF TrackerInv
  <2>3. CASE PlaceOf(queue[1].dir) # "save"
    <3>1. tracker'["save"] = tracker["save"]
      BY <1>t, <2>1, <2>3 DEF TypeOK, Places
    <3>2. TrackerNamesCheckpoint'
      BY <1>1, <3>1 DEF TrackerNamesCheckpoint, Restorable
    <3> QED
      BY <1>n, <2>1, <3>1, <3>2, OneSaveStep DEF TrackerInv
  <2> QED
    BY <2>2, <2>3
<1>3. CASE ~WriteTracker
  <2>1. tracker' = tracker
    BY <1>3
    DEF Next, TrainStep, NoSave, StartSave, BeginShard, EndShard, Finalize, WriteTrainState,
        PublishLatest, WriteRunConfig, Trim, RemoveDoomed, Exit, Crash, WriteFails, Stop,
        LaunchFresh, LaunchResume, LaunchFails, Requeue, Remove, disk, vars
  <2>2. TrackerNamesCheckpoint'
    BY <1>1, <2>1 DEF TrackerNamesCheckpoint, Restorable
  <2> QED
    BY <1>n, <2>1, <2>2, OneSaveStep DEF TrackerInv
<1> QED
  BY <1>2, <1>3

(***************************************************************************)
(* With synchronous saves the Megatron-LM tracker names a checkpoint that  *)
(* can be restored, though it is written last and from the live step: the  *)
(* loop stands still until it is written.                                  *)
(***************************************************************************)
THEOREM TrackerAlwaysNamesCheckpoint ==
    ASSUME MostRecentK = -1, ~SavesTwice, ~AsyncSave
    PROVE  Spec => []TrackerNamesCheckpoint
<1>1. Init => TrackerInv
  BY DEF Init, TrackerInv, OneSave, TrackerNamesCheckpoint, Places, NoStep, Publishing
<1>2. IInv /\ TrackerInv /\ [Next]_vars => TrackerInv'
  BY TrackerStep
<1>3. Spec => []IInv
  BY Soundness
<1>4. TrackerInv => TrackerNamesCheckpoint
  BY DEF TrackerInv
<1> QED
  BY <1>1, <1>2, <1>3, <1>4, PTL DEF Spec

----------------------------------------------------------------------------
(* The refinement of DurableProgress.                                      *)

(***************************************************************************)
(* A step of the job maps to a step of DurableProgress or to a stutter:    *)
(* iterations advance, publishing persists, the end of a process falls     *)
(* back to the durable point and a launch resumes exactly there.           *)
(***************************************************************************)
LEMMA StepRefines ==
    ASSUME ~NonPersistent, IInv, IInv', [Next]_vars
    PROVE  [Abstract!Next]_(Abstract!vars)
<1> USE ConstantsAssumption
<1> DEFINE durable == latest["save"]
<1>n. /\ step \in Nat /\ step' \in Nat /\ durable \in Nat /\ durable' \in Nat
      /\ durable <= step /\ durable' <= step'
  BY DEF IInv, TypeInv, TypeOK, Steps, NoStep, Places, PointersSound
<1>s. ASSUME Progress' = Progress, latest' = latest
      PROVE  [Abstract!Next]_(Abstract!vars)
  BY <1>s DEF Abstract!vars
<1>r. ASSUME phase \in Running, phase' \in Running, step' = step, latest' = latest
      PROVE  [Abstract!Next]_(Abstract!vars)
  BY <1>r, <1>s DEF Progress
<1>f. ASSUME phase \in Running, Stop
      PROVE  [Abstract!Next]_(Abstract!vars)
  <2>1. Progress = step /\ Progress' = durable' /\ latest' = latest
    BY <1>f DEF Stop, Progress, Running, Publishing, disk
  <2>2. Abstract!FallBack
    BY <1>n, <2>1 DEF Abstract!FallBack
  <2> QED
    BY <2>2 DEF Abstract!Next
<1>1. CASE TrainStep
  <2>1. Progress = step /\ Progress' = step + 1 /\ step < TrainIters /\ latest' = latest
    BY <1>1 DEF TrainStep, Progress, Running, disk
  <2>2. Abstract!Advance
    BY <2>1 DEF Abstract!Advance
  <2> QED
    BY <2>2 DEF Abstract!Next
<1>2. CASE PublishLatest
  <2>1. Progress = step /\ Progress' = step
    BY <1>2 DEF PublishLatest, Progress, Running, Publishing
  <2>2. durable' >= durable /\ durable' <= step
    BY <1>n, PointerStep
  <2>3. CASE durable' = durable
    BY <2>1, <2>3 DEF Abstract!vars
  <2>4. CASE durable' # durable
    <3>1. Abstract!Persist
      BY <1>n, <2>1, <2>2, <2>4 DEF Abstract!Persist
    <3> QED
      BY <3>1 DEF Abstract!Next
  <2> QED
    BY <2>3, <2>4
<1>3. CASE LaunchFresh
  <2>1. durable = 0 /\ step' = 0 /\ latest' = latest /\ phase = "down" /\ phase' = "top"
    BY <1>3 DEF LaunchFresh, CheckpointExists, NoStep, disk
  <2> QED
    BY <1>s, <2>1 DEF Progress, Running, Publishing
<1>4. CASE LaunchResume
  <2>1. phase = "down" /\ phase' = "top" /\ latest' = latest
        /\ CheckpointExists /\ step' = StepAfterLoad(Target)
    BY <1>4 DEF LaunchResume, disk
  <2>2. durable # NoStep
    BY <2>1 DEF CheckpointExists, IInv, PointersSound
  <2>3. Target = <<"save", durable>>
    BY <2>2 DEF Target, PersistentIteration
  <2>4. trainState[Target] = durable
    BY <2>2, <2>3 DEF IInv, LatestRestorable, Restorable, StepOf
  <2>5. step' = durable
    BY <2>1, <2>2, <2>4 DEF StepAfterLoad
  <2> QED
    BY <1>s, <2>1, <2>5 DEF Progress, Running, Publishing
<1>5. CASE NoSave \/ Finalize \/ WriteTrainState \/ WriteTracker \/ WriteRunConfig
  BY <1>5, <1>r DEF NoSave, Finalize, WriteTrainState, WriteTracker, WriteRunConfig,
                    Running, Publishing, disk
<1>6. ASSUME NEW p \in Places, StartSave(p)
      PROVE  [Abstract!Next]_(Abstract!vars)
  BY <1>6, <1>r DEF StartSave, SavePoint, Running, Publishing
<1>7. ASSUME NEW r \in Ranks, BeginShard(r) \/ EndShard(r)
      PROVE  [Abstract!Next]_(Abstract!vars)
  BY <1>7, <1>r DEF BeginShard, EndShard
<1>8. CASE Trim \/ RemoveDoomed
  <2>1. UNCHANGED <<step, latest>> /\ phase \in Running /\ phase' \in Running
    BY <1>8 DEF Trim, RemoveDoomed, Running, disk
  <2> QED
    BY <1>r, <2>1
<1>9. CASE Exit \/ Crash \/ WriteFails
  BY <1>9, <1>f DEF Exit, Crash, WriteFails, Running
<1>10. CASE LaunchFails \/ Requeue
  <2>1. phase \notin Running /\ phase' \notin Running /\ latest' = latest
    BY <1>10 DEF LaunchFails, Requeue, Running, Publishing, disk
  <2> QED
    BY <1>s, <2>1 DEF Progress
<1>11. CASE UNCHANGED vars
  <2>1. UNCHANGED <<phase, step, latest>>
    BY <1>11 DEF vars, memory, disk
  <2> QED
    BY <1>s, <2>1 DEF Progress
<1> QED
  BY <1>1, <1>2, <1>3, <1>4, <1>5, <1>6, <1>7, <1>8, <1>9, <1>10, <1>11 DEF Next

(***************************************************************************)
(* A job without non-persistent checkpoints implements DurableProgress: a  *)
(* fault never costs work that was published.                              *)
(***************************************************************************)
THEOREM Refinement ==
    ASSUME MostRecentK = -1, ~SavesTwice, ~NonPersistent
    PROVE  Spec => ImplementsDurableProgress
<1>1. Init => Abstract!Init
  BY DEF Init, Abstract!Init, Progress, Running, Publishing, Places, NoStep
<1>2. IInv /\ IInv' /\ [Next]_vars => [Abstract!Next]_(Abstract!vars)
  BY StepRefines
<1>3. Spec => []IInv
  BY Soundness
<1> QED
  BY <1>1, <1>2, <1>3, PTL DEF Spec, ImplementsDurableProgress, Abstract!Spec

----------------------------------------------------------------------------
(* Pointers move to whole checkpoints.                                     *)

(***************************************************************************)
(* The invariant.  IInv speaks of persistent checkpoints that nothing      *)
(* removes; here a directory may vanish while it is written or published,  *)
(* so each part says what holds as long as the directory exists.  A        *)
(* directory that is removed does not come back while a request for it     *)
(* waits: no step is saved twice, so each request has a directory of its   *)
(* own.                                                                    *)
(***************************************************************************)
OwnDirs == \A i, j \in DOMAIN queue : i # j => queue[i].dir # queue[j].dir

NamedAfterStep == \A i \in DOMAIN queue : queue[i].snapshot = StepOf(queue[i].dir)

ShardsKept ==
    \A i \in DOMAIN queue :
        queue[i].dir \in iterDirs => Ranks \ (queue[i].todo \cup queue[i].busy) \subseteq shards[queue[i].dir]

HeadDone == phase \in Publishing => AllRanksDone(queue[1])

HeadStamped ==
    phase = "latest" /\ queue[1].dir \in iterDirs => trainState[queue[1].dir] = queue[1].snapshot

PublishInv == TypeInv /\ OwnDirs /\ NamedAfterStep /\ ShardsKept /\ HeadDone /\ HeadStamped

LEMMA InitPublish == Init => PublishInv
<1> SUFFICES ASSUME Init PROVE PublishInv
  OBVIOUS
<1>1. TypeInv
  BY InitTyped
<1>2. DOMAIN queue = {} /\ phase = "down"
  BY DEF Init
<1> QED
  BY <1>1, <1>2
  DEF PublishInv, OwnDirs, NamedAfterStep, ShardsKept, HeadDone, HeadStamped, Publishing

\* Requests that leave the queue, and directories that vanish, disturb nothing.
LEMMA LeavingKeeps ==
    ASSUME PublishInv, TypeInv',
           queue' \in {queue, <<>>} \/ (queue # <<>> /\ queue' = Tail(queue)),
           iterDirs' \subseteq iterDirs,
           \A d \in iterDirs' : shards'[d] = shards[d]
    PROVE  OwnDirs' /\ NamedAfterStep' /\ ShardsKept'
<1>t. queue \in Seq(Requests)
  BY DEF PublishInv, TypeInv, TypeOK
<1>1. CASE queue' = queue
  BY <1>1 DEF PublishInv, OwnDirs, NamedAfterStep, ShardsKept
<1>2. CASE queue' = <<>>
  <2>1. DOMAIN queue' = {}
    BY <1>2
  <2> QED
    BY <2>1 DEF OwnDirs, NamedAfterStep, ShardsKept
<1>3. CASE queue # <<>> /\ queue' = Tail(queue)
  <2>1. /\ DOMAIN queue = 1 .. Len(queue) /\ Len(queue) \in Nat
        /\ Tail(queue) \in Seq(Requests) /\ Len(Tail(queue)) = Len(queue) - 1
        /\ \A i \in 1 .. Len(Tail(queue)) : Tail(queue)[i] = queue[i + 1]
    BY <1>t, <1>3, QueueTyped
  <2>2. DOMAIN Tail(queue) = 1 .. Len(Tail(queue))
    BY <2>1, QueueTyped, LenProperties
  <2>3. DOMAIN queue' = 1 .. (Len(queue) - 1)
    BY <1>3, <2>1, <2>2
  <2>4. \A i \in DOMAIN queue' : i + 1 \in DOMAIN queue /\ i \in Int /\ queue'[i] = queue[i + 1]
    <3> SUFFICES ASSUME NEW i \in DOMAIN queue'
                 PROVE  i + 1 \in DOMAIN queue /\ i \in Int /\ queue'[i] = queue[i + 1]
      OBVIOUS
    <3>1. i \in 1 .. (Len(queue) - 1) /\ i \in Int
      BY <2>1, <2>3
    <3>2. i + 1 \in 1 .. Len(queue) /\ i \in 1 .. Len(Tail(queue))
      BY <2>1, <3>1
    <3> QED
      BY <1>3, <2>1, <3>1, <3>2
  <2>5. OwnDirs'
    BY <2>4 DEF PublishInv, OwnDirs
  <2>6. NamedAfterStep'
    BY <2>4 DEF PublishInv, NamedAfterStep
  <2>7. ShardsKept'
    <3> SUFFICES ASSUME NEW i \in DOMAIN queue', queue'[i].dir \in iterDirs'
                 PROVE  Ranks \ (queue'[i].todo \cup queue'[i].busy) \subseteq shards'[queue'[i].dir]
      BY DEF ShardsKept
    <3>1. i + 1 \in DOMAIN queue /\ queue'[i] = queue[i + 1]
      BY <2>4
    <3>2. Ranks \ (queue[i + 1].todo \cup queue[i + 1].busy) \subseteq shards[queue[i + 1].dir]
      BY <3>1 DEF PublishInv, ShardsKept
    <3> QED
      BY <3>1, <3>2
  <2> QED
    BY <2>5, <2>6, <2>7
<1> QED
  BY <1>1, <1>2, <1>3

\* A new save joins the queue with a directory of its own and no shard in it.
LEMMA StartSaveKeeps ==
    ASSUME ~SavesTwice, PublishInv, TypeInv', NEW p \in Places, StartSave(p)
    PROVE  PublishInv'
<1> DEFINE d == <<p, step>>
           req == [dir |-> d, snapshot |-> step, todo |-> Ranks, busy |-> {}]
<1>t. TypeOK /\ queue \in Seq(Requests) /\ Len(queue) \in Nat /\ DOMAIN queue = 1 .. Len(queue)
  BY QueueTyped DEF PublishInv, TypeInv, TypeOK
<1>1. /\ Fresh(p) /\ step # 0
      /\ queue' = Append(queue, req)
      /\ phase' \in {"trim", "save"}
  BY DEF StartSave, SavePoint
<1>2. PICK gone : /\ iterDirs' = (iterDirs \ gone) \cup {d}
                  /\ shards' = [e \in Dirs |-> IF e \in gone THEN {} ELSE shards[e]]
  <2>1. PICK old \in IF p = "non_persistent" THEN AllButLast(Globbed(p), 1) ELSE {{}} :
          LET gone == IF AsyncSave THEN {} ELSE old IN
          /\ iterDirs' = (iterDirs \ gone) \cup {d}
          /\ shards' = [e \in Dirs |-> IF e \in gone THEN {} ELSE shards[e]]
    BY DEF StartSave
  <2> QED
    BY <2>1
<1>3. step \in Steps /\ req \in Requests
  BY <1>t, <1>1 DEF TypeOK, NoStep, Dirs, Requests
<1>4. req.dir = d /\ req.snapshot = step /\ StepOf(d) = step /\ req.todo = Ranks
  BY DEF StepOf
<1> HIDE DEF req
<1>5. /\ DOMAIN queue' = 1 .. (Len(queue) + 1)
      /\ \A i \in DOMAIN queue : queue'[i] = queue[i]
      /\ queue'[Len(queue) + 1] = req
  BY <1>t, <1>1, <1>3, AppendProperties, LenProperties
<1>6. \A i \in DOMAIN queue : queue[i].dir # d /\ queue[i].dir \in Dirs
  BY <1>t, <1>1, QueueTyped DEF Fresh
<1>7. \A i \in DOMAIN queue' : i \in DOMAIN queue \/ i = Len(queue) + 1
  BY <1>t, <1>5
<1>n. Len(queue) + 1 \notin DOMAIN queue
  BY <1>t
<1> HIDE DEF d
<1>8. OwnDirs'
  BY <1>4, <1>5, <1>6, <1>7, <1>n DEF PublishInv, OwnDirs
<1>9. NamedAfterStep'
  BY <1>4, <1>5, <1>7 DEF PublishInv, NamedAfterStep
<1>10. ShardsKept'
  <2> SUFFICES ASSUME NEW i \in DOMAIN queue', queue'[i].dir \in iterDirs'
               PROVE  Ranks \ (queue'[i].todo \cup queue'[i].busy) \subseteq shards'[queue'[i].dir]
    BY DEF ShardsKept
  <2>1. CASE i \in DOMAIN queue
    <3>1. queue'[i] = queue[i] /\ queue[i].dir # d /\ queue[i].dir \in Dirs
      BY <1>5, <1>6, <2>1
    <3>2. queue[i].dir \in iterDirs /\ shards'[queue[i].dir] = shards[queue[i].dir]
      BY <1>2, <3>1
    <3> QED
      BY <2>1, <3>1, <3>2 DEF PublishInv, ShardsKept
  <2>2. CASE i = Len(queue) + 1
    BY <1>4, <1>5, <2>2
  <2> QED
    BY <1>7, <2>1, <2>2
<1> QED
  BY <1>1, <1>8, <1>9, <1>10 DEF PublishInv, HeadDone, HeadStamped, Publishing

\* A rank that begins or ends a shard touches the directory of one request.
LEMMA ShardKeeps ==
    ASSUME PublishInv, TypeInv', NEW r \in Ranks, BeginShard(r) \/ EndShard(r)
    PROVE  PublishInv'
<1>t. TypeOK /\ queue \in Seq(Requests) /\ shards \in [Dirs -> SUBSET Ranks]
  BY DEF PublishInv, TypeInv, TypeOK
<1>1. PICK i \in DOMAIN queue :
        /\ r \in queue[i].todo \cup queue[i].busy
        /\ DOMAIN queue' = DOMAIN queue
        /\ \A j \in DOMAIN queue :
             /\ queue'[j].dir = queue[j].dir
             /\ queue'[j].snapshot = queue[j].snapshot
             /\ j # i => queue'[j].todo = queue[j].todo /\ queue'[j].busy = queue[j].busy
        /\ \/ /\ queue'[i].todo = queue[i].todo \ {r} /\ queue'[i].busy = queue[i].busy \cup {r}
              /\ shards' = [shards EXCEPT ![queue[i].dir] = @ \ {r}]
           \/ /\ queue'[i].todo = queue[i].todo /\ queue'[i].busy = queue[i].busy \ {r}
              /\ shards' = [shards EXCEPT ![queue[i].dir] = @ \cup {r}]
        /\ UNCHANGED <<phase, iterDirs, trainState>>
  <2>1. CASE BeginShard(r)
    <3>1. PICK i \in DOMAIN queue :
            /\ r \in queue[i].todo
            /\ DOMAIN queue' = DOMAIN queue
            /\ \A j \in DOMAIN queue :
                 /\ queue'[j].dir = queue[j].dir
                 /\ queue'[j].snapshot = queue[j].snapshot
                 /\ queue'[j].todo = IF j = i THEN queue[i].todo \ {r} ELSE queue[j].todo
                 /\ queue'[j].busy = IF j = i THEN queue[i].busy \cup {r} ELSE queue[j].busy
            /\ shards' = [shards EXCEPT ![queue[i].dir] = @ \ {r}]
            /\ UNCHANGED <<phase, iterDirs, trainState>>
      BY <1>t, <2>1, BeginShardStep, ZenonT(60)
    <3>2. /\ queue'[i].todo = queue[i].todo \ {r} /\ queue'[i].busy = queue[i].busy \cup {r}
          /\ \A j \in DOMAIN queue :
               j # i => queue'[j].todo = queue[j].todo /\ queue'[j].busy = queue[j].busy
      BY <3>1
    <3> QED
      BY <3>1, <3>2, ZenonT(60)
  <2>2. CASE EndShard(r)
    <3>1. PICK i \in DOMAIN queue :
            /\ r \in queue[i].busy
            /\ DOMAIN queue' = DOMAIN queue
            /\ \A j \in DOMAIN queue :
                 /\ queue'[j].dir = queue[j].dir
                 /\ queue'[j].snapshot = queue[j].snapshot
                 /\ queue'[j].todo = queue[j].todo
                 /\ queue'[j].busy = IF j = i THEN queue[i].busy \ {r} ELSE queue[j].busy
            /\ shards' = [shards EXCEPT ![queue[i].dir] = @ \cup {r}]
            /\ UNCHANGED <<phase, iterDirs, trainState>>
      BY <1>t, <2>2, EndShardStep, ZenonT(60)
    <3>2. /\ queue'[i].todo = queue[i].todo /\ queue'[i].busy = queue[i].busy \ {r}
          /\ \A j \in DOMAIN queue :
               j # i => queue'[j].todo = queue[j].todo /\ queue'[j].busy = queue[j].busy
      BY <3>1
    <3> QED
      BY <3>1, <3>2, ZenonT(60)
  <2> QED
    BY <2>1, <2>2
<1>2. \A j \in DOMAIN queue : queue[j].dir \in Dirs
  BY <1>t, QueueTyped
<1>3. OwnDirs' /\ NamedAfterStep'
  BY <1>1 DEF PublishInv, OwnDirs, NamedAfterStep
<1>4. ShardsKept'
  <2> SUFFICES ASSUME NEW j \in DOMAIN queue, queue[j].dir \in iterDirs
               PROVE  Ranks \ (queue'[j].todo \cup queue'[j].busy) \subseteq shards'[queue[j].dir]
    BY <1>1 DEF ShardsKept
  <2>1. Ranks \ (queue[j].todo \cup queue[j].busy) \subseteq shards[queue[j].dir]
    BY DEF PublishInv, ShardsKept
  <2>2. CASE j = i
    BY <1>t, <1>1, <1>2, <2>1, <2>2
  <2>3. CASE j # i
    <3>1. shards'[queue[j].dir] = shards[queue[j].dir]
      BY <1>t, <1>1, <1>2, <2>3 DEF PublishInv, OwnDirs
    <3> QED
      BY <1>1, <2>1, <2>3, <3>1
  <2> QED
    BY <2>2, <2>3
<1>5. phase \in Publishing => i # 1 /\ 1 \in DOMAIN queue
  <2> SUFFICES ASSUME phase \in Publishing PROVE i # 1 /\ 1 \in DOMAIN queue
    OBVIOUS
  <2>1. queue[1].todo = {} /\ queue[1].busy = {}
    BY DEF PublishInv, HeadDone, AllRanksDone
  <2>2. queue # <<>>
    BY DEF PublishInv, TypeInv, QueueHeld
  <2> QED
    BY <1>t, <1>1, <2>1, <2>2, QueueTyped
<1>6. HeadDone'
  BY <1>1, <1>5 DEF PublishInv, HeadDone, AllRanksDone
<1>7. HeadStamped'
  BY <1>1, <1>5 DEF PublishInv, HeadStamped, Publishing
<1> QED
  BY <1>3, <1>4, <1>6, <1>7 DEF PublishInv

LEMMA PublishStep ==
    ASSUME ~SavesTwice
    PROVE  PublishInv /\ [Next]_vars => PublishInv'
<1> SUFFICES ASSUME PublishInv, [Next]_vars PROVE PublishInv'
  OBVIOUS
<1>t. /\ TypeInv /\ TypeInv' /\ TypeOK /\ queue \in Seq(Requests)
      /\ trainState \in [Dirs -> Steps \cup {NoStep}]
  BY NextTyped DEF PublishInv, TypeInv, TypeOK
<1>h. phase \in Publishing \cup {"save", "trim"} => queue # <<>> /\ Head(queue) = queue[1]
  BY <1>t, QueueTyped DEF TypeInv, QueueHeld
<1>1. ASSUME NEW p \in Places, StartSave(p) PROVE PublishInv'
  BY <1>1, <1>t, StartSaveKeeps
<1>2. ASSUME NEW r \in Ranks, BeginShard(r) \/ EndShard(r) PROVE PublishInv'
  BY <1>2, <1>t, ShardKeeps
<1>3. CASE \/ TrainStep \/ NoSave \/ LaunchFresh \/ LaunchResume \/ LaunchFails \/ Requeue
  <2>1. UNCHANGED <<queue, iterDirs, shards>> /\ phase' \notin Publishing
    BY <1>3 DEF TrainStep, NoSave, LaunchFresh, LaunchResume, LaunchFails, Requeue, disk, Publishing
  <2> QED
    BY <1>t, <2>1, LeavingKeeps DEF PublishInv, HeadDone, HeadStamped, Publishing
<1>4. CASE Exit \/ Crash \/ WriteFails
  <2>1. queue' = <<>> /\ UNCHANGED <<iterDirs, shards>> /\ phase' = "down"
    BY <1>4 DEF Exit, Crash, WriteFails, Stop, disk
  <2> QED
    BY <1>t, <2>1, LeavingKeeps DEF PublishInv, HeadDone, HeadStamped, Publishing
<1>5. CASE Finalize
  <2>1. /\ phase' = "train_state" /\ UNCHANGED <<queue, iterDirs, shards>>
        /\ queue # <<>> /\ AllRanksDone(Head(queue))
    BY <1>5 DEF Finalize, disk
  <2>2. Head(queue) = queue[1]
    BY <1>t, <2>1, QueueTyped
  <2>3. HeadDone' /\ HeadStamped'
    BY <2>1, <2>2 DEF HeadDone, HeadStamped, AllRanksDone
  <2> QED
    BY <1>t, <2>1, <2>3, LeavingKeeps DEF PublishInv
<1>6. CASE WriteTrainState
  <2>1. /\ phase = "train_state" /\ phase' = "latest" /\ UNCHANGED <<queue, iterDirs, shards>>
        /\ trainState' = [trainState EXCEPT ![Head(queue).dir] = Head(queue).snapshot]
    BY <1>6 DEF WriteTrainState
  <2>2. Head(queue) = queue[1] /\ queue[1].dir \in Dirs
    BY <1>t, <1>h, <2>1, QueueTyped DEF Publishing
  <2>3. HeadDone' /\ HeadStamped'
    BY <1>t, <2>1, <2>2 DEF PublishInv, HeadDone, HeadStamped, AllRanksDone, Publishing
  <2> QED
    BY <1>t, <2>1, <2>3, LeavingKeeps DEF PublishInv
<1>7. CASE PublishLatest \/ WriteTracker
  <2>1. /\ phase \in Publishing /\ phase' \in {"tracker", "config"}
        /\ UNCHANGED <<queue, iterDirs, shards>>
    BY <1>7 DEF PublishLatest, WriteTracker, Publishing
  <2>2. HeadDone' /\ HeadStamped'
    BY <2>1 DEF PublishInv, HeadDone, HeadStamped, AllRanksDone
  <2> QED
    BY <1>t, <2>1, <2>2, LeavingKeeps DEF PublishInv
<1>8. CASE WriteRunConfig
  <2>1. /\ phase = "config" /\ phase' \notin Publishing /\ queue' \in {queue, Tail(queue)}
        /\ UNCHANGED <<iterDirs, shards>>
    BY <1>8 DEF WriteRunConfig, Publishing
  <2>2. queue # <<>>
    BY <1>h, <2>1 DEF Publishing
  <2> QED
    BY <1>t, <2>1, <2>2, LeavingKeeps DEF PublishInv, HeadDone, HeadStamped, Publishing
<1>9. CASE Trim
  <2>1. PICK gone : /\ iterDirs' = iterDirs \ gone
                    /\ \A e \in Dirs \ gone : shards'[e] = shards[e]
    <3>1. PICK old \in IF MostRecentK > -1
                       THEN AllButLast(Globbed(PlaceOf(queue[Len(queue)].dir)), MostRecentK) ELSE {{}} :
            IF AsyncSave THEN UNCHANGED disk ELSE Remove(old)
      BY <1>9 DEF Trim
    <3>2. CASE AsyncSave
      <4>1. iterDirs' = iterDirs \ {} /\ shards' = shards
        BY <3>1, <3>2 DEF disk
      <4> QED
        BY <4>1
    <3>3. CASE ~AsyncSave
      BY <3>1, <3>3 DEF Remove
    <3> QED
      BY <3>2, <3>3
  <2>2. phase = "trim" /\ phase' = "top" /\ queue' \in {queue, Tail(queue)}
    BY <1>9 DEF Trim
  <2>3. queue # <<>>
    BY <1>h, <2>2
  <2>4. \A e \in iterDirs' : e \in iterDirs /\ shards'[e] = shards[e]
    BY <1>t, <2>1 DEF TypeOK
  <2> QED
    BY <1>t, <2>2, <2>3, <2>4, LeavingKeeps DEF PublishInv, HeadDone, HeadStamped, Publishing
<1>10. CASE RemoveDoomed
  <2>1. PICK d \in doomed : Remove({d})
    BY <1>10 DEF RemoveDoomed
  <2>2. UNCHANGED <<phase, queue>>
    BY <1>10 DEF RemoveDoomed
  <2>3. \A e \in iterDirs' : /\ e \in iterDirs
                             /\ shards'[e] = shards[e] /\ trainState'[e] = trainState[e]
    BY <1>t, <2>1 DEF Remove, TypeOK
  <2>4. HeadDone' /\ HeadStamped'
    BY <2>2, <2>3 DEF PublishInv, HeadDone, HeadStamped, AllRanksDone
  <2> QED
    BY <1>t, <2>2, <2>3, <2>4, LeavingKeeps DEF PublishInv
<1>11. CASE UNCHANGED vars
  <2>1. UNCHANGED <<phase, queue, iterDirs, shards, trainState>>
    BY <1>11 DEF vars, memory, disk
  <2> QED
    BY <1>t, <2>1 DEF PublishInv, OwnDirs, NamedAfterStep, ShardsKept, HeadDone, HeadStamped, AllRanksDone
<1> QED
  BY <1>1, <1>2, <1>3, <1>4, <1>5, <1>6, <1>7, <1>8, <1>9, <1>10, <1>11 DEF Next

(***************************************************************************)
(* Whatever is trimmed, by whichever thread, and whatever saves overlap,   *)
(* latest_train_state.pt of either place is only ever replaced by that of  *)
(* a directory which exists, holds all shards and its own train state.     *)
(***************************************************************************)
THEOREM PointersMoveToWholeCheckpoints ==
    ASSUME ~SavesTwice
    PROVE  Spec => PublishesOnlyRestorable
<1>1. PublishInv /\ [Next]_vars =>
        [\A p \in Places : latest'[p] # latest[p] => Restorable(<<p, latest'[p]>>)]_vars
  <2> SUFFICES ASSUME PublishInv, [Next]_vars, NEW p \in Places, latest'[p] # latest[p]
               PROVE  Restorable(<<p, latest'[p]>>)
    OBVIOUS
  <2>t. /\ queue \in Seq(Requests) /\ latest \in [Places -> Steps \cup {NoStep}]
        /\ shards \in [Dirs -> SUBSET Ranks]
    BY DEF PublishInv, TypeInv, TypeOK
  <2>1. PublishLatest
    BY DEF Next, TrainStep, NoSave, StartSave, BeginShard, EndShard, Finalize, WriteTrainState,
           WriteTracker, WriteRunConfig, Trim, RemoveDoomed, Exit, Crash, WriteFails, Stop,
           LaunchFresh, LaunchResume, LaunchFails, Requeue, Remove, disk, vars
  <2>2. phase = "latest" /\ queue # <<>>
    BY <2>1 DEF PublishLatest, PublishInv, TypeInv, QueueHeld, Publishing
  <2>3. 1 \in DOMAIN queue /\ Head(queue) = queue[1] /\ queue[1].dir \in Dirs
    BY <2>t, <2>2, QueueTyped
  <2> DEFINE d == queue[1].dir
  <2>4. d \in iterDirs /\ latest' = [latest EXCEPT ![PlaceOf(d)] = trainState[d]]
    BY <2>1, <2>3 DEF PublishLatest
  <2>5. shards[d] = Ranks
    <3>1. queue[1].todo = {} /\ queue[1].busy = {}
      BY <2>2 DEF PublishInv, HeadDone, AllRanksDone, Publishing
    <3>2. Ranks \ (queue[1].todo \cup queue[1].busy) \subseteq shards[d]
      BY <2>3, <2>4 DEF PublishInv, ShardsKept
    <3> QED
      BY <2>t, <2>3, <3>1, <3>2
  <2>6. trainState[d] = StepOf(d)
    BY <2>2, <2>3, <2>4 DEF PublishInv, HeadStamped, NamedAfterStep
  <2>7. p = PlaceOf(d) /\ latest'[p] = StepOf(d)
    BY <2>t, <2>4, <2>6
  <2>8. <<p, latest'[p]>> = d
    BY <2>3, <2>7 DEF Dirs, PlaceOf, StepOf
  <2> QED
    BY <2>4, <2>5, <2>6, <2>8 DEF Restorable
<1>2. Spec => []PublishInv
  <2>1. PublishInv /\ [Next]_vars => PublishInv'
    BY PublishStep
  <2> QED
    BY <2>1, InitPublish, PTL DEF Spec
<1> QED
  BY <1>1, <1>2, PTL DEF Spec, PublishesOnlyRestorable

----------------------------------------------------------------------------
(* Synchronous saves that trim.                                            *)

(***************************************************************************)
(* The k newest directories are kept, and what a crash left unfinished     *)
(* counts among them.  A job that is killed in the middle of a save and    *)
(* resumes from an older checkpoint has such strays ahead of its pointer;  *)
(* each crash leaves at most one, so with fewer crashes than k the pointer *)
(* is never trimmed.  The bound is sharp: with k crashes it is.            *)
(***************************************************************************)
Forgiving == MostRecentK = -1 \/ MaxCrashes < MostRecentK

\* Directories of the save in progress.
InFlight == {queue[i].dir : i \in DOMAIN queue}

\* What crashes left ahead of the pointer.
Strays == {d \in iterDirs : StepOf(d) > latest["save"]} \ InFlight

(***************************************************************************)
(* A save that is about to return is the only request, is persistent, and  *)
(* has written run_config.yaml, the file a relaunch cannot do without.     *)
(***************************************************************************)
SaveInv ==
    /\ OneSave
    /\ \A d \in iterDirs \cup InFlight : PlaceOf(d) = "save"
    /\ doomed = {}
    /\ phase = "trim" => queue[1].dir \in runConfig
    /\ crashes <= MaxCrashes
    /\ Cardinality(Strays) <= crashes

LEMMA InitSave == Init => SaveInv
<1> SUFFICES ASSUME Init PROVE SaveInv
  OBVIOUS
<1>1. queue = <<>> /\ DOMAIN queue = {} /\ phase = "down" /\ iterDirs = {} /\ doomed = {} /\ crashes = 0
  BY DEF Init
<1>2. InFlight = {} /\ Strays = {}
  BY <1>1 DEF InFlight, Strays
<1>3. Cardinality(Strays) = 0
  BY <1>2, FS_EmptySet
<1> QED
  BY <1>1, <1>2, <1>3, ConstantsAssumption DEF SaveInv, OneSave, Publishing

LEMMA DirsFinite == TypeOK => IsFiniteSet(iterDirs) /\ IsFiniteSet(Strays)
<1> SUFFICES ASSUME TypeOK PROVE IsFiniteSet(iterDirs) /\ IsFiniteSet(Strays)
  OBVIOUS
<1>1. IsFiniteSet(Steps)
  BY ConstantsAssumption, FS_Interval DEF Steps
<1>2. IsFiniteSet(Places)
  <2>1. Places = {"save"} \cup {"non_persistent"}
    BY DEF Places
  <2> QED
    BY <2>1, FS_Singleton, FS_AddElement
<1>3. IsFiniteSet(Dirs)
  BY <1>1, <1>2, FS_Product DEF Dirs
<1>4. iterDirs \in SUBSET Dirs /\ Strays \in SUBSET iterDirs
  BY DEF TypeOK, Strays
<1>5. IsFiniteSet(iterDirs)
  BY <1>3, <1>4, FS_Subset
<1> QED
  BY <1>4, <1>5, FS_Subset

\* The one request in flight.
LEMMA OneInFlight ==
    ASSUME IInv, OneSave
    PROVE  \/ queue = <<>> /\ InFlight = {}
           \/ /\ queue # <<>> /\ phase \in Publishing \cup {"save", "trim"}
              /\ InFlight = {queue[1].dir} /\ 1 \in DOMAIN queue /\ DOMAIN queue = {1}
<1>t. queue \in Seq(Requests) /\ Len(queue) \in Nat /\ DOMAIN queue = 1 .. Len(queue)
  BY QueueTyped DEF IInv, TypeInv, TypeOK
<1>1. CASE phase \in Publishing \cup {"save", "trim"}
  <2>1. Len(queue) = 1
    BY <1>1 DEF OneSave
  <2>2. DOMAIN queue = {1}
    BY <1>t, <2>1
  <2>3. queue # <<>>
    BY <1>1 DEF IInv, TypeInv, QueueHeld
  <2> QED
    BY <1>1, <2>2, <2>3 DEF InFlight
<1>2. CASE phase \notin Publishing \cup {"save", "trim"}
  <2>1. queue = <<>>
    BY <1>2 DEF OneSave
  <2>2. DOMAIN queue = {}
    BY <2>1
  <2> QED
    BY <2>1, <2>2 DEF InFlight
<1> QED
  BY <1>1, <1>2

(***************************************************************************)
(* What trimming at the end of a synchronous save removes does not include *)
(* the checkpoint it has just published.                                   *)
(***************************************************************************)
LEMMA TrimSpares ==
    ASSUME Forgiving, ~AsyncSave, IInv, SaveInv, Trim
    PROVE  \E old \in SUBSET iterDirs :
             /\ Remove(old) /\ queue' = <<>> /\ phase = "trim" /\ phase' = "top"
             /\ UNCHANGED <<step, crashes, doomed, latest, tracker>>
             /\ queue[1].dir \notin old
             /\ queue[1].dir = <<"save", latest["save"]>> /\ latest["save"] = step
             /\ latest["save"] # NoStep
<1> USE ConstantsAssumption
<1> DEFINE d == queue[1].dir
<1>0. /\ phase = "trim" /\ phase' = "top" /\ UNCHANGED <<step, crashes>>
      /\ queue' = Tail(queue)
  BY DEF Trim
<1>t. TypeOK /\ queue \in Seq(Requests) /\ Len(queue) \in Nat /\ latest["save"] \in Int
  BY QueueTyped DEF IInv, TypeInv, TypeOK, Places, Steps, NoStep
<1>1. /\ 1 \in DOMAIN queue /\ RequestSound(1) /\ d \in Dirs /\ queue[1].snapshot \in Steps
      /\ InFlight = {d} /\ Len(queue) = 1
  BY <1>0, HeadFacts, OneInFlight DEF SaveInv, OneSave
<1>2. queue' = <<>>
  BY <1>0, <1>1, <1>t, QueueTyped, EmptySeq
<1>3. PlaceOf(d) = "save" /\ queue[1].snapshot = step
  BY <1>0, <1>1 DEF SaveInv, OneSave
<1>4. /\ latest["save"] = step /\ StepOf(d) = step /\ d \in iterDirs /\ step # NoStep
      /\ d = <<"save", step>>
  <2>1. latest["save"] = step /\ StepOf(d) = step /\ d \in iterDirs
    BY <1>0, <1>1, <1>3 DEF RequestSound, Published
  <2>2. step # NoStep
    BY <1>1, <1>3 DEF Steps, NoStep
  <2>3. d = <<PlaceOf(d), StepOf(d)>>
    BY <1>1 DEF Dirs, PlaceOf, StepOf
  <2> QED
    BY <1>3, <2>1, <2>2, <2>3
<1> HIDE DEF d
<1>5. Globbed("save") = iterDirs
  BY DEF Globbed
<1>6. PICK old \in IF MostRecentK > -1 THEN AllButLast(Globbed("save"), MostRecentK) ELSE {{}} :
        Remove(old) /\ UNCHANGED <<doomed, latest, tracker>>
  BY <1>1, <1>3 DEF Trim, d
<1>7. old \subseteq iterDirs
  BY <1>5, <1>6, AllButLastIsSubset
<1>8. d \notin old
  <2> SUFFICES ASSUME d \in old PROVE FALSE
    OBVIOUS
  <2>1. MostRecentK \in Nat /\ MaxCrashes < MostRecentK /\ MaxCrashes \in Nat
    BY <1>6 DEF Forgiving
  <2>2. /\ Cardinality(old) = IF MostRecentK = 0 \/ MostRecentK > Cardinality(iterDirs)
                                THEN 0 ELSE Cardinality(iterDirs) - MostRecentK
        /\ \A e \in iterDirs \ old : StepOf(d) <= StepOf(e)
    BY <1>5, <1>6, <2>1 DEF AllButLast
  <2>3. IsFiniteSet(iterDirs) /\ IsFiniteSet(old) /\ IsFiniteSet(Strays)
    BY <1>t, <1>7, DirsFinite, FS_Subset
  <2>4. Cardinality(iterDirs) \in Nat /\ Cardinality(old) \in Nat /\ Cardinality(Strays) \in Nat
    BY <2>3, FS_CardinalityType
  <2>5. Cardinality(old) # 0
    BY <2>3, FS_EmptySet
  <2>6. iterDirs \cap old = old
    BY <1>7
  <2>7. Cardinality(iterDirs \ old) = Cardinality(iterDirs) - Cardinality(old)
    BY <2>3, <2>6, FS_Difference
  <2>8. Cardinality(iterDirs \ old) = MostRecentK
    BY <2>1, <2>2, <2>4, <2>5, <2>7
  <2>9. iterDirs \ old \in SUBSET Strays
    <3> SUFFICES ASSUME NEW e \in iterDirs \ old PROVE e \in Strays
      OBVIOUS
    <3>1. e \in Dirs /\ PlaceOf(e) = "save" /\ e # d /\ StepOf(e) \in Int
      BY <1>t DEF TypeOK, SaveInv, Dirs, StepOf, Steps
    <3>2. StepOf(e) # StepOf(d)
      BY <1>1, <1>3, <3>1 DEF Dirs, PlaceOf, StepOf
    <3>3. StepOf(e) > latest["save"]
      BY <1>t, <1>4, <2>2, <3>1, <3>2
    <3> QED
      BY <1>1, <3>1, <3>3 DEF Strays
  <2>10. MostRecentK <= Cardinality(Strays)
    BY <2>3, <2>8, <2>9, FS_Subset
  <2>11. crashes \in Nat /\ crashes <= MaxCrashes /\ Cardinality(Strays) <= crashes
    BY <1>t DEF TypeOK, SaveInv
  <2> QED
    BY <2>1, <2>4, <2>10, <2>11
<1> QED
  BY <1>0, <1>2, <1>4, <1>6, <1>7, <1>8 DEF d

\* Trimming keeps the invariant of CheckpointingProofs.
LEMMA TrimSound ==
    ASSUME Forgiving, ~AsyncSave, IInv, SaveInv, Trim
    PROVE  IInv'
<1>t. TypeInv' /\ TypeOK
  BY NextTyped DEF IInv, TypeInv, Next
<1>1. PICK old \in SUBSET iterDirs :
        /\ Remove(old) /\ queue' = <<>> /\ phase' = "top"
        /\ UNCHANGED <<step, doomed, latest, tracker>>
        /\ queue[1].dir \notin old
        /\ queue[1].dir = <<"save", latest["save"]>> /\ latest["save"] # NoStep
  BY TrimSpares
<1>2. DOMAIN queue' = {}
  BY <1>1
<1>3. RequestsSound' /\ QueueOrdered' /\ HeadSound' /\ IdleEmpty'
  BY <1>1, <1>2 DEF RequestsSound, QueueOrdered, HeadSound, IdleEmpty, Publishing
<1>4. DoomedSound' /\ PointersSound'
  BY <1>1 DEF IInv, DoomedSound, PointersSound
<1>5. Stamped'
  BY <1>1 DEF IInv, Stamped, Remove
<1>6. LatestRestorable'
  <2> DEFINE d == <<"save", latest["save"]>>
  <2>1. Restorable(d)
    BY <1>1 DEF IInv, LatestRestorable
  <2>2. d \in Dirs /\ d \notin old
    BY <1>1, <1>t, <2>1 DEF Restorable, TypeOK
  <2>3. d \in iterDirs' /\ shards'[d] = shards[d] /\ trainState'[d] = trainState[d]
    BY <1>1, <2>1, <2>2 DEF Remove, Restorable
  <2>4. d' = d
    BY <1>1
  <2> HIDE DEF d
  <2>5. Restorable(d)'
    BY <2>1, <2>3, <2>4 DEF Restorable
  <2> QED
    BY <2>5 DEF LatestRestorable, d
<1> QED
  BY <1>3, <1>4, <1>5, <1>6, <1>t DEF IInv

(***************************************************************************)
(* Only a crash adds a stray: otherwise none appears, for a directory that *)
(* is made is in flight, and it is the pointer when it stops being so.     *)
(***************************************************************************)
LEMMA FewStrays ==
    ASSUME IInv, SaveInv, TypeOK', crashes' = crashes, Strays' \subseteq Strays
    PROVE  Cardinality(Strays') <= crashes'
<1>1. IsFiniteSet(Strays) /\ IsFiniteSet(Strays') /\ crashes \in Nat
  BY DirsFinite, FS_Subset DEF IInv, TypeInv, TypeOK
<1>2. Cardinality(Strays') <= Cardinality(Strays) /\ Cardinality(Strays) \in Nat
      /\ Cardinality(Strays') \in Nat
  BY <1>1, FS_Subset, FS_CardinalityType
<1> QED
  BY <1>1, <1>2 DEF SaveInv

LEMMA SaveStep ==
    ASSUME Forgiving, ~AsyncSave, ~NonPersistent, ~SavesTwice, IInv, SaveInv, [Next]_vars
    PROVE  SaveInv'
<1> USE ConstantsAssumption
<1>t. TypeOK /\ TypeOK' /\ queue \in Seq(Requests) /\ Len(queue) \in Nat /\ crashes \in Nat
  BY NextTyped, QueueTyped DEF IInv, TypeInv, TypeOK
<1>s. OneSave /\ OneSave'
  BY OneSaveStep DEF SaveInv
<1>f. \/ queue = <<>> /\ InFlight = {}
      \/ /\ queue # <<>> /\ phase \in Publishing \cup {"save", "trim"}
         /\ InFlight = {queue[1].dir} /\ 1 \in DOMAIN queue /\ DOMAIN queue = {1}
  BY <1>s, OneInFlight
<1>1. ASSUME NEW p \in Places, StartSave(p) PROVE SaveInv'
  <2> DEFINE d == <<p, step>>
             req == [dir |-> d, snapshot |-> step, todo |-> Ranks, busy |-> {}]
  <2>1. /\ queue = <<>> /\ queue' = Append(queue, req) /\ p = "save" /\ phase' = "save"
        /\ UNCHANGED <<latest, crashes>>
    BY <1>1, <1>s DEF StartSave, SavePoint, OneSave, Publishing, Places
  <2>2. doomed' = doomed /\ iterDirs' = iterDirs \cup {d}
    BY <1>1, <2>1 DEF StartSave
  <2>3. req.dir = d /\ PlaceOf(d) = p
    BY DEF PlaceOf
  <2> HIDE DEF req
  <2>4. queue' = <<req>>
    BY <2>1
  <2>5. InFlight' = {d}
    BY <2>3, <2>4 DEF InFlight
  <2>6. InFlight = {}
    BY <1>f, <2>1
  <2>7. Strays' \subseteq Strays
    BY <2>1, <2>2, <2>5, <2>6 DEF Strays
  <2>8. \A e \in iterDirs' \cup InFlight' : PlaceOf(e) = "save"
    BY <2>1, <2>2, <2>3, <2>5 DEF SaveInv
  <2> QED
    BY <1>s, <1>t, <2>1, <2>2, <2>7, <2>8, FewStrays DEF SaveInv
<1>2. ASSUME NEW r \in Ranks, BeginShard(r) \/ EndShard(r) PROVE SaveInv'
  <2>1. /\ DOMAIN queue' = DOMAIN queue /\ \A i \in DOMAIN queue : queue'[i].dir = queue[i].dir
        /\ UNCHANGED <<phase, doomed, iterDirs, runConfig, latest, crashes>>
    BY <1>2, <1>t, BeginShardStep, EndShardStep
  <2>2. InFlight' = InFlight
    BY <2>1 DEF InFlight
  <2>3. Strays' = Strays
    BY <2>1, <2>2 DEF Strays
  <2>4. phase = "trim" => 1 \in DOMAIN queue
    BY <1>f DEF IInv, TypeInv, QueueHeld
  <2> QED
    BY <1>s, <2>1, <2>2, <2>3, <2>4 DEF SaveInv
<1>3. CASE PublishLatest
  <2>1. /\ UNCHANGED <<queue, doomed, iterDirs, runConfig, crashes>> /\ phase' = "tracker"
    BY <1>3 DEF PublishLatest
  <2>2. latest'["save"] >= latest["save"] /\ latest["save"] \in Int /\ latest'["save"] \in Int
    BY <1>t, PointerStep DEF TypeOK, Places, Steps, NoStep
  <2>3. InFlight' = InFlight
    BY <2>1 DEF InFlight
  <2>4. \A d \in iterDirs : StepOf(d) \in Int
    BY <1>t DEF TypeOK, Dirs, StepOf, Steps
  <2>5. Strays' \subseteq Strays
    BY <2>1, <2>2, <2>3, <2>4 DEF Strays
  <2> QED
    BY <1>s, <1>t, <2>1, <2>3, <2>5, FewStrays DEF SaveInv
<1>4. CASE Trim
  <2>1. PICK old \in SUBSET iterDirs :
          /\ Remove(old) /\ queue' = <<>> /\ phase' = "top" /\ phase = "trim"
          /\ UNCHANGED <<step, crashes, doomed, latest, tracker>>
          /\ queue[1].dir = <<"save", latest["save"]>>
    BY <1>4, TrimSpares
  <2>2. DOMAIN queue' = {}
    BY <2>1
  <2>3. InFlight' = {} /\ iterDirs' \subseteq iterDirs
    BY <2>1, <2>2 DEF InFlight, Remove
  <2>4. InFlight = {queue[1].dir}
    BY <1>f, <2>1 DEF IInv, TypeInv, QueueHeld
  <2>5. latest["save"] \in Int /\ StepOf(queue[1].dir) = latest["save"]
    BY <1>t, <2>1 DEF TypeOK, Places, Steps, NoStep, StepOf
  <2>6. Strays' \subseteq Strays
    BY <2>1, <2>3, <2>4, <2>5 DEF Strays
  <2> QED
    BY <1>s, <1>t, <2>1, <2>3, <2>6, FewStrays DEF SaveInv
<1>5. CASE Crash
  <2>1. /\ crashes < MaxCrashes /\ crashes' = crashes + 1 /\ phase' = "down" /\ queue' = <<>> /\ doomed' = {}
        /\ UNCHANGED <<iterDirs, latest>>
    BY <1>5 DEF Crash, Stop, disk
  <2>2. DOMAIN queue' = {}
    BY <2>1
  <2>3. InFlight' = {}
    BY <2>2 DEF InFlight
  <2>4. PICK d : Strays' \subseteq Strays \cup {d}
    BY <1>f, <2>1, <2>3 DEF Strays
  <2>5. IsFiniteSet(Strays)
    BY <1>t, DirsFinite
  <2>6. /\ IsFiniteSet(Strays \cup {d})
        /\ Cardinality(Strays \cup {d}) = IF d \in Strays THEN Cardinality(Strays) ELSE Cardinality(Strays) + 1
    BY <2>5, FS_AddElement
  <2>7. IsFiniteSet(Strays') /\ Cardinality(Strays') <= Cardinality(Strays \cup {d})
    BY <2>4, <2>6, FS_Subset
  <2>8. Cardinality(Strays) \in Nat /\ Cardinality(Strays') \in Nat
    BY <2>5, <2>7, FS_CardinalityType
  <2>9. Cardinality(Strays') <= crashes'
    BY <1>t, <2>1, <2>6, <2>7, <2>8 DEF SaveInv
  <2> QED
    BY <1>s, <1>t, <2>1, <2>3, <2>9 DEF SaveInv
<1>6. CASE WriteFails
  <2>1. PICK i \in DOMAIN queue : queue[i].dir \notin iterDirs
    BY <1>6 DEF WriteFails
  <2>2. PlaceOf(queue[i].dir) = "save"
    BY <2>1 DEF SaveInv, InFlight
  <2> QED
    BY <2>1, <2>2 DEF IInv, RequestsSound, RequestSound
<1>7. CASE Exit
  <2>1. /\ phase' = "down" /\ queue' = queue /\ doomed' = {} /\ UNCHANGED <<iterDirs, latest, crashes>>
    BY <1>7 DEF Exit, Stop, disk
  <2>2. InFlight' = InFlight
    BY <2>1 DEF InFlight
  <2>3. Strays' = Strays
    BY <2>1, <2>2 DEF Strays
  <2> QED
    BY <1>s, <2>1, <2>2, <2>3 DEF SaveInv
<1>8. CASE RemoveDoomed
  BY <1>8 DEF RemoveDoomed, SaveInv
<1>9. CASE \/ TrainStep \/ NoSave \/ Finalize \/ WriteTrainState \/ WriteTracker \/ WriteRunConfig
           \/ LaunchFresh \/ LaunchResume \/ LaunchFails \/ Requeue \/ UNCHANGED vars
  <2>1. UNCHANGED <<queue, doomed, iterDirs, latest, crashes>>
    BY <1>9 DEF TrainStep, NoSave, Finalize, WriteTrainState, WriteTracker, WriteRunConfig,
                LaunchFresh, LaunchResume, LaunchFails, Requeue, vars, memory, disk
  <2>2. InFlight' = InFlight
    BY <2>1 DEF InFlight
  <2>3. Strays' = Strays
    BY <2>1, <2>2 DEF Strays
  <2>4. phase' = "trim" => queue'[1].dir \in runConfig'
    <3> SUFFICES ASSUME phase' = "trim" PROVE queue'[1].dir \in runConfig'
      OBVIOUS
    <3>1. CASE WriteRunConfig
      <4>1. phase = "config" /\ runConfig' = runConfig \cup {Head(queue).dir}
        BY <3>1 DEF WriteRunConfig
      <4>2. Head(queue) = queue[1]
        BY <4>1, HeadFacts DEF Publishing
      <4> QED
        BY <2>1, <4>1, <4>2
    <3>2. CASE ~WriteRunConfig
      <4>1. UNCHANGED <<phase, runConfig>>
        BY <1>9, <3>2 DEF TrainStep, NoSave, Finalize, WriteTrainState, WriteTracker,
                LaunchFresh, LaunchResume, LaunchFails, Requeue, vars, memory, disk
      <4> QED
        BY <2>1, <4>1 DEF SaveInv
    <3> QED
      BY <3>1, <3>2
  <2> QED
    BY <1>s, <2>1, <2>2, <2>3, <2>4 DEF SaveInv
<1> QED
  BY <1>1, <1>2, <1>3, <1>4, <1>5, <1>6, <1>7, <1>8, <1>9 DEF Next

LEMMA SynchronousSound ==
    ASSUME Forgiving, ~AsyncSave, ~NonPersistent, ~SavesTwice
    PROVE  Spec => [](IInv /\ SaveInv)
<1>1. Init => IInv /\ SaveInv
  BY InitSound, InitSave
<1>2. IInv /\ SaveInv /\ [Next]_vars => (IInv /\ SaveInv)'
  <2> SUFFICES ASSUME IInv, SaveInv, [Next]_vars PROVE IInv' /\ SaveInv'
    OBVIOUS
  <2>1. CASE Trim
    BY <2>1, TrimSound, SaveStep
  <2>2. CASE ~Trim
    BY <2>2, NextSound, SaveStep
  <2> QED
    BY <2>1, <2>2
<1> QED
  BY <1>1, <1>2, PTL DEF Spec

(***************************************************************************)
(* However often old checkpoints are trimmed, the one that                 *)
(* latest_train_state.pt names exists and can be restored, as long as the  *)
(* job is killed less often than checkpoints are kept.                     *)
(***************************************************************************)
THEOREM TrimmingSparesLatest ==
    ASSUME Forgiving, ~AsyncSave, ~NonPersistent, ~SavesTwice
    PROVE  Spec => []LatestRestorable
<1>1. IInv => LatestRestorable
  BY DEF IInv
<1>2. Spec => [](IInv /\ SaveInv)
  BY SynchronousSound
<1> QED
  BY <1>1, <1>2, PTL

(***************************************************************************)
(* When a synchronous save_checkpoint returns, with trimming or without,   *)
(* what a job launched right after it would load exists, is whole and is   *)
(* the step just trained.                                                  *)
(***************************************************************************)
THEOREM SynchronousSaveIsDurable ==
    ASSUME Forgiving, ~AsyncSave, ~NonPersistent, ~SavesTwice
    PROVE  Spec => SaveReturnsDurable
<1>1. IInv /\ SaveInv /\ [Next]_vars =>
        [phase = "trim" /\ phase' = "top" => Loadable(Target)' /\ StepAfterLoad(Target)' = step]_vars
  <2> SUFFICES ASSUME IInv, SaveInv, [Next]_vars, phase = "trim", phase' = "top"
               PROVE  Loadable(Target)' /\ StepAfterLoad(Target)' = step
    OBVIOUS
  <2>t. TypeOK
    BY DEF IInv, TypeInv
  <2>1. Trim
    BY DEF Next, TrainStep, NoSave, StartSave, SavePoint, BeginShard, EndShard, Finalize,
           WriteTrainState, PublishLatest, WriteTracker, WriteRunConfig, RemoveDoomed, Exit, Crash,
           WriteFails, Stop, LaunchFresh, LaunchResume, LaunchFails, Requeue, vars, memory
  <2>2. PICK old \in SUBSET iterDirs :
          /\ Remove(old) /\ UNCHANGED <<latest, tracker>>
          /\ queue[1].dir \notin old
          /\ queue[1].dir = <<"save", latest["save"]>> /\ latest["save"] = step
          /\ latest["save"] # NoStep
    BY <2>1, TrimSpares
  <2> DEFINE d == <<"save", latest["save"]>>
  <2>3. Restorable(d) /\ d \in runConfig /\ d \notin old
    BY <2>2 DEF IInv, LatestRestorable, SaveInv
  <2>4. d \in iterDirs /\ shards[d] = Ranks /\ trainState[d] = step /\ d \in Dirs
    BY <2>t, <2>2, <2>3 DEF Restorable, StepOf, TypeOK
  <2>5. Target' = d
    BY <2>2 DEF Target, PersistentIteration
  <2>6. step # NoStep
    BY <2>2
  <2> HIDE DEF d
  <2>7. d \in iterDirs' /\ shards'[d] = Ranks /\ trainState'[d] = step /\ d \in runConfig'
    BY <2>2, <2>3, <2>4 DEF Remove
  <2>8. Loadable(Target)'
    BY <2>5, <2>7 DEF Loadable
  <2>9. StepAfterLoad(Target)' = step
    BY <2>5, <2>6, <2>7 DEF StepAfterLoad
  <2> QED
    BY <2>8, <2>9
<1>2. Spec => [](IInv /\ SaveInv)
  BY SynchronousSound
<1> QED
  BY <1>1, <1>2, PTL DEF Spec, SaveReturnsDurable

(***************************************************************************)
(* Trimming loses no work that was durable: synchronous saves implement    *)
(* DurableProgress with it as without.                                     *)
(***************************************************************************)
THEOREM TrimmedRefinement ==
    ASSUME Forgiving, ~AsyncSave, ~NonPersistent, ~SavesTwice
    PROVE  Spec => ImplementsDurableProgress
<1>1. Init => Abstract!Init
  BY DEF Init, Abstract!Init, Progress, Running, Publishing, Places, NoStep
<1>2. IInv /\ IInv' /\ [Next]_vars => [Abstract!Next]_(Abstract!vars)
  BY StepRefines
<1>3. Spec => [](IInv /\ SaveInv)
  BY SynchronousSound
<1> QED
  BY <1>1, <1>2, <1>3, PTL DEF Spec, Abstract!Spec, ImplementsDurableProgress

=============================================================================
