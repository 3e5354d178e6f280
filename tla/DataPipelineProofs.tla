------------------------- MODULE DataPipelineProofs -------------------------
(***************************************************************************)
(* Theorems about DataPipeline: the counters count what was drawn, the     *)
(* ranks' samplers follow one stream, and each step takes the samples of   *)
(* its window of it, for datasets, layouts, batch sizes, schedules and     *)
(* numbers of crashes of any size.                                         *)
(***************************************************************************)
EXTENDS DataPipeline, CountingLemmas

-----------------------------------------------------------------------------
(* The counters.                                                           *)

Counts ==
    /\ consumed \in [Streams -> Nat] /\ ckpt.consumed \in [Streams -> Nat]
    /\ skipped \in Nat /\ ckpt.skipped \in Nat /\ doing \in Streams

LEMMA BatchSizeIsNat == \A s, n : BatchSize(s, n) \in Nat
BY DataAssumption DEF BatchSize

LEMMA CountsInit == Init => Counts
BY DEF Init, Counts, Streams

\* A restart brings back counts that were saved; nothing else lowers them.
LEMMA CountsStep ==
    ASSUME Counts, [Next]_vars
    PROVE  /\ Counts'
           /\ \A s \in Streams :
                consumed'[s] # consumed[s] =>
                    \/ status = "down" /\ consumed'[s] = ckpt.consumed[s]
                    \/ doing = s /\ consumed'[s] = consumed[s] + BatchSize(s, consumed.train)
<1> DEFINE Follows ==
        \A s \in Streams :
            consumed'[s] # consumed[s] =>
                \/ status = "down" /\ consumed'[s] = ckpt.consumed[s]
                \/ doing = s /\ consumed'[s] = consumed[s] + BatchSize(s, consumed.train)
<1> SUFFICES Counts' /\ Follows OBVIOUS
<1> USE DataAssumption DEF Counts, Streams
<1>1. ASSUME NEW r \in Ranks, Draw(r) PROVE Counts' /\ Follows
  BY <1>1 DEF Draw, turn, model
<1>2. CASE EndTrainStep
  <2>1. Size \in Nat BY BatchSizeIsNat DEF Size
  <2>2. doing = "train" /\ consumed' = [consumed EXCEPT !.train = @ + Size] /\ UNCHANGED ckpt
        /\ skipped' \in {skipped, skipped + Size} /\ doing' \in {doing, "valid"}
        BY <1>2 DEF EndTrainStep, turn
  <2>3. Size = BatchSize("train", consumed.train) BY <2>2 DEF Size
  <2> QED BY <2>1, <2>2, <2>3
<1>3. CASE EndEvalStep
  <2>1. doing = "valid" /\ consumed' = [consumed EXCEPT !.valid = @ + GBS]
        /\ doing' \in {"train", "valid"} /\ UNCHANGED <<ckpt, skipped>>
        BY <1>3 DEF EndEvalStep
  <2>2. BatchSize("valid", consumed.train) = GBS BY DEF BatchSize
  <2> QED BY <2>1, <2>2
<1>4. CASE Save
  BY <1>4 DEF Save, turn, model
<1>5. CASE Finish \/ Crash
  BY <1>5 DEF Finish, Crash, turn, model
<1>6. ASSUME NEW l \in Layouts, Restart(l) PROVE Counts' /\ Follows
  <2>1. status = "down" /\ doing' = "train" /\ consumed' = ckpt.consumed /\ skipped' = ckpt.skipped
        /\ UNCHANGED ckpt
        BY <1>6 DEF Restart
  <2> QED BY <2>1
<1>7. CASE UNCHANGED vars
  BY <1>7 DEF vars, turn, model
<1> QED BY <1>1, <1>2, <1>3, <1>4, <1>5, <1>6, <1>7 DEF Next

(***************************************************************************)
(* Steps and evaluations never disturb each other's counter, and a counter *)
(* falls back only to the checkpoint's value (CountersFollowSteps), for    *)
(* every dataset, layout and schedule.                                     *)
(***************************************************************************)
THEOREM CountersAlwaysFollow == Spec => CountersFollowSteps
<1>1. Counts /\ [Next]_vars => Counts' BY CountsStep
<1>2. Counts /\ [Next]_vars =>
        [\A s \in Streams :
            consumed'[s] # consumed[s] =>
                \/ status = "down" /\ consumed'[s] = ckpt.consumed[s]
                \/ doing = s /\ consumed'[s] = consumed[s] + BatchSize(s, consumed.train)]_vars
      BY CountsStep
<1> QED BY CountsInit, <1>1, <1>2, PTL DEF Spec, CountersFollowSteps

-----------------------------------------------------------------------------
(* The ranks' samplers.                                                    *)

\* Where a rank's sampler goes from a cursor: no rank is named.
Resumed(s, c) == IF c.open THEN c ELSE Begin(s, c)
Advanced(s, c) ==
    Yield(s, IF HasNext(s, 0, Resumed(s, c).at) THEN Resumed(s, c) ELSE Begin(s, Resumed(s, c)))

\* t is the path of the samplers of stream s within a step, m its length.
PathOf(t, m, s) ==
    /\ \A i \in 0 .. m - 1 : t[i + 1] = Advanced(s, t[i])
    /\ \A r \in Ranks : Len(drawn[r]) \in 0 .. m /\ cursor[s][r] = t[Len(drawn[r])]

\* All ranks are on one path of the stream in use, as far along as they have
\* drawn, and at one place of the other stream.
OnePath ==
    /\ \A s \in Streams \ {doing} : \A r1, r2 \in Ranks : cursor[s][r1] = cursor[s][r2]
    /\ \E m \in Nat : \E t : PathOf(t, m, doing)

Shapes ==
    /\ dataset \in Datasets /\ doing \in Streams
    /\ layout \in Layouts
    /\ DOMAIN cursor = Streams
    /\ \A s \in Streams : cursor[s] = [r \in Ranks |-> cursor[s][r]]
    /\ drawn = [r \in Ranks |-> drawn[r]]
    /\ cursor = [s \in Streams |-> cursor[s]]
    /\ \A r \in Ranks : \E S : drawn[r] \in Seq(S)

LEMMA AppendGrows ==
    ASSUME NEW S, NEW s \in Seq(S), NEW e
    PROVE  Len(Append(s, e)) = Len(s) + 1 /\ \E T : Append(s, e) \in Seq(T)
<1>1. s \in Seq(S \cup {e}) OBVIOUS
<1>2. Append(s, e) \in Seq(S \cup {e}) /\ Len(Append(s, e)) = Len(s) + 1 BY <1>1
<1> QED BY <1>2

\* Rank r changes to another pass where rank 0 would.
Agrees(r) ==
    Outcome(doing, r) \in {"here", "again"} =>
        (HasNext(doing, r, Here(doing, r).at) <=> HasNext(doing, 0, Here(doing, r).at))

\* A draw moves one rank's sampler the way any rank's would move from there,
\* or ends the launch.
LEMMA DrawAdvances ==
    ASSUME Shapes, NEW r \in Ranks, Draw(r), Agrees(r)
    PROVE  /\ UNCHANGED <<dataset, layout, doing>>
           /\ \/ UNCHANGED <<cursor, drawn>>
              \/ /\ \E e : drawn' = [drawn EXCEPT ![r] = Append(@, e)]
                 /\ cursor' = [cursor EXCEPT ![doing][r] = Advanced(doing, cursor[doing][r])]
<1> DEFINE o == Outcome(doing, r)
           c == IF o = "here" THEN Here(doing, r) ELSE Again(doing, r)
<1>1. UNCHANGED <<dataset, layout, doing>> BY DEF Draw, turn
<1>2. CASE o \notin {"here", "again"} BY <1>1, <1>2 DEF Draw
<1>3. CASE o \in {"here", "again"}
  <2>1. drawn' = [drawn EXCEPT ![r] = Append(@, Batch(doing, r, c.at, c.epoch))]
        /\ cursor' = [cursor EXCEPT ![doing][r] = Yield(doing, c)]
        BY <1>3 DEF Draw
  <2>2. Here(doing, r) = Resumed(doing, cursor[doing][r]) BY DEF Here, Resumed
  <2>3. Again(doing, r) = Begin(doing, Resumed(doing, cursor[doing][r])) BY <2>2 DEF Again
  <2>4. HasNext(doing, r, Here(doing, r).at) <=> HasNext(doing, 0, Here(doing, r).at)
        BY <1>3 DEF Agrees
  <2>5. o = "here" <=> HasNext(doing, r, Here(doing, r).at) BY <1>3 DEF Outcome
  <2>6. Yield(doing, c) = Advanced(doing, cursor[doing][r])
        BY <2>2, <2>3, <2>4, <2>5 DEF Advanced
  <2> QED BY <1>1, <2>1, <2>6
<1> QED BY <1>2, <1>3

\* Rank 0 is always there.
LEMMA SomeRank == layout \in Layouts => layout.dp \in Nat /\ 0 \in Ranks
BY DataAssumption DEF Ranks

\* At the start of a step, ranks that agree on both streams are on one path.
LEMMA FreshPath ==
    ASSUME layout \in Layouts, doing \in Streams,
           \A s \in Streams : \A r1, r2 \in Ranks : cursor[s][r1] = cursor[s][r2],
           drawn = NothingDrawn
    PROVE  OnePath
<1> DEFINE t == [i \in {0} |-> cursor[doing][0]]
<1>1. \A r \in Ranks : Len(drawn[r]) = 0 BY DEF NothingDrawn
<1>2. \A r \in Ranks : cursor[doing][r] = t[0] BY SomeRank
<1> HIDE DEF t
<1>3. PathOf(t, 0, doing) BY <1>1, <1>2 DEF PathOf
<1> QED BY <1>3 DEF OnePath

\* Ranks that have all drawn what the step needs agree on both streams.
LEMMA AllAgree ==
    ASSUME OnePath, AllDrawn, doing \in Streams
    PROVE  \A s \in Streams : \A r1, r2 \in Ranks : cursor[s][r1] = cursor[s][r2]
<1>1m. PICK m \in Nat : \E t : PathOf(t, m, doing) BY DEF OnePath
<1>1. PICK t : PathOf(t, m, doing) BY <1>1m
<1>2. \A r1, r2 \in Ranks : cursor[doing][r1] = cursor[doing][r2] BY <1>1, <1>1m DEF PathOf, AllDrawn
<1> QED BY <1>2 DEF OnePath

LEMMA PathInit == Init => Shapes /\ OnePath
<1> SUFFICES ASSUME Init PROVE Shapes /\ OnePath OBVIOUS
<1>1. cursor = [s \in Streams |-> [r \in Ranks |-> Fresh(s, consumed[s])]] BY DEF Init, Samplers
<1>2. drawn = NothingDrawn /\ layout \in Layouts /\ dataset \in Datasets /\ doing = "train" BY DEF Init
<1>3. \A s \in Streams : \A r1, r2 \in Ranks : cursor[s][r1] = cursor[s][r2] BY <1>1
<1>4. doing \in Streams BY <1>2 DEF Streams
<1>5. \A r \in Ranks : drawn[r] \in Seq({}) BY <1>2 DEF NothingDrawn
<1>6. Shapes BY <1>1, <1>2, <1>4, <1>5 DEF Shapes, NothingDrawn
<1>7. OnePath BY <1>2, <1>3, <1>4, FreshPath
<1> QED BY <1>6, <1>7

\* The end of a step, on whatever stream.
LEMMA EndStepPath ==
    ASSUME Shapes, OnePath, AllDrawn, UNCHANGED <<dataset, layout, cursor>>,
           drawn' = NothingDrawn, doing' \in Streams
    PROVE  Shapes' /\ OnePath'
<1>1. Ranks' = Ranks BY DEF Ranks
<1>2. drawn' = [r \in Ranks' |-> <<>>] /\ drawn' = NothingDrawn' BY <1>1 DEF NothingDrawn
<1>3. \A s \in Streams : \A r1, r2 \in Ranks : cursor[s][r1] = cursor[s][r2]
      BY AllAgree DEF Shapes
<1>4. (\A s \in Streams : \A r1, r2 \in Ranks : cursor[s][r1] = cursor[s][r2])' BY <1>1, <1>3
<1>5. \A r \in Ranks' : drawn'[r] \in Seq({}) BY <1>2
<1>6. Shapes' BY <1>1, <1>2, <1>5 DEF Shapes
<1>7. \A r \in Ranks' : Len(drawn'[r]) = 0 BY <1>2
<1>8. PICK t : \A r \in Ranks' : cursor'[doing'][r] = t[0]
  <2> DEFINE u == [i \in {0} |-> cursor'[doing'][0]]
  <2>1. 0 \in Ranks' BY <1>1, SomeRank DEF Shapes
  <2>2. \A r \in Ranks' : cursor'[doing'][r] = u[0] BY <1>4, <2>1
  <2> QED BY <2>2
<1>9. PathOf(t, 0, doing)' BY <1>7, <1>8 DEF PathOf
<1> QED BY <1>4, <1>6, <1>9 DEF OnePath

\* Steps that leave the samplers alone.
LEMMA StillPath ==
    ASSUME Shapes, OnePath, UNCHANGED <<dataset, layout, doing, cursor, drawn>>
    PROVE  Shapes' /\ OnePath'
<1>1. Ranks' = Ranks BY DEF Ranks
<1>2. Shapes' BY <1>1 DEF Shapes
<1>3m. PICK m \in Nat : \E t : PathOf(t, m, doing) BY DEF OnePath
<1>3. PICK t : PathOf(t, m, doing) BY <1>3m
<1>4. ASSUME NEW i \in 0 .. m - 1 PROVE t[i + 1] = Advanced(doing, t[i])'
  <2>1. Advanced(doing, t[i])' = Advanced(doing, t[i])
        BY DEF Advanced, Resumed, HasNext, Begin, Yield, PassStart, KindOf, TotalOf, Chunk, Random,
               Active, Bucket, Full, Stride
  <2> QED BY <1>3, <1>3m, <2>1 DEF PathOf
<1>5. PathOf(t, m, doing)' BY <1>1, <1>3, <1>3m, <1>4 DEF PathOf
<1> QED BY <1>1, <1>2, <1>5 DEF OnePath

\* A draw moves one rank along the path; the foremost rank makes it longer.
LEMMA DrawPath ==
    ASSUME Shapes, OnePath, NEW r \in Ranks, Draw(r), Agrees(r)
    PROVE  Shapes' /\ OnePath'
<1>1. UNCHANGED <<dataset, layout, doing>> BY DrawAdvances
<1>2. Ranks' = Ranks BY <1>1 DEF Ranks
<1>3. CASE UNCHANGED <<cursor, drawn>>
  BY <1>1, <1>3, StillPath
<1>4. CASE /\ \E e : drawn' = [drawn EXCEPT ![r] = Append(@, e)]
           /\ cursor' = [cursor EXCEPT ![doing][r] = Advanced(doing, cursor[doing][r])]
  <2>1. PICK e : drawn' = [drawn EXCEPT ![r] = Append(@, e)] BY <1>4
  <2>2. PICK S : drawn[r] \in Seq(S) BY DEF Shapes
  <2>3. PICK T : Append(drawn[r], e) \in Seq(T) BY <2>2, AppendGrows
  <2>4. drawn'[r] = Append(drawn[r], e) /\ \A q \in Ranks \ {r} : drawn'[q] = drawn[q]
        BY <2>1 DEF Shapes
  <2>5. Len(drawn'[r]) = Len(drawn[r]) + 1 BY <2>2, <2>4, AppendGrows
  <2>6. /\ cursor'[doing][r] = Advanced(doing, cursor[doing][r])
        /\ \A q \in Ranks \ {r} : cursor'[doing][q] = cursor[doing][q]
        /\ \A s \in Streams \ {doing} : cursor'[s] = cursor[s]
        BY <1>4 DEF Shapes
  <2>7. Shapes'
    <3>1. \A s \in Streams : cursor'[s] = [q \in Ranks |-> cursor'[s][q]]
      <4>1. cursor'[doing] = [cursor[doing] EXCEPT ![r] = Advanced(doing, cursor[doing][r])]
            BY <1>4 DEF Shapes
      <4>2. cursor'[doing] = [q \in Ranks |-> cursor'[doing][q]] BY <4>1 DEF Shapes
      <4>3. \A s \in Streams \ {doing} : cursor'[s] = cursor[s] BY <2>6
      <4>4. \A s \in Streams \ {doing} : cursor'[s] = [q \in Ranks |-> cursor'[s][q]] BY <4>3 DEF Shapes
      <4> QED BY <4>2, <4>4
    <3>2. DOMAIN cursor' = Streams /\ cursor' = [s \in Streams |-> cursor'[s]] BY <1>4 DEF Shapes
    <3>3. drawn' = [q \in Ranks |-> drawn'[q]] BY <2>1 DEF Shapes
    <3>4. \A q \in Ranks : \E S0 : drawn'[q] \in Seq(S0) BY <2>3, <2>4 DEF Shapes
    <3> QED BY <1>1, <1>2, <3>1, <3>2, <3>3, <3>4 DEF Shapes
  <2>8. \A s \in Streams \ {doing} : \A r1, r2 \in Ranks : cursor'[s][r1] = cursor'[s][r2]
        BY <2>6 DEF OnePath
  <2>9m. PICK m \in Nat : \E t : PathOf(t, m, doing) BY DEF OnePath
  <2>9. PICK t : PathOf(t, m, doing) BY <2>9m
  <2>10. ASSUME NEW i \in 0 .. m - 1 PROVE t[i + 1] = Advanced(doing, t[i])'
    <3>1. Advanced(doing, t[i])' = Advanced(doing, t[i])
          BY <1>1 DEF Advanced, Resumed, HasNext, Begin, Yield, PassStart, KindOf, TotalOf, Chunk,
                      Random, Active, Bucket, Full, Stride
    <3> QED BY <2>9, <2>9m, <3>1 DEF PathOf
  <2>11. /\ Len(drawn[r]) \in 0 .. m /\ cursor[doing][r] = t[Len(drawn[r])]
         /\ \A q \in Ranks : Len(drawn[q]) \in 0 .. m /\ cursor[doing][q] = t[Len(drawn[q])]
         BY <2>9, <2>9m DEF PathOf
  <2>12. CASE Len(drawn[r]) < m
    <3>1. cursor'[doing][r] = t[Len(drawn[r]) + 1]
      <4>1. Len(drawn[r]) \in 0 .. m - 1 BY <2>11, <2>12
      <4> QED BY <2>6, <2>9, <2>9m, <2>11, <4>1 DEF PathOf
    <3>2. Len(drawn'[r]) \in 0 .. m BY <2>5, <2>11, <2>12
    <3>3. \A q \in Ranks : Len(drawn'[q]) \in 0 .. m /\ cursor'[doing][q] = t[Len(drawn'[q])]
          BY <2>4, <2>5, <2>6, <2>11, <3>1, <3>2
    <3>4. PathOf(t, m, doing)' BY <1>1, <1>2, <2>10, <3>3 DEF PathOf
    <3> QED BY <1>1, <1>2, <2>7, <2>8, <3>4 DEF OnePath
  <2>13. CASE Len(drawn[r]) = m
    <3>1. PICK u : /\ \A i \in 0 .. m : u[i] = t[i]
                   /\ u[m + 1] = Advanced(doing, t[m])'
      <4> DEFINE v == [i \in 0 .. m + 1 |-> IF i = m + 1 THEN Advanced(doing, t[m])' ELSE t[i]]
      <4>1. (\A i \in 0 .. m : v[i] = t[i]) /\ v[m + 1] = Advanced(doing, t[m])' OBVIOUS
      <4> QED BY <4>1
    <3>2. Advanced(doing, t[m])' = Advanced(doing, t[m])
          BY <1>1 DEF Advanced, Resumed, HasNext, Begin, Yield, PassStart, KindOf, TotalOf, Chunk,
                      Random, Active, Bucket, Full, Stride
    <3>3. cursor'[doing][r] = u[m + 1] BY <2>6, <2>11, <2>13, <3>1, <3>2
    <3>4. \A q \in Ranks : Len(drawn'[q]) \in 0 .. m + 1 /\ cursor'[doing][q] = u[Len(drawn'[q])]
          BY <2>4, <2>5, <2>6, <2>11, <2>13, <3>1, <3>3
    <3>5. ASSUME NEW i \in 0 .. m PROVE u[i + 1] = Advanced(doing, u[i])'
      <4>1. u[i] = t[i] BY <3>1
      <4>2. CASE i = m BY <3>1, <4>1, <4>2
      <4>3. CASE i < m
        <5>1. i \in 0 .. m - 1 /\ i + 1 \in 0 .. m BY <4>3
        <5> QED BY <2>10, <3>1, <4>1, <5>1
      <4> QED BY <4>2, <4>3
    <3>6. PathOf(u, m + 1, doing)' BY <1>1, <1>2, <3>4, <3>5 DEF PathOf
    <3>7. m + 1 \in Nat OBVIOUS
    <3> QED BY <1>1, <1>2, <2>7, <2>8, <3>6, <3>7 DEF OnePath
  <2> QED BY <2>11, <2>12, <2>13
<1> QED BY <1>3, <1>4, DrawAdvances

\* A restart: every rank's sampler begins at the checkpoint's counts.
LEMMA RestartPath ==
    ASSUME NEW l \in Layouts, dataset \in Datasets, Restart(l)
    PROVE  Shapes' /\ OnePath'
<1>1. layout' = l /\ UNCHANGED dataset /\ doing' = "train"
      /\ cursor' = [s \in Streams |-> [r \in 0 .. l.dp - 1 |-> Fresh(s, ckpt.consumed[s])]]
      /\ drawn' = [r \in 0 .. l.dp - 1 |-> <<>>]
      BY DEF Restart
<1>2. Ranks' = 0 .. l.dp - 1 BY <1>1 DEF Ranks
<1>3. \A s \in Streams : \A r \in Ranks' : cursor'[s][r] = Fresh(s, ckpt.consumed[s])
      BY <1>1, <1>2
<1>4. \A r \in Ranks' : drawn'[r] = <<>> /\ drawn'[r] \in Seq({}) BY <1>1, <1>2
<1>5. doing' \in Streams BY <1>1 DEF Streams
<1>6. Shapes'
  <2>1. cursor' = [s \in Streams |-> cursor'[s]] /\ DOMAIN cursor' = Streams BY <1>1
  <2>2. \A s \in Streams : cursor'[s] = [r \in Ranks' |-> cursor'[s][r]] BY <1>1, <1>2
  <2>3. drawn' = [r \in Ranks' |-> drawn'[r]] BY <1>1, <1>2
  <2> QED BY <1>1, <1>4, <1>5, <2>1, <2>2, <2>3 DEF Shapes
<1>7. PICK t : \A r \in Ranks' : cursor'[doing'][r] = t[0]
  <2> DEFINE u == [i \in {0} |-> Fresh(doing', ckpt.consumed[doing'])]
  <2>1. u[0] = Fresh(doing', ckpt.consumed[doing']) OBVIOUS
  <2> HIDE DEF u
  <2> QED BY <1>3, <1>5, <2>1
<1>8. \A r \in Ranks' : Len(drawn'[r]) = 0 BY <1>4
<1>9. PathOf(t, 0, doing)' BY <1>7, <1>8 DEF PathOf
<1>10. (\A s \in Streams \ {doing} : \A r1, r2 \in Ranks : cursor[s][r1] = cursor[s][r2])'
       BY <1>3
<1> QED BY <1>6, <1>9, <1>10 DEF OnePath

LEMMA PathStep ==
    ASSUME Shapes, OnePath, [Next]_vars, \A r \in Ranks : Agrees(r)
    PROVE  Shapes' /\ OnePath'
<1>1. ASSUME NEW r \in Ranks, Draw(r) PROVE Shapes' /\ OnePath' BY <1>1, DrawPath
<1>2. CASE EndTrainStep
  <2>1. AllDrawn /\ UNCHANGED <<dataset, layout, cursor>> /\ drawn' = NothingDrawn
        /\ doing' \in Streams
        BY <1>2 DEF EndTrainStep, job, turn, Shapes, Streams
  <2> QED BY <2>1, EndStepPath
<1>3. CASE EndEvalStep
  <2>1. AllDrawn /\ UNCHANGED <<dataset, layout, cursor>> /\ drawn' = NothingDrawn
        /\ doing' \in Streams
        BY <1>3 DEF EndEvalStep, job, Streams
  <2> QED BY <2>1, EndStepPath
<1>4. CASE Save \/ Finish \/ Crash \/ UNCHANGED vars
  <2>1. UNCHANGED <<dataset, layout, doing, cursor, drawn>>
        BY <1>4 DEF Save, Finish, Crash, vars, job, turn, data
  <2> QED BY <2>1, StillPath
<1>5. ASSUME NEW l \in Layouts, Restart(l) PROVE Shapes' /\ OnePath'
  BY <1>5, RestartPath DEF Shapes
<1> QED BY <1>1, <1>2, <1>3, <1>4, <1>5 DEF Next

\* Ranks on one path are at one place when they have drawn equally often.
LEMMA PathAligns == Shapes /\ OnePath => RanksAligned
<1> SUFFICES ASSUME Shapes, OnePath, NEW r1 \in Ranks, NEW r2 \in Ranks,
                    Len(drawn[r1]) = Len(drawn[r2]), NEW s \in Streams
             PROVE  cursor[s][r1] = cursor[s][r2]
    BY DEF RanksAligned
<1>1m. PICK m \in Nat : \E t : PathOf(t, m, doing) BY DEF OnePath
<1>1. PICK t : PathOf(t, m, doing) BY <1>1m
<1>2. CASE s = doing BY <1>1, <1>1m, <1>2 DEF PathOf
<1>3. CASE s # doing BY <1>3 DEF OnePath
<1> QED BY <1>2, <1>3

(***************************************************************************)
(* What the stream theorems assume of the constants.                       *)
(***************************************************************************)
ChunkOf(l) == l.mbs * l.dp

\* torch.randperm deals every index once.
PermInjective ==
    \A e, n \in Nat :
        /\ Perm(e, n) \in [1 .. n -> 0 .. n - 1]
        /\ \A i, j \in 1 .. n : Perm(e, n)[i] = Perm(e, n)[j] => i = j

\* No rank of the shuffled sampler finds a batch of its own in the end of a
\* pass that fills no batch of every rank.
EvenShuffle ==
    \A d \in Datasets, l \in Layouts : d.kind = "shuffled" =>
        \A n \in {d.total, ValidTotal} :
            (n \div l.mbs) * l.mbs <= (n \div ChunkOf(l)) * ChunkOf(l) + l.dp * (l.mbs - 1)

-----------------------------------------------------------------------------
(* The stream.                                                             *)

\* Epoch and offset of a count of the stream, and what a rank is given there.
EpochAt(s, n)  == IF KindOf(s) = "single" THEN 0 ELSE n \div PassLength(s)
OffsetAt(s, n) == IF KindOf(s) = "single" THEN n ELSE n % PassLength(s)
BatchAt(s, r, n) == Batch(s, r, OffsetAt(s, n), EpochAt(s, n))

\* The count of the stream a sampler stands at.
Place(s, c) ==
    IF Random(s) \/ ~c.open THEN c.mark
    ELSE IF KindOf(s) = "batch" THEN c.epoch * PassLength(s) + c.at ELSE c.at

\* Its offset and epoch are those of that count.
Sound(s, c) ==
    CASE KindOf(s) = "single" -> c.epoch = 0
      [] KindOf(s) = "batch"  ->
            TotalOf(s) >= GBS =>
                IF c.open THEN c.at <= PassLength(s) /\ c.at % GBS = 0
                ELSE /\ c.mark % TotalOf(s) = c.mark % PassLength(s)
                     /\ c.epoch = c.mark \div PassLength(s)
      [] OTHER ->
            c.open => /\ c.epoch * Active(s) + c.at = c.mark
                      /\ c.at <= Active(s) /\ c.at % Chunk = 0

\* The whole-batch sampler of the validation set, or of a run that went on where
\* the stream does not, is somewhere else.
Certain(s) == KindOf(s) = "batch" => s = "train" /\ ~diverged

Taken(s, r) == IF s = doing THEN Len(drawn[r]) ELSE 0

Trail ==
    \A s \in Streams : Certain(s) =>
        \A r \in Ranks :
            /\ Sound(s, cursor[s][r])
            /\ Place(s, cursor[s][r]) = consumed[s] + Taken(s, r) * Stride(s)
            /\ \A k \in 1 .. Taken(s, r) :
                  drawn[r][k] = BatchAt(s, r, consumed[s] + (k - 1) * Stride(s))

LastDrawn ==
    \A r \in Ranks :
        Len(drawn[r]) > 0 =>
            /\ cursor[doing][r].open
            /\ KindOf(doing) = "batch" => TotalOf(doing) >= GBS
            /\ drawn[r][Len(drawn[r])] =
                  Batch(doing, r, cursor[doing][r].at - Stride(doing), cursor[doing][r].epoch)

OnGrid(n) ==
    /\ \A l \in Layouts : n % ChunkOf(l) = 0
    /\ dataset.kind = "batch" => n % GBS = 0

Multiples == \A s \in Streams : OnGrid(consumed[s]) /\ OnGrid(ckpt.consumed[s])

-----------------------------------------------------------------------------
\* Sample i of what rank r is given at count n of the stream of a dataset of kind k
\* and t samples, in layout l; the whole-batch sampler is not dealt by layout.
Dealt(k, t, l, r, n, i) ==
    LET active == t - (t % ChunkOf(l))
        bucket == (t \div ChunkOf(l)) * l.mbs
        full   == (t \div l.mbs) * l.mbs
        at     == n % active
        epoch  == n \div active
    IN CASE k = "single"   -> <<0, n + r * l.mbs + i>>
         [] k = "sharded"  -> <<epoch, r * bucket + Perm(epoch, bucket)[at \div l.dp + (i + 1)]>>
         [] k = "shuffled" -> <<epoch, Perm(epoch, full)[at + r + l.dp * i + 1]>>

Run(epoch, at, size) == {<<epoch, at + i>> : i \in 0 .. size - 1}

\* StreamWindow, with the layout it was dealt in.
WindowIn(l, from, size) ==
    CASE dataset.kind = "single" -> Run(0, from, size)
      [] dataset.kind = "batch"  ->
            Run(from \div PassLength("train"), from % PassLength("train"), size)
      [] OTHER ->
            {Dealt(dataset.kind, dataset.total, l, r, from + k * ChunkOf(l), i) :
                r \in 0 .. l.dp - 1, i \in 0 .. l.mbs - 1, k \in 0 .. (size \div ChunkOf(l)) - 1}

\* A pass holds a batch.
PassHolds(l) ==
    /\ dataset.kind \in {"sharded", "shuffled"} => dataset.total >= ChunkOf(l)
    /\ dataset.kind = "batch" => dataset.total >= GBS

Windows(trained, count, l) ==
    \A i \in DOMAIN trained :
        /\ trained[i].from \in Nat /\ OnGrid(trained[i].from)
        /\ trained[i].size \in IF dataset.kind = "batch" THEN {GBS} ELSE {GBS, RampGBS}
        /\ trained[i].from + trained[i].size <= count
        /\ trained[i].samples = WindowIn(l, trained[i].from, trained[i].size)
        /\ PassHolds(l)

Course ==
    /\ \E S : lineage \in Seq(S) /\ ckpt.lineage \in Seq(S)
    /\ ~diverged => Windows(lineage, consumed.train, layout)
    /\ ~ckpt.diverged => Windows(ckpt.lineage, ckpt.consumed.train, ckpt.layout)

SeenIn(trained) == UNION {trained[i].samples : i \in DOMAIN trained}

Counted(trained, lost, count) ==
    IsFiniteSet(SeenIn(trained)) /\ Cardinality(SeenIn(trained)) + lost = count

Account ==
    /\ ~diverged => Counted(lineage, skipped, consumed.train)
    /\ ~ckpt.diverged => Counted(ckpt.lineage, ckpt.skipped, ckpt.consumed.train)

Types ==
    /\ TypeOK /\ Shapes
    /\ ckpt.consumed \in [Streams -> Nat] /\ ckpt.skipped \in Nat
    /\ ckpt.diverged \in BOOLEAN /\ ckpt.layout \in Layouts
    /\ \A s \in Streams : \A r \in Ranks : cursor[s][r].open /\ Random(s) => Active(s) # 0

-----------------------------------------------------------------------------
(* Sizes.                                                                  *)

LEMMA LayoutSizes ==
    ASSUME NEW l \in Layouts
    PROVE  /\ l.mbs \in Nat \ {0} /\ l.dp \in Nat \ {0} /\ ChunkOf(l) \in Nat \ {0}
           /\ GBS \in Nat \ {0} /\ RampGBS \in Nat \ {0}
           /\ GBS % ChunkOf(l) = 0 /\ RampGBS % ChunkOf(l) = 0
<1>1. l.mbs \in Nat \ {0} /\ l.dp \in Nat \ {0} BY DataAssumption
<1>2. l.mbs * l.dp \in Nat \ {0} BY <1>1
<1>3. GBS \in Nat \ {0} /\ RampGBS \in Nat \ {0} BY DataAssumption
<1> QED BY <1>1, <1>2, <1>3, DivisibleAssumption DEF ChunkOf

LEMMA StreamKinds ==
    ASSUME dataset \in Datasets, NEW s \in Streams
    PROVE  /\ KindOf(s) \in Kinds /\ TotalOf(s) \in Nat \ {0}
           /\ KindOf(s) = "batch" <=> dataset.kind = "batch"
           /\ s = "train" => KindOf(s) = dataset.kind
BY DataAssumption DEF KindOf, TotalOf, Kinds, Streams

LEMMA Floor ==
    ASSUME NEW a \in Nat, NEW d \in Nat \ {0}
    PROVE  /\ a - (a % d) = (a \div d) * d /\ (a - (a % d)) \in Nat
           /\ (a - (a % d)) % d = 0 /\ a - (a % d) <= a /\ a < (a - (a % d)) + d
<1>1. a \div d \in Nat /\ a % d \in 0 .. d - 1 /\ a = (a \div d) * d + (a % d) BY DivMod
<1>2. ((a \div d) * d) % d = 0 /\ (a \div d) * d \in Nat
  <2>1. \A q \in Nat : q * d \in Nat /\ (q * d) % d = 0 BY MultipleOf
  <2> QED BY <1>1, <2>1
<1>3. a - (a % d) = (a \div d) * d BY <1>1, <1>2
<1> QED BY <1>1, <1>2, <1>3

LEMMA PassSizes ==
    ASSUME dataset \in Datasets, layout \in Layouts, NEW s \in Streams
    PROVE  /\ Chunk \in Nat \ {0} /\ Chunk = ChunkOf(layout)
           /\ Stride(s) \in Nat \ {0} /\ Stride(s) % Chunk = 0
           /\ Active(s) \in Nat /\ Active(s) % Chunk = 0
           /\ PassLength(s) \in Nat /\ PassLength(s) % Stride(s) = 0
           /\ PassLength(s) <= TotalOf(s) /\ TotalOf(s) < PassLength(s) + Stride(s)
<1>1. Chunk = ChunkOf(layout) BY DEF Chunk, ChunkOf
<1>2. Chunk \in Nat \ {0} /\ GBS \in Nat \ {0} /\ GBS % Chunk = 0 BY <1>1, LayoutSizes
<1>3. TotalOf(s) \in Nat BY StreamKinds
<1> HIDE DEF Chunk
<1>4. Chunk % Chunk = 0
  <2>1. 1 * Chunk = Chunk /\ 1 \in Nat BY <1>2
  <2> QED BY <1>2, <2>1, MultipleOf
<1>5. /\ Active(s) \in Nat /\ Active(s) % Chunk = 0
      /\ Active(s) <= TotalOf(s) /\ TotalOf(s) < Active(s) + Chunk
      BY <1>2, <1>3, Floor DEF Active
<1>6. CASE KindOf(s) = "batch"
  <2>1. PassLength(s) = TotalOf(s) - (TotalOf(s) % GBS) /\ Stride(s) = GBS
        BY <1>6 DEF PassLength, Stride
  <2> QED BY <1>1, <1>2, <1>3, <1>5, <2>1, Floor
<1>7. CASE KindOf(s) # "batch"
  <2>1. PassLength(s) = Active(s) /\ Stride(s) = Chunk BY <1>7 DEF PassLength, Stride
  <2> QED BY <1>1, <1>2, <1>4, <1>5, <2>1
<1> QED BY <1>6, <1>7

\* What a step takes from the stream is the batch size.
LEMMA NeededTakesSize ==
    ASSUME dataset \in Datasets, layout \in Layouts, NEW s \in Streams, NEW size \in {GBS, RampGBS},
           dataset.kind = "batch" => size = GBS
    PROVE  Needed(s, size) \in Nat /\ Needed(s, size) * Stride(s) = size
<1>1. Chunk \in Nat \ {0} /\ GBS \in Nat \ {0} /\ RampGBS \in Nat \ {0} /\ size % Chunk = 0
      BY PassSizes, LayoutSizes
<1>2. CASE KindOf(s) = "batch"
  <2>1. Needed(s, size) = 1 /\ Stride(s) = GBS /\ size = GBS
        BY <1>2, StreamKinds DEF Needed, Stride
  <2> QED BY <1>1, <2>1
<1>3. CASE KindOf(s) # "batch"
  <2>1. Needed(s, size) = size \div Chunk /\ Stride(s) = Chunk BY <1>3 DEF Needed, Stride
  <2> HIDE DEF Chunk
  <2>2. size \in Nat BY <1>1
  <2>3. size \div Chunk \in Nat BY <1>1, <2>2, DivMod
  <2>4. size = (size \div Chunk) * Chunk BY <1>1, <2>2, MultipleOf
  <2> QED BY <2>1, <2>3, <2>4
<1> QED BY <1>2, <1>3

LEMMA SizeChosen ==
    ASSUME dataset \in Datasets, NEW s, NEW n
    PROVE  BatchSize(s, n) \in {GBS, RampGBS} /\ (dataset.kind = "batch" => BatchSize(s, n) = GBS)
BY DEF BatchSize

-----------------------------------------------------------------------------
(* Types.                                                                  *)

Cursor == [mark : Nat, at : Nat, epoch : Nat, open : BOOLEAN]

LEMMA FreshType ==
    ASSUME dataset \in Datasets, layout \in Layouts, NEW s \in Streams, NEW n \in Nat
    PROVE  Fresh(s, n) \in Cursor /\ ~Fresh(s, n).open /\ Fresh(s, n).mark = n
<1>1. TotalOf(s) >= GBS /\ KindOf(s) = "batch" => n \div PassLength(s) \in Nat
  <2> SUFFICES ASSUME TotalOf(s) >= GBS, KindOf(s) = "batch" PROVE n \div PassLength(s) \in Nat
      OBVIOUS
  <2>1. PassLength(s) \in Nat /\ TotalOf(s) < PassLength(s) + GBS BY PassSizes DEF Stride
  <2>2. PassLength(s) \in Nat \ {0} BY <2>1, StreamKinds, LayoutSizes
  <2> QED BY <2>2, DivMod
<1> QED BY <1>1 DEF Fresh, Cursor

LEMMA BeginType ==
    ASSUME dataset \in Datasets, layout \in Layouts, NEW s \in Streams, NEW c \in Cursor,
           Random(s) => Active(s) # 0
    PROVE  Begin(s, c) \in Cursor /\ Begin(s, c).open /\ Begin(s, c).mark = c.mark
           /\ Begin(s, c).at = PassStart(s, c.mark)
<1>1. c.mark \in Nat /\ c.epoch \in Nat /\ c.open \in BOOLEAN BY DEF Cursor
<1>2. Active(s) \in Nat /\ TotalOf(s) \in Nat \ {0} /\ KindOf(s) \in Kinds
      BY PassSizes, StreamKinds
<1> DEFINE m == c.mark
<1>a. \A d \in Nat \ {0} : m % d \in Nat /\ m \div d \in Nat
  <2>1. m \in Nat BY <1>1
  <2> HIDE DEF m
  <2> QED BY <2>1, DivMod
<1>3. Random(s) => c.mark % Active(s) \in Nat /\ c.mark \div Active(s) \in Nat
      BY <1>2, <1>a
<1>4. c.mark % TotalOf(s) \in Nat BY <1>2, <1>a
<1>5. PassStart(s, c.mark) \in Nat BY <1>1, <1>2, <1>3, <1>4 DEF PassStart, Random, Kinds
<1> DEFINE e == IF Random(s) THEN c.mark \div Active(s) ELSE IF c.open THEN c.epoch + 1 ELSE c.epoch
           a == PassStart(s, c.mark)
<1>6. e \in Nat BY <1>1, <1>3
<1>7. a \in Nat BY <1>5
<1>8. Begin(s, c) = [c EXCEPT !.open = TRUE, !.at = a, !.epoch = e] BY DEF Begin
<1> HIDE DEF e, a
<1>9. /\ Begin(s, c) \in Cursor /\ Begin(s, c).open /\ Begin(s, c).mark = c.mark
      /\ Begin(s, c).at = a
      BY <1>6, <1>7, <1>8 DEF Cursor
<1> QED BY <1>9 DEF a

LEMMA YieldType ==
    ASSUME dataset \in Datasets, layout \in Layouts, NEW s \in Streams, NEW c \in Cursor
    PROVE  /\ Yield(s, c) \in Cursor /\ Yield(s, c).at = c.at + Stride(s)
           /\ Yield(s, c).open = c.open /\ Yield(s, c).epoch = c.epoch
           /\ Yield(s, c).mark = IF Random(s) THEN c.mark + Chunk ELSE c.mark
<1>1. Chunk \in Nat /\ Stride(s) \in Nat BY PassSizes
<1> DEFINE a == c.at + Stride(s)
           m == IF Random(s) THEN c.mark + Chunk ELSE c.mark
<1>2. a \in Nat /\ m \in Nat BY <1>1 DEF Cursor
<1>3. Yield(s, c) = [c EXCEPT !.at = a, !.mark = m] BY DEF Yield
<1> HIDE DEF a, m
<1>4. Yield(s, c) \in Cursor /\ Yield(s, c).at = a /\ Yield(s, c).open = c.open
      /\ Yield(s, c).epoch = c.epoch /\ Yield(s, c).mark = m
      BY <1>2, <1>3 DEF Cursor
<1> QED BY <1>4 DEF a, m

\* The generators a rank may take a batch from.
LEMMA HereAndAgain ==
    ASSUME Types, NEW r \in Ranks, Outcome(doing, r) \in {"here", "again"}
    PROVE  /\ Random(doing) => Active(doing) # 0
           /\ cursor[doing][r] \in Cursor
           /\ Here(doing, r) \in Cursor /\ Here(doing, r).open
           /\ Again(doing, r) \in Cursor /\ Again(doing, r).open
<1>1. dataset \in Datasets /\ layout \in Layouts /\ doing \in Streams BY DEF Types, TypeOK
<1>2. cursor[doing][r] \in Cursor BY DEF Types, TypeOK, Cursor
<1>3. Random(doing) => Active(doing) # 0
  <2>1. CASE cursor[doing][r].open BY <1>1, <2>1 DEF Types
  <2>2. CASE ~cursor[doing][r].open BY <2>2 DEF Outcome, BeginRaises
  <2> QED BY <2>1, <2>2
<1>4. Here(doing, r) \in Cursor /\ Here(doing, r).open BY <1>1, <1>2, <1>3, BeginType DEF Here
<1>5. Again(doing, r) \in Cursor /\ Again(doing, r).open BY <1>1, <1>3, <1>4, BeginType DEF Again
<1> QED BY <1>2, <1>3, <1>4, <1>5

\* What a draw gives the rank, and where it leaves the rank's sampler.
Gives(r, c) ==
    /\ c \in Cursor /\ c.open /\ (Random(doing) => Active(doing) # 0)
    /\ HasNext(doing, r, c.at)
    /\ \/ c = Here(doing, r)
       \/ /\ c = Again(doing, r) /\ ~HasNext(doing, r, Here(doing, r).at)
          /\ KindOf(doing) # "single"
          /\ (KindOf(doing) = "batch" /\ doing = "train" /\ c.at # 0 => diverged')
    /\ cursor' = [cursor EXCEPT ![doing][r] = Yield(doing, c)]
    /\ drawn' = [drawn EXCEPT ![r] = Append(@, Batch(doing, r, c.at, c.epoch))]
    /\ status' = status

LEMMA DrawEffect ==
    ASSUME Types, NEW r \in Ranks, Draw(r)
    PROVE  /\ UNCHANGED <<dataset, layout, crashes, doing, evals, step, consumed, skipped, lineage, ckpt>>
           /\ Len(drawn[r]) < Needed(doing, Size)
           /\ diverged' \in BOOLEAN /\ (diverged => diverged')
           /\ \/ /\ UNCHANGED <<cursor, drawn>>
                 /\ status' \in {"exhausted", "spinning", "failed"}
              \/ \E c : Gives(r, c)
<1>1. /\ UNCHANGED <<dataset, layout, crashes, doing, evals, step, consumed, skipped, lineage, ckpt>>
      /\ Len(drawn[r]) < Needed(doing, Size)
      BY DEF Draw, turn, model
<1>2. diverged' \in BOOLEAN /\ (diverged => diverged') BY DEF Draw, Types, TypeOK
<1> DEFINE o == Outcome(doing, r)
<1>3. CASE o \notin {"here", "again"}
  <2>1. UNCHANGED <<cursor, drawn>> /\ status' = o BY <1>3 DEF Draw
  <2>2. o \in {"exhausted", "spinning", "failed"} BY <1>3 DEF Outcome
  <2> QED BY <1>1, <1>2, <2>1, <2>2
<1>4. CASE o = "here"
  <2>1. HasNext(doing, r, Here(doing, r).at) BY <1>4 DEF Outcome
  <2>2. /\ cursor' = [cursor EXCEPT ![doing][r] = Yield(doing, Here(doing, r))]
        /\ drawn' = [drawn EXCEPT ![r] =
                        Append(@, Batch(doing, r, Here(doing, r).at, Here(doing, r).epoch))]
        /\ status' = status
        BY <1>4 DEF Draw
  <2>3. Gives(r, Here(doing, r)) BY <1>4, <2>1, <2>2, HereAndAgain DEF Gives
  <2> QED BY <1>1, <1>2, <2>3
<1>5. CASE o = "again"
  <2>1. /\ HasNext(doing, r, Again(doing, r).at) /\ ~HasNext(doing, r, Here(doing, r).at)
        /\ KindOf(doing) # "single"
        BY <1>5 DEF Outcome
  <2>2. /\ cursor' = [cursor EXCEPT ![doing][r] = Yield(doing, Again(doing, r))]
        /\ drawn' = [drawn EXCEPT ![r] =
                        Append(@, Batch(doing, r, Again(doing, r).at, Again(doing, r).epoch))]
        /\ status' = status
        BY <1>5 DEF Draw
  <2>3. KindOf(doing) = "batch" /\ doing = "train" /\ Again(doing, r).at # 0 => diverged'
        BY <1>5 DEF Draw
  <2>4. Gives(r, Again(doing, r)) BY <1>5, <2>1, <2>2, <2>3, HereAndAgain DEF Gives
  <2> QED BY <1>1, <1>2, <2>4
<1> QED BY <1>3, <1>4, <1>5

LEMMA AppendFacts ==
    ASSUME NEW S, NEW s \in Seq(S), NEW e
    PROVE  /\ Len(Append(s, e)) = Len(s) + 1 /\ Len(s) \in Nat
           /\ \A k \in 1 .. Len(s) : Append(s, e)[k] = s[k]
           /\ Append(s, e)[Len(s) + 1] = e
           /\ DOMAIN Append(s, e) = 1 .. Len(s) + 1 /\ DOMAIN s = 1 .. Len(s)
           /\ Append(s, e) \in Seq(S \cup {e})
<1>1. s \in Seq(S \cup {e}) /\ e \in S \cup {e} OBVIOUS
<1> QED BY <1>1

\* The same, rank by rank.
LEMMA GivenTo ==
    ASSUME Types, NEW r \in Ranks, NEW c, Gives(r, c)
    PROVE  /\ Len(drawn'[r]) = Len(drawn[r]) + 1 /\ Len(drawn[r]) \in Nat
           /\ \A k \in 1 .. Len(drawn[r]) : drawn'[r][k] = drawn[r][k]
           /\ drawn'[r][Len(drawn[r]) + 1] = Batch(doing, r, c.at, c.epoch)
           /\ \A q \in Ranks \ {r} : drawn'[q] = drawn[q]
           /\ drawn' = [q \in Ranks |-> drawn'[q]]
           /\ \A q \in Ranks : \E S : drawn'[q] \in Seq(S)
           /\ cursor'[doing][r] = Yield(doing, c)
           /\ \A q \in Ranks \ {r} : cursor'[doing][q] = cursor[doing][q]
           /\ \A s \in Streams \ {doing} : cursor'[s] = cursor[s]
<1>0. Shapes BY DEF Types
<1>1. PICK S : drawn[r] \in Seq(S) BY <1>0 DEF Shapes
<1> DEFINE e == Batch(doing, r, c.at, c.epoch)
<1>2. drawn' = [drawn EXCEPT ![r] = Append(@, e)]
      /\ cursor' = [cursor EXCEPT ![doing][r] = Yield(doing, c)] BY DEF Gives
<1> HIDE DEF e
<1>3. drawn'[r] = Append(drawn[r], e) /\ \A q \in Ranks \ {r} : drawn'[q] = drawn[q]
      BY <1>0, <1>2 DEF Shapes
<1>4. drawn' = [q \in Ranks |-> drawn'[q]] BY <1>0, <1>2 DEF Shapes
<1>5. ASSUME NEW q \in Ranks PROVE \E T : drawn'[q] \in Seq(T)
  <2>1. CASE q = r
    <3>1. Append(drawn[r], e) \in Seq(S \cup {e}) BY <1>1, AppendFacts
    <3> QED BY <1>3, <2>1, <3>1
  <2>2. CASE q # r BY <1>0, <1>3, <2>2 DEF Shapes
  <2> QED BY <2>1, <2>2
<1>6. /\ cursor'[doing][r] = Yield(doing, c)
      /\ \A q \in Ranks \ {r} : cursor'[doing][q] = cursor[doing][q]
      /\ \A s \in Streams \ {doing} : cursor'[s] = cursor[s]
      BY <1>0, <1>2 DEF Shapes
<1>7. /\ Len(drawn'[r]) = Len(drawn[r]) + 1 /\ Len(drawn[r]) \in Nat
      /\ \A k \in 1 .. Len(drawn[r]) : drawn'[r][k] = drawn[r][k]
      /\ drawn'[r][Len(drawn[r]) + 1] = e
      BY <1>1, <1>3, AppendFacts
<1> QED BY <1>3, <1>4, <1>5, <1>6, <1>7 DEF e

\* The samplers are built of the dataset and the layout.
LEMMA SamplersKept ==
    ASSUME UNCHANGED <<dataset, layout>>
    PROVE  /\ Ranks' = Ranks /\ Chunk' = Chunk
           /\ \A s : /\ KindOf(s)' = KindOf(s) /\ TotalOf(s)' = TotalOf(s) /\ Random(s)' = Random(s)
                     /\ Active(s)' = Active(s) /\ Stride(s)' = Stride(s)
                     /\ PassLength(s)' = PassLength(s)
           /\ \A s, n : /\ Needed(s, n)' = Needed(s, n) /\ BatchSize(s, n)' = BatchSize(s, n)
                        /\ OffsetAt(s, n)' = OffsetAt(s, n) /\ EpochAt(s, n)' = EpochAt(s, n)
           /\ \A s, r, a, e : Batch(s, r, a, e)' = Batch(s, r, a, e)
<1>1. /\ Ranks' = Ranks /\ Chunk' = Chunk
      /\ \A s : /\ KindOf(s)' = KindOf(s) /\ TotalOf(s)' = TotalOf(s) /\ Random(s)' = Random(s)
                /\ Active(s)' = Active(s) /\ Stride(s)' = Stride(s)
                /\ PassLength(s)' = PassLength(s)
      BY DEF Ranks, Chunk, KindOf, TotalOf, Random, Active, Stride, PassLength
<1>2. \A s, n : /\ Needed(s, n)' = Needed(s, n) /\ BatchSize(s, n)' = BatchSize(s, n)
                /\ OffsetAt(s, n)' = OffsetAt(s, n) /\ EpochAt(s, n)' = EpochAt(s, n)
      BY DEF Chunk, KindOf, TotalOf, Active, PassLength, Needed, BatchSize, OffsetAt, EpochAt
<1>3. \A s, r, a, e : Batch(s, r, a, e)' = Batch(s, r, a, e)
      BY DEF Chunk, KindOf, TotalOf, Random, Stride, Bucket, Full, Batch
<1> QED BY <1>1, <1>2, <1>3

LEMMA SizeIsChosen ==
    ASSUME Types
    PROVE  /\ Size \in {GBS, RampGBS} /\ (dataset.kind = "batch" => Size = GBS)
           /\ (doing = "valid" => Size = GBS)
           /\ Needed(doing, Size) \in Nat /\ Needed(doing, Size) * Stride(doing) = Size
<1>1. dataset \in Datasets /\ layout \in Layouts /\ doing \in Streams BY DEF Types, TypeOK
<1>2. Size \in {GBS, RampGBS} /\ (dataset.kind = "batch" => Size = GBS) BY <1>1, SizeChosen DEF Size
<1>3. doing = "valid" => Size = GBS BY DEF Size, BatchSize
<1> QED BY <1>1, <1>2, <1>3, NeededTakesSize

LEMMA TypesInit == Init => Types
<1> SUFFICES ASSUME Init PROVE Types OBVIOUS
<1> USE DEF Init
<1>1. Shapes BY PathInit
<1>2. dataset \in Datasets /\ layout \in Layouts /\ doing \in Streams /\ evals \in 0 .. EvalIters
      /\ (doing = "valid") = (evals > 0)
      BY DataAssumption DEF Streams
<1>3. consumed \in [Streams -> Nat] /\ \A s \in Streams : consumed[s] = 0 OBVIOUS
<1>4. \A s \in Streams, r \in Ranks : cursor[s][r] = Fresh(s, 0) BY <1>3 DEF Samplers
<1>5. \A s \in Streams, r \in Ranks : cursor[s][r] \in Cursor /\ ~cursor[s][r].open
  <2>1. ASSUME NEW s \in Streams, NEW r \in Ranks
        PROVE  cursor[s][r] \in Cursor /\ ~cursor[s][r].open
    <3>1. 0 \in Nat OBVIOUS
    <3>2. Fresh(s, 0) \in Cursor /\ ~Fresh(s, 0).open BY <1>2, <3>1, FreshType
    <3> QED BY <1>4, <3>2
  <2> QED BY <2>1
<1>6. cursor \in [Streams -> [Ranks -> Cursor]]
  <2>1. cursor = [s \in Streams |-> [r \in Ranks |-> cursor[s][r]]] BY DEF Samplers
  <2> QED BY <1>5, <2>1
<1>7. \A r \in Ranks : Len(drawn[r]) \in 0 .. Needed(doing, Size)
  <2>1. Needed(doing, Size) \in Nat BY <1>2, SizeChosen, NeededTakesSize DEF Size
  <2> QED BY <2>1 DEF NothingDrawn
<1>8. TypeOK
  <2>1. step \in 0 .. TrainIters /\ ckpt.step \in 0 .. TrainIters /\ skipped \in Nat
        /\ diverged \in BOOLEAN /\ status = "running" /\ consumed \in [Streams -> Nat]
    <3>1. TrainIters \in Nat BY DataAssumption
    <3>2. 0 \in 0 .. TrainIters BY <3>1
    <3>3. ckpt.step = 0 OBVIOUS
    <3>4. step = 0 /\ skipped = 0 /\ diverged = FALSE /\ status = "running" OBVIOUS
    <3> QED BY ONLY <1>3, <3>2, <3>3, <3>4
  <2>2. cursor \in [Streams -> [Ranks -> [mark : Nat, at : Nat, epoch : Nat, open : BOOLEAN]]]
        BY <1>6 DEF Cursor
  <2> QED BY ONLY <1>2, <1>7, <2>1, <2>2 DEF TypeOK
<1>9. ckpt.consumed \in [Streams -> Nat] /\ ckpt.skipped \in Nat
      /\ ckpt.diverged \in BOOLEAN /\ ckpt.layout \in Layouts
      BY <1>2, <1>3
<1> QED BY <1>1, <1>5, <1>8, <1>9 DEF Types

LEMMA TypesDraw ==
    ASSUME Types, NEW r \in Ranks, Draw(r)
    PROVE  Types'
<1> USE DrawEffect
<1>1. UNCHANGED <<dataset, layout>> /\ Ranks' = Ranks BY SamplersKept
<1>2. Needed(doing, Size)' = Needed(doing, Size) BY <1>1, SamplersKept DEF Size
<1>3. dataset \in Datasets /\ layout \in Layouts /\ doing \in Streams /\ Shapes BY DEF Types, TypeOK
<1>4. /\ ckpt'.consumed \in [Streams -> Nat] /\ ckpt'.skipped \in Nat
      /\ ckpt'.diverged \in BOOLEAN /\ ckpt'.layout \in Layouts /\ ckpt'.step \in 0 .. TrainIters
      BY DEF Types, TypeOK
<1>5. CASE UNCHANGED <<cursor, drawn>> /\ status' \in {"exhausted", "spinning", "failed"}
  <2>1. TypeOK' BY <1>1, <1>2, <1>5 DEF Types, TypeOK
  <2>2. Shapes' BY <1>1, <1>3, <1>5 DEF Shapes
  <2>3. \A s \in Streams : \A q \in Ranks : cursor'[s][q].open /\ Random(s)' => Active(s)' # 0
        BY <1>1, <1>5, SamplersKept DEF Types
  <2> QED BY <1>1, <1>4, <2>1, <2>2, <2>3 DEF Types
<1>6. ASSUME NEW c, Gives(r, c) PROVE Types'
  <2>1. c \in Cursor /\ c.open /\ (Random(doing) => Active(doing) # 0) /\ status' = status
        /\ cursor' = [cursor EXCEPT ![doing][r] = Yield(doing, c)]
        BY <1>6 DEF Gives
  <2>2. Yield(doing, c) \in Cursor BY <1>3, <2>1, YieldType
  <2>3. cursor \in [Streams -> [Ranks -> Cursor]] BY DEF Types, TypeOK, Cursor
  <2>4. cursor' \in [Streams -> [Ranks -> Cursor]] BY <2>1, <2>2, <2>3
  <2>5. \A q \in Ranks : Len(drawn'[q]) \in 0 .. Needed(doing, Size)
    <3>1. \A q \in Ranks : Len(drawn[q]) \in 0 .. Needed(doing, Size) BY DEF Types, TypeOK
    <3>2. Needed(doing, Size) \in Nat BY SizeIsChosen
    <3>3. Len(drawn[r]) < Needed(doing, Size) BY DrawEffect
    <3>4. Len(drawn'[r]) = Len(drawn[r]) + 1 /\ Len(drawn[r]) \in Nat
          /\ \A q \in Ranks \ {r} : drawn'[q] = drawn[q]
          BY <1>6, GivenTo
    <3>5. Len(drawn'[r]) \in 0 .. Needed(doing, Size) BY <3>2, <3>3, <3>4
    <3> QED BY <3>1, <3>4, <3>5
  <2>6. TypeOK'
    <3>1. \A q \in Ranks' : Len(drawn'[q]) \in 0 .. Needed(doing, Size)' BY <1>1, <1>2, <2>5
    <3>2. cursor' \in [Streams -> [Ranks' -> [mark : Nat, at : Nat, epoch : Nat, open : BOOLEAN]]]
          BY <1>1, <2>4 DEF Cursor
    <3> QED BY <1>4, <2>1, <3>1, <3>2 DEF Types, TypeOK
  <2>7. Shapes'
    <3>1. DOMAIN cursor' = Streams /\ cursor' = [s \in Streams |-> cursor'[s]]
          /\ \A s \in Streams : cursor'[s] = [q \in Ranks |-> cursor'[s][q]]
          BY <2>4
    <3>2. drawn' = [q \in Ranks |-> drawn'[q]] /\ \A q \in Ranks : \E S : drawn'[q] \in Seq(S)
          BY <1>6, GivenTo
    <3> QED BY <1>1, <1>3, <3>1, <3>2 DEF Shapes
  <2>8. ASSUME NEW s \in Streams, NEW q \in Ranks, cursor'[s][q].open, Random(s)
        PROVE  Active(s) # 0
    <3>1. CASE s = doing BY <2>1, <2>8, <3>1
    <3>2. CASE s # doing
      <4>1. cursor'[s][q] = cursor[s][q] BY <1>6, <3>2, GivenTo
      <4> QED BY <2>8, <4>1 DEF Types
    <3> QED BY <3>1, <3>2
  <2>9. \A s \in Streams : \A q \in Ranks' : cursor'[s][q].open /\ Random(s)' => Active(s)' # 0
        BY <1>1, <2>8, SamplersKept
  <2> QED BY <1>4, <2>6, <2>7, <2>9 DEF Types
<1> QED BY <1>5, <1>6

\* The end of a step, of training or of an evaluation.
LEMMA TypesEndStep ==
    ASSUME Types, UNCHANGED <<dataset, layout, status, cursor, ckpt>>, diverged' \in BOOLEAN,
           drawn' = NothingDrawn, doing' \in Streams, evals' \in 0 .. EvalIters,
           (doing' = "valid") = (evals' > 0), step' \in 0 .. TrainIters,
           consumed' \in [Streams -> Nat], skipped' \in Nat
    PROVE  Types'
<1>1. Ranks' = Ranks BY SamplersKept
<1>2. dataset' \in Datasets /\ layout' \in Layouts /\ Shapes BY DEF Types, TypeOK
<1>3. drawn' = [r \in Ranks |-> <<>>] BY DEF NothingDrawn
<1>4. \A r \in Ranks : drawn'[r] = <<>> /\ drawn'[r] \in Seq({}) /\ Len(drawn'[r]) = 0 BY <1>3
<1>5. Shapes' BY <1>1, <1>2, <1>3, <1>4 DEF Shapes
<1>6. Needed(doing, Size)' \in Nat
  <2>1. dataset \in Datasets /\ layout \in Layouts BY DEF Types, TypeOK
  <2>2. Size' \in {GBS, RampGBS} /\ (dataset.kind = "batch" => Size' = GBS) BY DEF Size, BatchSize
  <2>3. \A s \in Streams, n \in {GBS, RampGBS} :
            (dataset.kind = "batch" => n = GBS) => Needed(s, n) \in Nat
        BY <2>1, NeededTakesSize
  <2>4. \A s, n : Needed(s, n)' = Needed(s, n) BY SamplersKept
  <2>5. Needed(doing, Size)' = Needed(doing', Size') BY <2>4
  <2> QED BY <2>2, <2>3, <2>5
<1>7. TypeOK'
  <2>1. \A r \in Ranks' : Len(drawn'[r]) \in 0 .. Needed(doing, Size)' BY <1>1, <1>4, <1>6
  <2> QED BY <1>1, <2>1 DEF Types, TypeOK
<1>8. \A s \in Streams : \A r \in Ranks' : cursor'[s][r].open /\ Random(s)' => Active(s)' # 0
      BY <1>1, SamplersKept DEF Types
<1> QED BY <1>5, <1>7, <1>8 DEF Types

LEMMA TypesRestart ==
    ASSUME Types, NEW l \in Layouts, Restart(l)
    PROVE  Types'
<1>1. /\ layout' = l /\ UNCHANGED <<dataset, ckpt>> /\ doing' = "train" /\ evals' = 0
      /\ step' = ckpt.step /\ consumed' = ckpt.consumed /\ skipped' = ckpt.skipped
      /\ cursor' = [s \in Streams |-> [r \in 0 .. l.dp - 1 |-> Fresh(s, ckpt.consumed[s])]]
      /\ drawn' = [r \in 0 .. l.dp - 1 |-> <<>>]
      /\ status' \in {"failed", "running"} /\ diverged' \in BOOLEAN
      BY DEF Restart, Types, TypeOK
<1>2. Ranks' = 0 .. l.dp - 1 BY <1>1 DEF Ranks
<1>3. dataset \in Datasets /\ layout \in Layouts /\ ckpt.consumed \in [Streams -> Nat]
      /\ ckpt.skipped \in Nat /\ ckpt.step \in 0 .. TrainIters
      BY DEF Types, TypeOK
<1>4. \A s \in Streams : Fresh(s, ckpt.consumed[s]) \in Cursor /\ ~Fresh(s, ckpt.consumed[s]).open
      BY <1>3, FreshType
<1>5. cursor' \in [Streams -> [Ranks' -> Cursor]] BY <1>1, <1>2, <1>4
<1>6. \A r \in Ranks' : Len(drawn'[r]) = 0 BY <1>1, <1>2
<1>7. Needed(doing, Size)' \in Nat
  <2>1. doing' \in Streams BY <1>1 DEF Streams
  <2>2. \A s \in Streams : \A n : BatchSize(s, n)' \in {GBS, RampGBS}
            /\ (dataset'.kind = "batch" => BatchSize(s, n)' = GBS)
        BY DEF BatchSize
  <2>3. Chunk' \in Nat \ {0} /\ GBS \in Nat \ {0} /\ RampGBS \in Nat \ {0}
    <3>1. Chunk' = ChunkOf(l) BY <1>1 DEF Chunk, ChunkOf
    <3> QED BY <3>1, LayoutSizes
  <2>4. \A n \in {GBS, RampGBS} : n \div Chunk' \in Nat BY <2>3, DivMod
  <2>5. Size' \in {GBS, RampGBS} BY <2>1, <2>2 DEF Size
  <2>6. Needed(doing, Size)' \in {1, Size' \div Chunk'} BY DEF Needed
  <2> QED BY <2>4, <2>5, <2>6
<1>8. TypeOK'
  <2>1. doing' \in Streams /\ evals' \in 0 .. EvalIters /\ (doing' = "valid") = (evals' > 0)
        BY <1>1, DataAssumption DEF Streams
  <2>2. cursor' \in [Streams -> [Ranks' -> [mark : Nat, at : Nat, epoch : Nat, open : BOOLEAN]]]
        BY <1>5 DEF Cursor
  <2>3. \A r \in Ranks' : Len(drawn'[r]) \in 0 .. Needed(doing, Size)' BY <1>6, <1>7
  <2> QED BY <1>1, <1>3, <2>1, <2>2, <2>3 DEF TypeOK
<1>9. Shapes' BY <1>1, <1>3, RestartPath
<1>10. \A s \in Streams : \A r \in Ranks' : ~cursor'[s][r].open BY <1>1, <1>2, <1>4
<1> QED BY <1>1, <1>3, <1>8, <1>9, <1>10 DEF Types, TypeOK

LEMMA TypesStep ==
    ASSUME Types, [Next]_vars
    PROVE  Types'
<1>1. ASSUME NEW r \in Ranks, Draw(r) PROVE Types' BY <1>1, TypesDraw
<1>2. CASE EndTrainStep
  <2>1. /\ UNCHANGED <<dataset, layout, status, cursor, ckpt, diverged>> /\ drawn' = NothingDrawn
        /\ step' = step + 1 /\ step < TrainIters
        /\ consumed' = [consumed EXCEPT !.train = @ + Size]
        /\ skipped' \in {skipped, skipped + Size}
        /\ \/ UNCHANGED <<doing, evals>>
           \/ doing' = "valid" /\ evals' = EvalIters /\ EvalIters > 0
        BY <1>2 DEF EndTrainStep, job, turn
  <2>2. Size \in Nat BY BatchSizeIsNat DEF Size
  <2>3. TrainIters \in Nat /\ EvalIters \in Nat BY DataAssumption
  <2>4. doing' \in Streams /\ evals' \in 0 .. EvalIters /\ (doing' = "valid") = (evals' > 0)
        BY <2>1, <2>3 DEF Types, TypeOK, Streams
  <2>5. step' \in 0 .. TrainIters /\ skipped' \in Nat /\ consumed' \in [Streams -> Nat]
    <3>1. step \in 0 .. TrainIters /\ skipped \in Nat /\ consumed \in [Streams -> Nat]
          BY DEF Types, TypeOK
    <3>2. step' \in 0 .. TrainIters /\ skipped' \in Nat BY <2>1, <2>2, <2>3, <3>1
    <3>3. consumed' \in [Streams -> Nat] BY <2>1, <2>2, <3>1 DEF Streams
    <3> QED BY <3>2, <3>3
  <2>6. diverged' \in BOOLEAN BY <2>1 DEF Types, TypeOK
  <2> QED BY <2>1, <2>4, <2>5, <2>6, TypesEndStep
<1>3. CASE EndEvalStep
  <2>1. /\ UNCHANGED <<dataset, layout, status, cursor, ckpt, diverged, step, skipped>>
        /\ drawn' = NothingDrawn /\ doing = "valid"
        /\ consumed' = [consumed EXCEPT !.valid = @ + GBS] /\ evals' = evals - 1
        /\ doing' = IF evals = 1 THEN "train" ELSE "valid"
        BY <1>3 DEF EndEvalStep, job
  <2>2. EvalIters \in Nat /\ GBS \in Nat BY DataAssumption
  <2>3. evals \in 1 .. EvalIters BY <2>1, <2>2 DEF Types, TypeOK
  <2>4. doing' \in Streams /\ evals' \in 0 .. EvalIters /\ (doing' = "valid") = (evals' > 0)
        BY <2>1, <2>2, <2>3 DEF Streams
  <2>5. step' \in 0 .. TrainIters /\ skipped' \in Nat /\ consumed' \in [Streams -> Nat]
        BY <2>1, <2>2 DEF Types, TypeOK, Streams
  <2>6. diverged' \in BOOLEAN BY <2>1 DEF Types, TypeOK
  <2> QED BY <2>1, <2>4, <2>5, <2>6, TypesEndStep
<1>4. CASE Save \/ Finish \/ Crash \/ UNCHANGED vars
  <2>1. /\ UNCHANGED <<dataset, layout, doing, evals, cursor, drawn, diverged, step, consumed, skipped>>
        /\ status' \in {status, "done", "down"}
        BY <1>4 DEF Save, Finish, Crash, vars, job, data, turn, model
  <2>2. /\ ckpt'.consumed \in [Streams -> Nat] /\ ckpt'.skipped \in Nat /\ ckpt'.step \in 0 .. TrainIters
        /\ ckpt'.diverged \in BOOLEAN /\ ckpt'.layout \in Layouts
    <3>1. CASE Save BY <3>1 DEF Save, Types, TypeOK
    <3>2. CASE Finish \/ Crash \/ UNCHANGED vars BY <3>2 DEF Finish, Crash, vars, Types, TypeOK
    <3> QED BY <1>4, <3>1, <3>2
  <2>3. Ranks' = Ranks /\ Needed(doing, Size)' = Needed(doing, Size) BY <2>1, SamplersKept DEF Size
  <2>4. TypeOK' BY <2>1, <2>2, <2>3 DEF Types, TypeOK
  <2>5. Shapes' BY <2>1, <2>3 DEF Types, Shapes
  <2>6. \A s \in Streams : \A r \in Ranks' : cursor'[s][r].open /\ Random(s)' => Active(s)' # 0
        BY <2>1, <2>3, SamplersKept DEF Types
  <2> QED BY <2>2, <2>4, <2>5, <2>6 DEF Types
<1>5. ASSUME NEW l \in Layouts, Restart(l) PROVE Types' BY <1>5, TypesRestart
<1> QED BY <1>1, <1>2, <1>3, <1>4, <1>5 DEF Next

(***************************************************************************)
(* The variables of the data pipeline have their types (TypeOK): a step    *)
(* draws no more than its batches, an evaluation in progress has           *)
(* iterations left, no sampler in use divides by zero, the step never      *)
(* passes train_iters.  No assumption but those on the constants.          *)
(***************************************************************************)
THEOREM DataTypeCorrect == Spec => []TypeOK
<1>1. Types => TypeOK BY DEF Types
<1>2. Types /\ [Next]_vars => Types' BY TypesStep
<1> QED BY TypesInit, <1>1, <1>2, PTL DEF Spec

-----------------------------------------------------------------------------
(* A draw takes the batch of the count the sampler stands at.              *)

LEMMA RanksAreNumbers ==
    ASSUME layout \in Layouts, NEW r \in Ranks
    PROVE  r \in 0 .. layout.dp - 1 /\ layout.dp \in Nat \ {0} /\ layout.mbs \in Nat \ {0}
BY LayoutSizes DEF Ranks

\* Within a pass of a random sampler every rank finds a batch at every offset
\* all ranks reach together, and none at its end.
LEMMA RandomHasNext ==
    ASSUME EvenShuffle, dataset \in Datasets, layout \in Layouts, NEW s \in Streams, Random(s),
           NEW r \in Ranks, NEW a \in Nat, a % Chunk = 0, a <= Active(s)
    PROVE  HasNext(s, r, a) <=> a < Active(s)
<1> DEFINE m == layout.mbs
           d == layout.dp
           k == a \div Chunk
           q == TotalOf(s) \div Chunk
<1>1. m \in Nat \ {0} /\ d \in Nat \ {0} /\ r \in 0 .. d - 1 BY RanksAreNumbers
<1>2. Chunk = m * d /\ Chunk \in Nat \ {0} BY PassSizes DEF Chunk
<1>3. TotalOf(s) \in Nat \ {0} BY StreamKinds
<1>4. k \in Nat /\ q \in Nat /\ a = k * Chunk
  <2>1. \A x \in Nat : x \div Chunk \in Nat BY <1>2, DivMod
  <2>2. a = (a \div Chunk) * Chunk BY <1>2, MultipleOf
  <2> QED BY <1>3, <2>1, <2>2
<1>5. Active(s) = q * Chunk BY <1>2, <1>3, Floor DEF Active
<1>6. k <= q /\ (a < Active(s) <=> k < q)
  <2> HIDE DEF k, q, Chunk
  <2> QED BY <1>2, <1>4, <1>5
<1>7. CASE KindOf(s) = "sharded"
  <2>1. HasNext(s, r, a) <=> (a \div d) + m <= q * m BY <1>7 DEF HasNext, Bucket
  <2>2. a \div d = k * m
    <3> HIDE DEF k, Chunk, d, m
    <3>1. a = (k * m) * d /\ k * m \in Nat BY <1>1, <1>2, <1>4
    <3> QED BY <1>1, <3>1, MultipleOf
  <2>3. k * m + m <= q * m <=> k < q
    <3> HIDE DEF k, q, m
    <3>1. k * m + m = (k + 1) * m BY <1>1, <1>4
    <3>2. (k + 1) * m <= q * m <=> k + 1 <= q BY <1>1, <1>4
    <3> QED BY <1>4, <3>1, <3>2
  <2> QED BY <1>6, <2>1, <2>2, <2>3
<1>8. CASE KindOf(s) = "shuffled"
  <2> DEFINE f == (TotalOf(s) \div m) * m
  <2>1. HasNext(s, r, a) <=> a + r + d * (m - 1) < f BY <1>8 DEF HasNext, Full
  <2>2. f <= Active(s) + d * (m - 1)
    <3>1. dataset.kind = "shuffled" BY <1>8 DEF KindOf
    <3>2. TotalOf(s) \in {dataset.total, ValidTotal} BY DEF TotalOf
    <3>3. f <= (TotalOf(s) \div ChunkOf(layout)) * ChunkOf(layout) + d * (m - 1)
          BY <3>1, <3>2 DEF EvenShuffle
    <3> QED BY <1>5, <3>3 DEF Chunk, ChunkOf
  <2>3. f \in Nat /\ Active(s) <= f
    <3> DEFINE g == TotalOf(s) \div m
    <3>1. g \in Nat /\ TotalOf(s) < g * m + m BY <1>1, <1>3, Floor, DivMod
    <3>2. Active(s) <= TotalOf(s) BY <1>2, <1>3, Floor DEF Active
    <3>3. Active(s) = (q * d) * m /\ q * d \in Nat
      <4> HIDE DEF q, d, m, Chunk
      <4> QED BY <1>1, <1>2, <1>4, <1>5
    <3> DEFINE e == q * d
    <3> HIDE DEF g, e, m
    <3>4. e \in Nat /\ Active(s) = e * m BY <3>3 DEF e
    <3>5. e * m < (g + 1) * m BY <1>1, <1>3, <3>1, <3>2, <3>4
    <3>6. e < g + 1 BY <1>1, <3>1, <3>4, <3>5
    <3>7. e <= g BY <3>1, <3>4, <3>6
    <3>8. e * m <= g * m /\ g * m \in Nat BY <1>1, <3>1, <3>4, <3>7
    <3> QED BY <3>4, <3>8 DEF g
  <2>4. d * (m - 1) \in Nat /\ d * (m - 1) = Chunk - d
    <3> HIDE DEF d, m, Chunk
    <3> QED BY <1>1, <1>2
  <2>5. a < Active(s) => a + Chunk <= Active(s) BY <1>2, PassSizes, MultiplesApart
  <2>6. Active(s) \in Nat BY PassSizes
  <2> HIDE DEF f, d, m, Chunk
  <2> DEFINE x == d * (m - 1)
  <2>7. x \in Nat /\ x = Chunk - d /\ f <= Active(s) + x BY <2>2, <2>4
  <2>8. HasNext(s, r, a) <=> a + r + x < f BY <2>1
  <2> HIDE DEF x
  <2>9. a < Active(s) => a + r + x < f BY <1>1, <1>2, <2>3, <2>5, <2>6, <2>7
  <2>10. a = Active(s) => ~(a + r + x < f) BY <1>1, <2>3, <2>6, <2>7
  <2> QED BY <2>6, <2>8, <2>9, <2>10
<1> QED BY <1>7, <1>8 DEF Random

\* Where a sampler stands when it gives the batch of count n of the stream.
Gave(s, c, n) ==
    /\ c.at = OffsetAt(s, n) /\ c.epoch = EpochAt(s, n)
    /\ Sound(s, Yield(s, c)) /\ Place(s, Yield(s, c)) = n + Stride(s)

\* The generator of c0 that has a batch for rank r.
Serves(s, r, c0, c) ==
    /\ c \in Cursor /\ c.open /\ HasNext(s, r, c.at)
    /\ \/ c = Resumed(s, c0)
       \/ c = Begin(s, Resumed(s, c0)) /\ ~HasNext(s, r, Resumed(s, c0).at)

LEMMA RandomGives ==
    ASSUME EvenShuffle, dataset \in Datasets, layout \in Layouts, NEW s \in Streams,
           Random(s), Active(s) # 0, NEW r \in Ranks, NEW c0 \in Cursor, NEW n \in Nat,
           n % Chunk = 0, Sound(s, c0), Place(s, c0) = n, NEW c, Serves(s, r, c0, c)
    PROVE  Gave(s, c, n)
<1>1. /\ Chunk \in Nat \ {0} /\ Active(s) \in Nat \ {0} /\ Active(s) % Chunk = 0
      /\ Stride(s) = Chunk /\ PassLength(s) = Active(s)
      BY PassSizes DEF Random, Stride, PassLength
<1>2. KindOf(s) \in {"sharded", "shuffled"} BY DEF Random
<1>3. c0.mark = n BY DEF Place
<1>4. /\ Resumed(s, c0) \in Cursor /\ Resumed(s, c0).mark = n
      /\ Begin(s, Resumed(s, c0)).mark = n
      BY <1>1, <1>3, BeginType DEF Resumed
<1>5. c \in Cursor /\ c.open /\ HasNext(s, r, c.at) /\ c.mark = n BY <1>4 DEF Serves
<1> DEFINE A == Active(s)
<1>6. c.at % Chunk = 0 /\ c.at \in 0 .. A - 1 /\ c.epoch \in Nat /\ n = c.epoch * A + c.at
  <2>1. CASE c0.open /\ c = c0
    <3>1. c.epoch * A + c.at = n /\ c.at <= A /\ c.at % Chunk = 0
          BY <1>2, <1>3, <2>1 DEF Sound
    <3>2. c.at \in Nat /\ c.epoch \in Nat BY <1>5 DEF Cursor
    <3>3. c.at < A BY <1>5, <3>1, <3>2, RandomHasNext
    <3> QED BY <1>1, <3>1, <3>2, <3>3
  <2>2. CASE ~(c0.open /\ c = c0)
    <3>1. \E b \in {c0, Resumed(s, c0)} : c = Begin(s, b) BY <2>2 DEF Serves, Resumed
    <3>2. PICK b : b.mark = n /\ c = Begin(s, b) /\ b \in Cursor BY <1>3, <1>4, <3>1
    <3>3. c.at = n % A /\ c.epoch = n \div A
          BY <1>1, <1>2, <3>2 DEF Begin, PassStart, Random, Cursor
    <3> HIDE DEF A
    <3>4. n \div A \in Nat /\ n % A \in 0 .. A - 1 /\ n = (n \div A) * A + (n % A)
          BY <1>1, DivMod DEF A
    <3>5. (n % A) % Chunk = 0 BY <1>1, RemainderOfMultiple DEF A
    <3> QED BY <3>3, <3>4, <3>5
  <2> QED BY <2>1, <2>2
<1>7. n \div A = c.epoch /\ n % A = c.at
  <2>1. A \in Nat \ {0} BY <1>1
  <2> DEFINE q == c.epoch
             a == c.at
  <2>2. q \in Nat /\ a \in 0 .. A - 1 /\ n = q * A + a BY <1>6
  <2> HIDE DEF A, q, a
  <2>3. (q * A + a) \div A = q /\ (q * A + a) % A = a BY ONLY <2>1, <2>2, DivUnique
  <2>4. n \div A = q /\ n % A = a BY ONLY <2>2, <2>3
  <2> QED BY <2>4 DEF q, a
<1>8. c.at + Chunk <= A BY <1>1, <1>6, MultiplesApart
<1>9. (c.at + Chunk) % Chunk = 0
  <2>1. Chunk % Chunk = 0 BY <1>1, PassSizes
  <2>2. c.at \in Nat /\ Chunk \in Nat BY <1>1, <1>5 DEF Cursor
  <2> QED BY ONLY <1>1, <1>6, <2>1, <2>2, SumOfMultiples
<1>10. /\ Yield(s, c).at = c.at + Chunk /\ Yield(s, c).open /\ Yield(s, c).epoch = c.epoch
       /\ Yield(s, c).mark = n + Chunk
       BY <1>1, <1>5, YieldType
<1>11. c.epoch * A + (c.at + Chunk) = n + Chunk
  <2> HIDE DEF A
  <2>1. c.epoch * A \in Nat BY <1>1, <1>6 DEF A
  <2> QED BY <1>1, <1>6, <2>1
<1>12. Sound(s, Yield(s, c)) BY <1>2, <1>8, <1>9, <1>10, <1>11 DEF Sound
<1>13. Place(s, Yield(s, c)) = n + Stride(s) BY <1>1, <1>10 DEF Place
<1> QED BY <1>1, <1>2, <1>7, <1>12, <1>13 DEF Gave, OffsetAt, EpochAt

LEMMA SingleGives ==
    ASSUME dataset \in Datasets, layout \in Layouts, NEW s \in Streams,
           KindOf(s) = "single", NEW c0 \in Cursor, NEW n \in Nat,
           Sound(s, c0), Place(s, c0) = n, NEW c \in Cursor, c = Resumed(s, c0)
    PROVE  Gave(s, c, n)
<1>1. ~Random(s) BY DEF Random
<1>2. c.open /\ c.at = n /\ c.epoch = 0
  <2>1. c0.epoch = 0 BY DEF Sound
  <2>2. CASE c0.open BY <1>1, <2>1, <2>2 DEF Resumed, Place
  <2>3. CASE ~c0.open
    <3>1. c = Begin(s, c0) /\ c0.mark = n BY <1>1, <2>3 DEF Resumed, Place
    <3>2. c.open /\ c.at = n BY <1>1, <3>1, BeginType DEF PassStart
    <3>3. c.epoch = c0.epoch BY <1>1, <2>3, <3>1 DEF Begin, Cursor
    <3> QED BY <2>1, <3>2, <3>3
  <2> QED BY <2>2, <2>3
<1>3. /\ Yield(s, c).at = n + Stride(s) /\ Yield(s, c).open /\ Yield(s, c).epoch = 0
      BY <1>2, YieldType
<1>4. Sound(s, Yield(s, c)) /\ Place(s, Yield(s, c)) = n + Stride(s)
      BY <1>1, <1>3 DEF Sound, Place
<1> QED BY <1>2, <1>4 DEF Gave, OffsetAt, EpochAt

\* The whole-batch sampler counts in samples of the dataset: the batches it gives
\* are those of the stream as long as its passes begin at the first sample.
LEMMA BatchGives ==
    ASSUME dataset \in Datasets, layout \in Layouts, NEW s \in Streams,
           KindOf(s) = "batch", NEW r \in Ranks, NEW c0 \in Cursor, NEW n \in Nat,
           n % GBS = 0, Sound(s, c0), Place(s, c0) = n, NEW c, Serves(s, r, c0, c),
           c = Resumed(s, c0) \/ c.at = 0
    PROVE  Gave(s, c, n)
<1> DEFINE P == PassLength(s)
           T == TotalOf(s)
           h == Resumed(s, c0)
<1>1. ~Random(s) /\ Stride(s) = GBS BY DEF Random, Stride
<1>2. GBS \in Nat \ {0} /\ P \in Nat /\ P % GBS = 0 /\ P <= T /\ T < P + GBS /\ T \in Nat
      BY <1>1, PassSizes, LayoutSizes, StreamKinds
<1>3. \A a : HasNext(s, r, a) <=> a + GBS <= T BY <1>1 DEF HasNext
<1>4. c \in Cursor /\ c.open /\ c.at \in Nat /\ c.epoch \in Nat /\ c.at + GBS <= T
      BY <1>3 DEF Serves, Cursor
<1>5. T >= GBS /\ P \in Nat \ {0}
  <2> HIDE DEF P, T
  <2>1. T >= GBS BY ONLY <1>2, <1>4
  <2> QED BY ONLY <1>2, <2>1
\* The pass in progress.
<1>6. h.open /\ h \in Cursor /\ h.at % GBS = 0 /\ h.at \in 0 .. P /\ h.epoch \in Nat
      /\ n = h.epoch * P + h.at
  <2>1. CASE c0.open
    <3>1. h = c0 BY <2>1 DEF Resumed
    <3>2. c0.at <= P /\ c0.at % GBS = 0 BY <1>5, <2>1 DEF Sound
    <3>3. c0.epoch * P + c0.at = n BY <1>1, <2>1 DEF Place
    <3>4. c0.at \in Nat /\ c0.epoch \in Nat BY DEF Cursor
    <3> QED BY <1>2, <2>1, <3>1, <3>2, <3>3, <3>4
  <2>2. CASE ~c0.open
    <3>1. h = Begin(s, c0) /\ c0.mark = n BY <1>1, <2>2 DEF Resumed, Place
    <3>2. n % T = n % P /\ c0.epoch = n \div P BY <1>5, <2>2, <3>1 DEF Sound
    <3>3. h \in Cursor /\ h.open /\ h.at = n % T BY <1>1, <3>1, BeginType DEF PassStart
    <3>4. h.epoch = c0.epoch BY <1>1, <2>2, <3>1 DEF Begin, Cursor
    <3> HIDE DEF P, T, h
    <3>5. n \div P \in Nat /\ n % P \in 0 .. P - 1 /\ n = (n \div P) * P + (n % P) BY ONLY <1>5, DivMod, n \in Nat
    <3>6. (n % P) % GBS = 0 BY <1>2, <1>5, RemainderOfMultiple
    <3> QED BY <1>5, <3>2, <3>3, <3>4, <3>5, <3>6
  <2> QED BY <2>1, <2>2
<1>7. c.at % GBS = 0 /\ c.at \in 0 .. P - 1 /\ c.epoch \in Nat /\ n = c.epoch * P + c.at
  <2>1. c.at < P \/ c.at % GBS # 0
    <3> DEFINE a == c.at
    <3>1. a \in Nat /\ a + GBS <= T BY <1>4
    <3> HIDE DEF P, T, a
    <3> SUFFICES ASSUME a >= P PROVE FALSE BY <1>2, <3>1 DEF a
    <3> QED BY <1>2, <3>1
  <2>2. CASE c = h BY <1>2, <1>4, <1>6, <2>1, <2>2
  <2>3. CASE c # h
    <3>1. c = Begin(s, h) /\ ~HasNext(s, r, h.at) /\ c.at = 0 BY <2>3 DEF Serves
    <3>2. c.epoch = h.epoch + 1 BY <1>1, <1>6, <3>1 DEF Begin, Cursor
    <3> DEFINE a == h.at
    <3>3. a \in 0 .. P /\ a % GBS = 0 /\ ~(a + GBS <= T) BY <1>3, <1>6, <3>1
    <3>4. a = P
      <4> HIDE DEF P, T, a
      <4>a. a \in Nat /\ P \in Nat /\ GBS \in Nat \ {0} /\ a % GBS = 0 /\ P % GBS = 0
            BY ONLY <1>2, <3>3
      <4>1. a < P => a + GBS <= P BY ONLY <4>a, MultiplesApart
      <4> QED BY <1>2, <3>3, <4>1
    <3>5. 0 % GBS = 0 BY <1>2
    <3> DEFINE e == h.epoch
    <3>6. e \in Nat /\ n = e * P + P BY <1>6, <3>4
    <3>7. n = (e + 1) * P + 0
      <4> HIDE DEF P, e
      <4> QED BY <1>2, <3>6
    <3> QED BY <1>5, <3>1, <3>2, <3>5, <3>6, <3>7
  <2> QED BY <2>2, <2>3
<1> DEFINE q == c.epoch
           a == c.at
<1>8. q \in Nat /\ a \in 0 .. P - 1 /\ n = q * P + a /\ a % GBS = 0 BY <1>7
<1>9. /\ n \div P = q /\ n % P = a /\ a + GBS <= P /\ (a + GBS) % GBS = 0
      /\ q * P + (a + GBS) = n + GBS /\ a + GBS \in Nat
  <2> HIDE DEF P, T, q, a
  <2>1. (q * P + a) \div P = q /\ (q * P + a) % P = a BY ONLY <1>5, <1>8, DivUnique
  <2>2. n \div P = q /\ n % P = a BY ONLY <1>8, <2>1
  <2>a. /\ a \in Nat /\ P \in Nat /\ GBS \in Nat \ {0} /\ a % GBS = 0 /\ P % GBS = 0 /\ a < P
        BY ONLY <1>2, <1>8
  <2>3. a + GBS <= P BY ONLY <2>a, MultiplesApart
  <2>4. GBS % GBS = 0 /\ GBS \in Nat BY ONLY <1>2
  <2>5. (a + GBS) % GBS = 0 BY ONLY <2>a, <2>4, SumOfMultiples
  <2>6. q * P \in Nat BY ONLY <1>2, <1>8
  <2>7. q * P + (a + GBS) = n + GBS BY ONLY <1>2, <1>8, <2>6
  <2> QED BY ONLY <1>2, <1>8, <2>2, <2>3, <2>5, <2>7
<1>10. /\ Yield(s, c).at = a + GBS /\ Yield(s, c).open /\ Yield(s, c).epoch = q
       BY <1>1, <1>4, YieldType
<1>11. Sound(s, Yield(s, c)) BY <1>9, <1>10 DEF Sound
<1>12. Place(s, Yield(s, c)) = n + Stride(s) BY <1>1, <1>9, <1>10 DEF Place
<1> QED BY <1>9, <1>11, <1>12 DEF Gave, OffsetAt, EpochAt

\* Counts on the grid are places of the stream where batches begin.
LEMMA GridPlace ==
    ASSUME dataset \in Datasets, layout \in Layouts, NEW s \in Streams,
           NEW n \in Nat, OnGrid(n), NEW k \in Nat
    PROVE  LET m == n + k * Stride(s) IN m \in Nat /\ m % Chunk = 0 /\ m % Stride(s) = 0
<1> DEFINE D == Stride(s)
           j == k * D
<1>1. D \in Nat \ {0} /\ Chunk \in Nat \ {0} /\ Chunk = ChunkOf(layout) /\ D % Chunk = 0
      BY PassSizes
<1>2. n % Chunk = 0 BY <1>1 DEF OnGrid
<1>3. n % D = 0
  <2>1. CASE KindOf(s) = "batch"
    <3>1. dataset.kind = "batch" BY <2>1, StreamKinds
    <3> QED BY <2>1, <3>1 DEF OnGrid, Stride
  <2>2. CASE KindOf(s) # "batch" BY <1>2, <2>2 DEF Stride
  <2> QED BY <2>1, <2>2
<1>4. j \in Nat /\ j % D = 0
  <2>1. D \in Nat \ {0} BY <1>1
  <2> HIDE DEF D
  <2> QED BY ONLY <2>1, k \in Nat, MultipleOf
<1>5. j % Chunk = 0
  <2> DEFINE C == Chunk
  <2>1. C \in Nat \ {0} /\ D \in Nat \ {0} /\ D % C = 0 BY <1>1
  <2> DEFINE e == D \div C
  <2>2. e \in Nat /\ D = e * C
    <3> HIDE DEF D, C
    <3>1. D \in Nat BY <2>1
    <3> QED BY <2>1, <3>1, DivMod, MultipleOf
  <2> HIDE DEF D, C, e
  <2>3. k * D = (k * e) * C /\ k * e \in Nat BY ONLY <2>1, <2>2, k \in Nat
  <2>4. ((k * e) * C) % C = 0 BY ONLY <2>1, <2>3, MultipleOf
  <2>5. (k * D) % C = 0 BY ONLY <2>3, <2>4
  <2> QED BY <2>5 DEF C
<1> HIDE DEF D, j
<1>6. (n + j) % Chunk = 0
  <2> DEFINE C == Chunk
  <2>1. C \in Nat \ {0} /\ n % C = 0 /\ j % C = 0 BY <1>1, <1>2, <1>5
  <2> HIDE DEF C
  <2>2. (n + j) % C = 0 BY ONLY <1>4, <2>1, n \in Nat, SumOfMultiples
  <2> QED BY <2>2 DEF C
<1>7. (n + j) % D = 0 BY ONLY <1>1, <1>3, <1>4, n \in Nat, SumOfMultiples
<1>8. n + j \in Nat BY <1>4
<1> QED BY <1>6, <1>7, <1>8 DEF D, j

LEMMA TrailKept ==
    ASSUME UNCHANGED <<dataset, layout>>
    PROVE  /\ \A s, c : Sound(s, c)' = Sound(s, c) /\ Place(s, c)' = Place(s, c)
           /\ \A s, r, n : BatchAt(s, r, n)' = BatchAt(s, r, n)
<1>1. /\ Chunk' = Chunk
      /\ \A s : /\ KindOf(s)' = KindOf(s) /\ TotalOf(s)' = TotalOf(s) /\ Random(s)' = Random(s)
                /\ Active(s)' = Active(s) /\ PassLength(s)' = PassLength(s)
      BY SamplersKept
<1>2. \A s, c : Sound(s, c)' = Sound(s, c) BY <1>1 DEF Sound
<1>3. \A s, c : Place(s, c)' = Place(s, c) BY <1>1 DEF Place
<1>4. \A s, r, n : BatchAt(s, r, n)' = BatchAt(s, r, n)
  <2>1. /\ \A s, n : OffsetAt(s, n)' = OffsetAt(s, n) /\ EpochAt(s, n)' = EpochAt(s, n)
        /\ \A s, r, a, e : Batch(s, r, a, e)' = Batch(s, r, a, e)
        BY SamplersKept
  <2>2. \A s, r, n : BatchAt(s, r, n)' = (Batch(s, r, OffsetAt(s, n), EpochAt(s, n)))' BY DEF BatchAt
  <2>3. \A s, r, n : (Batch(s, r, OffsetAt(s, n), EpochAt(s, n)))'
                        = Batch(s, r, OffsetAt(s, n), EpochAt(s, n))
        BY <2>1
  <2> QED BY <2>2, <2>3 DEF BatchAt
<1> QED BY <1>2, <1>3, <1>4

\* A draw gives the batch of the count the rank's sampler stands at.
LEMMA DrawGave ==
    ASSUME EvenShuffle, Types, Trail, Multiples, Certain(doing), NEW r \in Ranks,
           NEW c, Gives(r, c), KindOf(doing) = "batch" => ~diverged'
    PROVE  Gave(doing, c, consumed[doing] + Len(drawn[r]) * Stride(doing))
<1> DEFINE c0 == cursor[doing][r]
           n == consumed[doing] + Len(drawn[r]) * Stride(doing)
<1>1. dataset \in Datasets /\ layout \in Layouts /\ doing \in Streams /\ c0 \in Cursor
      /\ consumed[doing] \in Nat
      BY DEF Types, TypeOK, Cursor
<1>2. Len(drawn[r]) \in Nat BY GivenTo
<1>3. n \in Nat /\ n % Chunk = 0 /\ n % Stride(doing) = 0
      BY <1>1, <1>2, GridPlace DEF Multiples
<1>4. Sound(doing, c0) /\ Place(doing, c0) = n BY <1>1 DEF Trail, Taken
<1>5. /\ c \in Cursor /\ c.open /\ (Random(doing) => Active(doing) # 0)
      /\ HasNext(doing, r, c.at)
      /\ \/ c = Here(doing, r)
         \/ /\ c = Again(doing, r) /\ ~HasNext(doing, r, Here(doing, r).at)
            /\ KindOf(doing) # "single"
            /\ (KindOf(doing) = "batch" /\ doing = "train" /\ c.at # 0 => diverged')
      BY DEF Gives
<1>6. Here(doing, r) = Resumed(doing, c0) BY DEF Here, Resumed
<1>7. Again(doing, r) = Begin(doing, Resumed(doing, c0)) BY <1>6 DEF Again
<1>8. Serves(doing, r, c0, c) BY <1>5, <1>6, <1>7 DEF Serves
<1> HIDE DEF c0, n
<1>9. CASE KindOf(doing) = "single"
  <2>1. c = Resumed(doing, c0) BY <1>5, <1>6, <1>9
  <2> QED BY <1>1, <1>3, <1>4, <1>5, <1>9, <2>1, SingleGives DEF n
<1>10. CASE KindOf(doing) = "batch"
  <2>1. c = Resumed(doing, c0) \/ c.at = 0 BY <1>5, <1>6, <1>10 DEF Certain
  <2>2. n % GBS = 0 BY <1>3, <1>10 DEF Stride
  <2> QED BY <1>1, <1>3, <1>4, <1>8, <1>10, <2>1, <2>2, BatchGives DEF n
<1>11. CASE Random(doing)
  BY <1>1, <1>3, <1>4, <1>5, <1>8, <1>11, RandomGives DEF n
<1> QED BY <1>1, <1>9, <1>10, <1>11, StreamKinds DEF Random, Kinds

LEMMA TrailDraw ==
    ASSUME EvenShuffle, Types, Trail, Multiples, NEW r \in Ranks, Draw(r)
    PROVE  Trail'
<1>1. UNCHANGED <<dataset, layout, doing, consumed>> /\ (diverged => diverged')
      /\ (\/ UNCHANGED <<cursor, drawn>>
          \/ \E c : Gives(r, c))
      BY DrawEffect
<1>2. /\ Ranks' = Ranks
      /\ \A s : KindOf(s)' = KindOf(s) /\ Stride(s)' = Stride(s)
      BY <1>1, SamplersKept
<1>3. /\ \A s, c : Sound(s, c)' = Sound(s, c) /\ Place(s, c)' = Place(s, c)
      /\ \A s, q, n : BatchAt(s, q, n)' = BatchAt(s, q, n)
      BY <1>1, TrailKept
\* What Trail says of a sampler, its stream taken to be certain.
<1> DEFINE On(s, q, t) ==
        /\ Sound(s, cursor'[s][q])
        /\ Place(s, cursor'[s][q]) = consumed[s] + t * Stride(s)
        /\ \A k \in 1 .. t : drawn'[q][k] = BatchAt(s, q, consumed[s] + (k - 1) * Stride(s))
<1>4. ASSUME NEW s \in Streams, Certain(s)', NEW q \in Ranks
      PROVE  On(s, q, IF s = doing THEN Len(drawn'[q]) ELSE 0)
  <2>1. Certain(s) BY <1>1, <1>2, <1>4 DEF Certain
  <2>2. /\ Sound(s, cursor[s][q])
        /\ Place(s, cursor[s][q]) = consumed[s] + Taken(s, q) * Stride(s)
        /\ \A k \in 1 .. Taken(s, q) :
              drawn[q][k] = BatchAt(s, q, consumed[s] + (k - 1) * Stride(s))
        BY <2>1 DEF Trail
  <2>3. CASE cursor'[s][q] = cursor[s][q] /\ (s = doing => drawn'[q] = drawn[q])
    <3>1. CASE s = doing BY <2>2, <2>3, <3>1 DEF Taken
    <3>2. CASE s # doing BY <2>2, <2>3, <3>2 DEF Taken
    <3> QED BY <3>1, <3>2
  <2>4. CASE ~(cursor'[s][q] = cursor[s][q] /\ (s = doing => drawn'[q] = drawn[q]))
    <3>1. PICK c : Gives(r, c) BY <1>1, <2>4
    <3>2. s = doing /\ q = r BY <2>4, <3>1, GivenTo
    <3> DEFINE m == Len(drawn[r])
               n == consumed[doing] + m * Stride(doing)
    <3>3. KindOf(doing) = "batch" => ~diverged' BY <1>2, <1>4, <3>2 DEF Certain
    <3>4. Gave(doing, c, n) BY <2>1, <3>1, <3>2, <3>3, DrawGave
    <3>5. /\ Len(drawn'[r]) = m + 1 /\ m \in Nat
          /\ \A k \in 1 .. m : drawn'[r][k] = drawn[r][k]
          /\ drawn'[r][m + 1] = Batch(doing, r, c.at, c.epoch)
          /\ cursor'[doing][r] = Yield(doing, c)
          BY <3>1, GivenTo
    <3>6. Sound(doing, cursor'[doing][r]) /\ Place(doing, cursor'[doing][r]) = n + Stride(doing)
          BY <3>4, <3>5 DEF Gave
    <3>7. drawn'[r][m + 1] = BatchAt(doing, r, n) BY <3>4, <3>5 DEF Gave, BatchAt
    <3>8. n + Stride(doing) = consumed[doing] + (m + 1) * Stride(doing)
      <4>1. consumed[doing] \in Nat /\ Stride(doing) \in Nat
            BY PassSizes DEF Types, TypeOK
      <4> DEFINE x == consumed[doing]
                 y == Stride(doing)
      <4> HIDE DEF m, x, y
      <4>2. x + m * y + y = x + (m + 1) * y
        <5>1. x \in Nat /\ y \in Nat /\ m \in Nat BY <3>5, <4>1 DEF x, y
        <5> QED BY ONLY <5>1
      <4> QED BY <4>2 DEF x, y
    <3>9. ASSUME NEW k \in 1 .. m + 1
          PROVE  drawn'[r][k] = BatchAt(doing, r, consumed[doing] + (k - 1) * Stride(doing))
      <4>1. CASE k = m + 1
        <5>1. k - 1 = m BY <3>5, <4>1
        <5> QED BY <3>7, <4>1, <5>1
      <4>2. CASE k # m + 1
        <5>1. k \in 1 .. m BY <3>5, <4>2
        <5> QED BY <2>2, <3>2, <3>5, <5>1 DEF Taken
      <4> QED BY <4>1, <4>2
    <3> HIDE DEF m, n
    <3>10. On(doing, r, m + 1) BY <3>6, <3>8, <3>9
    <3> QED BY <3>2, <3>5, <3>10
  <2> QED BY <2>3, <2>4
<1>5. \A s \in Streams : Certain(s)' => \A q \in Ranks :
          On(s, q, IF s = doing THEN Len(drawn'[q]) ELSE 0) BY <1>4
<1>6. \A s, q : Taken(s, q)' = IF s = doing THEN Len(drawn'[q]) ELSE 0 BY <1>1 DEF Taken
<1> QED BY <1>1, <1>2, <1>3, <1>5, <1>6 DEF Trail

\* A sampler not begun stands at its mark.
LEMMA FreshStands ==
    ASSUME dataset \in Datasets, layout \in Layouts, NEW s \in Streams, NEW n \in Nat
    PROVE  /\ ~Fresh(s, n).open /\ Fresh(s, n).mark = n
           /\ KindOf(s) = "single" => Fresh(s, n).epoch = 0
           /\ KindOf(s) = "batch" /\ TotalOf(s) >= GBS => Fresh(s, n).epoch = n \div PassLength(s)
BY FreshType DEF Fresh

\* The samplers at the start of a launch, or between two steps.
LEMMA TrailInit == Init => Trail /\ Multiples
<1> SUFFICES ASSUME Init PROVE Trail /\ Multiples OBVIOUS
<1>1. dataset \in Datasets /\ layout \in Layouts BY DEF Init
<1>2. \A s \in Streams : consumed[s] = 0 /\ ckpt.consumed[s] = 0 BY DEF Init
<1>3. \A s \in Streams, r \in Ranks : cursor[s][r] = Fresh(s, 0) BY <1>2 DEF Init, Samplers
<1>4. \A r \in Ranks : Len(drawn[r]) = 0 BY DEF Init, NothingDrawn
<1>5. \A d \in Nat \ {0} : 0 % d = 0 /\ 0 \div d = 0 OBVIOUS
<1>6. Multiples
  <2>1. \A l \in Layouts : 0 % ChunkOf(l) = 0 BY <1>5, LayoutSizes
  <2>2. 0 % GBS = 0 BY <1>5, DataAssumption
  <2> QED BY <1>2, <2>1, <2>2 DEF Multiples, OnGrid
<1>7. ASSUME NEW s \in Streams, NEW r \in Ranks
      PROVE  /\ Sound(s, cursor[s][r])
             /\ Place(s, cursor[s][r]) = consumed[s] + Taken(s, r) * Stride(s)
             /\ Taken(s, r) = 0
  <2>0. 0 \in Nat OBVIOUS
  <2> DEFINE c == Fresh(s, 0)
  <2>1. /\ ~c.open /\ c.mark = 0 /\ (KindOf(s) = "single" => c.epoch = 0)
        /\ (KindOf(s) = "batch" /\ TotalOf(s) >= GBS => c.epoch = 0 \div PassLength(s))
        BY <1>1, <2>0, FreshStands
  <2> HIDE DEF c
  <2>2. KindOf(s) = "batch" /\ TotalOf(s) >= GBS => 0 % TotalOf(s) = 0 % PassLength(s)
    <3> SUFFICES ASSUME KindOf(s) = "batch", TotalOf(s) >= GBS PROVE 0 % TotalOf(s) = 0 % PassLength(s)
        OBVIOUS
    <3>1. PassLength(s) \in Nat /\ TotalOf(s) < PassLength(s) + GBS /\ TotalOf(s) \in Nat \ {0}
          /\ GBS \in Nat
          BY <1>1, PassSizes, StreamKinds, DataAssumption DEF Stride
    <3>2. PassLength(s) \in Nat \ {0} BY <3>1
    <3> QED BY <1>5, <3>1, <3>2
  <2>3. Sound(s, c) BY <2>1, <2>2 DEF Sound
  <2>4. Place(s, c) = 0 BY <2>1 DEF Place
  <2>5. Taken(s, r) = 0 BY <1>4 DEF Taken
  <2>6. 0 * Stride(s) = 0
    <3>1. Stride(s) \in Nat BY <1>1, PassSizes
    <3> QED BY <3>1
  <2> QED BY <1>2, <1>3, <2>3, <2>4, <2>5, <2>6 DEF c
<1>8. Trail BY <1>7 DEF Trail
<1> QED BY <1>6, <1>8

LEMMA GridStep ==
    ASSUME dataset \in Datasets, NEW n \in Nat, OnGrid(n), NEW s, NEW m
    PROVE  OnGrid(n + BatchSize(s, m))
<1> DEFINE b == BatchSize(s, m)
<1>1. b \in {GBS, RampGBS} /\ (dataset.kind = "batch" => b = GBS) BY SizeChosen
<1>2. GBS \in Nat \ {0} /\ RampGBS \in Nat \ {0} BY DataAssumption
<1> HIDE DEF b
<1>3. ASSUME NEW l \in Layouts PROVE (n + b) % ChunkOf(l) = 0
  <2> DEFINE C == ChunkOf(l)
  <2>1. C \in Nat \ {0} /\ GBS % C = 0 /\ RampGBS % C = 0 BY LayoutSizes
  <2>2. n % C = 0 BY DEF OnGrid
  <2> HIDE DEF C
  <2>3. b \in Nat /\ b % C = 0 BY <1>1, <1>2, <2>1
  <2>4. (n + b) % C = 0 BY ONLY <2>1, <2>2, <2>3, n \in Nat, SumOfMultiples
  <2> QED BY <2>4 DEF C
<1>4. ASSUME dataset.kind = "batch" PROVE (n + b) % GBS = 0
  <2>1. b = GBS /\ n % GBS = 0 BY <1>1, <1>4 DEF OnGrid
  <2>2. GBS % GBS = 0 /\ GBS \in Nat BY <1>2
  <2>3. (n + GBS) % GBS = 0 BY ONLY <1>2, <2>1, <2>2, n \in Nat, SumOfMultiples
  <2> QED BY <2>1, <2>3
<1> QED BY <1>3, <1>4 DEF OnGrid, b

\* Every step leaves the dataset alone; only a save makes a checkpoint.
LEMMA Kept ==
    ASSUME [Next]_vars
    PROVE  dataset' = dataset /\ (UNCHANGED ckpt \/ Save)
<1>1. ASSUME NEW r \in Ranks, Draw(r) PROVE UNCHANGED <<dataset, ckpt>> BY <1>1 DEF Draw
<1>2. ASSUME EndTrainStep \/ EndEvalStep \/ Finish \/ Crash
      PROVE  UNCHANGED <<dataset, ckpt>>
      BY <1>2 DEF EndTrainStep, EndEvalStep, Finish, Crash, job
<1>3. CASE Save BY <1>3 DEF Save, job
<1>4. ASSUME NEW l \in Layouts, Restart(l) PROVE UNCHANGED <<dataset, ckpt>> BY <1>4 DEF Restart
<1>5. CASE UNCHANGED vars BY <1>5 DEF vars, job
<1> QED BY <1>1, <1>2, <1>3, <1>4, <1>5 DEF Next

LEMMA MultiplesStep ==
    ASSUME Types, Multiples, [Next]_vars
    PROVE  Multiples'
<1>1. Counts BY DEF Types, TypeOK, Counts
<1>2. dataset \in Datasets /\ \A s \in Streams : consumed[s] \in Nat BY DEF Types, TypeOK
<1>3. \A s \in Streams :
        consumed'[s] # consumed[s] =>
            \/ status = "down" /\ consumed'[s] = ckpt.consumed[s]
            \/ doing = s /\ consumed'[s] = consumed[s] + BatchSize(s, consumed.train)
      BY <1>1, CountsStep
<1>4. dataset' = dataset /\ (UNCHANGED ckpt \/ Save) BY Kept
<1>5. \A s \in Streams : OnGrid(consumed'[s])
  <2>1. \A s \in Streams : OnGrid(consumed[s] + BatchSize(s, consumed.train))
        BY <1>2, GridStep DEF Multiples
  <2> QED BY <1>3, <2>1 DEF Multiples
<1>6. \A s \in Streams : OnGrid(ckpt'.consumed[s])
  <2>1. CASE UNCHANGED ckpt BY <2>1 DEF Multiples
  <2>2. CASE Save
    <3>1. ckpt'.consumed = consumed BY <2>2 DEF Save
    <3> QED BY <3>1 DEF Multiples
  <2> QED BY <1>4, <2>1, <2>2
<1>7. \A n : OnGrid(n)' = OnGrid(n) BY <1>4 DEF OnGrid
<1> QED BY <1>5, <1>6, <1>7 DEF Multiples

\* A step that all ranks have drawn leaves them at the count it makes.
LEMMA TrailEndStep ==
    ASSUME Types, Trail, AllDrawn, UNCHANGED <<dataset, layout, cursor, diverged>>,
           drawn' = NothingDrawn,
           \A s \in Streams : consumed'[s] = IF s = doing THEN consumed[s] + Size ELSE consumed[s]
    PROVE  Trail'
<1>1. /\ Ranks' = Ranks
      /\ \A s : KindOf(s)' = KindOf(s) /\ Stride(s)' = Stride(s)
      BY SamplersKept
<1>2. \A s, c : Sound(s, c)' = Sound(s, c) /\ Place(s, c)' = Place(s, c) BY TrailKept
<1>3. Needed(doing, Size) * Stride(doing) = Size BY SizeIsChosen
<1>4. \A r \in Ranks : drawn'[r] = <<>> /\ Len(drawn'[r]) = 0 BY DEF NothingDrawn
<1>5. ASSUME NEW s \in Streams, Certain(s), NEW r \in Ranks
      PROVE  Sound(s, cursor[s][r]) /\ Place(s, cursor[s][r]) = consumed'[s] + 0 * Stride(s)
  <2>1. Sound(s, cursor[s][r]) /\ Place(s, cursor[s][r]) = consumed[s] + Taken(s, r) * Stride(s)
        BY <1>5 DEF Trail
  <2>2. Stride(s) \in Nat /\ consumed[s] \in Nat /\ Size \in Nat
        BY PassSizes, BatchSizeIsNat DEF Types, TypeOK, Size
  <2>3. 0 * Stride(s) = 0 BY <2>2
  <2>4. CASE s = doing
    <3>1. Taken(s, r) * Stride(s) = Size BY <1>3, <2>4 DEF Taken, AllDrawn
    <3> QED BY <2>1, <2>2, <2>3, <2>4, <3>1
  <2>5. CASE s # doing
    <3>1. Taken(s, r) = 0 BY <2>5 DEF Taken
    <3> QED BY <2>1, <2>2, <2>3, <2>5, <3>1
  <2> QED BY <2>4, <2>5
<1>6. \A s : Certain(s)' = Certain(s) BY <1>1 DEF Certain
<1>7. \A s : \A r \in Ranks : Taken(s, r)' = 0 BY <1>4 DEF Taken
<1> QED BY <1>1, <1>2, <1>5, <1>6, <1>7 DEF Trail

LEMMA TrailRestart ==
    ASSUME Types, NEW l \in Layouts, Restart(l)
    PROVE  Trail'
<1>1. /\ layout' = l /\ dataset' = dataset
      /\ consumed' = ckpt.consumed
      /\ cursor' = [s \in Streams |-> [r \in 0 .. l.dp - 1 |-> Fresh(s, ckpt.consumed[s])]]
      /\ drawn' = [r \in 0 .. l.dp - 1 |-> <<>>]
      /\ diverged' = (ckpt.diverged \/ ~Continues(l))
      BY DEF Restart
<1>2. Ranks' = 0 .. l.dp - 1 BY <1>1 DEF Ranks
<1>3. dataset \in Datasets /\ layout \in Layouts /\ ckpt.consumed \in [Streams -> Nat]
      BY DEF Types, TypeOK
<1>4. \A s, r : r \in Ranks' => Taken(s, r)' = 0 BY <1>1, <1>2 DEF Taken
<1>5. /\ \A s : KindOf(s)' = KindOf(s) /\ TotalOf(s)' = TotalOf(s) /\ Random(s)' = Random(s)
      /\ \A s : KindOf(s) = "batch" => PassLength(s)' = PassLength(s)
      BY <1>1 DEF KindOf, TotalOf, Random, PassLength
<1>6. ASSUME NEW s \in Streams, Certain(s)', NEW r \in Ranks'
      PROVE  /\ Sound(s, cursor[s][r])'
             /\ Place(s, cursor[s][r])' = (consumed'[s] + 0 * Stride(s)')
  <2>0. PICK n \in Nat : n = ckpt.consumed[s] BY <1>3
  <2>c. PICK c : c = Fresh(s, n) OBVIOUS
  <2>1. cursor'[s][r] = c /\ consumed'[s] = n BY <1>1, <1>2, <2>0, <2>c
  <2>2. /\ ~c.open /\ c.mark = n
        /\ (KindOf(s) = "single" => c.epoch = 0)
        /\ (KindOf(s) = "batch" /\ TotalOf(s) >= GBS => c.epoch = n \div PassLength(s))
        BY <1>3, <2>0, <2>c, FreshStands
  <2>3. KindOf(s) = "batch" /\ TotalOf(s) >= GBS => n % TotalOf(s) = n % PassLength(s)
    <3> SUFFICES ASSUME KindOf(s) = "batch", TotalOf(s) >= GBS
                 PROVE  n % TotalOf(s) = n % PassLength(s)
        OBVIOUS
    <3>1. s = "train" /\ ~diverged' BY <1>5, <1>6 DEF Certain
    <3>2. Continues(l) /\ dataset.kind = "batch" /\ TotalOf(s) = dataset.total
      <4>1. Continues(l) BY <1>1, <3>1
      <4>2. TotalOf(s) = dataset.total BY <3>1 DEF TotalOf
      <4> QED BY <1>3, <4>1, <4>2, StreamKinds
    <3>3. n = 0 \/ n % TotalOf(s) = n % PassLength(s) BY <2>0, <3>1, <3>2 DEF Continues
    <3>4. n = 0 => n % TotalOf(s) = n % PassLength(s)
      <4>1. PassLength(s) \in Nat /\ TotalOf(s) < PassLength(s) + GBS /\ TotalOf(s) \in Nat \ {0}
            /\ GBS \in Nat
            BY <1>3, PassSizes, StreamKinds, DataAssumption DEF Stride
      <4>2. PassLength(s) \in Nat \ {0} BY <4>1
      <4>3. \A d \in Nat \ {0} : 0 % d = 0 OBVIOUS
      <4> QED BY <4>1, <4>2, <4>3
    <3> QED BY <3>3, <3>4
  <2>4. Sound(s, cursor[s][r])' BY <1>5, <2>1, <2>2, <2>3 DEF Sound
  <2>5. Place(s, cursor[s][r])' = n BY <2>1, <2>2 DEF Place
  <2>6. 0 * Stride(s)' = 0
    <3>1. Stride(s)' \in Nat
      <4>1. Chunk' = ChunkOf(l) BY <1>1 DEF Chunk, ChunkOf
      <4>2. Stride(s)' \in {GBS, Chunk'} BY DEF Stride
      <4> QED BY <4>1, <4>2, LayoutSizes
    <3> QED BY <3>1
  <2> QED BY <2>0, <2>1, <2>4, <2>5, <2>6
<1> QED BY <1>4, <1>6 DEF Trail

LEMMA TrailStep ==
    ASSUME EvenShuffle, Types, Trail, Multiples, [Next]_vars
    PROVE  Trail'
<1>1. ASSUME NEW r \in Ranks, Draw(r) PROVE Trail' BY <1>1, TrailDraw
<1>2. CASE EndTrainStep
  <2>1. /\ AllDrawn /\ UNCHANGED <<dataset, layout, cursor, diverged>> /\ drawn' = NothingDrawn
        /\ doing = "train" /\ consumed' = [consumed EXCEPT !.train = @ + Size]
        BY <1>2 DEF EndTrainStep, job
  <2>2. \A s \in Streams : consumed'[s] = IF s = doing THEN consumed[s] + Size ELSE consumed[s]
        BY <2>1 DEF Types, TypeOK, Streams
  <2> QED BY <2>1, <2>2, TrailEndStep
<1>3. CASE EndEvalStep
  <2>1. /\ AllDrawn /\ UNCHANGED <<dataset, layout, cursor, diverged>> /\ drawn' = NothingDrawn
        /\ doing = "valid" /\ consumed' = [consumed EXCEPT !.valid = @ + GBS]
        BY <1>3 DEF EndEvalStep, job
  <2>2. Size = GBS BY <2>1, SizeIsChosen
  <2>3. \A s \in Streams : consumed'[s] = IF s = doing THEN consumed[s] + Size ELSE consumed[s]
        BY <2>1, <2>2 DEF Types, TypeOK, Streams
  <2> QED BY <2>1, <2>3, TrailEndStep
<1>4. CASE Save \/ Finish \/ Crash \/ UNCHANGED vars
  <2>1. UNCHANGED <<dataset, layout, doing, cursor, drawn, diverged, consumed>>
        BY <1>4 DEF Save, Finish, Crash, vars, job, data, turn, model
  <2>2. /\ Ranks' = Ranks
        /\ \A s : KindOf(s)' = KindOf(s) /\ Stride(s)' = Stride(s)
        BY <2>1, SamplersKept
  <2>3. /\ \A s, c : Sound(s, c)' = Sound(s, c) /\ Place(s, c)' = Place(s, c)
        /\ \A s, r, n : BatchAt(s, r, n)' = BatchAt(s, r, n)
        BY <2>1, TrailKept
  <2>4. \A s : Certain(s)' = Certain(s) /\ \A r : Taken(s, r)' = Taken(s, r)
        BY <2>1, <2>2 DEF Certain, Taken
  <2> QED BY <2>1, <2>2, <2>3, <2>4 DEF Trail
<1>5. ASSUME NEW l \in Layouts, Restart(l) PROVE Trail' BY <1>5, TrailRestart
<1> QED BY <1>1, <1>2, <1>3, <1>4, <1>5 DEF Next

LEMMA LastDrawnStep ==
    ASSUME Types, LastDrawn, [Next]_vars
    PROVE  LastDrawn'
<1>1. ASSUME NEW r \in Ranks, Draw(r) PROVE LastDrawn'
  <2>1. UNCHANGED <<dataset, layout, doing>>
        /\ (UNCHANGED <<cursor, drawn>> \/ \E c : Gives(r, c))
        BY <1>1, DrawEffect
  <2>2. /\ Ranks' = Ranks /\ Stride(doing)' = Stride(doing)
        /\ KindOf(doing)' = KindOf(doing) /\ TotalOf(doing)' = TotalOf(doing)
        /\ \A q, a, e : Batch(doing, q, a, e)' = Batch(doing, q, a, e)
        BY <2>1, SamplersKept
  <2> DEFINE On(q) ==
          Len(drawn'[q]) > 0 =>
              /\ cursor'[doing][q].open
              /\ KindOf(doing) = "batch" => TotalOf(doing) >= GBS
              /\ drawn'[q][Len(drawn'[q])] =
                    Batch(doing, q, cursor'[doing][q].at - Stride(doing), cursor'[doing][q].epoch)
  <2>3. ASSUME NEW q \in Ranks PROVE On(q)
    <3>1. CASE cursor'[doing][q] = cursor[doing][q] /\ drawn'[q] = drawn[q]
          BY <3>1 DEF LastDrawn
    <3>2. CASE ~(cursor'[doing][q] = cursor[doing][q] /\ drawn'[q] = drawn[q])
      <4>1. PICK c : Gives(r, c) BY <2>1, <3>2
      <4>2. q = r BY <3>2, <4>1, GivenTo
      <4>3. /\ Len(drawn'[r]) = Len(drawn[r]) + 1
            /\ drawn'[r][Len(drawn[r]) + 1] = Batch(doing, r, c.at, c.epoch)
            /\ cursor'[doing][r] = Yield(doing, c)
            BY <4>1, GivenTo
      <4>4. c \in Cursor /\ c.open BY <4>1 DEF Gives
      <4>5. dataset \in Datasets /\ layout \in Layouts /\ doing \in Streams BY DEF Types, TypeOK
      <4> DEFINE y == Yield(doing, c)
      <4>6. y.at = c.at + Stride(doing) /\ y.open /\ y.epoch = c.epoch
            BY <4>4, <4>5, YieldType
      <4>7. y.at - Stride(doing) = c.at
        <5>1. Stride(doing) \in Nat /\ c.at \in Nat BY <4>4, <4>5, PassSizes DEF Cursor
        <5> HIDE DEF y
        <5> QED BY <4>6, <5>1
      <4>8. KindOf(doing) = "batch" => TotalOf(doing) >= GBS
        <5> SUFFICES ASSUME KindOf(doing) = "batch" PROVE TotalOf(doing) >= GBS OBVIOUS
        <5>1. c.at + GBS <= TotalOf(doing) BY <4>1 DEF Gives, HasNext, Stride
        <5>2. TotalOf(doing) \in Nat /\ GBS \in Nat /\ c.at \in Nat
              BY <4>4, <4>5, StreamKinds, DataAssumption DEF Cursor
        <5> QED BY <5>1, <5>2
      <4> HIDE DEF y
      <4> QED BY <4>2, <4>3, <4>6, <4>7, <4>8 DEF y
    <3> QED BY <3>1, <3>2
  <2>4. \A q \in Ranks : On(q) BY <2>3
  <2> QED BY <2>1, <2>2, <2>4 DEF LastDrawn
<1>2. CASE EndTrainStep \/ EndEvalStep
  <2>1. UNCHANGED layout /\ drawn' = NothingDrawn BY <1>2 DEF EndTrainStep, EndEvalStep, job
  <2>2. \A r \in Ranks' : Len(drawn'[r]) = 0 BY <2>1 DEF NothingDrawn, Ranks
  <2> QED BY <2>2 DEF LastDrawn
<1>3. CASE Save \/ Finish \/ Crash \/ UNCHANGED vars
  <2>1. UNCHANGED <<dataset, layout, doing, cursor, drawn>>
        BY <1>3 DEF Save, Finish, Crash, vars, job, turn, data
  <2>2. /\ Ranks' = Ranks /\ Stride(doing)' = Stride(doing)
        /\ KindOf(doing)' = KindOf(doing) /\ TotalOf(doing)' = TotalOf(doing)
        /\ \A q, a, e : Batch(doing, q, a, e)' = Batch(doing, q, a, e)
        BY <2>1, SamplersKept
  <2> QED BY <2>1, <2>2 DEF LastDrawn
<1>4. ASSUME NEW l \in Layouts, Restart(l) PROVE LastDrawn'
  <2>1. layout' = l /\ drawn' = [r \in 0 .. l.dp - 1 |-> <<>>] BY <1>4 DEF Restart
  <2>2. \A r \in Ranks' : Len(drawn'[r]) = 0 BY <2>1 DEF Ranks
  <2> QED BY <2>2 DEF LastDrawn
<1> QED BY <1>1, <1>2, <1>3, <1>4 DEF Next

-----------------------------------------------------------------------------
(* The ranks together.                                                     *)

\* The ranks of a random sampler end a pass together.
LEMMA RanksAgree ==
    ASSUME EvenShuffle, Types, Trail, Multiples, NEW r \in Ranks
    PROVE  Agrees(r)
<1>0. SUFFICES ASSUME Outcome(doing, r) \in {"here", "again"}
               PROVE  HasNext(doing, r, Here(doing, r).at) <=> HasNext(doing, 0, Here(doing, r).at)
      BY DEF Agrees
<1> DEFINE s == doing
           h == Here(doing, r)
<1>1. dataset \in Datasets /\ layout \in Layouts /\ s \in Streams /\ 0 \in Ranks
      BY SomeRank DEF Types, TypeOK
<1>2. /\ Random(s) => Active(s) # 0
      /\ cursor[s][r] \in Cursor /\ h \in Cursor
      BY <1>0, HereAndAgain
<1>3. CASE ~Random(s) BY <1>3 DEF HasNext, Random
<1>4. CASE Random(s)
  <2>1. KindOf(s) \in {"sharded", "shuffled"} BY <1>4 DEF Random
  <2>2. Certain(s) BY <2>1 DEF Certain
  <2>3. /\ Chunk \in Nat \ {0} /\ Active(s) \in Nat \ {0} /\ Active(s) % Chunk = 0
        BY <1>1, <1>2, <1>4, PassSizes
  <2>4. h.at \in Nat /\ h.at % Chunk = 0 /\ h.at <= Active(s)
    <3>1. Sound(s, cursor[s][r]) /\ Place(s, cursor[s][r]) = consumed[s] + Taken(s, r) * Stride(s)
          BY <1>1, <2>2 DEF Trail
    <3>2. CASE cursor[s][r].open
      <4>1. h = cursor[s][r] BY <3>2 DEF Here
      <4> QED BY <1>2, <2>1, <3>1, <3>2, <4>1 DEF Sound, Cursor
    <3>3. CASE ~cursor[s][r].open
      <4> DEFINE n == consumed[s] + Taken(s, r) * Stride(s)
      <4>1. Taken(s, r) \in Nat /\ consumed[s] \in Nat
        <5>1. Len(drawn[r]) \in 0 .. Needed(doing, Size) /\ Needed(doing, Size) \in Nat
              BY SizeIsChosen DEF Types, TypeOK
        <5> QED BY <1>1, <5>1 DEF Taken, Types, TypeOK
      <4>2. n \in Nat /\ n % Chunk = 0 BY <1>1, <4>1, GridPlace DEF Multiples
      <4>3. h = Begin(s, cursor[s][r]) /\ cursor[s][r].mark = n
            BY <1>4, <3>1, <3>3 DEF Here, Place
      <4>4. h.at = n % Active(s)
            BY <1>1, <1>2, <1>4, <2>1, <4>3, BeginType DEF PassStart
      <4> DEFINE A == Active(s)
                 C == Chunk
      <4>5. A \in Nat \ {0} /\ C \in Nat \ {0} /\ A % C = 0 /\ n % C = 0 BY <2>3, <4>2
      <4> HIDE DEF n, A, C
      <4>6. n % A \in 0 .. A - 1 /\ (n % A) % C = 0
            BY ONLY <4>2, <4>5, DivMod, RemainderOfMultiple
      <4>7. n % A \in Nat /\ n % A <= A BY <4>5, <4>6
      <4> QED BY <4>4, <4>6, <4>7 DEF A, C
    <3> QED BY <3>2, <3>3
  <2> HIDE DEF h
  <2>5. \A q \in Ranks : HasNext(s, q, h.at) <=> h.at < Active(s)
        BY <1>1, <1>4, <2>4, RandomHasNext
  <2> QED BY <1>1, <2>5 DEF h
<1> QED BY <1>3, <1>4

\* What the stream theorems rest on.
Stream == Types /\ Multiples /\ Trail /\ LastDrawn

LEMMA StreamInvariant ==
    ASSUME EvenShuffle
    PROVE  /\ Init => Stream
           /\ Stream /\ [Next]_vars => Stream'
<1>1. Init => Stream
  <2>1. Init => LastDrawn BY DEF Init, NothingDrawn, LastDrawn
  <2> QED BY <2>1, TypesInit, TrailInit DEF Stream
<1>2. Stream /\ [Next]_vars => Stream'
      BY TypesStep, MultiplesStep, TrailStep, LastDrawnStep DEF Stream
<1> QED BY <1>1, <1>2

(***************************************************************************)
(* Ranks that have drawn equally often in a step are at the same place of  *)
(* both streams (RanksAligned), through crashes, evaluations and restarts  *)
(* on any layout: for every sampler, if no rank of the shuffled one finds  *)
(* a batch of its own past the last one all ranks share.                   *)
(***************************************************************************)
THEOREM RanksAlwaysAligned ==
    ASSUME EvenShuffle
    PROVE  Spec => []RanksAligned
<1> DEFINE Inv == Stream /\ Shapes /\ OnePath
<1>1. Init => Inv BY PathInit, StreamInvariant
<1>2. Inv /\ [Next]_vars => Inv'
  <2> SUFFICES ASSUME Inv, [Next]_vars PROVE Inv' OBVIOUS
  <2>1. Stream' BY StreamInvariant
  <2>2. \A r \in Ranks : Agrees(r) BY RanksAgree DEF Stream
  <2>3. Shapes' /\ OnePath' BY <2>2, PathStep
  <2> QED BY <2>1, <2>3
<1>3. Inv => RanksAligned BY PathAligns
<1> HIDE DEF Inv
<1> QED BY <1>1, <1>2, <1>3, PTL DEF Spec

-----------------------------------------------------------------------------
(* No sample is dealt twice.                                               *)

\* Lanes of equal width, and what is beside them.
LEMMA TwoDigits ==
    ASSUME NEW d \in Nat \ {0}, NEW w \in Nat \ {0},
           NEW r \in 0 .. d - 1, NEW i \in 0 .. w - 1
    PROVE  /\ r * w + i \in 0 .. w * d - 1
           /\ r + d * i \in 0 .. w * d - 1
<1>1. r * w + w <= d * w
  <2>1. (r + 1) * w <= d * w OBVIOUS
  <2>2. (r + 1) * w = r * w + w OBVIOUS
  <2> QED BY <2>1, <2>2
<1>2. d * i + d <= d * w
  <2>1. d * (i + 1) <= d * w OBVIOUS
  <2>2. d * (i + 1) = d * i + d OBVIOUS
  <2> QED BY <2>1, <2>2
<1>3. r * w \in Nat /\ d * i \in Nat /\ d * w \in Nat /\ d * w = w * d OBVIOUS
<1> DEFINE a == r * w
           b == d * i
           c == d * w
           e == w * d
<1>4. a + w <= c /\ b + d <= c /\ a \in Nat /\ b \in Nat /\ c \in Nat /\ c = e BY <1>1, <1>2, <1>3
<1> HIDE DEF a, b, c, e
<1>5. a + i \in 0 .. e - 1 /\ r + b \in 0 .. e - 1 BY <1>4
<1> QED BY <1>5 DEF a, b, c, e

\* Where the batches of an epoch lie: a pass holds a whole number of them.
LEMMA EpochPlace ==
    ASSUME NEW c \in Nat \ {0}, NEW a \in Nat \ {0}, a % c = 0, NEW n \in Nat, n % c = 0
    PROVE  /\ n \div a \in Nat /\ n % a \in Nat /\ (n % a) + c <= a
           /\ n % a = ((n % a) \div c) * c /\ (n % a) \div c \in Nat
           /\ n = (n \div a) * a + (n % a)
<1> DEFINE m == n % a
<1>1. n \div a \in Nat /\ m \in 0 .. a - 1 /\ n = (n \div a) * a + m BY DivMod
<1>2. m % c = 0 BY RemainderOfMultiple
<1> HIDE DEF m
<1>3. m \in Nat /\ m < a BY <1>1
<1>4. m + c <= a BY ONLY <1>2, <1>3, a % c = 0, c \in Nat \ {0}, a \in Nat \ {0}, MultiplesApart
<1>5. m = (m \div c) * c /\ m \div c \in Nat BY ONLY <1>2, <1>3, c \in Nat \ {0}, MultipleOf, DivMod
<1> QED BY <1>1, <1>3, <1>4, <1>5 DEF m

\* Sizes of a pass, and the indices of its order a batch takes.
LEMMA PassIndices ==
    ASSUME NEW l \in Layouts, NEW t \in Nat, t >= ChunkOf(l), NEW n \in Nat, n % ChunkOf(l) = 0
    PROVE  LET active == t - (t % ChunkOf(l))
               bucket == (t \div ChunkOf(l)) * l.mbs
               full   == (t \div l.mbs) * l.mbs
               at     == n % active
               p      == at \div ChunkOf(l)
           IN  /\ active \in Nat \ {0} /\ bucket \in Nat \ {0} /\ full \in Nat
               /\ n \div active \in Nat /\ at \in Nat /\ p \in Nat
               /\ n = (n \div active) * active + at
               /\ at = p * ChunkOf(l) /\ at + ChunkOf(l) <= full
               /\ at \div l.dp = p * l.mbs /\ p * l.mbs + l.mbs <= bucket
<1> DEFINE c == ChunkOf(l)
           w == l.mbs
           d == l.dp
           g == t \div c
           active == t - (t % c)
           bucket == g * w
           h == t \div w
           full == h * w
           at == n % active
           p == at \div c
<1>1. w \in Nat \ {0} /\ d \in Nat \ {0} /\ c \in Nat \ {0} BY LayoutSizes
<1>2. c = w * d BY DEF ChunkOf
<1>3. active = g * c /\ active \in Nat /\ active % c = 0 /\ active <= t /\ t < active + c
  <2> HIDE DEF c
  <2> QED BY <1>1, Floor
<1>4. g \in Nat /\ h \in Nat /\ h * w <= t /\ t < h * w + w
  <2> HIDE DEF c, w
  <2>1. g \in Nat /\ h \in Nat BY <1>1, DivMod
  <2>2. t - (t % w) = h * w /\ t < (t - (t % w)) + w /\ t - (t % w) <= t BY <1>1, Floor
  <2> QED BY <2>1, <2>2
<1>5. g # 0
  <2>1. t >= c OBVIOUS
  <2> HIDE DEF c, g, active
  <2> SUFFICES ASSUME g = 0 PROVE FALSE OBVIOUS
  <2>2. active = 0 BY <1>1, <1>3
  <2> QED BY <1>1, <1>3, <2>1, <2>2
<1> HIDE DEF c, w, d, g, h
<1>6. active # 0 /\ bucket \in Nat \ {0} /\ full \in Nat
  <2>1. g * c # 0 BY <1>1, <1>4, <1>5
  <2>2. g * w \in Nat \ {0} /\ h * w \in Nat BY <1>1, <1>4, <1>5
  <2> HIDE DEF active
  <2> QED BY <1>3, <2>1, <2>2
<1>7. n \div active \in Nat /\ at \in Nat /\ at + c <= active /\ at = p * c /\ p \in Nat
      /\ n = (n \div active) * active + at
  <2>1. n % c = 0 BY DEF c
  <2>2. active \in Nat \ {0} BY <1>3, <1>6
  <2> HIDE DEF active
  <2> QED BY ONLY <1>1, <1>3, <2>1, <2>2, n \in Nat, EpochPlace
<1> HIDE DEF at, p
<1>8. active = (g * d) * w /\ g * d \in Nat
  <2> HIDE DEF active
  <2> QED BY <1>1, <1>2, <1>3, <1>4
<1>9. active <= full
  <2> DEFINE e == g * d
  <2>1. e \in Nat /\ active = e * w BY <1>8
  <2> HIDE DEF e, active
  <2>2. e * w < (h + 1) * w BY <1>1, <1>3, <1>4, <2>1
  <2>3. e < h + 1 BY <1>1, <1>4, <2>1, <2>2
  <2>4. e <= h BY <1>4, <2>1, <2>3
  <2>5. e * w <= h * w BY <1>1, <1>4, <2>1, <2>4
  <2> QED BY <2>1, <2>5
<1>10. at + c <= full
  <2> HIDE DEF active, full
  <2> QED BY <1>1, <1>3, <1>6, <1>7, <1>9
<1>11. at \div d = p * w
  <2>1. at = (p * w) * d /\ p * w \in Nat BY <1>1, <1>2, <1>7
  <2>2. \A q \in Nat : (q * d) \div d = q BY <1>1, <2>1, MultipleOf
  <2> QED BY <2>1, <2>2
<1>12. p * w + w <= bucket
  <2>1. p * c + c <= g * c BY <1>3, <1>7
  <2>2. p * c + c = (p + 1) * c BY <1>1, <1>7
  <2>3. p + 1 <= g
    <3>1. (p + 1) * c <= g * c BY <2>1, <2>2
    <3> QED BY ONLY <1>1, <1>4, <1>7, <3>1
  <2>4. (p + 1) * w <= g * w BY <1>1, <1>4, <1>7, <2>3
  <2>5. (p + 1) * w = p * w + w BY <1>1, <1>7
  <2> QED BY <2>4, <2>5
<1> QED BY <1>3, <1>6, <1>7, <1>10, <1>11, <1>12 DEF c, w, d, g, h, at, p

\* Sample, rank and count can be told from what is dealt.
LEMMA DealtApart ==
    ASSUME PermInjective, NEW k \in {"single", "sharded", "shuffled"}, NEW t \in Nat,
           NEW l \in Layouts, k # "single" => t >= ChunkOf(l),
           NEW r \in 0 .. l.dp - 1, NEW q \in 0 .. l.dp - 1,
           NEW n \in Nat, NEW m \in Nat, n % ChunkOf(l) = 0, m % ChunkOf(l) = 0,
           NEW i \in 0 .. l.mbs - 1, NEW j \in 0 .. l.mbs - 1,
           Dealt(k, t, l, r, n, i) = Dealt(k, t, l, q, m, j)
    PROVE  r = q /\ n = m /\ i = j
<1> DEFINE c == ChunkOf(l)
           w == l.mbs
           d == l.dp
<1>1. w \in Nat \ {0} /\ d \in Nat \ {0} /\ c \in Nat \ {0} /\ c = w * d
      BY LayoutSizes DEF ChunkOf
<1>2. /\ n % c = 0 /\ m % c = 0 /\ n = (n \div c) * c /\ m = (m \div c) * c
      /\ n \div c \in Nat /\ m \div c \in Nat
  <2>1. n % c = 0 /\ m % c = 0 /\ c \in Nat \ {0} BY <1>1
  <2> HIDE DEF c
  <2> QED BY ONLY <2>1, n \in Nat, m \in Nat, MultipleOf, DivMod
<1>3. CASE k = "single"
  <2> DEFINE x == r * w + i
             y == q * w + j
             u == n \div c
             v == m \div c
  <2>1. n + r * w + i = m + q * w + j BY <1>3 DEF Dealt
  <2>2. x \in 0 .. c - 1 /\ y \in 0 .. c - 1 BY <1>1, TwoDigits
  <2>3. r * w \in Nat /\ q * w \in Nat BY <1>1
  <2> HIDE DEF c, w, d
  <2>4. n + x = m + y BY <2>1, <2>3
  <2> HIDE DEF x, y, u, v
  <2>5. u * c + x = v * c + y /\ n = u * c /\ m = v * c /\ u \in Nat /\ v \in Nat
        BY <1>2, <2>4 DEF u, v
  <2>6. u = v /\ x = y BY ONLY <1>1, <2>2, <2>5, SameDigits
  <2>7. r = q /\ i = j
    <3>1. r * w + i = q * w + j BY <2>6 DEF x, y
    <3>2. i \in 0 .. w - 1 /\ j \in 0 .. w - 1 /\ r \in Int /\ q \in Int BY <1>1 DEF w, d
    <3> QED BY ONLY <1>1, <3>1, <3>2, SameDigits
  <2> QED BY <2>5, <2>6, <2>7
<1>4. CASE k # "single"
  <2> DEFINE A == t - (t % c)
             B == (t \div c) * w
             F == (t \div w) * w
             e == n \div A
             a == n % A
             p == a \div c
             f == m \div A
             b == m % A
             s == b \div c
  <2>0. t >= c BY <1>4
  <2>1. /\ A \in Nat \ {0} /\ B \in Nat \ {0} /\ F \in Nat
        /\ e \in Nat /\ a \in Nat /\ p \in Nat /\ n = e * A + a
        /\ a = p * c /\ a + c <= F /\ a \div d = p * w /\ p * w + w <= B
        BY <1>2, <2>0, PassIndices
  <2>2. /\ f \in Nat /\ b \in Nat /\ s \in Nat /\ m = f * A + b
        /\ b = s * c /\ b + c <= F /\ b \div d = s * w /\ s * w + w <= B
        BY <1>2, <2>0, PassIndices
  <2>w. i \in 0 .. w - 1 /\ j \in 0 .. w - 1 /\ r \in 0 .. d - 1 /\ q \in 0 .. d - 1 OBVIOUS
  \* It is enough to know the epoch and the place in it.
  <2>3. ASSUME e = f, p = s PROVE n = m
    <3>1. e * A = f * A /\ p * c = s * c BY <2>3
    <3> HIDE DEF A, c, e, f, p, s, a, b
    <3> QED BY ONLY <2>1, <2>2, <3>1
  <2>4. CASE k = "sharded"
    <3> DEFINE x == (p * w) + (i + 1)
               y == (s * w) + (j + 1)
    <3>1. /\ Dealt(k, t, l, r, n, i) = <<e, r * B + Perm(e, B)[(a \div d) + (i + 1)]>>
          /\ Dealt(k, t, l, q, m, j) = <<f, q * B + Perm(f, B)[(b \div d) + (j + 1)]>>
          BY <2>4 DEF Dealt
    <3> HIDE DEF c, w, d, A, B, F, e, a, p, f, b, s
    <3>2. e = f /\ r * B + Perm(e, B)[x] = q * B + Perm(e, B)[y] BY <2>1, <2>2, <3>1
    <3>3. x \in 1 .. B /\ y \in 1 .. B
      <4>1. p * w \in Nat /\ s * w \in Nat BY <1>1, <2>1, <2>2
      <4> DEFINE z == p * w
                 o == s * w
      <4>2. z \in Nat /\ o \in Nat /\ z + w <= B /\ o + w <= B BY <2>1, <2>2, <4>1
      <4> HIDE DEF z, o
      <4>3. z + (i + 1) \in 1 .. B /\ o + (j + 1) \in 1 .. B BY ONLY <1>1, <2>1, <2>w, <4>2
      <4> QED BY <4>3 DEF z, o
    <3> HIDE DEF x, y
    <3>4. Perm(e, B) \in [1 .. B -> 0 .. B - 1]
          /\ (Perm(e, B)[x] = Perm(e, B)[y] => x = y)
      <4>1. e \in Nat /\ B \in Nat BY <2>1
      <4> QED BY <3>3, <4>1 DEF PermInjective
    <3> DEFINE g == Perm(e, B)[x]
               h == Perm(e, B)[y]
    <3>5. g \in 0 .. B - 1 /\ h \in 0 .. B - 1 /\ r * B + g = q * B + h
          /\ (g = h => x = y)
          BY <3>2, <3>3, <3>4
    <3> HIDE DEF g, h
    <3>6. r = q /\ g = h
      <4>1. r \in Int /\ q \in Int BY <1>1, <2>w
      <4>2. B \in Nat \ {0} BY <2>1
      <4> QED BY ONLY <3>5, <4>1, <4>2, SameDigits
    <3>7. p = s /\ i = j
      <4>1. p * w + i = s * w + j
        <5>1. p * w \in Nat /\ s * w \in Nat BY <1>1, <2>1, <2>2
        <5>2. (p * w) + (i + 1) = (s * w) + (j + 1) BY <3>5, <3>6 DEF x, y
        <5> QED BY <5>1, <5>2
      <4>2. p \in Int /\ s \in Int BY <2>1, <2>2
      <4> QED BY ONLY <1>1, <2>w, <4>1, <4>2, SameDigits
    <3> QED BY <2>3, <3>2, <3>6, <3>7
  <2>5. CASE k = "shuffled"
    <3> DEFINE u == r + d * i
               v == q + d * j
               x == a + u + 1
               y == b + v + 1
    <3>1. /\ Dealt(k, t, l, r, n, i) = <<e, Perm(e, F)[a + r + d * i + 1]>>
          /\ Dealt(k, t, l, q, m, j) = <<f, Perm(f, F)[b + q + d * j + 1]>>
          BY <2>5 DEF Dealt
    <3>2. u \in 0 .. c - 1 /\ v \in 0 .. c - 1 BY <1>1, TwoDigits
    <3> HIDE DEF c, w, d, A, B, F, e, a, p, f, b, s
    <3>3. a + r + d * i + 1 = x /\ b + q + d * j + 1 = y
      <4>1. d * i \in Nat /\ d * j \in Nat BY <1>1, <2>w
      <4> QED BY <2>1, <2>2, <2>w, <4>1
    <3> HIDE DEF u, v
    <3>4. x \in 1 .. F /\ y \in 1 .. F BY ONLY <1>1, <2>1, <2>2, <3>2
    <3> HIDE DEF x, y
    <3>5. e = f /\ Perm(e, F)[x] = Perm(e, F)[y]
      <4>1. <<e, Perm(e, F)[x]>> = <<f, Perm(f, F)[y]>> BY ONLY <3>1, <3>3,
                Dealt(k, t, l, r, n, i) = Dealt(k, t, l, q, m, j)
      <4> QED BY ONLY <4>1
    <3>6. x = y
      <4>1. e \in Nat /\ F \in Nat BY <2>1
      <4> QED BY <3>4, <3>5, <4>1 DEF PermInjective
    <3>7. p * c + u = s * c + v BY <2>1, <2>2, <3>2, <3>6 DEF x, y
    <3>8. p = s /\ u = v
      <4>1. p \in Int /\ s \in Int BY <2>1, <2>2
      <4> QED BY ONLY <1>1, <3>2, <3>7, <4>1, SameDigits
    <3>9. r = q /\ i = j
      <4>1. i * d + r = j * d + q BY <1>1, <2>w, <3>8 DEF u, v
      <4>2. i \in Int /\ j \in Int BY <1>1, <2>w
      <4> QED BY ONLY <1>1, <2>w, <4>1, <4>2, SameDigits
    <3> QED BY <2>3, <3>5, <3>8, <3>9
  <2> QED BY <1>4, <2>4, <2>5
<1> QED BY <1>3, <1>4

-----------------------------------------------------------------------------
(* The batches of a step.                                                  *)

LEMMA BatchDealt ==
    ASSUME dataset \in Datasets, layout \in Layouts, NEW s \in Streams, KindOf(s) # "batch",
           NEW r, NEW n, NEW x
    PROVE  x \in BatchAt(s, r, n) <=>
               \E i \in 0 .. layout.mbs - 1 : x = Dealt(KindOf(s), TotalOf(s), layout, r, n, i)
<1>1. KindOf(s) \in {"single", "sharded", "shuffled"} BY StreamKinds DEF Kinds
<1>2. layout.mbs \in Nat BY LayoutSizes
<1>3. Chunk = ChunkOf(layout) BY DEF Chunk, ChunkOf
<1>4. CASE KindOf(s) = "single"
  <2>1. BatchAt(s, r, n) = {<<0, n + r * layout.mbs + i>> : i \in 0 .. layout.mbs - 1}
        BY <1>4 DEF BatchAt, Batch, OffsetAt, EpochAt
  <2>2. \A i : Dealt(KindOf(s), TotalOf(s), layout, r, n, i) = <<0, n + r * layout.mbs + i>>
        BY <1>4 DEF Dealt
  <2> QED BY <2>1, <2>2
<1> DEFINE A == TotalOf(s) - (TotalOf(s) % ChunkOf(layout))
           B == (TotalOf(s) \div ChunkOf(layout)) * layout.mbs
           F == (TotalOf(s) \div layout.mbs) * layout.mbs
           e == n \div A
           a == n % A
<1>5. KindOf(s) # "single" =>
        /\ OffsetAt(s, n) = a /\ EpochAt(s, n) = e /\ Bucket(s) = B /\ Full(s) = F
      BY <1>1, <1>3 DEF OffsetAt, EpochAt, PassLength, Active, Bucket, Full
<1>6. CASE KindOf(s) = "sharded"
  <2>1. BatchAt(s, r, n) =
          {<<e, r * B + Perm(e, B)[a \div layout.dp + i]>> : i \in 1 .. layout.mbs}
        BY <1>5, <1>6 DEF BatchAt, Batch
  <2>2. \A i : Dealt(KindOf(s), TotalOf(s), layout, r, n, i)
                  = <<e, r * B + Perm(e, B)[a \div layout.dp + (i + 1)]>>
        BY <1>6 DEF Dealt
  <2> HIDE DEF e, a, B
  <2>3. ASSUME x \in BatchAt(s, r, n)
        PROVE  \E i \in 0 .. layout.mbs - 1 : x = Dealt(KindOf(s), TotalOf(s), layout, r, n, i)
    <3>1. PICK i \in 1 .. layout.mbs : x = <<e, r * B + Perm(e, B)[a \div layout.dp + i]>>
          BY <2>1, <2>3
    <3>2. PICK j \in 0 .. layout.mbs - 1 : j + 1 = i
      <4>1. i - 1 \in 0 .. layout.mbs - 1 /\ (i - 1) + 1 = i BY <1>2
      <4> QED BY <4>1
    <3>3. x = Dealt(KindOf(s), TotalOf(s), layout, r, n, j) BY <2>2, <3>1, <3>2
    <3> QED BY <3>3
  <2>4. ASSUME NEW i \in 0 .. layout.mbs - 1, x = Dealt(KindOf(s), TotalOf(s), layout, r, n, i)
        PROVE  x \in BatchAt(s, r, n)
    <3>1. i + 1 \in 1 .. layout.mbs BY <1>2
    <3> QED BY <2>1, <2>2, <2>4, <3>1
  <2> QED BY <2>3, <2>4
<1>7. CASE KindOf(s) = "shuffled"
  <2>1. BatchAt(s, r, n) =
          {<<e, Perm(e, F)[a + r + layout.dp * i + 1]>> : i \in 0 .. layout.mbs - 1}
        BY <1>5, <1>7 DEF BatchAt, Batch
  <2>2. \A i : Dealt(KindOf(s), TotalOf(s), layout, r, n, i)
                  = <<e, Perm(e, F)[a + r + layout.dp * i + 1]>>
        BY <1>7 DEF Dealt
  <2> HIDE DEF e, a, F
  <2> QED BY <2>1, <2>2
<1> QED BY <1>1, <1>4, <1>6, <1>7

LEMMA BatchesApart ==
    ASSUME PermInjective, dataset \in Datasets, layout \in Layouts, NEW s \in Streams,
           KindOf(s) # "batch", Random(s) => Active(s) # 0,
           NEW r \in Ranks, NEW q \in Ranks, NEW n \in Nat, NEW m \in Nat,
           n % Chunk = 0, m % Chunk = 0, r # q \/ n # m
    PROVE  BatchAt(s, r, n) \cap BatchAt(s, q, m) = {}
<1> SUFFICES ASSUME NEW x \in BatchAt(s, r, n), x \in BatchAt(s, q, m) PROVE FALSE
    OBVIOUS
<1>1. PICK i \in 0 .. layout.mbs - 1 : x = Dealt(KindOf(s), TotalOf(s), layout, r, n, i)
      BY BatchDealt
<1>2. PICK j \in 0 .. layout.mbs - 1 : x = Dealt(KindOf(s), TotalOf(s), layout, q, m, j)
      BY BatchDealt
<1>3. KindOf(s) \in {"single", "sharded", "shuffled"} /\ TotalOf(s) \in Nat
      BY StreamKinds DEF Kinds
<1>4. KindOf(s) # "single" => TotalOf(s) >= ChunkOf(layout)
  <2> SUFFICES ASSUME KindOf(s) # "single" PROVE TotalOf(s) >= ChunkOf(layout) OBVIOUS
  <2>1. Random(s) BY <1>3 DEF Random
  <2>2. /\ Chunk \in Nat \ {0} /\ Chunk = ChunkOf(layout) /\ Active(s) \in Nat
        /\ Active(s) % Chunk = 0 /\ PassLength(s) = Active(s) /\ PassLength(s) <= TotalOf(s)
        BY <1>3, PassSizes DEF PassLength
  <2> DEFINE c == Chunk
             a == Active(s)
             z == 0
  <2>3. c \in Nat \ {0} /\ a \in Nat /\ z \in Nat /\ a % c = 0 /\ z % c = 0 /\ z < a
        BY <2>1, <2>2
  <2>4. z = 0 OBVIOUS
  <2> HIDE DEF c, a, z
  <2>5. z + c <= a BY ONLY <2>3, MultiplesApart
  <2> QED BY <1>3, <2>2, <2>3, <2>4, <2>5 DEF c, a
<1>5. n % ChunkOf(layout) = 0 /\ m % ChunkOf(layout) = 0 BY DEF Chunk, ChunkOf
<1>6. r \in 0 .. layout.dp - 1 /\ q \in 0 .. layout.dp - 1 BY DEF Ranks
<1> DEFINE k == KindOf(s)
           t == TotalOf(s)
<1>7. /\ k \in {"single", "sharded", "shuffled"} /\ t \in Nat
      /\ (k # "single" => t >= ChunkOf(layout))
      /\ Dealt(k, t, layout, r, n, i) = Dealt(k, t, layout, q, m, j)
      BY <1>1, <1>2, <1>3, <1>4
<1> HIDE DEF k, t
<1>8. r = q /\ n = m BY <1>5, <1>6, <1>7, DealtApart
<1> QED BY <1>8

LEMMA DisjointWhenStream ==
    ASSUME PermInjective, Stream, RanksAligned
    PROVE  DisjointBatches
<1> SUFFICES ASSUME NEW b \in Batches, NEW c \in Batches, b # c
             PROVE  drawn[b[1]][b[2]] \cap drawn[c[1]][c[2]] = {}
    BY DEF DisjointBatches
<1>1. dataset \in Datasets /\ layout \in Layouts /\ doing \in Streams
      /\ consumed[doing] \in Nat /\ Shapes
      BY DEF Stream, Types, TypeOK
<1>2. /\ b \in Ranks \X (1 .. Needed(doing, Size)) /\ b[2] <= Len(drawn[b[1]])
      /\ c \in Ranks \X (1 .. Needed(doing, Size)) /\ c[2] <= Len(drawn[c[1]])
      BY DEF Batches
<1>3. PICK r \in Ranks, k \in 1 .. Needed(doing, Size) : b = <<r, k>> BY <1>2
<1>4. PICK q \in Ranks, j \in 1 .. Needed(doing, Size) : c = <<q, j>> BY <1>2
<1>5. r # q \/ k # j BY <1>3, <1>4
<1>6. k <= Len(drawn[r]) /\ j <= Len(drawn[q]) /\ Needed(doing, Size) \in Nat
      /\ Len(drawn[r]) \in 0 .. Needed(doing, Size) /\ Len(drawn[q]) \in 0 .. Needed(doing, Size)
      BY <1>2, <1>3, <1>4, SizeIsChosen DEF Stream, Types, TypeOK
<1>7. CASE KindOf(doing) # "batch"
  <2>1. cursor[doing][r].open BY <1>6 DEF Stream, LastDrawn
  <2>2. Random(doing) => Active(doing) # 0 BY <1>1, <2>1 DEF Stream, Types
  <2>3. Certain(doing) BY <1>7 DEF Certain
  <2> DEFINE D == Stride(doing)
             n == consumed[doing] + (k - 1) * D
             m == consumed[doing] + (j - 1) * D
  <2>4. drawn[r][k] = BatchAt(doing, r, n) /\ drawn[q][j] = BatchAt(doing, q, m)
        BY <1>1, <1>6, <2>3 DEF Stream, Trail, Taken
  <2>5. n \in Nat /\ m \in Nat /\ n % Chunk = 0 /\ m % Chunk = 0
    <3>1. k - 1 \in Nat /\ j - 1 \in Nat BY <1>6
    <3> QED BY <1>1, <3>1, GridPlace DEF Stream, Multiples
  <2>6. r # q \/ n # m
    <3>1. n = m => k = j
      <4>1. D \in Nat \ {0} BY <1>1, PassSizes
      <4> DEFINE x == consumed[doing]
      <4>2. x \in Nat BY <1>1
      <4> HIDE DEF D, x
      <4> SUFFICES ASSUME x + (k - 1) * D = x + (j - 1) * D PROVE k = j BY DEF x
      <4> DEFINE u == (k - 1) * D
                 v == (j - 1) * D
      <4>3. u \in Int /\ v \in Int BY <1>6, <4>1
      <4>4. x + u = x + v OBVIOUS
      <4> HIDE DEF u, v
      <4>5. u = v BY ONLY <4>2, <4>3, <4>4
      <4> QED BY <1>6, <4>1, <4>5 DEF u, v
    <3> QED BY <1>5, <3>1
  <2> HIDE DEF n, m
  <2> QED BY <1>1, <1>3, <1>4, <1>7, <2>2, <2>4, <2>5, <2>6, BatchesApart
\* The whole-batch sampler gives every rank one batch, at one offset.
<1>8. CASE KindOf(doing) = "batch"
  <2>1. Needed(doing, Size) = 1 BY <1>8 DEF Needed
  <2>2. k = 1 /\ j = 1 /\ Len(drawn[r]) = 1 /\ Len(drawn[q]) = 1 /\ r # q
        BY <1>5, <1>6, <2>1
  <2>3. cursor[doing][r] = cursor[doing][q] BY <1>1, <2>2 DEF RanksAligned
  <2> DEFINE at == cursor[doing][r].at - Stride(doing)
             e == cursor[doing][r].epoch
             d == layout.dp
  <2>4. drawn[r][1] = Batch(doing, r, at, e) /\ drawn[q][1] = Batch(doing, q, at, e)
        BY <2>2, <2>3 DEF Stream, LastDrawn
  <2>5. at \in Int
    <3>1. cursor[doing][r].at \in Nat /\ Stride(doing) \in Nat
          BY <1>1, PassSizes DEF Stream, Types, TypeOK
    <3> QED BY <3>1
  <2>6. /\ Batch(doing, r, at, e) = {<<e, at + r + d * i>> : i \in 0 .. GBS \div d - 1}
        /\ Batch(doing, q, at, e) = {<<e, at + q + d * i>> : i \in 0 .. GBS \div d - 1}
        BY <1>8 DEF Batch
  <2>7. r \in 0 .. d - 1 /\ q \in 0 .. d - 1 /\ d \in Nat \ {0} BY <1>1, RanksAreNumbers
  <2> HIDE DEF at, e, d
  <2>8. ASSUME NEW i \in Int, NEW l \in Int, at + r + d * i = at + q + d * l
        PROVE  FALSE
    <3>1. d * i = i * d /\ d * l = l * d /\ i * d \in Int /\ l * d \in Int BY <2>7
    <3> DEFINE x == i * d
               y == l * d
    <3>2. x \in Int /\ y \in Int /\ at + r + x = at + q + y BY <2>8, <3>1
    <3> HIDE DEF x, y
    <3>3. x + r = y + q BY ONLY <2>5, <2>7, <3>2
    <3>4. i * d + r = l * d + q BY <3>3 DEF x, y
    <3>5. r = q BY ONLY <2>7, <3>4, i \in Int, l \in Int, SameDigits
    <3> QED BY <2>2, <3>5
  <2>9. Batch(doing, r, at, e) \cap Batch(doing, q, at, e) = {}
    <3> SUFFICES ASSUME NEW x \in Batch(doing, r, at, e), x \in Batch(doing, q, at, e)
                 PROVE  FALSE
        OBVIOUS
    <3>1. PICK i \in 0 .. GBS \div d - 1 : x = <<e, at + r + d * i>> BY <2>6
    <3>2. PICK l \in 0 .. GBS \div d - 1 : x = <<e, at + q + d * l>> BY <2>6
    <3>3. at + r + d * i = at + q + d * l BY <3>1, <3>2
    <3>4. i \in Int /\ l \in Int OBVIOUS
    <3> QED BY <2>8, <3>3, <3>4
  <2> QED BY <1>3, <1>4, <2>2, <2>4, <2>9
<1> QED BY <1>7, <1>8

(***************************************************************************)
(* No sample reaches two ranks, or one rank twice, within a step           *)
(* (DisjointBatches), whichever sampler, layout and batch size, through    *)
(* crashes and restarts: what the ranks draw are distinct chunks of one    *)
(* stream, and a permutation deals each index once.                        *)
(***************************************************************************)
THEOREM BatchesAlwaysDisjoint ==
    ASSUME EvenShuffle, PermInjective
    PROVE  Spec => []DisjointBatches
<1>1. Spec => []RanksAligned BY RanksAlwaysAligned
<1>2. Init => Stream BY StreamInvariant
<1>3. Stream /\ [Next]_vars => Stream' BY StreamInvariant
<1>4. Stream /\ RanksAligned => DisjointBatches BY DisjointWhenStream
<1> QED BY <1>1, <1>2, <1>3, <1>4, PTL DEF Spec

-----------------------------------------------------------------------------
(* The window of a step.                                                   *)

\* g rows of d numbers.
RowsOf(g, d) == {i * d + r : i \in 0 .. g - 1, r \in 0 .. d - 1}

LEMMA Rows ==
    ASSUME NEW d \in Nat \ {0}, NEW size \in Nat, size % d = 0
    PROVE  0 .. size - 1 = RowsOf(size \div d, d)
<1> DEFINE g == size \div d
<1>1. g \in Nat /\ size = g * d BY DivMod, MultipleOf
<1> HIDE DEF g
<1>2. ASSUME NEW y \in 0 .. size - 1 PROVE y \in RowsOf(g, d)
  <2> DEFINE i == y \div d
             r == y % d
  <2>0. y \in Nat OBVIOUS
  <2>1. i \in Nat /\ r \in 0 .. d - 1 /\ y = i * d + r BY ONLY <2>0, d \in Nat \ {0}, DivMod
  <2> HIDE DEF i, r
  <2>2. i * d < g * d
    <3>1. i * d \in Nat BY <2>1
    <3> QED BY <1>1, <1>2, <2>1, <3>1
  <2>3. i < g BY <1>1, <2>1, <2>2
  <2>4. i \in 0 .. g - 1 BY <1>1, <2>1, <2>3
  <2> QED BY <2>1, <2>4 DEF RowsOf
<1>3. ASSUME NEW y \in RowsOf(g, d) PROVE y \in 0 .. size - 1
  <2>0. PICK i \in 0 .. g - 1, r \in 0 .. d - 1 : y = i * d + r BY <1>3 DEF RowsOf
  <2>1. (i + 1) * d <= g * d BY <1>1
  <2>2. (i + 1) * d = i * d + d /\ i * d \in Nat BY <1>1
  <2> DEFINE x == i * d
  <2>3. x \in Nat /\ x + d <= size /\ y = x + r BY <1>1, <2>0, <2>1, <2>2
  <2> HIDE DEF x
  <2> QED BY <2>3
<1>4. 0 .. size - 1 = RowsOf(g, d) BY <1>2, <1>3
<1> QED BY <1>4 DEF g

\* k blocks of d lanes of w numbers.
LanesOf(k, d, w) ==
    {b * (w * d) + (r * w + j) : b \in 0 .. k - 1, r \in 0 .. d - 1, j \in 0 .. w - 1}

LEMMA Lanes ==
    ASSUME NEW d \in Nat \ {0}, NEW w \in Nat \ {0}, NEW size \in Nat, size % (w * d) = 0
    PROVE  0 .. size - 1 = LanesOf(size \div (w * d), d, w)
<1> DEFINE c == w * d
           k == size \div c
<1>1. c \in Nat \ {0} /\ c % w = 0 /\ c \div w = d
  <2>1. c = d * w /\ c \in Nat \ {0} OBVIOUS
  <2> HIDE DEF c
  <2> QED BY <2>1, MultipleOf
<1>2. size % c = 0 /\ \A x : x \in LanesOf(k, d, w) <=>
            \E b \in 0 .. k - 1, r \in 0 .. d - 1, j \in 0 .. w - 1 : x = b * c + (r * w + j)
      BY DEF LanesOf
<1> HIDE DEF c
<1>3. 0 .. size - 1 = RowsOf(k, c) BY <1>1, <1>2, Rows
<1>4. 0 .. c - 1 = RowsOf(d, w)
  <2>1. c \in Nat BY <1>1
  <2>2. 0 .. c - 1 = RowsOf(c \div w, w) BY <1>1, <2>1, Rows
  <2> QED BY <1>1, <2>2
<1> HIDE DEF k
<1>5. ASSUME NEW y \in 0 .. size - 1 PROVE y \in LanesOf(k, d, w)
  <2>0. y \in RowsOf(k, c) BY <1>3
  <2>1. PICK b \in 0 .. k - 1, u \in 0 .. c - 1 : y = b * c + u BY <2>0 DEF RowsOf
  <2>2. u \in RowsOf(d, w) BY <1>4
  <2>3. PICK r \in 0 .. d - 1, j \in 0 .. w - 1 : u = r * w + j BY ONLY <2>2 DEF RowsOf
  <2> QED BY <1>2, <2>1, <2>3
<1>6. ASSUME NEW y \in LanesOf(k, d, w) PROVE y \in 0 .. size - 1
  <2>1. PICK b \in 0 .. k - 1, r \in 0 .. d - 1, j \in 0 .. w - 1 : y = b * c + (r * w + j)
        BY <1>2
  <2>2. r * w + j \in RowsOf(d, w) BY DEF RowsOf
  <2>3. r * w + j \in 0 .. c - 1 BY <1>4, <2>2
  <2>4. y \in RowsOf(k, c) BY <2>1, <2>3 DEF RowsOf
  <2> QED BY <1>3, <2>4
<1>7. 0 .. size - 1 = LanesOf(k, d, w) BY <1>5, <1>6
<1> QED BY <1>7 DEF c, k

\* What the ranks are given in a step is its window, however they share it out.
StepOf(from, size) ==
    UNION {BatchAt("train", r, from + k * Stride("train")) :
              r \in Ranks, k \in 0 .. Needed("train", size) - 1}

LEMMA StepWindow ==
    ASSUME dataset \in Datasets, layout \in Layouts, NEW from \in Nat,
           NEW size \in {GBS, RampGBS}, dataset.kind = "batch" => size = GBS,
           PassHolds(layout)
    PROVE  StepOf(from, size) = WindowIn(layout, from, size)
<1> DEFINE s == "train"
           w == layout.mbs
           d == layout.dp
           c == w * d
           g == size \div c
<1>1. /\ s \in Streams /\ KindOf(s) = dataset.kind /\ TotalOf(s) = dataset.total
      /\ KindOf(s) \in Kinds
      BY StreamKinds DEF Streams, KindOf, TotalOf
<1>2. /\ w \in Nat \ {0} /\ d \in Nat \ {0} /\ c \in Nat \ {0} /\ size \in Nat /\ size % c = 0
      /\ c = ChunkOf(layout) /\ c = Chunk /\ GBS % c = 0 /\ GBS \in Nat
      BY LayoutSizes DEF ChunkOf, Chunk
<1>3. Ranks = 0 .. d - 1 BY DEF Ranks
<1>4. \A x : x \in StepOf(from, size) <=>
                \E r \in Ranks, k \in 0 .. Needed(s, size) - 1 : x \in BatchAt(s, r, from + k * Stride(s))
      BY DEF StepOf
<1>5. CASE KindOf(s) # "batch"
  <2> DEFINE D(r, n, i) == Dealt(dataset.kind, dataset.total, layout, r, n, i)
  <2>1. Needed(s, size) = g /\ Stride(s) = c BY <1>2, <1>5 DEF Needed, Stride
  <2>2. \A r, n, x : x \in BatchAt(s, r, n) <=> \E i \in 0 .. w - 1 : x = D(r, n, i)
        BY <1>1, <1>5, BatchDealt
  <2> HIDE DEF c, g, w, d
  <2>3. \A x : x \in StepOf(from, size) <=>
                  \E r \in 0 .. d - 1, k \in 0 .. g - 1 : \E i \in 0 .. w - 1 : x = D(r, from + k * c, i)
        BY ONLY <1>3, <1>4, <2>1, <2>2
  <2>4. CASE KindOf(s) # "single"
    <3>1. WindowIn(layout, from, size) =
            {D(r, from + k * ChunkOf(layout), i) :
                r \in 0 .. d - 1, i \in 0 .. w - 1, k \in 0 .. (size \div ChunkOf(layout)) - 1}
          BY <1>1, <1>5, <2>4 DEF WindowIn, d, w
    <3>2. ChunkOf(layout) = c /\ size \div c = g BY <1>2 DEF g
    <3> HIDE DEF D
    <3>3. \A x : x \in WindowIn(layout, from, size) <=>
                    \E r \in 0 .. d - 1, k \in 0 .. g - 1 : \E i \in 0 .. w - 1 :
                        x = D(r, from + k * c, i)
      <4> DEFINE h == size \div ChunkOf(layout)
      <4>1. h = g BY <3>2
      <4>2. WindowIn(layout, from, size) =
              {D(r, from + k * ChunkOf(layout), i) : r \in 0 .. d - 1, i \in 0 .. w - 1, k \in 0 .. h - 1}
            BY <3>1
      <4> HIDE DEF h
      <4> QED BY <3>2, <4>1, <4>2
    <3> QED BY <2>3, <3>3
  <2>5. CASE KindOf(s) = "single"
    <3>1. \A r, n, i : D(r, n, i) = <<0, n + r * w + i>> BY <1>1, <2>5 DEF Dealt, w
    <3>2. WindowIn(layout, from, size) = {<<0, from + y>> : y \in 0 .. size - 1}
          BY <1>1, <2>5 DEF WindowIn, Run
    <3>3. 0 .. size - 1 = LanesOf(g, d, w)
      <4>1. 0 .. size - 1 = LanesOf(size \div (w * d), d, w) BY <1>2, Lanes DEF c
      <4> QED BY <4>1 DEF g, c
    <3> HIDE DEF D
    <3>4. ASSUME NEW r \in 0 .. d - 1, NEW k \in 0 .. g - 1, NEW i \in 0 .. w - 1
          PROVE  D(r, from + k * c, i) = <<0, from + (k * c + (r * w + i))>>
      <4>1. from + k * c + r * w + i = from + (k * c + (r * w + i))
        <5>1. k * c \in Int /\ r * w \in Int BY <1>2
        <5> QED BY <5>1
      <4> QED BY <3>1, <4>1
    <3>5. ASSUME NEW x \in StepOf(from, size) PROVE x \in WindowIn(layout, from, size)
      <4>1. PICK r \in 0 .. d - 1, k \in 0 .. g - 1 : \E i \in 0 .. w - 1 : x = D(r, from + k * c, i)
            BY <2>3, <3>5
      <4>2. PICK i \in 0 .. w - 1 : x = D(r, from + k * c, i) BY <4>1
      <4> DEFINE y == k * c + (r * w + i)
      <4>3. y \in LanesOf(g, d, w) BY DEF LanesOf, c
      <4>4. y \in 0 .. size - 1 BY <3>3, <4>3
      <4>5. x = <<0, from + y>> BY <3>4, <4>2
      <4> HIDE DEF y
      <4> QED BY <3>2, <4>4, <4>5
    <3>6. ASSUME NEW x \in WindowIn(layout, from, size) PROVE x \in StepOf(from, size)
      <4>1. PICK y \in 0 .. size - 1 : x = <<0, from + y>> BY <3>2, <3>6
      <4>2. y \in LanesOf(g, d, w) BY <3>3, <4>1
      <4>3. PICK k \in 0 .. g - 1, r \in 0 .. d - 1, i \in 0 .. w - 1 : y = k * c + (r * w + i)
            BY ONLY <4>2 DEF LanesOf, c
      <4>4. x = D(r, from + k * c, i) BY <3>4, <4>1, <4>3
      <4> QED BY <2>3, <4>4
    <3> QED BY <3>5, <3>6
  <2> QED BY <2>4, <2>5
<1>6. CASE KindOf(s) = "batch"
  <2> DEFINE P == PassLength(s)
             e == from \div P
             a == from % P
             h == GBS \div d
  <2>1. Needed(s, size) = 1 /\ Stride(s) = GBS /\ size = GBS BY <1>1, <1>6 DEF Needed, Stride
  <2>2. \A r : BatchAt(s, r, from) = {<<e, a + r + d * i>> : i \in 0 .. h - 1}
        BY <1>6 DEF BatchAt, Batch, OffsetAt, EpochAt
  <2>3. WindowIn(layout, from, size) = {<<e, a + y>> : y \in 0 .. GBS - 1}
        BY <1>1, <1>6, <2>1 DEF WindowIn, Run
  <2>4. from + 0 * GBS = from BY <1>2
  <2>5. \A x : x \in StepOf(from, size) <=> \E r \in 0 .. d - 1 : x \in BatchAt(s, r, from)
    <3>1. \A x : x \in StepOf(from, size) <=>
                    \E r \in 0 .. d - 1, k \in 0 .. 1 - 1 : x \in BatchAt(s, r, from + k * GBS)
          BY ONLY <1>3, <1>4, <2>1
    <3>2. \A k : k \in 0 .. 1 - 1 <=> k = 0 OBVIOUS
    <3> QED BY ONLY <2>4, <3>1, <3>2
  <2>6. 0 .. GBS - 1 = RowsOf(h, d)
    <3>1. GBS % d = 0
      <4> DEFINE q == GBS \div c
      <4>1. q \in Nat /\ GBS = q * c BY <1>2, DivMod, MultipleOf
      <4> HIDE DEF q
      <4>2. GBS = (q * w) * d /\ q * w \in Nat BY <1>2, <4>1
      <4> HIDE DEF d, w, c
      <4> QED BY <1>2, <4>2, MultipleOf
    <3> HIDE DEF d
    <3> QED BY <1>2, <3>1, Rows DEF h
  <2>7. a \in Int
    <3>1. P \in Nat /\ TotalOf(s) < P + GBS /\ TotalOf(s) \in Nat
          BY <1>1, <2>1, PassSizes, StreamKinds
    <3>2. TotalOf(s) >= GBS BY <1>1, <1>6 DEF PassHolds
    <3> HIDE DEF P
    <3>3. P \in Nat \ {0} BY <1>2, <3>1, <3>2
    <3> QED BY <3>3, DivMod
  <2> HIDE DEF a, e, d, h
  <2>8. ASSUME NEW i \in 0 .. h - 1, NEW r \in 0 .. d - 1
        PROVE  <<e, a + r + d * i>> = <<e, a + (i * d + r)>>
    <3>1. d * i = i * d /\ i * d \in Int BY <1>2
    <3> QED BY <2>7, <3>1
  <2>9. ASSUME NEW x \in StepOf(from, size) PROVE x \in WindowIn(layout, from, size)
    <3>1. PICK r \in 0 .. d - 1 : x \in BatchAt(s, r, from) BY <2>5, <2>9
    <3>2. PICK i \in 0 .. h - 1 : x = <<e, a + r + d * i>> BY <2>2, <3>1
    <3>3. i * d + r \in RowsOf(h, d) BY DEF RowsOf
    <3>4. i * d + r \in 0 .. GBS - 1 BY <2>6, <3>3
    <3>5. x = <<e, a + (i * d + r)>> BY <2>8, <3>2
    <3> QED BY <2>3, <3>4, <3>5
  <2>10. ASSUME NEW x \in WindowIn(layout, from, size) PROVE x \in StepOf(from, size)
    <3>1. PICK y \in 0 .. GBS - 1 : x = <<e, a + y>> BY <2>3, <2>10
    <3>2. y \in RowsOf(h, d) BY <2>6, <3>1
    <3>3. PICK i \in 0 .. h - 1, r \in 0 .. d - 1 : y = i * d + r BY ONLY <3>2 DEF RowsOf
    <3>4. x = <<e, a + r + d * i>> BY <2>8, <3>1, <3>3
    <3>5. x \in BatchAt(s, r, from) BY <2>2, <3>4
    <3> QED BY <2>5, <3>5
  <2> QED BY <2>9, <2>10
<1> QED BY <1>5, <1>6

LEMMA WindowOfStream ==
    ASSUME NEW from, NEW size
    PROVE  StreamWindow("train", from, size) = StepOf(from, size)
<1>1. \A n : StreamChunk("train", n) = UNION {BatchAt("train", r, n) : r \in Ranks}
      BY DEF StreamChunk, BatchAt, OffsetAt, EpochAt
<1> DEFINE K == 0 .. Needed("train", size) - 1
           at(k) == from + k * Stride("train")
<1>2. StreamWindow("train", from, size) = UNION {StreamChunk("train", at(k)) : k \in K}
      BY DEF StreamWindow
<1>3. StepOf(from, size) = UNION {BatchAt("train", r, at(k)) : r \in Ranks, k \in K} BY DEF StepOf
<1> HIDE DEF K, at
<1>4. \A x : x \in StreamWindow("train", from, size) <=>
                \E k \in K : \E r \in Ranks : x \in BatchAt("train", r, at(k))
      BY <1>1, <1>2
<1>5. \A x : x \in StepOf(from, size) <=>
                \E k \in K : \E r \in Ranks : x \in BatchAt("train", r, at(k))
      BY <1>3
<1> QED BY <1>4, <1>5

\* What a step of training took, when it ends.
LEMMA StepTaken ==
    ASSUME Stream, doing = "train", AllDrawn, ~diverged
    PROVE  /\ PassHolds(layout)
           /\ Entry.samples = WindowIn(layout, consumed.train, Size)
           /\ Entry.from = consumed.train /\ Entry.size = Size
           /\ Size \in {GBS, RampGBS} /\ (dataset.kind = "batch" => Size = GBS)
<1> DEFINE s == "train"
           N == Needed(s, Size)
           n == consumed.train
           D == Stride(s)
<1>1. /\ dataset \in Datasets /\ layout \in Layouts /\ s \in Streams
      /\ KindOf(s) = dataset.kind /\ TotalOf(s) = dataset.total /\ n \in Nat /\ Types
      BY DEF Stream, Types, TypeOK, Streams, KindOf, TotalOf
<1>2. Size \in {GBS, RampGBS} /\ (dataset.kind = "batch" => Size = GBS)
      /\ N \in Nat /\ N * D = Size
      BY <1>1, SizeIsChosen
<1>3. N > 0
  <2>1. D \in Nat /\ Size \in Nat \ {0} BY <1>1, <1>2, PassSizes, LayoutSizes
  <2> HIDE DEF N, D
  <2> SUFFICES ASSUME N = 0 PROVE FALSE BY <1>2
  <2>2. 0 * D = 0 BY <2>1
  <2> QED BY <1>2, <2>1, <2>2
<1>4. PassHolds(layout)
  <2>1. 0 \in Ranks /\ Len(drawn[0]) > 0 BY <1>1, <1>3, SomeRank DEF AllDrawn
  <2>2. cursor[s][0].open /\ (KindOf(s) = "batch" => TotalOf(s) >= GBS)
        BY <2>1 DEF Stream, LastDrawn
  <2>3. Random(s) => Active(s) # 0 BY <1>1, <2>1, <2>2 DEF Types
  <2>4. Active(s) # 0 => TotalOf(s) >= ChunkOf(layout)
    <3> DEFINE t == TotalOf(s)
               c == ChunkOf(layout)
    <3>1. t \in Nat /\ c \in Nat \ {0} BY <1>1, StreamKinds, LayoutSizes
    <3>2. Active(s) = t - (t % c) BY DEF Active, Chunk, ChunkOf
    <3> HIDE DEF t, c
    <3>3. t < c => t % c = t BY <3>1
    <3>4. t < c => t - (t % c) = 0 BY <3>1, <3>3
    <3> QED BY <3>1, <3>2, <3>4 DEF t, c
  <2> QED BY <1>1, <2>2, <2>3, <2>4 DEF PassHolds, Random
<1>5. Entry.from = n /\ Entry.size = Size
      /\ Entry.samples = UNION {drawn[b[1]][b[2]] : b \in Ranks \X (1 .. N)}
      BY DEF Entry
<1>6. \A r \in Ranks, k \in 1 .. N : drawn[r][k] = BatchAt(s, r, n + (k - 1) * D)
  <2>1. Certain(s) BY DEF Certain
  <2>2. \A r \in Ranks : Taken(s, r) = N BY DEF Taken, AllDrawn
  <2> QED BY <1>1, <2>1, <2>2 DEF Stream, Trail
<1>7. Entry.samples = StepOf(n, Size)
  <2>1. StepOf(n, Size) = UNION {BatchAt(s, r, n + k * D) : r \in Ranks, k \in 0 .. N - 1}
        BY DEF StepOf
  <2> HIDE DEF N, D, n
  <2>2. ASSUME NEW x \in Entry.samples PROVE x \in StepOf(n, Size)
    <3>1. PICK b \in Ranks \X (1 .. N) : x \in drawn[b[1]][b[2]] BY <1>5, <2>2
    <3>2. PICK r \in Ranks, k \in 1 .. N : b = <<r, k>> BY <3>1
    <3>3. x \in BatchAt(s, r, n + (k - 1) * D) BY <1>6, <3>1, <3>2
    <3>4. k - 1 \in 0 .. N - 1 BY <1>2
    <3> QED BY <2>1, <3>3, <3>4
  <2>3. ASSUME NEW x \in StepOf(n, Size) PROVE x \in Entry.samples
    <3>1. PICK r \in Ranks, k \in 0 .. N - 1 : x \in BatchAt(s, r, n + k * D) BY <2>1, <2>3
    <3>2. k + 1 \in 1 .. N /\ (k + 1) - 1 = k BY <1>2
    <3>3. x \in drawn[r][k + 1] BY <1>6, <3>1, <3>2
    <3> DEFINE b == <<r, k + 1>>
    <3>4. b \in Ranks \X (1 .. N) /\ x \in drawn[b[1]][b[2]] BY <3>2, <3>3
    <3> HIDE DEF b
    <3> QED BY <1>5, <3>4
  <2> QED BY <2>2, <2>3
<1>8. StepOf(n, Size) = WindowIn(layout, n, Size) BY <1>1, <1>2, <1>4, StepWindow
<1> QED BY <1>2, <1>4, <1>5, <1>7, <1>8

-----------------------------------------------------------------------------
(* The windows of a run.                                                   *)

LEMMA WindowsKept ==
    ASSUME dataset' = dataset
    PROVE  /\ \A l, from, size : WindowIn(l, from, size)' = WindowIn(l, from, size)
           /\ \A trained, count, l : Windows(trained, count, l)' = Windows(trained, count, l)
<1>1. ASSUME NEW l, NEW from, NEW size
      PROVE  WindowIn(l, from, size)' = WindowIn(l, from, size)
  <2>1. CASE dataset.kind = "single" BY <2>1 DEF WindowIn
  <2>2. CASE dataset.kind = "batch"
    <3> DEFINE P == PassLength("train")
               W(p) == Run(from \div p, from % p, size)
    <3>1. PassLength("train")' = P BY <2>2 DEF PassLength, KindOf, TotalOf
    <3>2. WindowIn(l, from, size) = W(P) BY <2>2 DEF WindowIn
    <3>3. WindowIn(l, from, size)' = W(PassLength("train")') BY <2>2 DEF WindowIn
    <3> HIDE DEF W
    <3> QED BY <3>1, <3>2, <3>3
  <2>3. CASE dataset.kind \notin {"single", "batch"} BY <2>3 DEF WindowIn
  <2> QED BY <2>1, <2>2, <2>3
<1>2. \A n : OnGrid(n)' = OnGrid(n) BY DEF OnGrid
<1>3. \A l : PassHolds(l)' = PassHolds(l) BY DEF PassHolds
<1> QED BY <1>1, <1>2, <1>3 DEF Windows

\* The samplers that deal nothing out by layout do as well on another one.
LEMMA WindowsMoved ==
    ASSUME NEW trained, NEW count, NEW l, NEW m, Windows(trained, count, l),
           dataset.kind \in {"single", "batch"} \/ l = m
    PROVE  Windows(trained, count, m)
<1>1. CASE l = m BY <1>1
<1>2. CASE dataset.kind \in {"single", "batch"}
  <2>1. \A from, size : WindowIn(l, from, size) = WindowIn(m, from, size) BY <1>2 DEF WindowIn
  <2>2. PassHolds(l) => PassHolds(m) BY <1>2 DEF PassHolds
  <2> QED BY <2>1, <2>2 DEF Windows
<1> QED BY <1>1, <1>2

LEMMA WindowsGrow ==
    ASSUME NEW trained, NEW count \in Nat, NEW more \in Nat, NEW l, Windows(trained, count, l)
    PROVE  Windows(trained, count + more, l)
<1>1. ASSUME NEW i \in DOMAIN trained
      PROVE  trained[i].from + trained[i].size <= count + more
  <2>1. trained[i].from \in Nat /\ trained[i].size \in {GBS, RampGBS}
        /\ trained[i].from + trained[i].size <= count
        BY DEF Windows
  <2>2. trained[i].size \in Nat BY <2>1, DataAssumption
  <2> QED BY <2>1, <2>2
<1> QED BY <1>1 DEF Windows

LEMMA WindowsAppend ==
    ASSUME NEW S, NEW trained \in Seq(S), NEW count \in Nat, NEW l, Windows(trained, count, l),
           NEW e, e.from = count, OnGrid(count), e.size \in {GBS, RampGBS},
           dataset.kind = "batch" => e.size = GBS, e.samples = WindowIn(l, count, e.size),
           PassHolds(l)
    PROVE  Windows(Append(trained, e), count + e.size, l)
<1> DEFINE t == Append(trained, e)
           m == Len(trained)
<1>1. /\ m \in Nat /\ DOMAIN t = 1 .. m + 1 /\ DOMAIN trained = 1 .. m
      /\ \A k \in 1 .. m : t[k] = trained[k]
      /\ t[m + 1] = e
      BY AppendFacts
<1>2. e.size \in Nat BY DataAssumption
<1>3. Windows(trained, count + e.size, l) BY <1>2, WindowsGrow
<1> HIDE DEF t, m
<1>4. ASSUME NEW i \in DOMAIN t
      PROVE  /\ t[i].from \in Nat /\ OnGrid(t[i].from)
             /\ t[i].size \in IF dataset.kind = "batch" THEN {GBS} ELSE {GBS, RampGBS}
             /\ t[i].from + t[i].size <= count + e.size
             /\ t[i].samples = WindowIn(l, t[i].from, t[i].size)
             /\ PassHolds(l)
  <2>1. CASE i = m + 1
    <3>1. t[i] = e BY <1>1, <2>1
    <3>2. e.from + e.size <= count + e.size BY <1>2
    <3> QED BY <3>1, <3>2
  <2>2. CASE i # m + 1
    <3>1. i \in DOMAIN trained /\ t[i] = trained[i] BY <1>1, <2>2
    <3> QED BY <1>3, <3>1 DEF Windows
  <2> QED BY <2>1, <2>2
<1>5. Windows(t, count + e.size, l) BY <1>4 DEF Windows
<1> QED BY <1>5 DEF t

LEMMA CourseInit == Init => Course
<1> SUFFICES ASSUME Init PROVE Course OBVIOUS
<1>1. lineage = <<>> /\ ckpt.lineage = <<>> BY DEF Init
<1>2. lineage \in Seq({}) /\ ckpt.lineage \in Seq({}) BY <1>1
<1>3. \A count, l : Windows(lineage, count, l) /\ Windows(ckpt.lineage, count, l)
      BY <1>1 DEF Windows
<1> QED BY <1>2, <1>3 DEF Course

LEMMA CourseStep ==
    ASSUME Stream, Course, [Next]_vars
    PROVE  Course'
<1>1. dataset' = dataset BY Kept
<1>2. \A trained, count, l : Windows(trained, count, l)' = Windows(trained, count, l)
      BY <1>1, WindowsKept
<1>3. PICK S : lineage \in Seq(S) /\ ckpt.lineage \in Seq(S) BY DEF Course
<1>4. /\ consumed.train \in Nat /\ OnGrid(consumed.train) /\ ckpt.consumed.train \in Nat
      /\ dataset \in Datasets
      BY DEF Stream, Types, TypeOK, Multiples, Streams
\* Steps that train on nothing.
<1>5. ASSUME UNCHANGED <<lineage, consumed, layout, ckpt>>, diverged => diverged' PROVE Course'
  <2>1. ~diverged' => Windows(lineage, consumed.train, layout) BY <1>5 DEF Course
  <2>2. ~ckpt.diverged => Windows(ckpt.lineage, ckpt.consumed.train, ckpt.layout) BY DEF Course
  <2> QED BY <1>2, <1>3, <1>5, <2>1, <2>2 DEF Course
<1>6. ASSUME NEW r \in Ranks, Draw(r) PROVE Course' BY <1>5, <1>6, DrawEffect DEF Stream
<1>7. CASE EndTrainStep
  <2>1. /\ UNCHANGED <<layout, ckpt, diverged>> /\ doing = "train" /\ AllDrawn
        /\ consumed' = [consumed EXCEPT !.train = @ + Size]
        /\ lineage' \in {lineage, Append(lineage, Entry)}
        BY <1>7 DEF EndTrainStep, job
  <2>2. consumed'.train = consumed.train + Size /\ Size \in Nat
        BY <2>1, BatchSizeIsNat DEF Size, Stream, Types, TypeOK, Streams
  <2>3. ~diverged => Windows(lineage', consumed.train + Size, layout)
    <3> SUFFICES ASSUME ~diverged PROVE Windows(lineage', consumed.train + Size, layout) OBVIOUS
    <3>1. Windows(lineage, consumed.train, layout) BY DEF Course
    <3>2. CASE lineage' = lineage BY <1>4, <2>2, <3>1, <3>2, WindowsGrow
    <3>3. CASE lineage' = Append(lineage, Entry)
      <4> DEFINE e == Entry
      <4>1. /\ e.from = consumed.train /\ e.size = Size /\ e.size \in {GBS, RampGBS}
            /\ (dataset.kind = "batch" => e.size = GBS)
            /\ e.samples = WindowIn(layout, consumed.train, e.size) /\ PassHolds(layout)
            BY <2>1, StepTaken
      <4> HIDE DEF e
      <4>2. Windows(Append(lineage, e), consumed.train + e.size, layout)
            BY <1>3, <1>4, <3>1, <4>1, WindowsAppend
      <4> QED BY <3>3, <4>1, <4>2 DEF e
    <3> QED BY <2>1, <3>2, <3>3
  <2>4. lineage' \in Seq(S \cup {Entry}) /\ ckpt.lineage \in Seq(S \cup {Entry})
    <3>1. lineage \in Seq(S \cup {Entry}) /\ ckpt.lineage \in Seq(S \cup {Entry})
          /\ Entry \in S \cup {Entry}
          BY <1>3
    <3> HIDE DEF Entry
    <3> QED BY <2>1, <3>1
  <2>5. ~ckpt.diverged => Windows(ckpt.lineage, ckpt.consumed.train, ckpt.layout) BY DEF Course
  <2> QED BY <1>2, <2>1, <2>2, <2>3, <2>4, <2>5 DEF Course
<1>8. CASE EndEvalStep
  <2>1. UNCHANGED <<lineage, layout, ckpt, diverged>>
        /\ consumed' = [consumed EXCEPT !.valid = @ + GBS]
        BY <1>8 DEF EndEvalStep, job
  <2>2. consumed'.train = consumed.train BY <2>1 DEF Stream, Types, TypeOK, Streams
  <2> QED BY <1>2, <1>3, <2>1, <2>2 DEF Course
<1>9. CASE Finish \/ Crash \/ UNCHANGED vars
  BY <1>5, <1>9 DEF Finish, Crash, vars, job, data, model
<1>10. CASE Save
  <2>1. /\ UNCHANGED <<lineage, consumed, layout, diverged>>
        /\ ckpt'.lineage = lineage /\ ckpt'.consumed = consumed /\ ckpt'.layout = layout
        /\ ckpt'.diverged = diverged
        BY <1>10 DEF Save, job, data, model
  <2> QED BY <1>2, <1>3, <2>1 DEF Course
<1>11. ASSUME NEW l \in Layouts, Restart(l) PROVE Course'
  <2>1. /\ layout' = l /\ UNCHANGED ckpt /\ lineage' = ckpt.lineage /\ consumed' = ckpt.consumed
        /\ diverged' = (ckpt.diverged \/ ~Continues(l))
        BY <1>11 DEF Restart
  <2>2. ~ckpt.diverged => Windows(ckpt.lineage, ckpt.consumed.train, ckpt.layout) BY DEF Course
  <2>3. Continues(l) => dataset.kind \in {"single", "batch"} \/ ckpt.layout = l
        BY DEF Continues
  <2>4. ~diverged' => Windows(ckpt.lineage, ckpt.consumed.train, l)
        BY <2>1, <2>2, <2>3, WindowsMoved
  <2> QED BY <1>2, <1>3, <2>1, <2>2, <2>4 DEF Course
<1> QED BY <1>6, <1>7, <1>8, <1>9, <1>10, <1>11 DEF Next

(***************************************************************************)
(* Every step was trained on the window of the stream that begins at the   *)
(* count it began at (ResumesTheStream): what the run without crashes      *)
(* would have used, as long as no sampler went on where the stream does    *)
(* not.  It needs the samplers of a launch to stand at the counts of the   *)
(* checkpoint (Trail) and the windows of all earlier steps, of the run and *)
(* of the checkpoint, to be those of the layout now in use (Course).       *)
(***************************************************************************)
THEOREM AlwaysResumesTheStream ==
    ASSUME EvenShuffle
    PROVE  Spec => []ResumesTheStream
<1> DEFINE Inv == Stream /\ Course
<1>1. Init => Inv BY StreamInvariant, CourseInit
<1>2. Inv /\ [Next]_vars => Inv' BY StreamInvariant, CourseStep
<1>3. Inv => ResumesTheStream
  <2> SUFFICES ASSUME Inv, ~diverged, NEW i \in DOMAIN lineage
               PROVE  lineage[i].samples = StreamWindow("train", lineage[i].from, lineage[i].size)
      BY DEF ResumesTheStream
  <2> DEFINE from == lineage[i].from
             size == lineage[i].size
  <2>1. /\ from \in Nat /\ size \in {GBS, RampGBS} /\ (dataset.kind = "batch" => size = GBS)
        /\ lineage[i].samples = WindowIn(layout, from, size) /\ PassHolds(layout)
        BY DEF Course, Windows
  <2>2. dataset \in Datasets /\ layout \in Layouts BY DEF Stream, Types, TypeOK
  <2> HIDE DEF from, size
  <2>3. StepOf(from, size) = WindowIn(layout, from, size) BY <2>1, <2>2, StepWindow
  <2>4. StreamWindow("train", from, size) = StepOf(from, size) BY WindowOfStream
  <2> QED BY <2>1, <2>3, <2>4 DEF from, size
<1> HIDE DEF Inv
<1> QED BY <1>1, <1>2, <1>3, PTL DEF Spec

-----------------------------------------------------------------------------
(* The samples of a window.                                                *)

\* Counts of the chunks of a window.
LEMMA ChunkCounts ==
    ASSUME NEW c \in Nat \ {0}, NEW from \in Nat, from % c = 0, NEW size \in Nat, size % c = 0,
           NEW k \in 0 .. (size \div c) - 1
    PROVE  /\ from + k * c \in Nat /\ (from + k * c) % c = 0
           /\ from + k * c + c <= from + size
<1> DEFINE g == size \div c
           x == k * c
<1>1. g \in Nat /\ size = g * c BY DivMod, MultipleOf
<1>2. k \in Nat /\ k \in 0 .. g - 1 BY <1>1
<1> HIDE DEF g
<1>3. x \in Nat /\ x % c = 0
  <2>1. x \in Nat BY <1>2
  <2> QED BY <1>2, <2>1, MultipleOf
<1>4. x + c <= size
  <2>1. (k + 1) * c <= g * c BY <1>1, <1>2
  <2>2. (k + 1) * c = k * c + c BY <1>2
  <2> QED BY <1>1, <2>1, <2>2
<1> HIDE DEF x
<1>5. from + x \in Nat /\ from + x + c <= from + size BY <1>3, <1>4
<1>6. (from + x) % c = 0 BY ONLY <1>3, from \in Nat, from % c = 0, c \in Nat \ {0}, SumOfMultiples
<1> QED BY <1>5, <1>6 DEF x

\* The place of a count on the grid of the whole-batch sampler.
LEMMA BatchPlace ==
    ASSUME dataset \in Datasets, layout \in Layouts, dataset.kind = "batch", dataset.total >= GBS,
           NEW n \in Nat, n % GBS = 0
    PROVE  LET P == PassLength("train")
           IN  /\ P \in Nat \ {0} /\ GBS \in Nat \ {0}
               /\ n \div P \in Nat /\ n % P \in Nat /\ (n % P) \div GBS \in Nat
               /\ n % P = ((n % P) \div GBS) * GBS
               /\ n = (n \div P) * P + (n % P)
<1> DEFINE s == "train"
           P == PassLength(s)
<1>1. s \in Streams /\ KindOf(s) = "batch" /\ TotalOf(s) = dataset.total
      BY DEF Streams, KindOf, TotalOf
<1>2. GBS \in Nat \ {0} /\ P \in Nat /\ P % GBS = 0 /\ TotalOf(s) < P + GBS /\ TotalOf(s) \in Nat
      BY <1>1, PassSizes, LayoutSizes, StreamKinds DEF Stride
<1> HIDE DEF P
<1>3. P \in Nat \ {0} BY <1>1, <1>2
<1>4. /\ n \div P \in Nat /\ n % P \in Nat /\ (n % P) + GBS <= P
      /\ n % P = ((n % P) \div GBS) * GBS /\ (n % P) \div GBS \in Nat
      /\ n = (n \div P) * P + (n % P)
      BY ONLY <1>2, <1>3, n \in Nat, n % GBS = 0, EpochPlace
<1> QED BY <1>2, <1>3, <1>4 DEF P

LEMMA WindowsApart ==
    ASSUME PermInjective, dataset \in Datasets, layout \in Layouts,
           NEW l \in Layouts, PassHolds(l),
           NEW from \in Nat, OnGrid(from), NEW size \in {GBS, RampGBS},
           NEW to \in Nat, OnGrid(to), NEW size2 \in {GBS, RampGBS},
           dataset.kind = "batch" => size = GBS /\ size2 = GBS,
           from + size <= to
    PROVE  WindowIn(l, from, size) \cap WindowIn(l, to, size2) = {}
<1> SUFFICES ASSUME NEW x, x \in WindowIn(l, from, size), x \in WindowIn(l, to, size2)
             PROVE  FALSE
    OBVIOUS
<1> DEFINE c == ChunkOf(l)
<1>1. /\ size \in Nat \ {0} /\ size2 \in Nat \ {0} /\ c \in Nat \ {0}
      /\ size % c = 0 /\ size2 % c = 0 /\ from % c = 0 /\ to % c = 0
      BY LayoutSizes DEF OnGrid
<1>2. dataset.kind \in Kinds /\ dataset.total \in Nat BY DataAssumption DEF Kinds
<1>3. CASE dataset.kind = "single"
  <2>1. PICK i \in 0 .. size - 1 : x = <<0, from + i>> BY <1>3 DEF WindowIn, Run
  <2>2. PICK j \in 0 .. size2 - 1 : x = <<0, to + j>> BY <1>3 DEF WindowIn, Run
  <2>3. from + i = to + j BY <2>1, <2>2
  <2> QED BY <1>1, <2>3
<1>4. CASE dataset.kind = "batch"
  <2> DEFINE P == PassLength("train")
             e == from \div P
             a == from % P
             p == a \div GBS
             f == to \div P
             b == to % P
             q == b \div GBS
  <2>0. from % GBS = 0 /\ to % GBS = 0 /\ dataset.total >= GBS /\ size = GBS /\ size2 = GBS
        BY <1>4 DEF OnGrid, PassHolds
  <2>1. /\ P \in Nat \ {0} /\ GBS \in Nat \ {0}
        /\ e \in Nat /\ a \in Nat /\ p \in Nat /\ a = p * GBS /\ from = e * P + a
        BY <1>4, <2>0, BatchPlace
  <2>2. f \in Nat /\ b \in Nat /\ q \in Nat /\ b = q * GBS /\ to = f * P + b
        BY <1>4, <2>0, BatchPlace
  <2>3. PICK i \in 0 .. GBS - 1 : x = <<e, a + i>> BY <1>4, <2>0 DEF WindowIn, Run
  <2>4. PICK j \in 0 .. GBS - 1 : x = <<f, b + j>> BY <1>4, <2>0 DEF WindowIn, Run
  <2> HIDE DEF P, e, a, p, f, b, q
  <2>5. e = f /\ a + i = b + j BY ONLY <2>3, <2>4
  <2>6. p * GBS + i = q * GBS + j BY <2>1, <2>2, <2>5
  <2>7. p = q
    <3>1. p \in Int /\ q \in Int /\ GBS \in Nat \ {0} BY <2>1, <2>2
    <3>2. i \in 0 .. GBS - 1 /\ j \in 0 .. GBS - 1 BY <2>3, <2>4
    <3> QED BY ONLY <2>6, <3>1, <3>2, SameDigits
  <2>8. from = to BY ONLY <2>1, <2>2, <2>5, <2>7
  <2> QED BY <1>1, <2>8
<1>5. CASE dataset.kind \notin {"single", "batch"}
  <2> DEFINE D(r, n, i) == Dealt(dataset.kind, dataset.total, l, r, n, i)
  <2>0. dataset.kind \in {"sharded", "shuffled"} /\ dataset.total >= c
        BY <1>2, <1>5 DEF Kinds, PassHolds
  <2>1. \A n, z : WindowIn(l, n, z) =
            {D(r, n + k * c, i) : r \in 0 .. l.dp - 1, i \in 0 .. l.mbs - 1, k \in 0 .. (z \div c) - 1}
        BY <1>5 DEF WindowIn
  <2> HIDE DEF D, c
  <2>2. PICK r \in 0 .. l.dp - 1, i \in 0 .. l.mbs - 1, k \in 0 .. (size \div c) - 1 :
            x = D(r, from + k * c, i)
        BY <2>1
  <2>3. PICK q \in 0 .. l.dp - 1, j \in 0 .. l.mbs - 1, m \in 0 .. (size2 \div c) - 1 :
            x = D(q, to + m * c, j)
        BY <2>1
  <2> DEFINE u == from + k * c
             v == to + m * c
  <2>4. u \in Nat /\ u % c = 0 /\ u + c <= from + size BY <1>1, <2>2, ChunkCounts
  <2>5. v \in Nat /\ v % c = 0 /\ v >= to
    <3>1. v \in Nat /\ v % c = 0 BY <1>1, <2>3, ChunkCounts
    <3>2. m * c \in Nat
      <4>1. m \in Nat BY <2>3
      <4> QED BY <1>1, <4>1
    <3> QED BY <3>1, <3>2
  <2> HIDE DEF u, v
  <2>6. D(r, u, i) = D(q, v, j) BY <2>2, <2>3 DEF u, v
  <2>7. u = v
    <3> DEFINE kd == dataset.kind
               t == dataset.total
    <3>1. /\ kd \in {"single", "sharded", "shuffled"} /\ t \in Nat
          /\ (kd # "single" => t >= ChunkOf(l))
          /\ Dealt(kd, t, l, r, u, i) = Dealt(kd, t, l, q, v, j)
          /\ u % ChunkOf(l) = 0 /\ v % ChunkOf(l) = 0
          BY <1>2, <2>0, <2>4, <2>5, <2>6 DEF D, c
    <3> HIDE DEF kd, t
    <3>2. /\ r \in 0 .. l.dp - 1 /\ q \in 0 .. l.dp - 1 /\ i \in 0 .. l.mbs - 1 /\ j \in 0 .. l.mbs - 1
          /\ u \in Nat /\ v \in Nat
          BY <2>2, <2>3, <2>4, <2>5
    <3>3. PermInjective OBVIOUS
    <3> QED BY ONLY <3>1, <3>2, <3>3, l \in Layouts, DealtApart
  <2> QED BY <1>1, <2>4, <2>5, <2>7
<1> QED BY <1>3, <1>4, <1>5

LEMMA RunSize ==
    ASSUME NEW e, NEW a \in Int, NEW size \in Nat
    PROVE  IsFiniteSet(Run(e, a, size)) /\ Cardinality(Run(e, a, size)) = size
<1> DEFINE W == Run(e, a, size)
<1>1. PICK f : \A i \in 0 .. size - 1 : f[i] = <<e, a + i>>
  <2> DEFINE g == [i \in 0 .. size - 1 |-> <<e, a + i>>]
  <2>1. \A i \in 0 .. size - 1 : g[i] = <<e, a + i>> OBVIOUS
  <2> QED BY <2>1
<1>2. \A i, j \in 0 .. size - 1 : f[i] = f[j] => i = j BY <1>1
<1>3. \A x : x \in W <=> \E i \in 0 .. size - 1 : x = f[i] BY <1>1 DEF Run
<1> HIDE DEF W
<1>4. IsFiniteSet(W) /\ Cardinality(W) = size BY ONLY <1>2, <1>3, size \in Nat, InjectiveImage
<1> QED BY <1>4 DEF W

LEMMA WindowSize ==
    ASSUME PermInjective, dataset \in Datasets, layout \in Layouts,
           NEW l \in Layouts, PassHolds(l), NEW from \in Nat, OnGrid(from),
           NEW size \in {GBS, RampGBS}, dataset.kind = "batch" => size = GBS
    PROVE  IsFiniteSet(WindowIn(l, from, size)) /\ Cardinality(WindowIn(l, from, size)) = size
<1> DEFINE c == ChunkOf(l)
           w == l.mbs
           d == l.dp
           W == WindowIn(l, from, size)
<1>1. /\ size \in Nat \ {0} /\ c \in Nat \ {0} /\ size % c = 0 /\ from % c = 0
      /\ w \in Nat \ {0} /\ d \in Nat \ {0} /\ c = w * d
      BY LayoutSizes DEF OnGrid, ChunkOf
<1>2. dataset.kind \in Kinds /\ dataset.total \in Nat BY DataAssumption DEF Kinds
<1>4. CASE dataset.kind = "single"
  <2>1. W = Run(0, from, size) BY <1>4 DEF WindowIn
  <2>2. from \in Int /\ size \in Nat BY <1>1
  <2> HIDE DEF W
  <2>3. IsFiniteSet(W) /\ Cardinality(W) = size BY <2>1, <2>2, RunSize
  <2> QED BY <2>3 DEF W
<1>5. CASE dataset.kind = "batch"
  <2> DEFINE P == PassLength("train")
             e == from \div P
             a == from % P
  <2>1. from % GBS = 0 /\ dataset.total >= GBS BY <1>5 DEF OnGrid, PassHolds
  <2>2. a \in Int /\ size \in Nat BY <1>1, <1>5, <2>1, BatchPlace
  <2>3. W = Run(e, a, size) BY <1>5 DEF WindowIn
  <2> HIDE DEF W, e, a
  <2>4. IsFiniteSet(W) /\ Cardinality(W) = size BY <2>2, <2>3, RunSize
  <2> QED BY <2>4 DEF W
<1>6. CASE dataset.kind \notin {"single", "batch"}
  <2> DEFINE D(r, n, i) == Dealt(dataset.kind, dataset.total, l, r, n, i)
             g == size \div c
             \* Chunk, rank and sample of a number of the window.
             k(y) == y \div c
             r(y) == (y % c) \div w
             i(y) == (y % c) % w
             F(y) == D(r(y), from + k(y) * c, i(y))
  <2>0. dataset.kind \in {"sharded", "shuffled"} /\ dataset.total >= c
        BY <1>2, <1>6 DEF Kinds, PassHolds
  <2>1. W = {D(q, from + m * c, j) : q \in 0 .. d - 1, j \in 0 .. w - 1, m \in 0 .. g - 1}
        BY <1>6 DEF WindowIn
  <2>2. 0 .. size - 1 = LanesOf(g, d, w)
    <3>1. size \in Nat /\ size % (w * d) = 0 BY <1>1
    <3>2. 0 .. size - 1 = LanesOf(size \div (w * d), d, w) BY ONLY <1>1, <3>1, Lanes
    <3> QED BY <1>1, <3>2
  \* A number of the window is its chunk, rank and sample.
  <2>3. ASSUME NEW m \in Nat, NEW q \in 0 .. d - 1, NEW j \in 0 .. w - 1,
               NEW y, y = m * c + (q * w + j)
        PROVE  k(y) = m /\ r(y) = q /\ i(y) = j
    <3> DEFINE u == q * w + j
    <3>1. u \in 0 .. c - 1 BY <1>1, TwoDigits
    <3>2. u \div w = q /\ u % w = j
      <4>1. q \in Nat OBVIOUS
      <4> HIDE DEF w
      <4> QED BY <1>1, <4>1, DivUnique
    <3> HIDE DEF u, c
    <3>3. y = m * c + u BY <2>3 DEF u
    <3>4. (m * c + u) \div c = m /\ (m * c + u) % c = u BY ONLY <1>1, <3>1, m \in Nat, DivUnique
    <3> QED BY <3>2, <3>3, <3>4
  <2> HIDE DEF c, w, d, g, k, r, i
  <2>4. ASSUME NEW y \in 0 .. size - 1
        PROVE  /\ k(y) \in 0 .. g - 1 /\ r(y) \in 0 .. d - 1 /\ i(y) \in 0 .. w - 1
               /\ y = k(y) * c + (r(y) * w + i(y))
    <3>1. y \in LanesOf(g, d, w) BY <2>2
    <3>2. PICK m \in 0 .. g - 1, q \in 0 .. d - 1, j \in 0 .. w - 1 : y = m * (w * d) + (q * w + j)
          BY ONLY <3>1 DEF LanesOf
    <3>3. m \in Nat /\ y = m * c + (q * w + j) BY <1>1, <3>2
    <3>4. k(y) = m /\ r(y) = q /\ i(y) = j BY <2>3, <3>2, <3>3
    <3> QED BY <3>2, <3>3, <3>4
  <2>5. PICK f : \A y \in 0 .. size - 1 : f[y] = F(y)
    <3> DEFINE h == [y \in 0 .. size - 1 |-> F(y)]
    <3>1. \A y \in 0 .. size - 1 : h[y] = F(y) OBVIOUS
    <3> QED BY <3>1
  <2>6. ASSUME NEW y \in 0 .. size - 1, NEW z \in 0 .. size - 1, f[y] = f[z] PROVE y = z
    <3> DEFINE u == from + k(y) * c
               v == from + k(z) * c
               kd == dataset.kind
               t == dataset.total
    <3>1. F(y) = F(z) BY <2>5, <2>6
    <3>2. /\ k(y) \in 0 .. (size \div c) - 1 /\ r(y) \in 0 .. d - 1 /\ i(y) \in 0 .. w - 1
          /\ k(z) \in 0 .. (size \div c) - 1 /\ r(z) \in 0 .. d - 1 /\ i(z) \in 0 .. w - 1
          BY <2>4 DEF g
    <3>3. u \in Nat /\ v \in Nat /\ u % c = 0 /\ v % c = 0
      <4> DEFINE ky == k(y)
                 kz == k(z)
      <4>1. ky \in 0 .. (size \div c) - 1 /\ kz \in 0 .. (size \div c) - 1 BY <3>2
      <4> HIDE DEF ky, kz
      <4>3. size \in Nat /\ c \in Nat \ {0} /\ size % c = 0 /\ from % c = 0 BY <1>1
      <4>4. ASSUME NEW m \in 0 .. (size \div c) - 1
            PROVE  from + m * c \in Nat /\ (from + m * c) % c = 0
            BY ONLY <4>3, <4>4, from \in Nat, ChunkCounts
      <4>2. /\ from + ky * c \in Nat /\ (from + ky * c) % c = 0
            /\ from + kz * c \in Nat /\ (from + kz * c) % c = 0
            BY <4>1, <4>4
      <4> QED BY <4>2 DEF ky, kz
    <3>4. /\ kd \in {"single", "sharded", "shuffled"} /\ t \in Nat
          /\ (kd # "single" => t >= c)
          /\ Dealt(kd, t, l, r(y), u, i(y)) = Dealt(kd, t, l, r(z), v, i(z))
          BY <1>2, <2>0, <3>1
    <3> DEFINE ry == r(y)
               rz == r(z)
               iy == i(y)
               iz == i(z)
    <3>5. /\ ry \in 0 .. l.dp - 1 /\ rz \in 0 .. l.dp - 1 /\ iy \in 0 .. l.mbs - 1 /\ iz \in 0 .. l.mbs - 1
          /\ (kd # "single" => t >= ChunkOf(l)) /\ u % ChunkOf(l) = 0 /\ v % ChunkOf(l) = 0
          /\ Dealt(kd, t, l, ry, u, iy) = Dealt(kd, t, l, rz, v, iz)
          BY <3>2, <3>3, <3>4 DEF c, d, w
    <3> HIDE DEF ry, rz, iy, iz, kd, t, u, v
    <3>6. PermInjective OBVIOUS
    <3>7. ry = rz /\ u = v /\ iy = iz BY ONLY <3>3, <3>4, <3>5, <3>6, l \in Layouts, DealtApart
    <3> DEFINE x == k(y) * c
               o == k(z) * c
    <3>8. x = o
      <4>1. x \in Int /\ o \in Int
        <5>1. k(y) \in Int /\ k(z) \in Int /\ c \in Int BY <1>1, <3>2
        <5> QED BY <5>1
      <4>2. from + x = from + o BY <3>7 DEF u, v
      <4> HIDE DEF x, o
      <4> QED BY <4>1, <4>2
    <3>9. y = k(y) * c + (ry * w + iy) /\ z = k(z) * c + (rz * w + iz)
          BY <2>4 DEF ry, rz, iy, iz
    <3> QED BY <3>7, <3>8, <3>9
  <2>7. ASSUME NEW x \in W PROVE \E y \in 0 .. size - 1 : x = f[y]
    <3>1. PICK q \in 0 .. d - 1, j \in 0 .. w - 1, m \in 0 .. g - 1 : x = D(q, from + m * c, j)
          BY <2>1, <2>7
    <3> DEFINE y == m * c + (q * w + j)
    <3>2. y \in LanesOf(g, d, w)
      <4>1. y = m * (w * d) + (q * w + j) BY <1>1
      <4> HIDE DEF y
      <4> QED BY <4>1 DEF LanesOf
    <3>3. y \in 0 .. size - 1 BY <2>2, <3>2
    <3>4. m \in Nat BY <3>1
    <3> HIDE DEF y
    <3>5. k(y) = m /\ r(y) = q /\ i(y) = j BY <2>3, <3>4 DEF y
    <3>6. x = F(y) BY <3>1, <3>5
    <3> QED BY <2>5, <3>3, <3>6
  <2>8. ASSUME NEW y \in 0 .. size - 1 PROVE f[y] \in W
    <3>1. F(y) \in W BY <2>1, <2>4
    <3> QED BY <2>5, <3>1
  <2>9. size \in Nat /\ \A y, z \in 0 .. size - 1 : f[y] = f[z] => y = z BY <1>1, <2>6
  <2> HIDE DEF W, F, D
  <2>10. \A x : x \in W <=> \E y \in 0 .. size - 1 : x = f[y] BY <2>7, <2>8
  <2>11. IsFiniteSet(W) /\ Cardinality(W) = size BY ONLY <2>9, <2>10, InjectiveImage
  <2> QED BY <2>11 DEF W
<1> QED BY <1>4, <1>5, <1>6

-----------------------------------------------------------------------------
(* The account of the samples.                                             *)

LEMMA SeenAppend ==
    ASSUME NEW S, NEW trained \in Seq(S), NEW e
    PROVE  SeenIn(Append(trained, e)) = SeenIn(trained) \cup e.samples
<1> DEFINE t == Append(trained, e)
           m == Len(trained)
<1>1. /\ m \in Nat /\ DOMAIN t = 1 .. m + 1 /\ DOMAIN trained = 1 .. m
      /\ \A k \in 1 .. m : t[k] = trained[k]
      /\ t[m + 1] = e
      BY AppendFacts
<1> HIDE DEF t, m
<1>2. \A x : x \in SeenIn(t) <=> \E i \in 1 .. m + 1 : x \in t[i].samples BY <1>1 DEF SeenIn
<1>3. \A x : x \in SeenIn(trained) <=> \E i \in 1 .. m : x \in trained[i].samples
      BY <1>1 DEF SeenIn
<1>4. \A i : i \in 1 .. m + 1 <=> i \in 1 .. m \/ i = m + 1 BY <1>1
<1>5. \A x : x \in SeenIn(t) <=> x \in SeenIn(trained) \/ x \in e.samples
      BY <1>1, <1>2, <1>3, <1>4
<1>6. SeenIn(t) = SeenIn(trained) \cup e.samples BY <1>5
<1> QED BY <1>6 DEF t

\* A step adds the samples of a window none of the earlier ones overlaps.
LEMMA CountedAppend ==
    ASSUME PermInjective, dataset \in Datasets, layout \in Layouts,
           NEW S, NEW trained \in Seq(S), NEW lost \in Nat, NEW count \in Nat,
           NEW l \in Layouts, Windows(trained, count, l), Counted(trained, lost, count),
           NEW e, e.from = count, OnGrid(count), e.size \in {GBS, RampGBS},
           dataset.kind = "batch" => e.size = GBS, e.samples = WindowIn(l, count, e.size),
           PassHolds(l)
    PROVE  Counted(Append(trained, e), lost, count + e.size)
<1> DEFINE A == SeenIn(trained)
           W == e.samples
           z == e.size
<1>1. IsFiniteSet(A) /\ Cardinality(A) + lost = count BY DEF Counted
<1>2. W = WindowIn(l, count, z) /\ z \in {GBS, RampGBS} /\ (dataset.kind = "batch" => z = GBS)
      OBVIOUS
<1> HIDE DEF A, W, z
<1>3. IsFiniteSet(W) /\ Cardinality(W) = z
  <2>1. IsFiniteSet(WindowIn(l, count, z)) /\ Cardinality(WindowIn(l, count, z)) = z
        BY <1>2, WindowSize
  <2> QED BY <1>2, <2>1
<1>4. ASSUME NEW i \in DOMAIN trained PROVE trained[i].samples \cap W = {}
  <2> DEFINE from == trained[i].from
             size == trained[i].size
  <2>1. /\ from \in Nat /\ OnGrid(from) /\ size \in {GBS, RampGBS}
        /\ (dataset.kind = "batch" => size = GBS)
        /\ from + size <= count /\ trained[i].samples = WindowIn(l, from, size)
        BY DEF Windows
  <2> HIDE DEF from, size
  <2>2. WindowIn(l, from, size) \cap WindowIn(l, count, z) = {} BY <1>2, <2>1, WindowsApart
  <2> QED BY <1>2, <2>1, <2>2
<1>5. A \cap W = {} BY <1>4 DEF A, SeenIn
<1>6. /\ IsFiniteSet(A \cup W)
      /\ Cardinality(A \cup W) = Cardinality(A) + Cardinality(W) - Cardinality(A \cap W)
      BY <1>1, <1>3, FS_Union
<1>7. Cardinality(A \cap W) = 0 BY <1>5, FS_EmptySet
<1>8. Cardinality(A) \in Nat /\ z \in Nat BY <1>1, <1>3, FS_CardinalityType
<1>9. Cardinality(A \cup W) + lost = count + z BY <1>1, <1>3, <1>6, <1>7, <1>8
<1>10. SeenIn(Append(trained, e)) = A \cup W BY SeenAppend DEF A, W
<1> QED BY <1>6, <1>9, <1>10 DEF Counted, z

LEMMA AccountInit == Init => Account
<1> SUFFICES ASSUME Init PROVE Account OBVIOUS
<1>1. /\ lineage = <<>> /\ ckpt.lineage = <<>> /\ skipped = 0 /\ ckpt.skipped = 0
      /\ consumed.train = 0 /\ ckpt.consumed.train = 0
      BY DEF Init, Streams
<1>2. SeenIn(<<>>) = {} BY DEF SeenIn
<1>3. IsFiniteSet({}) /\ Cardinality({}) = 0 BY FS_EmptySet
<1>4. Counted(<<>>, 0, 0) BY <1>2, <1>3 DEF Counted
<1> QED BY <1>1, <1>4 DEF Account

LEMMA AccountStep ==
    ASSUME PermInjective, Stream, Course, Account, [Next]_vars
    PROVE  Account'
<1>1. /\ dataset \in Datasets /\ layout \in Layouts /\ consumed.train \in Nat
      /\ OnGrid(consumed.train) /\ skipped \in Nat
      BY DEF Stream, Types, TypeOK, Multiples, Streams
\* Steps that count nothing.
<1>2. ASSUME UNCHANGED <<lineage, skipped, ckpt>>, consumed'.train = consumed.train,
             diverged => diverged'
      PROVE  Account'
  <2>1. ~diverged' => Counted(lineage, skipped, consumed.train) BY <1>2 DEF Account
  <2>2. ~ckpt.diverged => Counted(ckpt.lineage, ckpt.skipped, ckpt.consumed.train) BY DEF Account
  <2> QED BY <1>2, <2>1, <2>2 DEF Account, Counted
<1>3. ASSUME NEW r \in Ranks, Draw(r) PROVE Account'
  <2>1. UNCHANGED <<lineage, skipped, ckpt, consumed>> BY <1>3 DEF Draw, model
  <2>2. diverged => diverged' BY <1>3, DrawEffect DEF Stream
  <2> QED BY <1>2, <2>1, <2>2
<1>4. CASE EndTrainStep
  <2>1. /\ UNCHANGED <<ckpt, diverged>> /\ doing = "train" /\ AllDrawn
        /\ consumed' = [consumed EXCEPT !.train = @ + Size]
        /\ \/ skipped' = skipped + Size /\ lineage' = lineage
           \/ skipped' = skipped /\ lineage' = Append(lineage, Entry)
        BY <1>4 DEF EndTrainStep
  <2>2. consumed'.train = consumed.train + Size /\ Size \in Nat
        BY <2>1, BatchSizeIsNat DEF Size, Stream, Types, TypeOK, Streams
  <2>3. ~ckpt.diverged => Counted(ckpt.lineage, ckpt.skipped, ckpt.consumed.train) BY DEF Account
  <2>4. ~diverged => Counted(lineage', skipped', consumed.train + Size)
    <3> SUFFICES ASSUME ~diverged PROVE Counted(lineage', skipped', consumed.train + Size)
        OBVIOUS
    <3>1. Counted(lineage, skipped, consumed.train) /\ Windows(lineage, consumed.train, layout)
          BY DEF Account, Course
    <3>2. CASE skipped' = skipped + Size /\ lineage' = lineage
      <4>1. Cardinality(SeenIn(lineage)) \in Nat BY <3>1, FS_CardinalityType DEF Counted
      <4> QED BY <1>1, <2>2, <3>1, <3>2, <4>1 DEF Counted
    <3>3. CASE skipped' = skipped /\ lineage' = Append(lineage, Entry)
      <4> DEFINE e == Entry
      <4>1. /\ e.from = consumed.train /\ e.size = Size /\ e.size \in {GBS, RampGBS}
            /\ (dataset.kind = "batch" => e.size = GBS)
            /\ e.samples = WindowIn(layout, consumed.train, e.size) /\ PassHolds(layout)
            BY <2>1, StepTaken
      <4>2. PICK S : lineage \in Seq(S) BY DEF Course
      <4> HIDE DEF e
      <4>3. Counted(Append(lineage, e), skipped, consumed.train + e.size)
            BY <1>1, <3>1, <4>1, <4>2, CountedAppend
      <4> QED BY <3>3, <4>1, <4>3 DEF e
    <3> QED BY <2>1, <3>2, <3>3
  <2> QED BY <2>1, <2>2, <2>3, <2>4 DEF Account, Counted, SeenIn
<1>5. CASE EndEvalStep
  <2>1. UNCHANGED <<lineage, skipped, ckpt, diverged>>
        /\ consumed' = [consumed EXCEPT !.valid = @ + GBS]
        BY <1>5 DEF EndEvalStep, job
  <2>2. consumed'.train = consumed.train BY <2>1 DEF Stream, Types, TypeOK, Streams
  <2> QED BY <1>2, <2>1, <2>2
<1>6. CASE Finish \/ Crash \/ UNCHANGED vars
  BY <1>2, <1>6 DEF Finish, Crash, vars, job, data, model
<1>7. CASE Save
  <2>1. /\ UNCHANGED <<lineage, skipped, consumed, diverged>>
        /\ ckpt'.lineage = lineage /\ ckpt'.consumed = consumed /\ ckpt'.skipped = skipped
        /\ ckpt'.diverged = diverged
        BY <1>7 DEF Save, job, data, model
  <2> QED BY <2>1 DEF Account, Counted
<1>8. ASSUME NEW l \in Layouts, Restart(l) PROVE Account'
  <2>1. /\ UNCHANGED ckpt /\ lineage' = ckpt.lineage /\ consumed' = ckpt.consumed
        /\ skipped' = ckpt.skipped /\ diverged' = (ckpt.diverged \/ ~Continues(l))
        BY <1>8 DEF Restart
  <2> QED BY <2>1 DEF Account, Counted
<1> QED BY <1>3, <1>4, <1>5, <1>6, <1>7, <1>8 DEF Next

\* The sequential order is never left: the count alone is its place.
SingleStays == dataset.kind = "single" => ~diverged /\ ~ckpt.diverged

LEMMA SingleStaysStep ==
    /\ Init => SingleStays
    /\ SingleStays /\ [Next]_vars => SingleStays'
<1>1. Init => SingleStays BY DEF Init, SingleStays
<1>2. ASSUME SingleStays, [Next]_vars PROVE SingleStays'
  <2> SUFFICES ASSUME dataset'.kind = "single" PROVE ~diverged' /\ ~ckpt'.diverged
      BY DEF SingleStays
  <2>1. dataset' = dataset
        BY <1>2 DEF Next, Draw, EndTrainStep, EndEvalStep, Save, Finish, Crash, Restart, vars, job
  <2>2. dataset.kind = "single" /\ ~diverged /\ ~ckpt.diverged BY <1>2, <2>1 DEF SingleStays
  <2>3. ASSUME NEW r \in Ranks, Draw(r) PROVE ~diverged' /\ ~ckpt'.diverged
    <3>1. UNCHANGED ckpt BY <2>3 DEF Draw
    <3>2. ~(doing = "train" /\ KindOf(doing) = "batch") BY <2>2 DEF KindOf
    <3>3. ~diverged' BY <2>2, <2>3, <3>2 DEF Draw
    <3> QED BY <2>2, <3>1, <3>3
  <2>4. CASE EndTrainStep \/ EndEvalStep \/ Finish \/ Crash \/ UNCHANGED vars
    BY <2>2, <2>4 DEF EndTrainStep, EndEvalStep, Finish, Crash, vars, data
  <2>5. CASE Save
    <3>1. ckpt'.diverged = diverged /\ diverged' = diverged BY <2>5 DEF Save, data
    <3> QED BY <2>2, <3>1
  <2>6. ASSUME NEW l \in Layouts, Restart(l) PROVE ~diverged' /\ ~ckpt'.diverged
    <3>1. Continues(l) BY <2>2 DEF Continues
    <3>2. diverged' = (ckpt.diverged \/ ~Continues(l)) /\ UNCHANGED ckpt BY <2>6 DEF Restart
    <3> QED BY <2>2, <3>1, <3>2
  <2> QED BY <1>2, <2>3, <2>4, <2>5, <2>6 DEF Next
<1> QED BY <1>1, <1>2

(***************************************************************************)
(* The model has seen every sample of its epoch at most once, and          *)
(* consumed_train_samples is the number it has seen and skipped            *)
(* (ExactlyOnce): a step's window holds as many samples as the counter     *)
(* moves by (WindowSize) and overlaps none before it (WindowsApart), since *)
(* the windows of all earlier steps end where it begins (Course).  For the *)
(* sequential sampler on any sequence of layouts (SingleStays); for the    *)
(* random ones on one, and for whole batches while the count is the place  *)
(* of the stream.                                                          *)
(***************************************************************************)
THEOREM AlwaysExactlyOnce ==
    ASSUME EvenShuffle, PermInjective
    PROVE  Spec => []ExactlyOnce
<1> DEFINE Inv == Stream /\ Course /\ Account /\ SingleStays
<1>1. Init => Inv BY StreamInvariant, CourseInit, AccountInit, SingleStaysStep
<1>2. Inv /\ [Next]_vars => Inv' BY StreamInvariant, CourseStep, AccountStep, SingleStaysStep
<1>3. Inv => ExactlyOnce
  <2> SUFFICES ASSUME Inv, dataset.kind = "single" \/ ~diverged
               PROVE  Cardinality(SeenSamples) + skipped = consumed.train
      BY DEF ExactlyOnce
  <2>1. ~diverged BY DEF SingleStays
  <2> QED BY <2>1 DEF Account, Counted, SeenSamples, SeenIn
<1> HIDE DEF Inv
<1> QED BY <1>1, <1>2, <1>3, PTL DEF Spec

=============================================================================
