------------------------ MODULE FaultToleranceProofs ------------------------
(***************************************************************************)
(* Theorems about FaultTolerance, for any number of iterations and faults. *)
(*                                                                         *)
(* The inductive invariant says, for every place of the program, which     *)
(* sections are open and what the counters stand for; the properties of    *)
(* the module follow from it.                                              *)
(***************************************************************************)
EXTENDS FaultTolerance, TLAPS

Client   == [up : BOOLEAN, open : SUBSET Sections, seen : [Sections -> Nat],
             known : SUBSET (Sections \cup {"out"}), misused : BOOLEAN]
Counters == [setup_open : BOOLEAN, persistent : BOOLEAN, iters : Nat, saved : BOOLEAN, eval_idx : Nat]

\* Places of a run that has set its client up and has not given it back.
Running == Places \ {"launch", "caught", "dead"}

\* What the place says of the data.
Flow ==
    /\ at \in {"finalize", "ready", "ramp_save", "ramped", "step"} => step < TrainIters
    /\ at = "writing" /\ next = "ramped" => step < TrainIters
    /\ at = "eval" => evals > 0 /\ next \in {"after", "final_eval"}
    /\ at = "writing" => next \in {"ramped", "final_eval", "left", "loop", "shut"}

\* The open sections of a running client, exactly.
OpenSections ==
    {s \in Sections :
        \/ s = "setup" /\ ft.setup_open
        \/ s = "checkpointing" /\ Saving
        \/ s = "step" /\ \/ at = "step" /\ ft.iters >= Warmup
                         \/ at = "eval" /\ ft.eval_idx >= Warmup}

Opened ==
    /\ ~client.misused
    /\ "step" \in client.open => client.open = {"step"}
    /\ at \in Running => client.up /\ client.open = OpenSections
    /\ Stepping => ~ft.setup_open
    /\ at = "finished" => ~client.up
    /\ file.state = "torn" =>
         /\ at \in {"writing", "caught", "dead", "launch", "failed"}
         /\ client.open \subseteq {"setup"}
    /\ at = "failed" => file.state = "torn"

\* What the counters stand for, in a process that was not restarted in place.
Learned ==
    ~inproc =>
        /\ ~run.unfounded
        /\ at = "launch" => ft.iters = 0 /\ ~ft.saved
        /\ at \in {"launch", "load"} => ~ft.persistent
        /\ ft.persistent => run.loaded = "persistent"
        /\ ~run.trained => ft.iters = 0
        /\ at # "finished" =>
             /\ ft.iters <= client.seen["step"] + Warmup \/ client.seen["step"] > MinIters
             /\ ft.saved => client.seen["checkpointing"] > 0

\* A running client knows every timeout that was learned, and so does a file that can be read.
Kept ==
    /\ at \in Running => learned \subseteq client.known
    /\ file.state # "torn" => learned \subseteq file.known

IInv == TypeOK /\ Flow /\ Opened /\ Learned /\ Kept

-----------------------------------------------------------------------------
(* The client's operations.                                                *)

\* Starting a section opens it and changes nothing else of a client.
LEMMA StartSectionFacts ==
    ASSUME NEW c \in Client, NEW s \in Sections
    PROVE  /\ StartSection(c, s) \in Client
           /\ StartSection(c, s).open = c.open \cup {s}
           /\ StartSection(c, s).misused <=> c.misused \/ s \in c.open
           /\ StartSection(c, s).up = c.up
           /\ StartSection(c, s).seen = c.seen
           /\ StartSection(c, s).known = c.known
BY DEF Client, StartSection

\* Ending a section closes it and counts its interval.
LEMMA EndSectionFacts ==
    ASSUME NEW c \in Client, NEW s \in Sections
    PROVE  /\ EndSection(c, s) \in Client
           /\ EndSection(c, s).open = c.open \ {s}
           /\ EndSection(c, s).misused <=> c.misused \/ s \notin c.open
           /\ EndSection(c, s).up = c.up
           /\ EndSection(c, s).known = c.known
           /\ \A r \in Sections \ {s} : EndSection(c, s).seen[r] = c.seen[r]
           /\ EndSection(c, s).seen[s] \in {c.seen[s], c.seen[s] + 1}
           /\ EndSection(c, s).seen[s] = c.seen[s] => c.seen[s] > MinIters
           /\ EndSection(c, s).seen[s] > 0
<1>1. MinIters \in Nat BY FaultToleranceAssumption
<1>2. c.seen[s] \in Nat BY DEF Client
<1> DEFINE n == IF c.seen[s] < MinIters + 1 THEN c.seen[s] + 1 ELSE c.seen[s]
           seen == [c.seen EXCEPT ![s] = n]
<1>3. EndSection(c, s) = [c EXCEPT !.open = @ \ {s}, !.misused = @ \/ s \notin c.open, !.seen = seen]
      BY DEF EndSection, Client
<1>4. n \in Nat /\ n \in {c.seen[s], c.seen[s] + 1} /\ (n = c.seen[s] => c.seen[s] > MinIters) /\ n > 0
      BY <1>1, <1>2
<1>5. seen \in [Sections -> Nat] /\ seen[s] = n /\ \A r \in Sections \ {s} : seen[r] = c.seen[r]
      BY <1>4 DEF Client
<1> HIDE DEF n, seen
<1>6. EndSection(c, s).seen = seen BY <1>3 DEF Client
<1>7. EndSection(c, s) \in Client BY <1>3, <1>5 DEF Client
<1>8. /\ EndSection(c, s).open = c.open \ {s}
      /\ EndSection(c, s).up = c.up
      /\ EndSection(c, s).known = c.known
      /\ EndSection(c, s).misused <=> c.misused \/ s \notin c.open
      BY <1>3 DEF Client
<1> QED BY <1>4, <1>5, <1>6, <1>7, <1>8

\* Ending the setup section, if the flag says that it is open.
LEMMA EndSetupFacts ==
    ASSUME TypeOK, client.open = IF ft.setup_open THEN {"setup"} ELSE {}
    PROVE  /\ EndSetup(client) \in Client
           /\ EndSetup(client).open = {}
           /\ EndSetup(client).misused = client.misused
           /\ EndSetup(client).up = client.up
           /\ EndSetup(client).known = client.known
           /\ EndSetup(client).seen["step"] = client.seen["step"]
           /\ EndSetup(client).seen["checkpointing"] = client.seen["checkpointing"]
<1>1. client \in Client BY DEF TypeOK, Client
<1>2. "setup" \in Sections /\ "step" \in Sections \ {"setup"} /\ "checkpointing" \in Sections \ {"setup"}
      BY DEF Sections
<1>3. client.misused \in BOOLEAN BY DEF TypeOK
<1>4. ft.setup_open \in BOOLEAN BY DEF TypeOK
<1>5. CASE ft.setup_open
  <2>1. EndSetup(client) = EndSection(client, "setup") BY <1>5 DEF EndSetup
  <2>2. EndSection(client, "setup").misused \in BOOLEAN BY <1>1, <1>2, EndSectionFacts DEF Client
  <2>3. client.open = {"setup"} BY <1>5
  <2> DEFINE e == EndSection(client, "setup")
  <2>4. /\ e \in Client /\ e.open = client.open \ {"setup"} /\ e.up = client.up /\ e.known = client.known
        /\ e.misused <=> client.misused \/ "setup" \notin client.open
        /\ e.seen["step"] = client.seen["step"] /\ e.seen["checkpointing"] = client.seen["checkpointing"]
        BY <1>1, <1>2, EndSectionFacts
  <2> HIDE DEF e
  <2>5. e.misused = client.misused BY <2>3, <2>4, <1>3 DEF Client
  <2> QED BY <2>1, <2>3, <2>4, <2>5 DEF e
<1>6. CASE ~ft.setup_open BY <1>6, <1>1 DEF EndSetup
<1> QED BY <1>4, <1>5, <1>6

\* Learning timeouts keeps those known, and goes on to where, at once or after
\* the file was written.
LEMMA MaybeUpdateFacts ==
    ASSUME NEW f \in Counters, NEW c \in Client, NEW closing \in BOOLEAN, NEW where,
           run \in [loaded : {"none", "persistent", "local"}, trained : BOOLEAN, unfounded : BOOLEAN],
           file \in [state : {"absent", "torn", "whole"}, known : SUBSET (Sections \cup {"out"})],
           MaybeUpdate(f, c, closing, where)
    PROVE  /\ client' \in Client /\ client'.open = c.open /\ client'.misused = c.misused
           /\ client'.up = c.up /\ client'.seen = c.seen /\ c.known \subseteq client'.known
           /\ \/ at' = where /\ UNCHANGED <<run, file, next>>
              \/ /\ at' = "writing" /\ next' = where
                 /\ file' = [state |-> "torn", known |-> {}]
                 /\ run'.loaded = run.loaded /\ run'.trained = run.trained
                 /\ run' \in [loaded : {"none", "persistent", "local"}, trained : BOOLEAN,
                              unfounded : BOOLEAN]
                 /\ run'.unfounded => run.unfounded \/ \E s \in ToUpdate(f) : ~Evidence(s, c)
<1> DEFINE out == IF UpdateOut(f, closing) THEN {"out"} ELSE {}
<1>1. ToUpdate(f) \subseteq Sections /\ out \subseteq {"out"} BY DEF ToUpdate
<1>2. CASE Calculating /\ ToUpdate(f) \cup out # {}
  <2>1. client' = [c EXCEPT !.known = @ \cup ToUpdate(f) \cup out] BY <1>2 DEF MaybeUpdate
  <2>2. client'.known = c.known \cup ToUpdate(f) \cup out BY <2>1 DEF Client
  <2>3. client' \in Client BY <2>1, <1>1 DEF Client
  <2>4. client'.open = c.open /\ client'.misused = c.misused /\ client'.up = c.up /\ client'.seen = c.seen
        BY <2>1 DEF Client
  <2>5. run' = [run EXCEPT !.unfounded = @ \/ \E s \in ToUpdate(f) : ~Evidence(s, c)]
        BY <1>2 DEF MaybeUpdate
  <2>6. /\ run'.loaded = run.loaded /\ run'.trained = run.trained
        /\ run' \in [loaded : {"none", "persistent", "local"}, trained : BOOLEAN, unfounded : BOOLEAN]
        /\ run'.unfounded <=> run.unfounded \/ \E s \in ToUpdate(f) : ~Evidence(s, c)
        BY <2>5
  <2>7. file' = [state |-> "torn", known |-> {}] /\ at' = "writing" /\ next' = where
        BY <1>2 DEF MaybeUpdate
  <2> QED BY <2>2, <2>3, <2>4, <2>6, <2>7
<1>3. CASE ~(Calculating /\ ToUpdate(f) \cup out # {}) BY <1>3 DEF MaybeUpdate
<1> QED BY <1>2, <1>3

-----------------------------------------------------------------------------
(* Types and control flow.                                                 *)

\* TypeOK with the sets of records named.
Types ==
    /\ at \in Places \cup Ended /\ next \in Places
    /\ leaving \in BOOLEAN /\ inproc \in BOOLEAN
    /\ step \in 0 .. TrainIters /\ evals \in 0 .. EvalIters /\ faults \in 0 .. MaxFaults
    /\ ft \in Counters /\ client \in Client
    /\ file \in [state : {"absent", "torn", "whole"}, known : SUBSET (Sections \cup {"out"})]
    /\ stored \in [{"persistent", "local"} -> -1 .. TrainIters]
    /\ learned \in SUBSET (Sections \cup {"out"})
    /\ run \in [loaded : {"none", "persistent", "local"}, trained : BOOLEAN, unfounded : BOOLEAN]

LEMMA TypesAreTypeOK == (TypeOK <=> Types) /\ (TypeOK' <=> Types')
BY DEF TypeOK, Types, Counters, Client

\* The records of a new process or client are well typed.
LEMMA FreshTypes ==
    /\ FreshFT \in Counters /\ NoClient \in Client /\ NewClient \in Client
    /\ \A k \in SUBSET (Sections \cup {"out"}) :
         /\ [NewClient EXCEPT !.known = k] \in Client
         /\ [NewClient EXCEPT !.known = k].known = k
         /\ [NewClient EXCEPT !.known = k].open = {}
         /\ [NewClient EXCEPT !.known = k].seen = [s \in Sections |-> 0]
         /\ [NewClient EXCEPT !.known = k].up /\ ~[NewClient EXCEPT !.known = k].misused
    /\ FreshRun \in [loaded : {"none", "persistent", "local"}, trained : BOOLEAN, unfounded : BOOLEAN]
BY DEF FreshFT, Counters, NoClient, NewClient, Client, FreshRun

LEMMA SectionNames == {"setup", "step", "checkpointing"} \subseteq Sections
BY DEF Sections

\* Between the sections of the loop at most the setup section is open.
LEMMA OnlySetupOpen ==
    ASSUME Opened, at \in {"ready", "ramped", "after", "final_eval"}
    PROVE  client.open = IF ft.setup_open THEN {"setup"} ELSE {}
<1>1. at \in Running /\ ~Saving BY DEF Running, Places, Saving
<1>2. client.open = OpenSections BY <1>1 DEF Opened
<1>3. \A s \in Sections : s \in OpenSections <=> s = "setup" /\ ft.setup_open
      BY <1>1 DEF OpenSections
<1>4. OpenSections \subseteq Sections BY DEF OpenSections
<1>5. CASE ft.setup_open BY <1>2, <1>3, <1>4, <1>5, SectionNames
<1>6. CASE ~ft.setup_open BY <1>2, <1>3, <1>4, <1>6
<1> QED BY <1>5, <1>6

\* Every step keeps the types and the control flow; in a place that runs, the
\* open sections are what EndSetup needs.
LEMMA TypeStep ==
    ASSUME TypeOK, Flow, Opened, Next
    PROVE  TypeOK' /\ Flow'
<1> SUFFICES Types' /\ Flow' BY TypesAreTypeOK
<1> Types BY TypesAreTypeOK
<1> USE FaultToleranceAssumption, SectionNames DEF Types, Flow, Places, Ended
<1>1. ASSUME Setup PROVE Types' /\ Flow'
  <2>1. CASE file.state = "torn" BY <1>1, <2>1 DEF Setup, Ended, disk, Client
  <2>2. CASE file.state # "torn"
    <3> DEFINE c == [NewClient EXCEPT !.known = file.known]
    <3>0. c \in Client BY FreshTypes
    <3> HIDE DEF c
    <3>1. client' \in Client BY <1>1, <2>2, <3>0, StartSectionFacts DEF Setup, c
    <3>2. ft' \in Counters
      <4>1. ft' = [ft EXCEPT !.setup_open = TRUE] BY <1>1, <2>2 DEF Setup
      <4> QED BY <4>1 DEF Counters
    <3> QED BY <1>1, <2>2, <3>1, <3>2 DEF Setup, Ended, disk
  <2> QED BY <2>1, <2>2
<1>2. ASSUME Load PROVE Types' /\ Flow'
  <2>1. PICK kind \in {"none", "persistent", "local"} :
        /\ kind # "none" => stored[kind] >= 0
        /\ step' = IF kind = "none" THEN 0 ELSE stored[kind]
        /\ ft' = IF kind = "none" THEN ft ELSE [ft EXCEPT !.persistent = (kind = "persistent")]
        /\ run' = [run EXCEPT !.loaded = kind]
        BY <1>2 DEF Load
  <2>2. step' \in 0 .. TrainIters BY <2>1
  <2>3. ft' \in Counters BY <2>1 DEF Counters
  <2>4. run' \in [loaded : {"none", "persistent", "local"}, trained : BOOLEAN, unfounded : BOOLEAN]
        BY <2>1
  <2> QED BY <1>2, <2>2, <2>3, <2>4 DEF Load, disk
<1>3. ASSUME OnCheckpointingStart PROVE Types' /\ Flow'
  <2>1. client' \in Client BY <1>3, StartSectionFacts DEF OnCheckpointingStart
  <2> QED BY <1>3, <2>1 DEF OnCheckpointingStart, disk
<1>4. ASSUME OnFinalizationEnd PROVE Types' /\ Flow'
  <2>1. client' \in Client BY <1>4, EndSectionFacts DEF OnFinalizationEnd
  <2> QED BY <1>4, <2>1 DEF OnFinalizationEnd, disk
<1>5. ASSUME OnStepStart PROVE Types' /\ Flow'
  <2>1. client.open = IF ft.setup_open THEN {"setup"} ELSE {}
        BY <1>5, OnlySetupOpen DEF OnStepStart
  <2>2. client' \in Client BY <1>5, <2>1, EndSetupFacts, StartSectionFacts DEF OnStepStart
  <2>3. ft' \in Counters BY <1>5 DEF OnStepStart, Counters
  <2> QED BY <1>5, <2>2, <2>3 DEF OnStepStart, disk
<1>6. ASSUME SkipIteration PROVE Types' /\ Flow'
  BY <1>6 DEF SkipIteration, disk, memory
<1>7. ASSUME OnStepEnd PROVE Types' /\ Flow'
  <2>1. client' \in Client BY <1>7, EndSectionFacts DEF OnStepEnd
  <2>2. ft' \in Counters BY <1>7 DEF OnStepEnd, Counters
  <2>3. run' \in [loaded : {"none", "persistent", "local"}, trained : BOOLEAN, unfounded : BOOLEAN]
        BY <1>7 DEF OnStepEnd
  <2>4. step < TrainIters BY <1>7 DEF OnStepEnd
  <2>6. step' \in {step, step + 1} /\ evals' \in {evals, 0, EvalIters} /\ leaving' \in {leaving, TRUE}
        BY <1>7 DEF OnStepEnd
  <2>7. step' \in 0 .. TrainIters BY <2>4, <2>6
  <2>8. evals' \in 0 .. EvalIters BY <2>6
  <2>9. leaving' \in BOOLEAN BY <2>6, Zenon
  <2>5. at' = "after" /\ UNCHANGED <<next, inproc, file, stored, learned, faults>> BY <1>7 DEF OnStepEnd, disk
  <2> QED BY <2>1, <2>2, <2>3, <2>5, <2>7, <2>8, <2>9
<1>8. ASSUME OnEvalStart PROVE Types' /\ Flow'
  <2>1. client.open = IF ft.setup_open THEN {"setup"} ELSE {}
        BY <1>8, OnlySetupOpen DEF OnEvalStart
  <2>2. client' \in Client BY <1>8, <2>1, EndSetupFacts, StartSectionFacts DEF OnEvalStart
  <2>3. ft' \in Counters BY <1>8 DEF OnEvalStart, Counters
  <2> QED BY <1>8, <2>2, <2>3 DEF OnEvalStart, disk
<1>9. ASSUME OnEvalEnd PROVE Types' /\ Flow'
  <2>1. client' \in Client BY <1>9, EndSectionFacts DEF OnEvalEnd
  <2>2. ft' \in Counters BY <1>9 DEF OnEvalEnd, Counters
  <2> QED BY <1>9, <2>1, <2>2 DEF OnEvalEnd, disk
<1>10. ASSUME OnSaveStart PROVE Types' /\ Flow'
  <2>1. client' \in Client BY <1>10, StartSectionFacts DEF OnSaveStart
  <2> QED BY <1>10, <2>1 DEF OnSaveStart, disk
<1>11. ASSUME OnSaveEnd PROVE Types' /\ Flow'
  <2> DEFINE where == AfterSave(leaving')
             ended == EndSection(client, "checkpointing")
  <2>1. ft' \in Counters BY <1>11 DEF OnSaveEnd, Counters
  <2>2. ended \in Client BY EndSectionFacts
  <2>3. MaybeUpdate(ft', ended, FALSE, where) BY <1>11 DEF OnSaveEnd
  <2>6. where \in {"ramped", "final_eval", "left", "loop"} /\ (where = "ramped" => step < TrainIters)
        BY <1>11 DEF OnSaveEnd, AfterSave
  <2> HIDE DEF ended, where
  <2>4. /\ client' \in Client
        /\ \/ at' = where /\ UNCHANGED <<run, file, next>>
           \/ /\ at' = "writing" /\ next' = where
              /\ file' = [state |-> "torn", known |-> {}]
              /\ run' \in [loaded : {"none", "persistent", "local"}, trained : BOOLEAN, unfounded : BOOLEAN]
        BY <2>1, <2>2, <2>3, MaybeUpdateFacts, ZenonT(60)
  <2>5. stored' \in [{"persistent", "local"} -> -1 .. TrainIters] BY <1>11 DEF OnSaveEnd
  <2>7. leaving' \in BOOLEAN /\ evals' \in {0, EvalIters} /\ UNCHANGED <<step, inproc, learned, faults>>
        BY <1>11 DEF OnSaveEnd
  <2> QED BY <2>1, <2>4, <2>5, <2>6, <2>7 
<1>12. ASSUME Decide PROVE Types' /\ Flow'
  <2>1. at' \in {"left", "loop"} /\ leaving' \in {leaving, TRUE}
        /\ UNCHANGED <<next, step, evals, ft, client, inproc, file, stored, learned, run, faults>>
        BY <1>12 DEF Decide, disk, memory
  <2>2. leaving' \in BOOLEAN BY <2>1, Zenon
  <2> QED BY <2>1, <2>2
<1>13. ASSUME WriteState PROVE Types' /\ Flow'
  <2>1. file' \in [state : {"absent", "torn", "whole"}, known : SUBSET (Sections \cup {"out"})]
        BY <1>13 DEF WriteState, Client
  <2>2. at' \in {"ramped", "final_eval", "left", "loop", "shut"} BY <1>13 DEF WriteState
  <2>3. UNCHANGED <<next, leaving, step, evals, ft, client, inproc, stored, run, faults>>
        BY <1>13 DEF WriteState, memory
  <2>4. at = "writing" /\ at' = next /\ learned' = learned \cup client.known BY <1>13 DEF WriteState
  <2>5. learned' \in SUBSET (Sections \cup {"out"}) BY <2>4 DEF Client
  <2> QED BY <2>1, <2>2, <2>3, <2>4, <2>5
<1>14. ASSUME Shutdown PROVE Types' /\ Flow'
  <2>1. CASE at = "closing" /\ MaybeUpdate(ft, client, TRUE, "shut")
               /\ UNCHANGED <<leaving, step, evals, ft, inproc, stored, learned, faults>>
    <3>1. /\ client' \in Client
          /\ \/ at' = "shut" /\ UNCHANGED <<run, file, next>>
             \/ /\ at' = "writing" /\ next' = "shut"
                /\ file' = [state |-> "torn", known |-> {}]
                /\ run' \in [loaded : {"none", "persistent", "local"}, trained : BOOLEAN, unfounded : BOOLEAN]
          BY <2>1, MaybeUpdateFacts, ZenonT(60)
    <3> QED BY <2>1, <3>1
  <2>2. CASE at = "shut" /\ client' = NoClient /\ at' = "finished"
               /\ UNCHANGED <<next, leaving, step, evals, ft, inproc, disk, run, faults>>
    BY <2>2, FreshTypes DEF disk
  <2> QED BY <1>14, <2>1, <2>2 DEF Shutdown
<1>15. ASSUME Relaunch \/ Reenter PROVE Types' /\ Flow'
  <2>1. ft' \in {FreshFT, ft} /\ client' \in {NoClient, client} /\ inproc' \in BOOLEAN /\ leaving' \in BOOLEAN
        BY <1>15 DEF Relaunch, Reenter
  <2>2. ft' \in Counters /\ client' \in Client BY <2>1, FreshTypes
  <2>3. at' = "launch" /\ step' = 0 /\ evals' = 0 /\ run' = FreshRun
        /\ UNCHANGED <<next, file, stored, learned, faults>>
        BY <1>15 DEF Relaunch, Reenter, disk
  <2>4. run' \in [loaded : {"none", "persistent", "local"}, trained : BOOLEAN, unfounded : BOOLEAN]
        BY <2>3, FreshTypes
  <2>5. Flow' BY <2>3
  <2>6. at' \in Places BY <2>3
  <2>7. step' \in 0 .. TrainIters /\ evals' \in 0 .. EvalIters BY <2>3
  <2> HIDE DEF Places, Ended
  <2>8. Types' BY <2>1, <2>2, <2>3, <2>4, <2>6, <2>7
  <2> QED BY <2>5, <2>8
<1>16. ASSUME Kill \/ Catch PROVE Types' /\ Flow'
  <2>1. at' \in {"dead", "caught"} /\ faults' = faults + 1 /\ faults < MaxFaults
        BY <1>16 DEF Kill, Catch
  <2>2. UNCHANGED <<next, leaving, step, evals, ft, client, inproc, file, stored, learned, run>>
        BY <1>16 DEF Kill, Catch, disk, memory
  <2>3. faults' \in 0 .. MaxFaults BY <2>1
  <2>4. at' \in Places BY <2>1
  <2>5. Flow' BY <2>1
  <2>6. at' \in Places \cup Ended BY <2>4
  <2> HIDE DEF Places, Ended
  <2>7. Types' BY <2>2, <2>3, <2>6
  <2> QED BY <2>5, <2>7
<1> QED BY <1>1, <1>2, <1>3, <1>4, <1>5, <1>6, <1>7, <1>8, <1>9, <1>10, <1>11, <1>12, <1>13, <1>14,
        <1>15, <1>16 DEF Next, Run

-----------------------------------------------------------------------------
(* Sections.                                                               *)

\* Every step keeps the account of the open sections.
LEMMA OpenedStep ==
    ASSUME TypeOK, TypeOK', Flow, Opened, Next
    PROVE  Opened'
<1> Types /\ Types' BY TypesAreTypeOK
<1> USE SectionNames DEF Opened, OpenSections, Running, Places, Saving, Stepping
<1>0. client \in Client /\ client.misused \in BOOLEAN /\ client'.misused \in BOOLEAN
      /\ ft.setup_open \in BOOLEAN /\ client.open \subseteq Sections
      BY DEF Types, Client, Counters
<1>1. ASSUME Setup PROVE Opened'
  <2>1. CASE file.state = "torn" BY <1>1, <2>1 DEF Setup, disk
  <2>2. CASE file.state # "torn"
    <3> DEFINE c == [NewClient EXCEPT !.known = file.known]
    <3>1. c \in Client /\ c.open = {} /\ c.up /\ ~c.misused BY FreshTypes DEF Types
    <3> HIDE DEF c
    <3>2. client' = StartSection(c, "setup") /\ at' = "load" /\ ft' = [ft EXCEPT !.setup_open = TRUE]
          /\ UNCHANGED file
          BY <1>1, <2>2 DEF Setup, c, disk
    <3>3. client'.open = {"setup"} /\ client'.up /\ ~client'.misused BY <3>1, <3>2, StartSectionFacts
    <3>4. ft'.setup_open BY <3>2 DEF Types, Counters
    <3>5. OpenSections' = {"setup"} BY <3>2, <3>4 DEF Sections
    <3> QED BY <2>2, <3>2, <3>3, <3>5
  <2> QED BY <2>1, <2>2
<1>2. ASSUME Load PROVE Opened'
  <2>1. at = "load" /\ at' = "loop" /\ UNCHANGED <<client, file>> /\ ft'.setup_open = ft.setup_open
        BY <1>2 DEF Load, disk, Types, Counters
  <2>2. OpenSections' = OpenSections BY <2>1
  <2> QED BY <2>1, <2>2
<1>3. ASSUME OnCheckpointingStart PROVE Opened'
  <2>1. at \in {"loop", "left", "final_eval"} /\ at' \in {"finalize", "drain", "last_drain"}
        /\ client' = StartSection(client, "checkpointing") /\ UNCHANGED <<ft, file>>
        BY <1>3 DEF OnCheckpointingStart, disk
  <2>2. OpenSections' = OpenSections \cup {"checkpointing"} BY <2>1 DEF Sections
  <2>3. client'.open = client.open \cup {"checkpointing"} /\ client'.up = client.up
        /\ (client'.misused <=> client.misused \/ "checkpointing" \in client.open)
        BY <2>1, <1>0, StartSectionFacts
  <2>4. "checkpointing" \notin client.open /\ "step" \notin client.open BY <2>1
  <2> QED BY <2>1, <2>2, <2>3, <2>4
<1>4. ASSUME OnFinalizationEnd PROVE Opened'
  <2>1. at \in {"finalize", "drain", "last_drain"} /\ at' \in {"ready", "closing", "drained"}
        /\ client' = EndSection(client, "checkpointing") /\ UNCHANGED <<ft, file>>
        BY <1>4 DEF OnFinalizationEnd, disk
  <2>2. OpenSections' = OpenSections \ {"checkpointing"} BY <2>1 DEF Sections
  <2>3. client'.open = client.open \ {"checkpointing"} /\ client'.up = client.up
        /\ (client'.misused <=> client.misused \/ "checkpointing" \notin client.open)
        BY <2>1, <1>0, EndSectionFacts
  <2>4. "checkpointing" \in client.open BY <2>1
  <2>5. "step" \notin client.open BY <2>4
  <2> QED BY <2>1, <2>2, <2>3, <2>4, <2>5
<1>5. ASSUME OnStepStart PROVE Opened'
  <2>1. at \in {"ready", "ramped"} /\ at' = "step" /\ UNCHANGED file
        /\ client' = (IF ft.iters >= Warmup THEN StartSection(EndSetup(client), "step")
                       ELSE EndSetup(client))
        /\ ft' = [ft EXCEPT !.setup_open = FALSE, !.eval_idx = 0]
        BY <1>5 DEF OnStepStart, disk
  <2>2. client.open = IF ft.setup_open THEN {"setup"} ELSE {} BY <2>1 DEF Sections
  <2>3. EndSetup(client) \in Client /\ EndSetup(client).open = {} /\ EndSetup(client).up
        /\ EndSetup(client).misused = client.misused
        BY <2>1, <2>2, EndSetupFacts
  <2>4. client'.open = (IF ft.iters >= Warmup THEN {"step"} ELSE {}) /\ client'.up /\ ~client'.misused
        BY <2>1, <2>3, StartSectionFacts
  <2>5. ~ft'.setup_open /\ ft'.iters = ft.iters BY <2>1 DEF Types, Counters
  <2>6. OpenSections' = IF ft.iters >= Warmup THEN {"step"} ELSE {} BY <2>1, <2>5 DEF Sections
  <2> QED BY <2>1, <2>4, <2>5, <2>6
<1>6. ASSUME SkipIteration PROVE Opened'
  <2>1. at \in {"ready", "ramped"} /\ at' = "loop" /\ UNCHANGED <<client, file, ft>> BY <1>6 DEF SkipIteration, disk, memory
  <2>2. OpenSections' = OpenSections BY <2>1
  <2> QED BY <2>1, <2>2
<1>7. ASSUME OnStepEnd PROVE Opened'
  <2>1. at = "step" /\ at' = "after" /\ UNCHANGED file
        /\ client' = IF ft.iters >= Warmup THEN EndSection(client, "step") ELSE client
        BY <1>7 DEF OnStepEnd, disk
  <2>2. ft'.setup_open = ft.setup_open BY <1>7 DEF OnStepEnd, Types, Counters
  <2>3. client.open = (IF ft.iters >= Warmup THEN {"step"} ELSE {}) BY <2>1 DEF Sections
  <2>4. client'.open = {} /\ client'.up /\ ~client'.misused BY <2>1, <2>3, <1>0, EndSectionFacts
  <2>5. OpenSections' = {} BY <2>1, <2>2 DEF Sections
  <2> QED BY <2>1, <2>4, <2>5
<1>8. ASSUME OnEvalStart PROVE Opened'
  <2>1. at \in {"after", "final_eval"} /\ at' = "eval" /\ UNCHANGED file
        /\ client' = (IF ft.eval_idx >= Warmup THEN StartSection(EndSetup(client), "step")
                       ELSE EndSetup(client))
        /\ ft' = [ft EXCEPT !.setup_open = FALSE]
        BY <1>8 DEF OnEvalStart, disk
  <2>2. client.open = IF ft.setup_open THEN {"setup"} ELSE {} BY <2>1 DEF Sections
  <2>3. EndSetup(client) \in Client /\ EndSetup(client).open = {} /\ EndSetup(client).up
        /\ EndSetup(client).misused = client.misused
        BY <2>1, <2>2, EndSetupFacts
  <2>4. client'.open = (IF ft.eval_idx >= Warmup THEN {"step"} ELSE {}) /\ client'.up /\ ~client'.misused
        BY <2>1, <2>3, StartSectionFacts
  <2>5. ~ft'.setup_open /\ ft'.eval_idx = ft.eval_idx BY <2>1 DEF Types, Counters
  <2>6. OpenSections' = IF ft.eval_idx >= Warmup THEN {"step"} ELSE {} BY <2>1, <2>5 DEF Sections
  <2> QED BY <2>1, <2>4, <2>5, <2>6
<1>9. ASSUME OnEvalEnd PROVE Opened'
  <2>1. at = "eval" /\ at' = next /\ UNCHANGED file
        /\ client' = IF ft.eval_idx >= Warmup THEN EndSection(client, "step") ELSE client
        BY <1>9 DEF OnEvalEnd, disk
  <2>2. ft'.setup_open = ft.setup_open BY <1>9 DEF OnEvalEnd, Types, Counters
  <2>3. client.open = (IF ft.eval_idx >= Warmup THEN {"step"} ELSE {}) BY <2>1 DEF Sections
  <2>4. client'.open = {} /\ client'.up /\ ~client'.misused BY <2>1, <2>3, <1>0, EndSectionFacts
  <2>5. at' \in {"after", "final_eval"} BY <2>1 DEF Flow
  <2>6. OpenSections' = {} BY <2>1, <2>2, <2>5 DEF Sections
  <2> QED BY <2>1, <2>4, <2>5, <2>6
<1>10. ASSUME OnSaveStart PROVE Opened'
  <2>1. at \in {"ready", "after", "drained"} /\ at' \in {"ramp_save", "save", "final_save"}
        /\ client' = StartSection(client, "checkpointing") /\ UNCHANGED <<ft, file>>
        BY <1>10 DEF OnSaveStart, disk
  <2>2. OpenSections' = OpenSections \cup {"checkpointing"} BY <2>1 DEF Sections
  <2>3. client'.open = client.open \cup {"checkpointing"} /\ client'.up = client.up
        /\ (client'.misused <=> client.misused \/ "checkpointing" \in client.open)
        BY <2>1, <1>0, StartSectionFacts
  <2>4. "checkpointing" \notin client.open /\ "step" \notin client.open BY <2>1
  <2> QED BY <2>1, <2>2, <2>3, <2>4
<1>11. ASSUME OnSaveEnd PROVE Opened'
  <2> DEFINE where == AfterSave(leaving')
             ended == EndSection(client, "checkpointing")
  <2>1. at \in {"ramp_save", "save", "final_save"} /\ MaybeUpdate(ft', ended, FALSE, where)
        /\ ft' = [ft EXCEPT !.saved = TRUE]
        BY <1>11 DEF OnSaveEnd
  <2>2. ended \in Client /\ ended.open = client.open \ {"checkpointing"} /\ ended.up = client.up
        /\ (ended.misused <=> client.misused \/ "checkpointing" \notin client.open)
        BY <1>0, EndSectionFacts
  <2>3. where \in {"ramped", "final_eval", "left", "loop"} BY <2>1 DEF AfterSave
  <2>4. ft' \in Counters /\ ft'.setup_open = ft.setup_open BY <2>1 DEF Types, Counters
  <2> HIDE DEF where, ended
  <2>5. /\ client'.open = ended.open /\ client'.misused = ended.misused /\ client'.up = ended.up
        /\ \/ at' = where /\ UNCHANGED <<run, file, next>>
           \/ at' = "writing" /\ file' = [state |-> "torn", known |-> {}]
        BY <2>1, <2>2, <2>4, MaybeUpdateFacts, ZenonT(60) DEF Types
  <2>6. at' \in {"ramped", "final_eval", "left", "loop", "writing"} BY <2>3, <2>5
  <2>7. OpenSections' = OpenSections \ {"checkpointing"} BY <2>1, <2>4, <2>6 DEF Sections
  <2>8. "checkpointing" \in client.open /\ "step" \notin client.open BY <2>1
  <2>9. client'.open \subseteq {"setup"} BY <2>2, <2>5, <2>8, <1>0 DEF Sections
  <2>10. file'.state = "torn" => at' = "writing" BY <2>1, <2>5
  <2>11. ~client'.misused /\ client'.up BY <2>1, <2>2, <2>5, <2>8
  <2>12. client'.open = OpenSections' BY <2>1, <2>2, <2>5, <2>7
  <2> QED BY <2>6, <2>8, <2>9, <2>10, <2>11, <2>12
<1>12. ASSUME Decide PROVE Opened'
  <2>1. at = "after" /\ at' \in {"left", "loop"} /\ UNCHANGED <<client, file, ft>>
        BY <1>12 DEF Decide, disk, memory
  <2>2. OpenSections' = OpenSections BY <2>1
  <2> QED BY <2>1, <2>2
<1>13. ASSUME WriteState PROVE Opened'
  <2>1. at = "writing" /\ at' \in {"ramped", "final_eval", "left", "loop", "shut"} /\ UNCHANGED <<client, ft>>
        /\ file'.state = "whole"
        BY <1>13 DEF WriteState, memory, Flow
  <2>2. OpenSections' = OpenSections BY <2>1
  <2> QED BY <2>1, <2>2
<1>14. ASSUME Shutdown PROVE Opened'
  <2>1. CASE at = "closing" /\ MaybeUpdate(ft, client, TRUE, "shut")
               /\ UNCHANGED <<leaving, step, evals, ft, inproc, stored, learned, faults>>
    <3>1. /\ client'.open = client.open /\ client'.misused = client.misused /\ client'.up = client.up
          /\ \/ at' = "shut" /\ UNCHANGED <<run, file, next>>
             \/ at' = "writing" /\ file' = [state |-> "torn", known |-> {}]
          BY <2>1, MaybeUpdateFacts, ZenonT(60) DEF Types
    <3>2. OpenSections' = OpenSections BY <2>1, <3>1
    <3>3. client.open \subseteq {"setup"} BY <2>1 DEF Sections
    <3>4. file'.state = "torn" => at' = "writing" BY <2>1, <3>1
    <3> QED BY <2>1, <3>1, <3>2, <3>3, <3>4
  <2>2. CASE at = "shut" /\ client' = NoClient /\ at' = "finished"
               /\ UNCHANGED <<next, leaving, step, evals, ft, inproc, disk, run, faults>>
    <3>1. NoClient.open = {} /\ ~NoClient.misused /\ ~NoClient.up BY DEF NoClient
    <3> QED BY <2>2, <3>1 DEF disk
  <2> QED BY <1>14, <2>1, <2>2 DEF Shutdown
<1>15. ASSUME Relaunch PROVE Opened'
  <2>1. NoClient.open = {} /\ ~NoClient.misused /\ ~NoClient.up BY DEF NoClient
  <2> QED BY <1>15, <2>1 DEF Relaunch, disk
<1>16. ASSUME Reenter PROVE Opened'
  BY <1>16 DEF Reenter, disk
<1>17. ASSUME Kill \/ Catch PROVE Opened'
  BY <1>17 DEF Kill, Catch, Ended, disk, memory
<1> QED BY <1>1, <1>2, <1>3, <1>4, <1>5, <1>6, <1>7, <1>8, <1>9, <1>10, <1>11, <1>12, <1>13, <1>14,
        <1>15, <1>16, <1>17 DEF Next, Run

-----------------------------------------------------------------------------
(* What timeouts are learned from.                                         *)

\* Counters that stand for what the client has seen choose only sections the
\* run has evidence for.
LEMMA ChosenIsFounded ==
    ASSUME NEW f \in Counters, NEW c \in Client, NEW s \in ToUpdate(f),
           f.persistent => run.loaded = "persistent",
           f.iters <= c.seen["step"] + Warmup \/ c.seen["step"] > MinIters,
           f.saved => c.seen["checkpointing"] > 0
    PROVE  Evidence(s, c)
<1> USE FaultToleranceAssumption
<1>1. c.seen["step"] \in Nat /\ c.seen["checkpointing"] \in Nat /\ f.iters \in Nat
      BY DEF Client, Counters, Sections
<1>2. CASE s = "setup" BY <1>2 DEF ToUpdate, Evidence
<1>3. CASE s = "step"
  <2>1. f.iters >= MinIters BY <1>3 DEF ToUpdate
  <2>2. c.seen["step"] + Warmup >= MinIters BY <1>1, <2>1
  <2> QED BY <1>3, <2>2 DEF Evidence
<1>4. CASE s = "checkpointing" BY <1>4 DEF ToUpdate, Evidence
<1> QED BY <1>2, <1>3, <1>4 DEF ToUpdate, Sections

\* Every step keeps the account of the counters.
LEMMA LearnedStep ==
    ASSUME TypeOK, TypeOK', Flow, Opened, Learned, Next
    PROVE  Learned'
<1> Types /\ Types' BY TypesAreTypeOK
<1> USE FaultToleranceAssumption DEF Learned
<1>0. /\ client \in Client /\ client' \in Client /\ ft \in Counters /\ ft' \in Counters
      /\ ft.iters \in Nat /\ ft.saved \in BOOLEAN /\ ft.persistent \in BOOLEAN
      /\ client.seen["step"] \in Nat /\ client.seen["checkpointing"] \in Nat
      /\ client'.seen["step"] \in Nat /\ client'.seen["checkpointing"] \in Nat
      /\ run.trained \in BOOLEAN /\ run.unfounded \in BOOLEAN
      /\ "step" \in Sections /\ "checkpointing" \in Sections /\ "setup" \in Sections
      /\ "step" # "checkpointing"
      BY DEF Types, Client, Counters, Sections
<1>1. ASSUME Setup PROVE Learned'
  <2>1. CASE file.state = "torn" BY <1>1, <2>1 DEF Setup, disk
  <2>2. CASE file.state # "torn"
    <3>1. at = "launch" /\ at' = "load" /\ UNCHANGED <<run, inproc>>
          /\ ft' = [ft EXCEPT !.setup_open = TRUE]
          BY <1>1, <2>2 DEF Setup
    <3>2. ft'.iters = ft.iters /\ ft'.saved = ft.saved /\ ft'.persistent = ft.persistent
          BY <3>1 DEF Types, Counters
    <3> QED BY <1>0, <3>1, <3>2
  <2> QED BY <2>1, <2>2
<1>2. ASSUME Load PROVE Learned'
  <2>1. PICK kind \in {"none", "persistent", "local"} :
        /\ ft' = IF kind = "none" THEN ft ELSE [ft EXCEPT !.persistent = (kind = "persistent")]
        /\ run' = [run EXCEPT !.loaded = kind]
        BY <1>2 DEF Load
  <2>2. at = "load" /\ at' = "loop" /\ UNCHANGED <<client, inproc>> BY <1>2 DEF Load
  <2>3. run'.loaded = kind /\ run'.trained = run.trained /\ run'.unfounded = run.unfounded
        BY <2>1 DEF Types
  <2>4. ft'.iters = ft.iters /\ ft'.saved = ft.saved BY <2>1 DEF Types, Counters
  <2>5. ft'.persistent => kind = "persistent" \/ ft.persistent BY <2>1 DEF Types, Counters
  <2> QED BY <1>0, <2>2, <2>3, <2>4, <2>5
<1>3. ASSUME OnCheckpointingStart PROVE Learned'
  <2>1. at' \notin {"launch", "load", "finished"} /\ at # "finished" /\ UNCHANGED <<ft, run, inproc>>
        /\ client' = StartSection(client, "checkpointing")
        BY <1>3 DEF OnCheckpointingStart
  <2>2. client'.seen = client.seen BY <2>1, <1>0, StartSectionFacts
  <2> QED BY <2>1, <2>2
<1>4. ASSUME OnFinalizationEnd PROVE Learned'
  <2>1. at' \notin {"launch", "load", "finished"} /\ at # "finished" /\ UNCHANGED <<ft, run, inproc>>
        /\ client' = EndSection(client, "checkpointing")
        BY <1>4 DEF OnFinalizationEnd
  <2>2. client'.seen["step"] = client.seen["step"] /\ client'.seen["checkpointing"] > 0
        BY <2>1, <1>0, EndSectionFacts
  <2> QED BY <2>1, <2>2
<1>5. ASSUME OnStepStart PROVE Learned'
  <2>1. at \in {"ready", "ramped"} /\ at' = "step" /\ UNCHANGED <<run, inproc>>
        /\ client' = (IF ft.iters >= Warmup THEN StartSection(EndSetup(client), "step")
                       ELSE EndSetup(client))
        /\ ft' = [ft EXCEPT !.setup_open = FALSE, !.eval_idx = 0]
        BY <1>5 DEF OnStepStart
  <2>2. client.open = IF ft.setup_open THEN {"setup"} ELSE {}
        BY <1>0, <2>1, OnlySetupOpen
  <2>3. EndSetup(client) \in Client /\ EndSetup(client).seen["step"] = client.seen["step"]
        /\ EndSetup(client).seen["checkpointing"] = client.seen["checkpointing"]
        BY <2>2, EndSetupFacts
  <2>4. client'.seen["step"] = client.seen["step"]
        /\ client'.seen["checkpointing"] = client.seen["checkpointing"]
        BY <1>0, <2>1, <2>3, StartSectionFacts
  <2>5. ft'.iters = ft.iters /\ ft'.saved = ft.saved /\ ft'.persistent = ft.persistent
        BY <2>1 DEF Types, Counters
  <2> QED BY <1>0, <2>1, <2>4, <2>5
<1>6. ASSUME SkipIteration PROVE Learned'
  BY <1>6 DEF SkipIteration, memory
<1>7. ASSUME OnStepEnd PROVE Learned'
  <2>1. at = "step" /\ at' = "after" /\ UNCHANGED inproc /\ ft' = [ft EXCEPT !.iters = @ + 1]
        /\ client' = (IF ft.iters >= Warmup THEN EndSection(client, "step") ELSE client)
        /\ run' = [run EXCEPT !.trained = TRUE]
        BY <1>7 DEF OnStepEnd
  <2>2. ft'.iters = ft.iters + 1 /\ ft'.saved = ft.saved /\ ft'.persistent = ft.persistent
        BY <2>1 DEF Types, Counters
  <2>3. run'.trained /\ run'.loaded = run.loaded /\ run'.unfounded = run.unfounded
        BY <2>1 DEF Types
  <2>4. client'.seen["checkpointing"] = client.seen["checkpointing"]
        /\ \/ client'.seen["step"] = client.seen["step"] + 1
           \/ /\ client'.seen["step"] = client.seen["step"]
              /\ ft.iters < Warmup \/ client.seen["step"] > MinIters
    <3>1. "step" \in Sections /\ "checkpointing" \in Sections \ {"step"} BY DEF Sections
    <3>2. CASE ft.iters >= Warmup
      <4>1. client' = EndSection(client, "step") BY <2>1, <3>2
      <4> DEFINE ended == EndSection(client, "step")
      <4>2. ended.seen["checkpointing"] = client.seen["checkpointing"]
            BY <1>0, <3>1, EndSectionFacts
      <4>3. /\ ended.seen["step"] \in {client.seen["step"], client.seen["step"] + 1}
            /\ ended.seen["step"] = client.seen["step"] => client.seen["step"] > MinIters
            BY <1>0, <3>1, EndSectionFacts
      <4>4. client' = ended BY <4>1
      <4> HIDE DEF ended
      <4> QED BY <4>2, <4>3, <4>4
    <3>3. CASE ~(ft.iters >= Warmup)
      <4>1. ft.iters < Warmup BY <1>0, <3>3, FaultToleranceAssumption DEF Counters
      <4> QED BY <2>1, <3>3, <4>1
    <3> QED BY <3>2, <3>3
  <2> QED BY <1>0, <2>1, <2>2, <2>3, <2>4
<1>8. ASSUME OnEvalStart PROVE Learned'
  <2>1. at \in {"after", "final_eval"} /\ at' = "eval" /\ UNCHANGED <<run, inproc>>
        /\ client' = (IF ft.eval_idx >= Warmup THEN StartSection(EndSetup(client), "step")
                       ELSE EndSetup(client))
        /\ ft' = [ft EXCEPT !.setup_open = FALSE]
        BY <1>8 DEF OnEvalStart
  <2>2. client.open = IF ft.setup_open THEN {"setup"} ELSE {}
        BY <1>0, <2>1, OnlySetupOpen
  <2>3. EndSetup(client) \in Client /\ EndSetup(client).seen["step"] = client.seen["step"]
        /\ EndSetup(client).seen["checkpointing"] = client.seen["checkpointing"]
        BY <2>2, EndSetupFacts
  <2>4. client'.seen["step"] = client.seen["step"]
        /\ client'.seen["checkpointing"] = client.seen["checkpointing"]
        BY <1>0, <2>1, <2>3, StartSectionFacts
  <2>5. ft'.iters = ft.iters /\ ft'.saved = ft.saved /\ ft'.persistent = ft.persistent
        BY <2>1 DEF Types, Counters
  <2> QED BY <1>0, <2>1, <2>4, <2>5
<1>9. ASSUME OnEvalEnd PROVE Learned'
  <2>1. at = "eval" /\ at' \in {"after", "final_eval"} /\ UNCHANGED <<run, inproc>>
        /\ ft' = [ft EXCEPT !.eval_idx = @ + 1]
        /\ client' = (IF ft.eval_idx >= Warmup THEN EndSection(client, "step") ELSE client)
        BY <1>9 DEF OnEvalEnd, Flow
  <2>2. ft'.iters = ft.iters /\ ft'.saved = ft.saved /\ ft'.persistent = ft.persistent
        BY <2>1 DEF Types, Counters
  <2>3. client'.seen["checkpointing"] = client.seen["checkpointing"]
        /\ client'.seen["step"] \in {client.seen["step"], client.seen["step"] + 1}
        BY <1>0, <2>1, EndSectionFacts
  <2> QED BY <1>0, <2>1, <2>2, <2>3
<1>10. ASSUME OnSaveStart PROVE Learned'
  <2>1. at' \notin {"launch", "load", "finished"} /\ at # "finished" /\ UNCHANGED <<ft, run, inproc>>
        /\ client' = StartSection(client, "checkpointing")
        BY <1>10 DEF OnSaveStart
  <2>2. client'.seen = client.seen BY <2>1, <1>0, StartSectionFacts
  <2> QED BY <2>1, <2>2
<1>11. ASSUME OnSaveEnd PROVE Learned'
  <2> DEFINE where == AfterSave(leaving')
             ended == EndSection(client, "checkpointing")
  <2>1. at \in {"ramp_save", "save", "final_save"} /\ MaybeUpdate(ft', ended, FALSE, where)
        /\ ft' = [ft EXCEPT !.saved = TRUE] /\ UNCHANGED inproc
        BY <1>11 DEF OnSaveEnd
  <2>2. ended \in Client /\ ended.seen["step"] = client.seen["step"] /\ ended.seen["checkpointing"] > 0
    <3> HIDE DEF where
    <3>1. client \in Client BY <1>0 DEF Types
    <3>2. "checkpointing" \in Sections /\ "step" \in Sections \ {"checkpointing"} BY DEF Sections
    <3> QED BY <3>1, <3>2, EndSectionFacts
  <2>3. where \in {"ramped", "final_eval", "left", "loop"} BY <2>1 DEF AfterSave
  <2>4. ft'.iters = ft.iters /\ ft'.persistent = ft.persistent BY <2>1 DEF Types, Counters
  <2> HIDE DEF where, ended
  <2>5. /\ client'.seen = ended.seen
        /\ \/ at' = where /\ UNCHANGED <<run, file, next>>
           \/ /\ at' = "writing" /\ run'.loaded = run.loaded /\ run'.trained = run.trained
              /\ run'.unfounded => run.unfounded \/ \E s \in ToUpdate(ft') : ~Evidence(s, ended)
        BY <1>0, <2>1, <2>2, MaybeUpdateFacts, ZenonT(60) DEF Types
  <2>6. ~inproc => \A s \in ToUpdate(ft') : Evidence(s, ended)
    <3> SUFFICES ASSUME ~inproc, NEW s \in ToUpdate(ft') PROVE Evidence(s, ended) OBVIOUS
    <3>1. /\ ft'.persistent => run.loaded = "persistent"
          /\ ft'.iters <= ended.seen["step"] + Warmup \/ ended.seen["step"] > MinIters
          /\ ft'.saved => ended.seen["checkpointing"] > 0
          BY <1>0, <2>1, <2>2, <2>4
    <3> QED BY <1>0, <2>2, <3>1, ChosenIsFounded, Zenon
  <2>7. at' \in {"ramped", "final_eval", "left", "loop", "writing"} BY <2>3, <2>5
  <2>8. run'.loaded = run.loaded /\ run'.trained = run.trained /\ (~inproc => ~run'.unfounded)
        BY <2>5, <2>6, <1>0
  <2> QED BY <1>0, <2>1, <2>2, <2>4, <2>5, <2>7, <2>8
<1>12. ASSUME Decide PROVE Learned'
  BY <1>12 DEF Decide, memory
<1>13. ASSUME WriteState PROVE Learned'
  BY <1>13 DEF WriteState, memory, Flow
<1>14. ASSUME Shutdown PROVE Learned'
  <2>1. CASE at = "closing" /\ MaybeUpdate(ft, client, TRUE, "shut")
               /\ UNCHANGED <<leaving, step, evals, ft, inproc, stored, learned, faults>>
    <3>1. /\ client'.seen = client.seen
          /\ \/ at' = "shut" /\ UNCHANGED <<run, file, next>>
             \/ /\ at' = "writing" /\ run'.loaded = run.loaded /\ run'.trained = run.trained
                /\ run'.unfounded => run.unfounded \/ \E s \in ToUpdate(ft) : ~Evidence(s, client)
          BY <1>0, <2>1, MaybeUpdateFacts, ZenonT(60) DEF Types
    <3>2. ~inproc => \A s \in ToUpdate(ft) : Evidence(s, client)
      <4> SUFFICES ASSUME ~inproc, NEW s \in ToUpdate(ft) PROVE Evidence(s, client) OBVIOUS
      <4>1. /\ ft.persistent => run.loaded = "persistent"
            /\ ft.iters <= client.seen["step"] + Warmup \/ client.seen["step"] > MinIters
            /\ ft.saved => client.seen["checkpointing"] > 0
            BY <2>1
      <4> QED BY <1>0, <4>1, ChosenIsFounded, Zenon
    <3>3. run'.loaded = run.loaded /\ run'.trained = run.trained /\ (~inproc => ~run'.unfounded)
          /\ at' \in {"shut", "writing"}
          BY <3>1, <3>2, <1>0
    <3> QED BY <1>0, <2>1, <3>1, <3>3
  <2>2. CASE at = "shut" /\ client' = NoClient /\ at' = "finished"
               /\ UNCHANGED <<next, leaving, step, evals, ft, inproc, disk, run, faults>>
    BY <2>2
  <2> QED BY <1>14, <2>1, <2>2 DEF Shutdown
<1>15. ASSUME Relaunch PROVE Learned'
  <2>1. FreshFT.iters = 0 /\ ~FreshFT.saved /\ ~FreshFT.persistent BY DEF FreshFT
  <2>2. ~FreshRun.unfounded BY DEF FreshRun
  <2>3. at' = "launch" /\ ft' = FreshFT /\ run' = FreshRun BY <1>15 DEF Relaunch
  <2> QED BY <1>0, <2>1, <2>2, <2>3
<1>16. ASSUME Reenter PROVE Learned'
  BY <1>16 DEF Reenter
<1>17. ASSUME Kill \/ Catch PROVE Learned'
  BY <1>17 DEF Kill, Catch, Ended, memory
<1> QED BY <1>1, <1>2, <1>3, <1>4, <1>5, <1>6, <1>7, <1>8, <1>9, <1>10, <1>11, <1>12, <1>13, <1>14,
        <1>15, <1>16, <1>17 DEF Next, Run

-----------------------------------------------------------------------------
(* What is learned stays.                                                  *)

\* A client's operations leave what it knows, and what it writes is all of it.
LEMMA KeptStep ==
    ASSUME TypeOK, Flow, Opened, Kept, Next
    PROVE  Kept'
<1> Types BY TypesAreTypeOK
<1> USE SectionNames DEF Kept, Running, Places
<1>0. client \in Client BY DEF Types
<1>1. ASSUME Setup PROVE Kept'
  <2>1. CASE file.state = "torn" BY <1>1, <2>1 DEF Setup, disk
  <2>2. CASE file.state # "torn"
    <3> DEFINE c == [NewClient EXCEPT !.known = file.known]
    <3>1. c \in Client /\ c.known = file.known BY FreshTypes DEF Types
    <3> HIDE DEF c
    <3>2. client' = StartSection(c, "setup") /\ UNCHANGED <<file, learned>>
          BY <1>1, <2>2 DEF Setup, c, disk
    <3>3. client'.known = file.known BY <3>1, <3>2, StartSectionFacts
    <3> QED BY <2>2, <3>2, <3>3
  <2> QED BY <2>1, <2>2
<1>2. ASSUME Load \/ SkipIteration \/ Decide PROVE Kept'
  BY <1>2 DEF Load, SkipIteration, Decide, disk, memory
<1>3. ASSUME OnCheckpointingStart \/ OnSaveStart PROVE Kept'
  <2>1. client' = StartSection(client, "checkpointing") /\ UNCHANGED <<file, learned>> /\ at \in Running
        BY <1>3 DEF OnCheckpointingStart, OnSaveStart, disk
  <2>2. client'.known = client.known BY <1>0, <2>1, StartSectionFacts
  <2> QED BY <2>1, <2>2
<1>4. ASSUME OnFinalizationEnd PROVE Kept'
  <2>1. client' = EndSection(client, "checkpointing") /\ UNCHANGED <<file, learned>> /\ at \in Running
        BY <1>4 DEF OnFinalizationEnd, disk
  <2>2. client'.known = client.known BY <1>0, <2>1, EndSectionFacts
  <2> QED BY <2>1, <2>2
<1>5. ASSUME OnStepStart \/ OnEvalStart PROVE Kept'
  <2>1. at \in {"ready", "ramped", "after", "final_eval"} /\ UNCHANGED <<file, learned>>
        /\ client' \in {EndSetup(client), StartSection(EndSetup(client), "step")}
        BY <1>5 DEF OnStepStart, OnEvalStart, disk
  <2>2. client.open = IF ft.setup_open THEN {"setup"} ELSE {}
        BY <1>0, <2>1, OnlySetupOpen
  <2>3. EndSetup(client) \in Client /\ EndSetup(client).known = client.known BY <2>2, EndSetupFacts
  <2>4. client'.known = client.known BY <2>1, <2>3, StartSectionFacts
  <2> QED BY <2>1, <2>4
<1>6. ASSUME OnStepEnd \/ OnEvalEnd PROVE Kept'
  <2>1. at \in Running /\ client' \in {client, EndSection(client, "step")} /\ UNCHANGED <<file, learned>>
        BY <1>6 DEF OnStepEnd, OnEvalEnd, disk
  <2>2. client'.known = client.known BY <1>0, <2>1, EndSectionFacts
  <2> QED BY <2>1, <2>2
<1>7. ASSUME OnSaveEnd PROVE Kept'
  <2> DEFINE where == AfterSave(leaving')
             ended == EndSection(client, "checkpointing")
  <2>1. at \in Running /\ MaybeUpdate(ft', ended, FALSE, where) /\ UNCHANGED learned
        BY <1>7 DEF OnSaveEnd
  <2>2. ended \in Client /\ ended.known = client.known BY <1>0, EndSectionFacts
  <2>3. ft' \in Counters BY <1>7 DEF OnSaveEnd, Types, Counters
  <2> HIDE DEF where, ended
  <2>4. /\ ended.known \subseteq client'.known
        /\ UNCHANGED file \/ file' = [state |-> "torn", known |-> {}]
        BY <2>1, <2>2, <2>3, MaybeUpdateFacts, ZenonT(60) DEF Types
  <2> QED BY <2>1, <2>2, <2>4
<1>8. ASSUME WriteState PROVE Kept'
  <2>1. at \in Running /\ UNCHANGED client /\ learned' = learned \cup client.known
        /\ file' = [state |-> "whole", known |-> client.known]
        BY <1>8 DEF WriteState, memory
  <2> QED BY <2>1
<1>9. ASSUME Shutdown PROVE Kept'
  <2>1. CASE at = "closing" /\ MaybeUpdate(ft, client, TRUE, "shut")
               /\ UNCHANGED <<leaving, step, evals, ft, inproc, stored, learned, faults>>
    <3>1. /\ client.known \subseteq client'.known
          /\ UNCHANGED file \/ file' = [state |-> "torn", known |-> {}]
          BY <1>0, <2>1, MaybeUpdateFacts, ZenonT(60) DEF Types
    <3> QED BY <2>1, <3>1
  <2>2. CASE at' = "finished" /\ UNCHANGED disk BY <2>2 DEF disk
  <2> QED BY <1>9, <2>1, <2>2 DEF Shutdown
<1>10. ASSUME Relaunch \/ Reenter \/ Kill \/ Catch PROVE Kept'
  BY <1>10 DEF Relaunch, Reenter, Kill, Catch, disk, memory
<1> QED BY <1>1, <1>2, <1>3, <1>4, <1>5, <1>6, <1>7, <1>8, <1>9, <1>10 DEF Next, Run

-----------------------------------------------------------------------------
(* The theorems.                                                           *)

LEMMA InitEstablishes == Init => IInv
<1> SUFFICES ASSUME Init PROVE IInv OBVIOUS
<1> USE FaultToleranceAssumption DEF Init
<1>0. /\ ft \in Counters /\ client \in Client
      /\ run \in [loaded : {"none", "persistent", "local"}, trained : BOOLEAN, unfounded : BOOLEAN]
      BY FreshTypes
<1>1. /\ file \in [state : {"absent", "torn", "whole"}, known : SUBSET (Sections \cup {"out"})]
      /\ stored \in [{"persistent", "local"} -> -1 .. TrainIters]
      /\ learned \in SUBSET (Sections \cup {"out"})
      OBVIOUS
<1>2. TypeOK
  <2>1. at \in Places /\ next \in Places BY DEF Places
  <2>2. leaving \in BOOLEAN /\ inproc \in BOOLEAN BY Zenon
  <2>3. step \in 0 .. TrainIters /\ evals \in 0 .. EvalIters /\ faults \in 0 .. MaxFaults OBVIOUS
  <2> HIDE DEF Init
  <2> QED BY <1>0, <1>1, <2>1, <2>2, <2>3, TypesAreTypeOK DEF Types
<1>3. Flow BY DEF Flow
<1>4. client.open = {} /\ ~client.misused /\ ~client.up BY DEF NoClient
<1>5. Opened BY <1>4 DEF Opened, Running, Stepping
<1>6. ~run.unfounded /\ ft.iters = 0 /\ ~ft.saved /\ ~ft.persistent BY DEF FreshRun, FreshFT
<1>7. client.seen["step"] = 0 BY DEF NoClient, Sections
<1>8. Learned BY <1>6, <1>7 DEF Learned
<1>9. Kept BY DEF Kept, Running
<1> QED BY <1>2, <1>3, <1>5, <1>8, <1>9 DEF IInv

LEMMA StepPreserves == IInv /\ [Next]_vars => IInv'
<1> SUFFICES ASSUME IInv, [Next]_vars PROVE IInv' OBVIOUS
<1> USE DEF IInv
<1>1. CASE Next
  <2>1. TypeOK' /\ Flow' BY <1>1, TypeStep
  <2>2. Opened' BY <1>1, <2>1, OpenedStep
  <2>3. Learned' BY <1>1, <2>1, LearnedStep
  <2>4. Kept' BY <1>1, KeptStep
  <2> QED BY <2>1, <2>2, <2>3, <2>4
<1>2. CASE UNCHANGED vars
  BY <1>2 DEF vars, memory, disk, TypeOK, Flow, Opened, OpenSections, Saving, Stepping, Learned, Kept
<1> QED BY <1>1, <1>2

LEMMA Inductive == Spec => []IInv
BY InitEstablishes, StepPreserves, PTL DEF Spec

(***************************************************************************)
(* Every state is well typed: no run trains past train_iters, whatever is  *)
(* loaded, skipped or interrupted.                                         *)
(***************************************************************************)
THEOREM FTTypeCorrect == Spec => []TypeOK
<1>1. IInv => TypeOK BY DEF IInv
<1> QED BY <1>1, Inductive, PTL

(***************************************************************************)
(* The callbacks never start an open section nor end a closed one          *)
(* (SectionsPaired), through any number of faults, caught in the process   *)
(* or not.                                                                 *)
(***************************************************************************)
THEOREM SectionsAlwaysPaired == Spec => []SectionsPaired
<1>1. IInv => SectionsPaired BY DEF IInv, Opened, SectionsPaired
<1> QED BY <1>1, Inductive, PTL

(***************************************************************************)
(* What is open is what the program does (SectionsMatchWork).              *)
(***************************************************************************)
THEOREM SectionsAlwaysMatchWork == Spec => []SectionsMatchWork
<1>1. ASSUME IInv PROVE SectionsMatchWork
  <2> SUFFICES ASSUME client.up, at \notin {"caught", "dead", "launch"}
               PROVE  /\ Saving <=> "checkpointing" \in client.open
                      /\ "step" \in client.open => Stepping
                      /\ "setup" \in client.open => ~Stepping
      BY DEF SectionsMatchWork
  <2> USE <1>1 DEF IInv, Opened
  <2>1. CASE at \in Running
    <3>1. client.open = OpenSections BY <2>1
    <3> QED BY <2>1, <3>1 DEF OpenSections, Stepping, Sections
  <2>2. CASE at \notin Running
    <3>1. at \in {"finished", "failed"} BY <2>2 DEF TypeOK, Running, Ended
    <3>2. at = "failed" BY <3>1
    <3>3. client.open \subseteq {"setup"} BY <3>2
    <3> QED BY <3>2, <3>3 DEF Saving, Stepping
  <2> QED BY <2>1, <2>2
<1> QED BY <1>1, Inductive, PTL

(***************************************************************************)
(* In a process that was not restarted in place, timeouts are only learned *)
(* from what the run has seen (TimeoutsFounded).                           *)
(***************************************************************************)
THEOREM TimeoutsAlwaysFounded == Spec => []TimeoutsFounded
<1>1. IInv => TimeoutsFounded BY DEF IInv, Learned, TimeoutsFounded
<1> QED BY <1>1, Inductive, PTL

(***************************************************************************)
(* Every whole ft_state.json has all the timeouts any earlier one had      *)
(* (TimeoutsKept), though writing one starts by emptying the file: a torn  *)
(* one stops every later run in its setup, so what is learned next is      *)
(* learned on top of what the last whole one said.                         *)
(***************************************************************************)
THEOREM TimeoutsAlwaysKept == Spec => []TimeoutsKept
<1>1. IInv => TimeoutsKept BY DEF IInv, Kept, TimeoutsKept
<1> QED BY <1>1, Inductive, PTL

=============================================================================
