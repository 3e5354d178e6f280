----------------------- MODULE WeightConversionProofs -----------------------
(***************************************************************************)
(* What every rank does in a conversion, written down before it runs: the  *)
(* same names in the same order, and at each of them the same collectives  *)
(* as all ranks it makes them with.  Ranks that follow such a program      *)
(* cannot wait for one another in a circle, since a rank that is furthest  *)
(* behind has nobody to wait for.  And the layouts of the mapping classes  *)
(* undo one another: joining the shards of a parameter gives the tensors   *)
(* they were cut from, for every shape that divides.                       *)
(***************************************************************************)
EXTENDS WeightConversion, CountingLemmas

\* Tasks that have been imported with are not exported with: a reused list is
\* exported again.
ExportsAfterExports ==
    \A j \in Jobs : \A k \in DOMAIN j.plan :
        ~j.plan[k].fresh /\ j.plan[k].dir = "export" => j.plan[k - 1].dir = "export"

-----------------------------------------------------------------------------
(* The program of a rank.                                                  *)

TaskList(r) == Sorted(Names(r))
Size        == Cardinality(Names(0))

\* What the mappings cache while a parameter is exported, over pipeline stages.
Asked(n) ==
    {"spec"} \cup (IF Par(n).kind \in Direct \cup {"qkv", "concat", "kv", "gdn"} THEN {"type"} ELSE {})
             \cup (IF Par(n).kind \in {"qkv", "concat", "kv"} THEN {"config"} ELSE {})
             \cup (IF Par(n).expert # "no" /\ Par(n).kind \in Direct \cup {"gated"} THEN {"experts"} ELSE {})

\* The call after which it is cached.
Answer(what) == IF what = "spec" THEN Call("pp", "spec", "") ELSE Call("pp", "object", what)

\* ExportCalls of a mapping that has cached all of Asked, or none of it.
Inquiry(what, kept) ==
    IF job.pp = 1 \/ (kept /\ what \in Cached) THEN <<>>
    ELSE <<Call("pp", "flags", what), Call("pp", "object", what)>>

Broadcast(kept) ==
    IF job.pp = 1 THEN <<>>
    ELSE (IF kept THEN <<>> ELSE <<Call("pp", "spec", "")>>) \o <<Call("pp", "tensor", "")>>

ExpertCalls(n, kept) ==
    IF Par(n).expert = "no" THEN <<>>
    ELSE Inquiry("experts", kept)
         \o (IF Par(n).expert = "sequential" THEN <<>>
             ELSE IF Par(n).kind = "gated"
             THEN <<Call("ep", "expert", "gate"), Call("ep", "expert", "up")>>
             ELSE <<Call("ep", "expert", "weight")>>)

Exporting(n, kept) ==
    LET kind == Par(n).kind
    IN IF job.pp = 1 /\ n.i \in job.missing THEN <<>>
       ELSE CASE kind \in Direct -> Inquiry("type", kept) \o Broadcast(kept) \o Gather(n) \o ExpertCalls(n, kept)
            [] kind \in {"qkv", "concat", "kv"} ->
                   Inquiry("config", kept) \o Inquiry("type", kept) \o Broadcast(kept) \o Gather(n)
            [] kind = "gdn"     -> Inquiry("layout", kept) \o Inquiry("type", kept) \o Broadcast(kept) \o Gather(n)
            [] kind = "gated"   -> Broadcast(kept) \o Gather(n) \o ExpertCalls(n, kept)
            [] OTHER            -> Broadcast(kept) \o Inquiry("layout", kept) \o Gather(n)

Kept(p) == ~job.plan[p].fresh

\* The calls of rank r at task a of the p-th call of the bridge: 0 is the
\* building of the list, Size + 1 the end of the loop.
Program(r, p, a) ==
    IF a = 0 THEN Opening(p)
    ELSE IF job.plan[p].dir = "import"
         THEN IF a \in 1 .. Size THEN ImportCalls(r, TaskList(r)[a]) ELSE ClosingCalls(r)
         ELSE IF a \in 1 .. Size THEN Exporting(TaskList(r)[a], Kept(p)) ELSE <<>>

\* The call with y to go, itself included.
FromEnd(s, y) == s[Len(s) - y + 1]

\* Rank m has yet to make the call with y to go at task a of call p.
Left(m, p, a, y) ==
    \/ phase[m] < p
    \/ phase[m] = p /\ (at[m] < a \/ (at[m] = a /\ y <= Len(todo[m])))

-----------------------------------------------------------------------------
(* The invariant.                                                          *)

Shapes ==
    /\ job \in Jobs
    /\ phase  = [r \in Ranks |-> phase[r]]
    /\ tasks  = [r \in Ranks |-> tasks[r]]
    /\ at     = [r \in Ranks |-> at[r]]
    /\ todo   = [r \in Ranks |-> todo[r]]
    /\ known  = [r \in Ranks |-> known[r]]
    /\ mine   = [r \in Ranks |-> mine[r]]
    /\ head   = [r \in Ranks |-> head[r]]
    /\ work   = [r \in Ranks |-> work[r]]
    /\ out    = [r \in Ranks |-> out[r]]
    /\ status = [r \in Ranks |-> status[r]]
    /\ \A r \in Ranks : /\ phase[r] \in DOMAIN job.plan /\ at[r] \in 0 .. Size + 1
                        /\ status[r] \in {"running", "raised", "done"}

\* A rank makes the calls of its program, from its last ones on when it has few left.
Follows ==
    \A r \in Ranks :
        /\ Len(todo[r]) \in 0 .. Len(Program(r, phase[r], at[r]))
        /\ todo[r] \in Seq(Range(Program(r, phase[r], at[r])))
        /\ \A y \in 1 .. Len(todo[r]) : FromEnd(todo[r], y) = FromEnd(Program(r, phase[r], at[r]), y)

\* The list is there once the names have been gathered.
Listing ==
    \A r \in Ranks :
        \/ tasks[r] = TaskList(r)
        \/ tasks[r] = <<>> /\ phase[r] = 1 /\ at[r] = 0 /\ todo[r] = Opening(1)

\* A call has been made by all of its group, or by none.
InStep ==
    \A r, m \in Ranks : \A p \in DOMAIN job.plan : \A a \in 0 .. Size + 1 :
        \A y \in 1 .. Len(Program(r, p, a)) :
            m \in Members(r, FromEnd(Program(r, p, a), y).group) => (Left(r, p, a, y) <=> Left(m, p, a, y))

\* Over pipeline stages an export has cached what it asked for, and no more.
\* Here and below, rank r is at task a of call p with the collectives t left,
\* k cached, w gathered and status s.
CachesAt(r, p, a, t, k) ==
    /\ \A n \in Names(r) : <<n, "layout">> \notin k
    /\ job.pp > 1 /\ job.plan[p].dir = "export" =>
          \A x \in 1 .. Size : \A what \in Asked(TaskList(r)[x]) :
              /\ Kept(p) \/ x < a => <<TaskList(r)[x], what>> \in k
              /\ ~Kept(p) /\ x = a => <<TaskList(r)[x], what>> \in k \/ Answer(what) \in Range(t)
              /\ ~Kept(p) /\ x > a => <<TaskList(r)[x], what>> \notin k

Caching == \A r \in Ranks : CachesAt(r, phase[r], at[r], todo[r], known[r])

IsSurvey(c) == c.op \in {"flags", "spec"}
TensorCall  == Call("pp", "tensor", "")

\* A tensor nobody has is noticed over pipeline stages by the first call.
NoticesAt(r, p, a, t, k, s) ==
    s # "raised" =>
        /\ \A n \in Names(r) : \A what \in Cached \cup {"spec"} :
              job.pp > 1 /\ <<n, what>> \in k => n.i \notin job.missing
        /\ job.pp > 1 /\ job.plan[p].dir = "export" /\ a \in 1 .. Size /\ TaskList(r)[a].i \in job.missing =>
              t # <<>> /\ IsSurvey(Head(t))

Noticed == \A r \in Ranks : NoticesAt(r, phase[r], at[r], todo[r], known[r], status[r])

\* A rank in an export has the shard its stage owns, or the broadcast before it.
WorksAt(r, p, a, t, w) ==
    /\ a \notin 1 .. Size \/ job.plan[p].dir # "export" => w = <<>>
    /\ job.plan[p].dir = "export" /\ a \in 1 .. Size =>
          LET n == TaskList(r)[a]
          IN IF n.i \in job.missing THEN w = <<>>
             ELSE /\ Owns(r, n) => w # <<>>
                  /\ w # <<>> \/ TensorCall \in Range(t)

Working == \A r \in Ranks : WorksAt(r, phase[r], at[r], todo[r], work[r])

\* A rank at task a of call p has begun, or left, task x of a call in direction dir.
Begun(p, a, x, dir) == \/ \E q \in DOMAIN job.plan : q < p /\ job.plan[q].dir = dir
                       \/ job.plan[p].dir = dir /\ x <= a
Gone(p, a, x, dir)  == \/ \E q \in DOMAIN job.plan : q < p /\ job.plan[q].dir = dir
                       \/ job.plan[p].dir = dir /\ x < a

\* What a rank that has not raised an exception has passed could be converted.
PassesAt(r, p, a, t, s) ==
    /\ s = "raised" => ~Convertible
    /\ s # "raised" => \A x \in 1 .. Size :
          LET n == TaskList(r)[x]
          IN /\ Begun(p, a, x, "import") => ~(Owns(r, n) /\ Uneven(n) /\ TpRank(r, n) = 0)
             /\ Gone(p, a, x, "export") =>
                    /\ Par(n).expert # "sequential"
                    /\ n.i \in job.missing => job.pp = 1 /\ Par(n).kind \in {"gated", "chunked"}
    /\ s = "done" => p = Len(job.plan) /\ a = Size + 1 /\ t = <<>>

Passed == \A r \in Ranks : PassesAt(r, phase[r], at[r], todo[r], status[r])

IInv == Shapes /\ Follows /\ Listing /\ InStep /\ Caching /\ Noticed /\ Working /\ Passed

-----------------------------------------------------------------------------
(* The grid.                                                               *)

\* What is known of a conversion.
JobFacts ==
    /\ job.pp \in Nat \ {0} /\ job.tp \in Nat \ {0} /\ job.ep \in Nat \ {0} /\ job.etp \in Nat \ {0}
    /\ job.stageSize \in Nat \ {0} /\ job.stageSize % job.tp = 0 /\ job.stageSize % (job.ep * job.etp) = 0
    /\ job.experts \in Nat /\ PerRank \in Nat /\ job.experts = PerRank * job.ep
    /\ job.params \in Seq(Param) /\ job.tied \in BOOLEAN
    /\ \A i \in DOMAIN job.params : job.params[i] \in Param /\ job.params[i].stage < job.pp
    /\ \A i \in DOMAIN job.params : job.params[i].expert # "no" => PerRank > 0
    /\ \A i, k \in DOMAIN job.params :
          job.params[i].layer = job.params[k].layer /\ job.params[i].part = job.params[k].part => i = k
    /\ Listed # {} /\ Listed \subseteq DOMAIN job.params
    /\ job.missing \subseteq DOMAIN job.params
    /\ job.plan \in Seq([dir : {"import", "export"}, fresh : BOOLEAN]) /\ job.plan # <<>>
    /\ 1 \in DOMAIN job.plan /\ job.plan[1].fresh

LEMMA JobsAreSuch == ASSUME job \in Jobs PROVE JobFacts
<1> DEFINE j == job
<1>1. /\ {j.pp, j.tp, j.ep, j.etp, j.stageSize} \subseteq Nat \ {0}
      /\ j.stageSize % j.tp = 0 /\ j.stageSize % (j.ep * j.etp) = 0
      /\ j.experts \in Nat /\ j.experts % j.ep = 0
      /\ j.params \in Seq(Param) /\ j.tied \in BOOLEAN
      /\ \A i \in DOMAIN j.params :
            j.params[i].stage < j.pp /\ (j.params[i].expert # "no" => j.experts > 0)
      /\ \A i, k \in DOMAIN j.params :
            j.params[i].layer = j.params[k].layer /\ j.params[i].part = j.params[k].part => i = k
      /\ \E i \in DOMAIN j.params : j.tied => j.params[i].role # "output"
      /\ j.missing \subseteq DOMAIN j.params
      /\ j.plan \in Seq([dir : {"import", "export"}, fresh : BOOLEAN])
      /\ j.plan # <<>> /\ j.plan[1].fresh
      BY JobAssumption
<1>2. PerRank \in Nat /\ job.experts = PerRank * job.ep BY <1>1, MultipleOf, DivMod DEF PerRank
<1>3. \A i \in DOMAIN job.params : job.params[i] \in Param BY <1>1
<1>4. job.experts > 0 => PerRank > 0
  <2>1. PICK a : a = PerRank OBVIOUS
  <2>2. a = 0 => a * job.ep = 0 BY <1>1
  <2> QED BY <1>1, <1>2, <2>1, <2>2
<1>5. Listed # {} /\ Listed \subseteq DOMAIN job.params BY <1>1 DEF Listed
<1>6. 1 \in DOMAIN job.plan BY <1>1
<1> HIDE DEF j
<1> QED BY <1>1, <1>2, <1>3, <1>4, <1>5, <1>6 DEF JobFacts, j

LEMMA OneStageOrMore == ASSUME JobFacts PROVE job.pp = 1 \/ job.pp > 1
<1> PICK p \in Nat \ {0} : p = job.pp BY DEF JobFacts
<1>1. p = 1 \/ p > 1 BY ONLY p \in Nat \ {0}
<1> QED BY <1>1

LEMMA PlanIsSequence ==
    ASSUME JobFacts PROVE DOMAIN job.plan = 1 .. Len(job.plan) /\ Len(job.plan) \in Nat
BY DEF JobFacts

LEMMA RankParts ==
    ASSUME JobFacts, NEW r \in Ranks
    PROVE  /\ r \in Nat /\ Slot(r) \in 0 .. job.stageSize - 1 /\ Stage(r) \in 0 .. job.pp - 1
           /\ r = Stage(r) * job.stageSize + Slot(r) /\ Ep(r) \in 0 .. job.ep - 1
<1> PICK s \in Nat \ {0} : s = job.stageSize BY DEF JobFacts
<1> PICK p \in Nat \ {0} : p = job.pp BY DEF JobFacts
<1>1. r \in Nat /\ r < p * s BY DEF Ranks, JobFacts
<1>2. PICK q : q = r \div s OBVIOUS
<1>3. PICK l : l = r % s OBVIOUS
<1>4. q \in Nat /\ l \in 0 .. s - 1 /\ r = q * s + l BY <1>1, <1>2, <1>3, DivMod
<1>5. q < p
  <2> SUFFICES ASSUME q >= p PROVE FALSE BY <1>4
  <2>1. q * s >= p * s BY <1>4
  <2>2. q * s \in Nat /\ p * s \in Nat BY <1>4
  <2> QED BY <1>1, <1>4, <2>1, <2>2
<1>6. Slot(r) = l /\ Stage(r) = q BY <1>2, <1>3 DEF Slot, Stage
<1>7. Ep(r) \in 0 .. job.ep - 1
  <2>1. PICK a \in Nat \ {0} : a = job.etp BY DEF JobFacts
  <2>2. PICK b \in Nat \ {0} : b = job.ep BY DEF JobFacts
  <2>3. l \div a \in Nat BY ONLY <1>4, <2>1, DivMod, a \in Nat \ {0}
  <2>4. (l \div a) % b \in 0 .. b - 1 BY ONLY <2>2, <2>3, DivMod, b \in Nat \ {0}
  <2> QED BY <1>6, <2>1, <2>2, <2>4 DEF Ep
<1> QED BY <1>1, <1>4, <1>5, <1>6, <1>7

\* Every place of the grid is a rank.
LEMMA RankAt ==
    ASSUME JobFacts, NEW s \in 0 .. job.pp - 1, NEW l \in 0 .. job.stageSize - 1
    PROVE  \E r \in Ranks : Stage(r) = s /\ Slot(r) = l
<1> PICK z \in Nat \ {0} : z = job.stageSize BY DEF JobFacts
<1> PICK p \in Nat \ {0} : p = job.pp BY DEF JobFacts
<1> DEFINE r == s * z + l
<1>1. s \in Nat /\ s + 1 <= p /\ l \in 0 .. z - 1 OBVIOUS
<1>2. r \in Nat
  <2>1. s * z \in Nat BY <1>1
  <2> QED BY <1>1, <2>1
<1>3. r < p * z
  <2>1. (s + 1) * z <= p * z BY <1>1
  <2>2. (s + 1) * z = s * z + z BY <1>1
  <2>3. s * z \in Nat /\ p * z \in Nat BY <1>1
  <2> QED BY <1>1, <2>1, <2>2, <2>3
<1>4. r \div z = s /\ r % z = l BY <1>1, DivUnique
<1>5. r \in Ranks
  <2>1. p * z \in Nat OBVIOUS
  <2> HIDE DEF r
  <2> QED BY <1>2, <1>3, <2>1 DEF Ranks
<1>6. Stage(r) = s /\ Slot(r) = l BY <1>4 DEF Stage, Slot
<1> QED BY <1>5, <1>6

\* Ranks of one group.
LEMMA OneGroup ==
    ASSUME NEW r \in Ranks, NEW g \in {"pp", "tp", "etp", "ep", "embd"}, NEW m \in Members(r, g)
    PROVE  /\ m \in Ranks
           /\ g \in {"pp", "embd"} => Slot(m) = Slot(r)
           /\ g \in {"tp", "etp", "ep"} => Stage(m) = Stage(r)
           /\ g = "etp" => Ep(m) = Ep(r)
           /\ g = "embd" => Stage(m) \in {0, job.pp - 1}
           /\ r \in Members(r, g) => Members(m, g) = Members(r, g)
BY DEF Members, Ep

LEMMA InOwnGroup ==
    ASSUME NEW r \in Ranks, NEW g \in {"pp", "tp", "etp", "ep"}
    PROVE  r \in Members(r, g) /\ (Stage(r) \in {0, job.pp - 1} => r \in Members(r, "embd"))
BY DEF Members

-----------------------------------------------------------------------------
(* The order of the names.                                                 *)

LEMMA NamesAre ==
    ASSUME JobFacts, NEW r \in Ranks
    PROVE  /\ \A n : n \in Names(r) <=> \E i \in Listed : \E g \in Numbers(job.params[i], r) : n = [i |-> i, g |-> g]
           /\ \A n \in Names(r) : /\ n.i \in Listed /\ n.i \in DOMAIN job.params /\ Par(n) \in Param
                                  /\ n.g \in Numbers(Par(n), r) /\ n = [i |-> n.i, g |-> n.g]
                                  /\ n.g \in Int /\ Par(n).layer \in Int /\ Par(n).part \in Nat
                                  /\ Par(n).stage \in 0 .. job.pp - 1
           /\ IsFiniteSet(Names(r)) /\ Names(r) # {} /\ \A i \in Listed : Numbers(job.params[i], r) # {}
<1>1. \A n : n \in Names(r) <=> \E i \in Listed : \E g \in Numbers(job.params[i], r) : n = [i |-> i, g |-> g]
      BY DEF Names
<1>2. \A i \in Listed : i \in DOMAIN job.params /\ job.params[i] \in Param /\ job.params[i].stage < job.pp
      BY DEF JobFacts
<1>3. ASSUME NEW i \in Listed
      PROVE  /\ Numbers(job.params[i], r) \subseteq Int /\ IsFiniteSet(Numbers(job.params[i], r))
             /\ Numbers(job.params[i], r) # {}
  <2>1. job.params[i].expert \in {"no", "grouped", "sequential"} BY <1>2 DEF Param
  <2>2. PICK e \in Nat : e = PerRank BY DEF JobFacts
  <2>3. PICK a \in Int : a = Ep(r) * e BY <2>2, RankParts
  <2>4. CASE job.params[i].expert = "no"
    <3>1. Numbers(job.params[i], r) = {None} BY <2>4 DEF Numbers
    <3>2. IsFiniteSet({None}) BY FS_Singleton
    <3>3. None \in Int BY DEF None
    <3>4. {None} \subseteq Int /\ {None} # {} BY <3>3
    <3> QED BY ONLY <3>1, <3>2, <3>4
  <2>5. job.params[i].expert # "no" => e > 0 BY <1>2, <2>2 DEF JobFacts
  <2>6. CASE job.params[i].expert = "grouped"
    <3>1. Numbers(job.params[i], r) = {a + l : l \in 0 .. e - 1} BY <2>2, <2>3, <2>6 DEF Numbers
    <3>2. {a + l : l \in 0 .. e - 1} = a .. a + e - 1
      <4>1. ASSUME NEW x \in a .. a + e - 1 PROVE x \in {a + l : l \in 0 .. e - 1}
        <5>1. x - a \in 0 .. e - 1 /\ x = a + (x - a) OBVIOUS
        <5> QED BY ONLY <5>1
      <4> QED BY <4>1
    <3>3. IsFiniteSet(a .. a + e - 1) BY FS_Interval
    <3>4. a \in a .. a + e - 1 BY <2>5, <2>6
    <3>5. a .. a + e - 1 \subseteq Int /\ a .. a + e - 1 # {} BY <3>4
    <3> QED BY ONLY <3>1, <3>2, <3>3, <3>5
  <2>7. CASE job.params[i].expert = "sequential"
    <3>1. Numbers(job.params[i], r) = 0 .. e - 1 BY <2>2, <2>7 DEF Numbers
    <3>2. IsFiniteSet(0 .. e - 1) BY FS_Interval
    <3>3. 0 \in 0 .. e - 1 BY <2>5, <2>7
    <3>4. 0 .. e - 1 \subseteq Int /\ 0 .. e - 1 # {} BY <3>3
    <3> QED BY ONLY <3>1, <3>2, <3>4
  <2> QED BY <2>1, <2>4, <2>6, <2>7
<1>4. ASSUME NEW n \in Names(r)
      PROVE  /\ n.i \in Listed /\ n.i \in DOMAIN job.params /\ Par(n) \in Param
             /\ n.g \in Numbers(Par(n), r) /\ n = [i |-> n.i, g |-> n.g]
             /\ n.g \in Int /\ Par(n).layer \in Int /\ Par(n).part \in Nat
             /\ Par(n).stage \in 0 .. job.pp - 1
  <2>1. PICK i \in Listed : \E g \in Numbers(job.params[i], r) : n = [i |-> i, g |-> g] BY <1>1
  <2>2. PICK g \in Numbers(job.params[i], r) : n = [i |-> i, g |-> g] BY <2>1
  <2>3. n.i = i /\ n.g = g /\ Par(n) = job.params[i] BY <2>2 DEF Par
  <2>4. g \in Int BY <1>3
  <2>5. job.params[i].layer \in Int /\ job.params[i].part \in Nat /\ job.params[i].stage \in Nat BY <1>2 DEF Param
  <2>6. job.params[i].stage \in 0 .. job.pp - 1
    <3>1. PICK p \in Nat \ {0} : p = job.pp BY DEF JobFacts
    <3>2. PICK s \in Nat : s = job.params[i].stage BY <2>5
    <3>3. s < p BY <1>2, <3>1, <3>2
    <3>4. s \in 0 .. p - 1 BY ONLY <3>3, p \in Nat \ {0}, s \in Nat
    <3> QED BY <3>1, <3>2, <3>4
  <2> QED BY <1>2, <2>2, <2>3, <2>4, <2>5, <2>6
<1>5. IsFiniteSet(Names(r)) /\ Names(r) # {}
  <2> DEFINE F(i) == {[i |-> i, g |-> g] : g \in Numbers(job.params[i], r)}
  <2>1. IsFiniteSet(Listed)
    <3>1. DOMAIN job.params = 1 .. Len(job.params) /\ Len(job.params) \in Nat BY DEF JobFacts
    <3>2. IsFiniteSet(1 .. Len(job.params)) BY <3>1, FS_Interval
    <3> QED BY <1>2, <3>1, <3>2, FS_Subset
  <2>2. \A i \in Listed : IsFiniteSet(F(i))
    <3> SUFFICES ASSUME NEW i \in Listed PROVE IsFiniteSet(F(i)) OBVIOUS
    <3> DEFINE S == Numbers(job.params[i], r)
               f == [g \in S |-> [i |-> i, g |-> g]]
    <3>1. f \in Surjection(S, F(i)) BY DEF Surjection
    <3>2. IsFiniteSet(S) BY <1>3
    <3> HIDE DEF f, S, F
    <3> QED BY <3>1, <3>2, FS_Surjection
  <2> DEFINE f == [i \in Listed |-> F(i)]
             U == {F(i) : i \in Listed}
  <2>3. f \in Surjection(Listed, U) BY DEF Surjection
  <2>4. \A T \in U : IsFiniteSet(T) BY <2>2
  <2>5. IsFiniteSet(U)
    <3> HIDE DEF f, U, F
    <3> QED BY <2>1, <2>3, FS_Surjection
  <2>6. Names(r) = UNION U BY DEF Names
  <2>7. IsFiniteSet(UNION U)
    <3> HIDE DEF f, U, F
    <3> QED BY <2>4, <2>5, FS_UNION
  <2>8. Names(r) # {}
    <3>1. PICK i : i \in Listed BY DEF JobFacts
    <3>2. PICK g : g \in Numbers(job.params[i], r) BY <1>3, <3>1
    <3> QED BY <1>1, <3>1, <3>2
  <2> QED BY <2>6, <2>7, <2>8
<1>6. \A i \in Listed : Numbers(job.params[i], r) # {} BY <1>3
<1> QED BY <1>1, <1>4, <1>5, <1>6

IsSequential(n) == Par(n).expert = "sequential"
Global(n)       == IF IsSequential(n) THEN None ELSE n.g

\* Layer, expert number and name, in this order.
LEMMA BeforeMeans ==
    ASSUME NEW m, NEW n, Par(m).layer \in Int, Par(n).layer \in Int, Par(m).part \in Nat, Par(n).part \in Nat,
           m.g \in Int, n.g \in Int
    PROVE  Before(m, n) <=>
               \/ Par(m).layer < Par(n).layer
               \/ Par(m).layer = Par(n).layer /\
                    \/ Global(m) < Global(n)
                    \/ Global(m) = Global(n) /\
                         \/ Par(m).part < Par(n).part
                         \/ Par(m).part = Par(n).part /\ IsSequential(m) /\ IsSequential(n) /\ m.g < n.g
<1> DEFINE a == SortKey(m)
           b == SortKey(n)
<1>1. /\ a = IF IsSequential(m) THEN <<Par(m).layer, None, Par(m).part, m.g>> ELSE <<Par(m).layer, m.g, Par(m).part>>
      /\ b = IF IsSequential(n) THEN <<Par(n).layer, None, Par(n).part, n.g>> ELSE <<Par(n).layer, n.g, Par(n).part>>
      BY DEF SortKey, IsSequential
<1>2. a[1] = Par(m).layer /\ a[2] = Global(m) /\ a[3] = Par(m).part BY <1>1 DEF Global
<1>3. b[1] = Par(n).layer /\ b[2] = Global(n) /\ b[3] = Par(n).part BY <1>1 DEF Global
<1>4. Len(a) = (IF IsSequential(m) THEN 4 ELSE 3) /\ Len(b) = (IF IsSequential(n) THEN 4 ELSE 3) BY <1>1
<1>5. (IsSequential(m) => a[4] = m.g) /\ (IsSequential(n) => b[4] = n.g) BY <1>1
<1>6. Before(m, n) <=> \E i \in 1 .. Len(a) : i <= Len(b) /\ a[i] < b[i] /\ \A j \in 1 .. i - 1 : a[j] = b[j]
      BY DEF Before
<1> HIDE DEF a, b
<1>7. \A i : i \in 1 .. Len(a) /\ i <= Len(b) <=> i \in {1, 2, 3} \/ (i = 4 /\ IsSequential(m) /\ IsSequential(n))
      BY <1>4
<1>8. 1 .. 1 - 1 = {} /\ 1 .. 2 - 1 = {1} /\ 1 .. 3 - 1 = {1, 2} /\ 1 .. 4 - 1 = {1, 2, 3} OBVIOUS
<1>9. Before(m, n) <=>
        \/ a[1] < b[1]
        \/ a[2] < b[2] /\ a[1] = b[1]
        \/ a[3] < b[3] /\ a[1] = b[1] /\ a[2] = b[2]
        \/ a[4] < b[4] /\ IsSequential(m) /\ IsSequential(n) /\ a[1] = b[1] /\ a[2] = b[2] /\ a[3] = b[3]
  <2> DEFINE At(i) == a[i] < b[i] /\ \A j \in 1 .. i - 1 : a[j] = b[j]
  <2>1. Before(m, n) <=> \E i \in 1 .. Len(a) : i <= Len(b) /\ At(i) BY <1>6
  <2>2. /\ At(1) <=> a[1] < b[1]
        /\ At(2) <=> a[2] < b[2] /\ a[1] = b[1]
        /\ At(3) <=> a[3] < b[3] /\ a[1] = b[1] /\ a[2] = b[2]
        /\ At(4) <=> a[4] < b[4] /\ a[1] = b[1] /\ a[2] = b[2] /\ a[3] = b[3]
        BY ONLY <1>8
  <2> HIDE DEF At
  <2>3. Before(m, n) <=> At(1) \/ At(2) \/ At(3) \/ (At(4) /\ IsSequential(m) /\ IsSequential(n))
        BY ONLY <1>7, <2>1
  <2> QED BY ONLY <2>2, <2>3
<1>10. Global(m) \in Int /\ Global(n) \in Int BY DEF Global, None
<1>11. IsSequential(m) /\ IsSequential(n) => (a[4] < b[4] <=> m.g < n.g) BY <1>5
<1> QED BY <1>2, <1>3, <1>9, <1>11

\* Before, as a set of pairs.
BeforeOn(W) == {mn \in W \X W : Before(mn[1], mn[2])}

LEMMA NamesOrdered ==
    ASSUME JobFacts, NEW r \in Ranks
    PROVE  Ordering(Names(r), BeforeOn(Names(r)))
<1> DEFINE W == Names(r)
           R == BeforeOn(W)
           First(m, n) == \/ Par(m).layer < Par(n).layer
                          \/ Par(m).layer = Par(n).layer /\
                               \/ Global(m) < Global(n)
                               \/ Global(m) = Global(n) /\
                                    \/ Par(m).part < Par(n).part
                                    \/ Par(m).part = Par(n).part /\ IsSequential(m) /\ IsSequential(n) /\ m.g < n.g
<1>1. \A n \in W : /\ Par(n).layer \in Int /\ Global(n) \in Int /\ Par(n).part \in Int /\ n.g \in Int
                   /\ n = [i |-> n.i, g |-> n.g] /\ n.i \in DOMAIN job.params
  <2>1. None \in Int BY DEF None
  <2> QED BY NamesAre, <2>1 DEF Global
<1>2. \A m, n \in W : <<m, n>> \in R <=> First(m, n)
  <2> SUFFICES ASSUME NEW m \in W, NEW n \in W PROVE <<m, n>> \in R <=> First(m, n) OBVIOUS
  <2>1. <<m, n>> \in R <=> Before(m, n) BY DEF BeforeOn
  <2>2. Par(m).part \in Nat /\ Par(n).part \in Nat BY NamesAre
  <2>3. Before(m, n) <=> First(m, n) BY <1>1, <2>2, BeforeMeans
  <2> QED BY <2>1, <2>3
<1>3. \A n \in W : ~First(n, n) BY <1>1
<1>4. \A l, m, n \in W : First(l, m) /\ First(m, n) => First(l, n)
  <2> SUFFICES ASSUME NEW l \in W, NEW m \in W, NEW n \in W, First(l, m), First(m, n) PROVE First(l, n) OBVIOUS
  <2>1. PICK a \in Int : a = Par(l).layer BY <1>1
  <2>2. PICK b \in Int : b = Par(m).layer BY <1>1
  <2>3. PICK c \in Int : c = Par(n).layer BY <1>1
  <2> QED BY <1>1, <2>1, <2>2, <2>3
<1>5. \A m, n \in W : m = n \/ First(m, n) \/ First(n, m)
  <2> SUFFICES ASSUME NEW m \in W, NEW n \in W, ~First(m, n), ~First(n, m) PROVE m = n OBVIOUS
  <2>1. Par(m).layer = Par(n).layer BY <1>1
  <2>2. Global(m) = Global(n) BY <1>1, <2>1
  <2>3. Par(m).part = Par(n).part BY <1>1, <2>1, <2>2
  <2>4. m.i = n.i BY <1>1, <2>1, <2>3 DEF JobFacts, Par
  <2>5. IsSequential(m) <=> IsSequential(n) BY <2>4 DEF IsSequential, Par
  <2>6. m.g = n.g
    <3>1. CASE IsSequential(m) BY <1>1, <2>1, <2>2, <2>3, <2>5, <3>1
    <3>2. CASE ~IsSequential(m) BY <2>2, <2>5, <3>2 DEF Global
    <3> QED BY <3>1, <3>2
  <2> QED BY <1>1, <2>4, <2>6
<1>6. IsFiniteSet(W) BY NamesAre
<1> HIDE DEF First, R, W
<1>7. Ordering(W, R) BY <1>2, <1>3, <1>4, <1>5, <1>6 DEF Ordering
<1> QED BY <1>7 DEF R, W

\* A sorted list has every name once, each at its place.
LEMMA SortedFacts ==
    ASSUME NEW W, Ordering(W, BeforeOn(W))
    PROVE  /\ Cardinality(W) \in Nat /\ Sorted(W) \in Seq(W) /\ Len(Sorted(W)) = Cardinality(W)
           /\ \A k \in 1 .. Cardinality(W) :
                 Sorted(W)[k] \in W /\ CountBefore(W, BeforeOn(W), Sorted(W)[k]) = k - 1
           /\ \A n \in W : \E k \in 1 .. Cardinality(W) : Sorted(W)[k] = n
<1> DEFINE R == BeforeOn(W)
<1>1. PICK N \in Nat : N = Cardinality(W) BY PlacesInOrder
<1>2. \A n \in W : Cardinality({m \in W : Before(m, n)}) = CountBefore(W, R, n)
  <2> SUFFICES ASSUME NEW n \in W PROVE Cardinality({m \in W : Before(m, n)}) = CountBefore(W, R, n) OBVIOUS
  <2>1. {m \in W : Before(m, n)} = Earlier(W, R, n) BY DEF Earlier, BeforeOn
  <2> QED BY <2>1 DEF CountBefore
<1>3. Sorted(W) = [k \in 1 .. N |-> CHOOSE n \in W : Cardinality({m \in W : Before(m, n)}) = k - 1]
      BY <1>1 DEF Sorted
<1>4. ASSUME NEW k \in 1 .. N PROVE Sorted(W)[k] \in W /\ CountBefore(W, R, Sorted(W)[k]) = k - 1
  <2>1. k - 1 \in 0 .. N - 1 OBVIOUS
  <2>2. \E n \in W : CountBefore(W, R, n) = k - 1 BY <1>1, <2>1, PlacesInOrder
  <2>3. \E n \in W : Cardinality({m \in W : Before(m, n)}) = k - 1 BY <1>2, <2>2
  <2>4. Sorted(W)[k] = CHOOSE n \in W : Cardinality({m \in W : Before(m, n)}) = k - 1 BY <1>3
  <2>5. Sorted(W)[k] \in W /\ Cardinality({m \in W : Before(m, Sorted(W)[k])}) = k - 1 BY <2>3, <2>4
  <2> QED BY <1>2, <2>5
<1>5. Sorted(W) \in [1 .. N -> W]
  <2>1. DOMAIN Sorted(W) = 1 .. N /\ Sorted(W) = [k \in 1 .. N |-> Sorted(W)[k]] BY <1>3
  <2> QED BY <1>4, <2>1
<1>6. ASSUME NEW n \in W PROVE \E k \in 1 .. N : Sorted(W)[k] = n
  <2>1. CountBefore(W, R, n) \in 0 .. N - 1 BY <1>1, PlacesInOrder
  <2>2. PICK k \in 1 .. N : k - 1 = CountBefore(W, R, n)
    <3>1. PICK c \in 0 .. N - 1 : c = CountBefore(W, R, n) BY <2>1
    <3>2. c + 1 \in 1 .. N /\ c + 1 - 1 = c BY <1>1
    <3> QED BY <3>1, <3>2
  <2>3. CountBefore(W, R, Sorted(W)[k]) = CountBefore(W, R, n) /\ Sorted(W)[k] \in W BY <1>4, <2>2
  <2>4. Sorted(W)[k] = n BY <2>3, PlacesInOrder
  <2> QED BY <2>4
<1> HIDE DEF R
<1> QED BY <1>1, <1>4, <1>5, <1>6 DEF R

-----------------------------------------------------------------------------
(* The same parameters in the same order everywhere.                       *)

\* A name of rank r, for the experts of rank m.
Shifted(r, m, n) ==
    [i |-> n.i, g |-> IF Par(n).expert = "grouped" THEN n.g + (Ep(m) - Ep(r)) * PerRank ELSE n.g]

LEMMA ShiftedNames ==
    ASSUME JobFacts, NEW r \in Ranks, NEW m \in Ranks, NEW n \in Names(r)
    PROVE  Shifted(r, m, n) \in Names(m) /\ Shifted(m, r, Shifted(r, m, n)) = n
<1>1. PICK e \in Nat : e = PerRank BY DEF JobFacts
<1>2. PICK x \in Nat : x = Ep(r) BY RankParts
<1>3. PICK y \in Nat : y = Ep(m) BY RankParts
<1>4. PICK d \in Int : d = (y - x) * e BY <1>1, <1>2, <1>3
<1>5. (x - y) * e = - d /\ y * e = x * e + d /\ x * e \in Int BY <1>1, <1>2, <1>3, <1>4
<1>6. /\ n.i \in Listed /\ n.g \in Numbers(job.params[n.i], r) /\ n = [i |-> n.i, g |-> n.g] /\ n.g \in Int
      /\ job.params[n.i].expert \in {"no", "grouped", "sequential"}
      BY NamesAre DEF Par, Param
<1>7. CASE job.params[n.i].expert = "grouped"
  <2>1. PICK l \in 0 .. e - 1 : n.g = x * e + l BY <1>1, <1>2, <1>6, <1>7 DEF Numbers
  <2>2. n.g + d = y * e + l BY <1>5, <1>6, <2>1
  <2>3. Shifted(r, m, n) = [i |-> n.i, g |-> n.g + d] BY <1>1, <1>2, <1>3, <1>4, <1>7 DEF Shifted, Par
  <2>4. n.g + d \in Numbers(job.params[n.i], m) BY <1>1, <1>3, <1>7, <2>2 DEF Numbers
  <2>5. Shifted(r, m, n) \in Names(m) BY <1>6, <2>3, <2>4, NamesAre
  <2>6. PICK s : s = Shifted(r, m, n) OBVIOUS
  <2>7. s.i = n.i /\ s.g = n.g + d BY <2>3, <2>6
  <2>8. Shifted(m, r, s) = [i |-> n.i, g |-> (n.g + d) + (- d)]
        BY <1>1, <1>2, <1>3, <1>5, <1>7, <2>7 DEF Shifted, Par
  <2>9. (n.g + d) + (- d) = n.g BY <1>6
  <2> QED BY <1>6, <2>5, <2>6, <2>8, <2>9
<1>8. CASE job.params[n.i].expert # "grouped"
  <2>1. Shifted(r, m, n) = n BY <1>6, <1>8 DEF Shifted, Par
  <2>2. n.g \in Numbers(job.params[n.i], m) BY <1>6, <1>8 DEF Numbers
  <2>3. n \in Names(m) BY <1>6, <2>2, NamesAre
  <2>4. Shifted(m, r, n) = n BY <1>6, <1>8 DEF Shifted, Par
  <2> QED BY <2>1, <2>3, <2>4
<1> QED BY <1>7, <1>8

LEMMA ShiftKeepsOrder ==
    ASSUME JobFacts, NEW r \in Ranks, NEW m \in Ranks, NEW a \in Names(r), NEW b \in Names(r)
    PROVE  Before(a, b) <=> Before(Shifted(r, m, a), Shifted(r, m, b))
<1> DEFINE s == Shifted(r, m, a)
           t == Shifted(r, m, b)
<1>1. s \in Names(m) /\ t \in Names(m) BY ShiftedNames
<1>2. PICK e \in Nat : e = PerRank BY DEF JobFacts
<1>3. PICK d \in Int : d = (Ep(m) - Ep(r)) * PerRank
  <2>1. PICK x \in Nat : x = Ep(r) BY RankParts
  <2>2. PICK y \in Nat : y = Ep(m) BY RankParts
  <2>3. (y - x) * e \in Int OBVIOUS
  <2> QED BY <1>2, <2>1, <2>2, <2>3
<1>4. /\ s.i = a.i /\ s.g = IF Par(a).expert = "grouped" THEN a.g + d ELSE a.g
      /\ t.i = b.i /\ t.g = IF Par(b).expert = "grouped" THEN b.g + d ELSE b.g
      BY <1>3 DEF Shifted
<1>5. Par(s) = Par(a) /\ Par(t) = Par(b) BY <1>4 DEF Par
<1>6. ASSUME NEW q \in Ranks, NEW n \in Names(q)
      PROVE  /\ Par(n).layer \in Int /\ Par(n).part \in Nat /\ n.g \in Int
             /\ Par(n).expert \in {"no", "grouped", "sequential"}
             /\ Par(n).expert = "grouped" => n.g >= 0
             /\ Par(n).expert = "no" => n.g = None
  <2>1. Par(n).layer \in Int /\ Par(n).part \in Nat /\ n.g \in Int /\ n.g \in Numbers(Par(n), q) /\ Par(n) \in Param
        BY NamesAre
  <2>2. Par(n).expert = "no" => n.g = None BY <2>1 DEF Numbers
  <2>3. ASSUME Par(n).expert = "grouped" PROVE n.g >= 0
    <3>1. PICK x \in Nat : x = Ep(q) BY RankParts
    <3>2. PICK l \in 0 .. e - 1 : n.g = x * e + l BY <1>2, <2>1, <2>3, <3>1 DEF Numbers
    <3>3. x * e \in Nat OBVIOUS
    <3> QED BY <3>2, <3>3
  <2> QED BY <2>1, <2>2, <2>3 DEF Param
<1>7. /\ Par(a).layer \in Int /\ Par(a).part \in Nat /\ a.g \in Int
      /\ Par(b).layer \in Int /\ Par(b).part \in Nat /\ b.g \in Int /\ s.g \in Int /\ t.g \in Int
      BY <1>1, <1>6
<1>8. Before(a, b) <=>
               \/ Par(a).layer < Par(b).layer
               \/ Par(a).layer = Par(b).layer /\
                    \/ Global(a) < Global(b)
                    \/ Global(a) = Global(b) /\
                         \/ Par(a).part < Par(b).part
                         \/ Par(a).part = Par(b).part /\ IsSequential(a) /\ IsSequential(b) /\ a.g < b.g
      BY <1>7, BeforeMeans
<1>9. Before(s, t) <=>
               \/ Par(a).layer < Par(b).layer
               \/ Par(a).layer = Par(b).layer /\
                    \/ Global(s) < Global(t)
                    \/ Global(s) = Global(t) /\
                         \/ Par(a).part < Par(b).part
                         \/ Par(a).part = Par(b).part /\ IsSequential(s) /\ IsSequential(t) /\ s.g < t.g
      BY <1>5, <1>7, BeforeMeans
<1>10. /\ IsSequential(s) <=> IsSequential(a)
       /\ IsSequential(t) <=> IsSequential(b)
       /\ IsSequential(a) => s.g = a.g
       /\ IsSequential(b) => t.g = b.g
       BY <1>4, <1>5 DEF IsSequential
<1>11. /\ Global(a) = IF Par(a).expert = "grouped" THEN a.g ELSE None
       /\ Global(s) = IF Par(a).expert = "grouped" THEN a.g + d ELSE None
       /\ Global(b) = IF Par(b).expert = "grouped" THEN b.g ELSE None
       /\ Global(t) = IF Par(b).expert = "grouped" THEN b.g + d ELSE None
       BY <1>1, <1>4, <1>5, <1>6 DEF Global, IsSequential
<1>12. (Global(a) < Global(b) <=> Global(s) < Global(t)) /\ (Global(a) = Global(b) <=> Global(s) = Global(t))
  <2>1. /\ Par(a).expert = "grouped" => a.g >= 0 /\ a.g + d >= 0
        /\ Par(b).expert = "grouped" => b.g >= 0 /\ b.g + d >= 0
        BY <1>1, <1>4, <1>5, <1>6
  <2> HIDE DEF s, t
  <2> QED BY <1>7, <1>11, <2>1 DEF None
<1> HIDE DEF s, t
<1>13. Before(a, b) <=> Before(s, t) BY <1>8, <1>9, <1>10, <1>12
<1> QED BY <1>13 DEF s, t

\* Every rank works through the same parameters, and ranks with the same
\* experts through the same names.
LEMMA SameTasks ==
    ASSUME JobFacts, NEW r \in Ranks
    PROVE  /\ Size \in Nat \ {0} /\ Len(TaskList(r)) = Size /\ TaskList(r) \in Seq(Names(r))
           /\ \A k \in 1 .. Size : TaskList(r)[k] \in Names(r)
           /\ \A n \in Names(r) : \E k \in 1 .. Size : TaskList(r)[k] = n
           /\ \A m \in Ranks : \A k \in 1 .. Size : TaskList(m)[k] = Shifted(r, m, TaskList(r)[k])
           /\ \A m \in Ranks : Ep(m) = Ep(r) => TaskList(m) = TaskList(r)
           /\ \A k, l \in 1 .. Size : TaskList(r)[k] = TaskList(r)[l] => k = l
           /\ \A m \in Ranks : \A k \in 1 .. Size : TaskList(m)[k].i = TaskList(r)[k].i
<1>1. 0 \in Ranks
  <2>1. PICK p \in Nat \ {0} : p = job.pp BY DEF JobFacts
  <2>2. PICK z \in Nat \ {0} : z = job.stageSize BY DEF JobFacts
  <2>3. p * z - 1 >= 0 /\ p * z \in Nat OBVIOUS
  <2> QED BY <2>1, <2>2, <2>3 DEF Ranks
<1>2. ASSUME NEW a \in Ranks, NEW b \in Ranks
      PROVE  /\ Cardinality(Names(a)) = Cardinality(Names(b))
             /\ \A n \in Names(a) : CountBefore(Names(a), BeforeOn(Names(a)), n)
                                    = CountBefore(Names(b), BeforeOn(Names(b)), Shifted(a, b, n))
  <2> DEFINE V == Names(a)
             W == Names(b)
             h == [n \in V |-> Shifted(a, b, n)]
  <2>1. h \in [V -> W] BY ShiftedNames
  <2>2. \A x, y \in V : h[x] = h[y] => x = y BY ShiftedNames
  <2>3. \A t \in W : \E x \in V : h[x] = t
    <3> SUFFICES ASSUME NEW t \in W PROVE \E x \in V : h[x] = t OBVIOUS
    <3>1. Shifted(b, a, t) \in V /\ Shifted(a, b, Shifted(b, a, t)) = t BY ShiftedNames
    <3> QED BY <3>1
  <2>4. \A x, y \in V : <<x, y>> \in BeforeOn(V) <=> <<h[x], h[y]>> \in BeforeOn(W)
    <3> SUFFICES ASSUME NEW x \in V, NEW y \in V
                 PROVE  <<x, y>> \in BeforeOn(V) <=> <<h[x], h[y]>> \in BeforeOn(W)
        OBVIOUS
    <3>1. <<x, y>> \in BeforeOn(V) <=> Before(x, y) BY DEF BeforeOn
    <3>2. h[x] \in W /\ h[y] \in W BY <2>1
    <3>3. <<h[x], h[y]>> \in BeforeOn(W) <=> Before(h[x], h[y]) BY <3>2 DEF BeforeOn
    <3>4. h[x] = Shifted(a, b, x) /\ h[y] = Shifted(a, b, y) OBVIOUS
    <3> QED BY <3>1, <3>3, <3>4, ShiftKeepsOrder
  <2>5. IsFiniteSet(V) BY NamesAre
  <2>6. \A n \in V : h[n] = Shifted(a, b, n) OBVIOUS
  <2> HIDE DEF h
  <2>7. h \in Bijection(V, W) BY <2>1, <2>2, <2>3, Fun_IsBij
  <2>8. /\ Cardinality(V) = Cardinality(W)
        /\ \A n \in V : CountBefore(V, BeforeOn(V), n) = CountBefore(W, BeforeOn(W), h[n])
    <3> DEFINE A == BeforeOn(V)
               B == BeforeOn(W)
    <3>1. \A x, y \in V : <<x, y>> \in A <=> <<h[x], h[y]>> \in B BY <2>4
    <3> HIDE DEF A, B, V, W
    <3>2. KeepsOrder(h, V, A, W, B) BY <2>5, <2>7, <3>1 DEF KeepsOrder
    <3>3. /\ Cardinality(V) = Cardinality(W)
          /\ \A n \in V : CountBefore(V, A, n) = CountBefore(W, B, h[n])
          BY <3>2, SamePlaces
    <3> QED BY <3>3 DEF A, B
  <2> QED BY <2>6, <2>8
<1>3. \A a \in Ranks : Cardinality(Names(a)) = Size BY <1>1, <1>2 DEF Size
<1>4. ASSUME NEW a \in Ranks
      PROVE  /\ Size \in Nat /\ TaskList(a) \in Seq(Names(a)) /\ Len(TaskList(a)) = Size
             /\ \A k \in 1 .. Size : /\ TaskList(a)[k] \in Names(a)
                                     /\ CountBefore(Names(a), BeforeOn(Names(a)), TaskList(a)[k]) = k - 1
             /\ \A n \in Names(a) : \E k \in 1 .. Size : TaskList(a)[k] = n
  <2>1. Ordering(Names(a), BeforeOn(Names(a))) BY NamesOrdered
  <2>2. PICK W : W = Names(a) OBVIOUS
  <2>3. /\ Cardinality(W) \in Nat /\ Sorted(W) \in Seq(W) /\ Len(Sorted(W)) = Cardinality(W)
        /\ \A k \in 1 .. Cardinality(W) :
              Sorted(W)[k] \in W /\ CountBefore(W, BeforeOn(W), Sorted(W)[k]) = k - 1
        /\ \A n \in W : \E k \in 1 .. Cardinality(W) : Sorted(W)[k] = n
        BY <2>1, <2>2, SortedFacts
  <2> QED BY <1>3, <2>2, <2>3 DEF TaskList
<1>5. ASSUME NEW m \in Ranks, NEW k \in 1 .. Size PROVE TaskList(m)[k] = Shifted(r, m, TaskList(r)[k])
  <2> DEFINE W == Names(m)
             n == TaskList(r)[k]
             t == TaskList(m)[k]
             s == Shifted(r, m, n)
  <2>1. n \in Names(r) /\ CountBefore(Names(r), BeforeOn(Names(r)), n) = k - 1 BY <1>4
  <2>2. s \in W /\ CountBefore(W, BeforeOn(W), s) = k - 1 BY <1>2, <2>1, ShiftedNames
  <2>3. t \in W /\ CountBefore(W, BeforeOn(W), t) = k - 1 BY <1>4
  <2>4. Ordering(W, BeforeOn(W)) BY NamesOrdered
  <2> HIDE DEF W, n, t, s
  <2>5. t = s BY <2>2, <2>3, <2>4, PlacesInOrder
  <2> QED BY <2>5 DEF s, t, n
<1>6. ASSUME NEW m \in Ranks, Ep(m) = Ep(r) PROVE TaskList(m) = TaskList(r)
  <2>1. PICK e \in Nat : e = PerRank BY DEF JobFacts
  <2>2. PICK x \in Nat : x = Ep(r) BY RankParts
  <2>3. (x - x) * e = 0 OBVIOUS
  <2>4. ASSUME NEW n \in Names(r) PROVE Shifted(r, m, n) = n
    <3>1. n.g \in Int /\ n = [i |-> n.i, g |-> n.g] BY NamesAre
    <3>2. Shifted(r, m, n) = [i |-> n.i, g |-> IF Par(n).expert = "grouped" THEN n.g + (x - x) * e ELSE n.g]
          BY <1>6, <2>1, <2>2 DEF Shifted
    <3>3. n.g + 0 = n.g BY <3>1
    <3> QED BY <2>3, <3>1, <3>2, <3>3
  <2>5. \A k \in 1 .. Size : TaskList(m)[k] = TaskList(r)[k] BY <1>4, <1>5, <2>4
  <2>6. /\ TaskList(m) = [k \in 1 .. Size |-> TaskList(m)[k]]
        /\ TaskList(r) = [k \in 1 .. Size |-> TaskList(r)[k]]
        BY <1>4
  <2>7. [k \in 1 .. Size |-> TaskList(m)[k]] = [k \in 1 .. Size |-> TaskList(r)[k]] BY <2>5
  <2> QED BY <2>6, <2>7
<1>7. Size # 0
  <2>1. IsFiniteSet(Names(r)) /\ Names(r) # {} BY NamesAre
  <2>2. Cardinality(Names(r)) # 0 BY <2>1, FS_EmptySet
  <2> QED BY <1>3, <2>2
<1>8. ASSUME NEW k \in 1 .. Size, NEW l \in 1 .. Size, TaskList(r)[k] = TaskList(r)[l] PROVE k = l
  <2>1. k - 1 = l - 1 BY <1>4, <1>8
  <2>2. k \in Int /\ l \in Int BY <1>4
  <2> QED BY <2>1, <2>2
<1>9. \A m \in Ranks : \A k \in 1 .. Size : TaskList(m)[k].i = TaskList(r)[k].i
  <2>1. \A m, n : Shifted(r, m, n).i = n.i BY DEF Shifted
  <2> QED BY <1>5, <2>1
<1> QED BY <1>4, <1>5, <1>6, <1>7, <1>8, <1>9

-----------------------------------------------------------------------------
(* The calls of a program.                                                 *)

PipelineOps == {"flags", "object", "spec", "tensor"}
Objects     == Cached \cup {"layout"}

ExportCall ==
    {c \in [group : {"pp", "tp", "etp", "ep"}, op : PipelineOps \cup {"part", "rows", "expert"},
            what : Objects \cup {"", "gate", "up", "weight"}] :
        /\ c.op \in PipelineOps <=> c.group = "pp"
        /\ c.op \in PipelineOps => job.pp > 1
        /\ c.op \in {"flags", "object"} => c.what \in Objects}

LEMMA EndToEndCalls ==
    ASSUME NEW S, NEW s \in Seq(S), NEW t \in Seq(S)
    PROVE  /\ s \o t \in Seq(S) /\ Range(s \o t) = Range(s) \cup Range(t)
           /\ s # <<>> => s \o t # <<>> /\ Head(s \o t) = Head(s)
<1>1. /\ s \o t \in Seq(S) /\ Len(s \o t) = Len(s) + Len(t)
      /\ \A i \in 1 .. Len(s) : (s \o t)[i] = s[i]
      /\ \A i \in 1 .. Len(t) : (s \o t)[Len(s) + i] = t[i]
      OBVIOUS
<1>2. PICK a \in Nat : a = Len(s) OBVIOUS
<1>3. PICK b \in Nat : b = Len(t) OBVIOUS
<1>4. PICK u : u = s \o t OBVIOUS
<1>5. DOMAIN s = 1 .. a /\ DOMAIN t = 1 .. b /\ DOMAIN u = 1 .. a + b BY <1>1, <1>2, <1>3, <1>4
<1>6. ASSUME NEW x \in Range(u) PROVE x \in Range(s) \cup Range(t)
  <2>1. PICK i \in 1 .. a + b : u[i] = x BY <1>5 DEF Range
  <2>2. CASE i <= a BY <1>1, <1>2, <1>4, <1>5, <2>1, <2>2 DEF Range
  <2>3. CASE i > a
    <3>1. i - a \in 1 .. b /\ a + (i - a) = i BY <2>3
    <3>2. u[i] = t[i - a] BY <1>1, <1>2, <1>3, <1>4, <3>1
    <3> QED BY <1>5, <2>1, <3>1, <3>2 DEF Range
  <2> QED BY <2>2, <2>3
<1>7. Range(s) \subseteq Range(u)
  <2>1. \A i \in 1 .. a : i \in 1 .. a + b /\ u[i] = s[i] BY <1>1, <1>2, <1>4
  <2> QED BY <1>5, <2>1 DEF Range
<1>8. Range(t) \subseteq Range(u)
  <2>1. \A i \in 1 .. b : a + i \in 1 .. a + b /\ u[a + i] = t[i] BY <1>1, <1>2, <1>3, <1>4
  <2> QED BY <1>5, <2>1 DEF Range
<1>9. s # <<>> => s \o t # <<>> /\ Head(s \o t) = Head(s)
  <2> SUFFICES ASSUME s # <<>> PROVE s \o t # <<>> /\ Head(s \o t) = Head(s) OBVIOUS
  <2>1. Len(s) > 0 /\ 1 \in 1 .. Len(s) OBVIOUS
  <2>2. Len(s \o t) > 0 BY <1>1, <2>1
  <2>3. (s \o t)[1] = s[1] BY <1>1, <2>1
  <2> QED BY <1>1, <2>2, <2>3
<1> QED BY <1>1, <1>4, <1>6, <1>7, <1>8, <1>9

LEMMA InquiryFacts ==
    ASSUME NEW what \in Objects, NEW kept \in BOOLEAN, job.pp \in Nat \ {0}
    PROVE  /\ Inquiry(what, kept) \in Seq(ExportCall)
           /\ job.pp > 1 /\ ~(kept /\ what \in Cached) =>
                /\ Inquiry(what, kept) # <<>> /\ IsSurvey(Head(Inquiry(what, kept)))
                /\ Call("pp", "object", what) \in Range(Inquiry(what, kept))
<1> DEFINE f == Call("pp", "flags", what)
           o == Call("pp", "object", what)
<1>1. CASE job.pp = 1 \/ (kept /\ what \in Cached)
  <2>1. Inquiry(what, kept) = <<>> BY <1>1 DEF Inquiry
  <2> QED BY <1>1, <2>1
<1>2. CASE ~(job.pp = 1 \/ (kept /\ what \in Cached))
  <2>1. Inquiry(what, kept) = <<f, o>> BY <1>2 DEF Inquiry
  <2>2. f \in ExportCall /\ o \in ExportCall
    <3>1. job.pp > 1 BY <1>2
    <3>2. f = [group |-> "pp", op |-> "flags", what |-> what] /\ o = [group |-> "pp", op |-> "object", what |-> what]
          BY DEF Call
    <3> HIDE DEF f, o
    <3> QED BY <3>1, <3>2 DEF ExportCall, PipelineOps
  <2>3. IsSurvey(f) BY DEF IsSurvey, Call
  <2> HIDE DEF f, o
  <2>4. <<f, o>> \in Seq(ExportCall) /\ <<f, o>> # <<>> /\ Head(<<f, o>>) = f BY <2>2
  <2>5. o \in Range(<<f, o>>)
    <3>1. 2 \in DOMAIN <<f, o>> /\ <<f, o>>[2] = o OBVIOUS
    <3> QED BY <3>1 DEF Range
  <2> QED BY <2>1, <2>3, <2>4, <2>5 DEF o
<1> QED BY <1>1, <1>2

LEMMA BroadcastFacts ==
    ASSUME NEW kept \in BOOLEAN, job.pp \in Nat \ {0}
    PROVE  /\ Broadcast(kept) \in Seq(ExportCall)
           /\ job.pp > 1 => TensorCall \in Range(Broadcast(kept))
           /\ job.pp > 1 /\ ~kept =>
                /\ Broadcast(kept) # <<>> /\ IsSurvey(Head(Broadcast(kept)))
                /\ Call("pp", "spec", "") \in Range(Broadcast(kept))
<1> DEFINE a == Call("pp", "spec", "")
           b == TensorCall
<1>1. CASE job.pp = 1
  <2>2. Broadcast(kept) = <<>> BY <1>1 DEF Broadcast
  <2> QED BY <1>1, <2>2
<1>2. CASE job.pp > 1
  <2>2. Broadcast(kept) = (IF kept THEN <<>> ELSE <<a>>) \o <<b>>
    <3>1. job.pp # 1 BY <1>2
    <3> QED BY <3>1 DEF Broadcast, TensorCall
  <2>3. a \in ExportCall /\ b \in ExportCall BY <1>2 DEF ExportCall, PipelineOps, Call, TensorCall
  <2>4. IsSurvey(a) BY DEF IsSurvey, Call
  <2> HIDE DEF a, b
  <2>5. <<a>> \in Seq(ExportCall) /\ <<b>> \in Seq(ExportCall) /\ <<>> \in Seq(ExportCall)
        /\ <<a>> # <<>> /\ Head(<<a>>) = a BY <2>3
  <2>6. a \in Range(<<a>>) /\ b \in Range(<<b>>)
    <3>1. 1 \in DOMAIN <<a>> /\ <<a>>[1] = a /\ 1 \in DOMAIN <<b>> /\ <<b>>[1] = b OBVIOUS
    <3> QED BY <3>1 DEF Range
  <2>7. PICK s : s = IF kept THEN <<>> ELSE <<a>> OBVIOUS
  <2>8. PICK t : t = <<b>> OBVIOUS
  <2>9. s \in Seq(ExportCall) /\ t \in Seq(ExportCall) BY <2>5, <2>7, <2>8
  <2>10. b \in Range(t) BY <2>6, <2>8
  <2>11. s \o t \in Seq(ExportCall) /\ b \in Range(s \o t) BY ONLY <2>9, <2>10, EndToEndCalls
  <2>12. ASSUME ~kept PROVE s \o t # <<>> /\ Head(s \o t) = a /\ a \in Range(s \o t)
    <3>1. s = <<a>> BY <2>7, <2>12
    <3>2. s # <<>> /\ Head(s) = a /\ a \in Range(s) BY <2>5, <2>6, <3>1
    <3> QED BY ONLY <2>9, <3>2, EndToEndCalls
  <2>13. Broadcast(kept) = s \o t BY <2>2, <2>7, <2>8
  <2>14. TensorCall \in Range(Broadcast(kept)) BY <2>11, <2>13 DEF b
  <2>15. ASSUME ~kept
         PROVE  /\ Broadcast(kept) # <<>> /\ IsSurvey(Head(Broadcast(kept)))
                /\ Call("pp", "spec", "") \in Range(Broadcast(kept))
    <3>1. Broadcast(kept) # <<>> /\ Head(Broadcast(kept)) = a /\ a \in Range(Broadcast(kept)) BY <2>12, <2>13, <2>15
    <3>2. IsSurvey(Head(Broadcast(kept))) BY <2>4, <3>1
    <3> QED BY <3>1, <3>2 DEF a
  <2>16. Broadcast(kept) \in Seq(ExportCall) BY <2>11, <2>13
  <2> QED BY <2>14, <2>15, <2>16
<1>3. job.pp = 1 \/ job.pp > 1 OBVIOUS
<1> QED BY ONLY <1>1, <1>2, <1>3

LEMMA GatherFacts ==
    ASSUME NEW n, Par(n) \in Param
    PROVE  Gather(n) \in Seq(ExportCall)
<1> DEFINE a == Call(TpGroup(n), "part", "")
           b == Call(TpGroup(n), "rows", "")
<1>1. TpGroup(n) \in {"tp", "etp"} BY DEF TpGroup
<1>2. a \in ExportCall /\ b \in ExportCall BY <1>1 DEF ExportCall, PipelineOps, Call
<1>3. PICK k \in Nat : k = Len(Par(n).n) BY DEF Param
<1> HIDE DEF a, b
<1>4. [c \in 1 .. k - 1 |-> a] \in Seq(ExportCall)
  <2>1. CASE k = 0
    <3>1. 1 .. k - 1 = {} BY <2>1
    <3>2. [c \in 1 .. k - 1 |-> a] = <<>> BY <3>1
    <3> QED BY <3>2
  <2>2. CASE k > 0
    <3>1. k - 1 \in Nat BY <2>2
    <3> QED BY <1>2, <3>1
  <2> QED BY <2>1, <2>2
<1>5. PICK s : s = IF Par(n).kind = "chunked" THEN [c \in 1 .. k - 1 |-> a] ELSE <<>> OBVIOUS
<1>6. <<b>> \in Seq(ExportCall) /\ <<>> \in Seq(ExportCall) BY <1>2
<1>8. s \in Seq(ExportCall) BY <1>4, <1>5, <1>6
<1>7. Gather(n) = IF Tp(n) = 1 \/ Whole(Par(n)) THEN <<>> ELSE s \o <<b>> BY <1>3, <1>5 DEF Gather, a, b
<1> QED BY <1>6, <1>7, <1>8, EndToEndCalls

LEMMA ExpertCallsFacts ==
    ASSUME NEW n, NEW kept \in BOOLEAN, job.pp \in Nat \ {0}
    PROVE  /\ ExpertCalls(n, kept) \in Seq(ExportCall)
           /\ job.pp > 1 /\ ~kept /\ Par(n).expert # "no" =>
                Call("pp", "object", "experts") \in Range(ExpertCalls(n, kept))
<1> DEFINE t == IF Par(n).expert = "sequential" THEN <<>>
                ELSE IF Par(n).kind = "gated"
                THEN <<Call("ep", "expert", "gate"), Call("ep", "expert", "up")>>
                ELSE <<Call("ep", "expert", "weight")>>
           s == Inquiry("experts", kept)
<1>1. \A what \in {"gate", "up", "weight"} : Call("ep", "expert", what) \in ExportCall
      BY DEF ExportCall, PipelineOps, Call
<1>2. t \in Seq(ExportCall)
  <2> DEFINE a == Call("ep", "expert", "gate")
             b == Call("ep", "expert", "up")
             c == Call("ep", "expert", "weight")
  <2>1. a \in ExportCall /\ b \in ExportCall /\ c \in ExportCall BY <1>1
  <2> HIDE DEF a, b, c
  <2>2. <<a, b>> \in Seq(ExportCall) /\ <<c>> \in Seq(ExportCall) /\ <<>> \in Seq(ExportCall) BY <2>1
  <2> QED BY <2>2 DEF a, b, c
<1>3. "experts" \in Objects /\ "experts" \in Cached BY DEF Objects, Cached
<1>4. /\ s \in Seq(ExportCall)
      /\ job.pp > 1 /\ ~kept => Call("pp", "object", "experts") \in Range(s)
      BY <1>3, InquiryFacts
<1>5. ExpertCalls(n, kept) = IF Par(n).expert = "no" THEN <<>> ELSE s \o t BY DEF ExpertCalls
<1> HIDE DEF s, t
<1>6. s \o t \in Seq(ExportCall) /\ Range(s \o t) = Range(s) \cup Range(t) BY <1>2, <1>4, EndToEndCalls
<1>7. <<>> \in Seq(ExportCall) OBVIOUS
<1> QED BY <1>4, <1>5, <1>6, <1>7

AllSeqs(S, a, b, c, d) == a \in Seq(S) /\ b \in Seq(S) /\ c \in Seq(S) /\ d \in Seq(S)

LEMMA FourEndToEnd ==
    ASSUME NEW S, NEW a, NEW b, NEW c, NEW d, AllSeqs(S, a, b, c, d)
    PROVE  /\ a \o b \o c \in Seq(S) /\ a \o b \o c \o d \in Seq(S)
           /\ Range(a \o b \o c) = Range(a) \cup Range(b) \cup Range(c)
           /\ Range(a \o b \o c \o d) = Range(a) \cup Range(b) \cup Range(c) \cup Range(d)
           /\ a # <<>> => /\ a \o b \o c # <<>> /\ Head(a \o b \o c) = Head(a)
                          /\ a \o b \o c \o d # <<>> /\ Head(a \o b \o c \o d) = Head(a)
<1>0. a \in Seq(S) /\ b \in Seq(S) /\ c \in Seq(S) /\ d \in Seq(S) BY DEF AllSeqs
<1>1. PICK s : s = a \o b OBVIOUS
<1>2. PICK t : t = s \o c OBVIOUS
<1>3. PICK u : u = t \o d OBVIOUS
<1>4. s \in Seq(S) /\ Range(s) = Range(a) \cup Range(b) /\ (a # <<>> => s # <<>> /\ Head(s) = Head(a))
      BY <1>0, <1>1, EndToEndCalls
<1>5. t \in Seq(S) /\ Range(t) = Range(s) \cup Range(c) /\ (s # <<>> => t # <<>> /\ Head(t) = Head(s))
      BY <1>0, <1>2, <1>4, EndToEndCalls
<1>6. u \in Seq(S) /\ Range(u) = Range(t) \cup Range(d) /\ (t # <<>> => u # <<>> /\ Head(u) = Head(t))
      BY <1>0, <1>3, <1>5, EndToEndCalls
<1>7. t = a \o b \o c /\ u = a \o b \o c \o d BY <1>1, <1>2, <1>3
<1> QED BY <1>4, <1>5, <1>6, <1>7

\* Where the export of a parameter has pipeline stages to ask it asks first,
\* for everything it will have cached, and broadcasts the tensor.
LEMMA ExportingFacts ==
    ASSUME NEW n, Par(n) \in Param, NEW kept \in BOOLEAN, job.pp \in Nat \ {0}
    PROVE  /\ Exporting(n, kept) \in Seq(ExportCall)
           /\ job.pp = 1 /\ n.i \in job.missing => Exporting(n, kept) = <<>>
           /\ job.pp > 1 => TensorCall \in Range(Exporting(n, kept))
           /\ job.pp > 1 /\ ~kept =>
                /\ Exporting(n, kept) # <<>> /\ IsSurvey(Head(Exporting(n, kept)))
                /\ \A what \in Asked(n) : Answer(what) \in Range(Exporting(n, kept))
<1> DEFINE kind == Par(n).kind
<1>1. kind \in Direct \cup {"qkv", "concat", "kv", "gdn", "gated", "chunked"} BY DEF Param, Kinds
<1>2. {"type", "config", "layout", "experts"} \subseteq Objects /\ {"type", "config", "experts"} \subseteq Cached
      /\ "layout" \notin Cached
      BY DEF Objects, Cached
<1>3. PICK x : x = Exporting(n, kept) OBVIOUS
<1>4. PICK br : br = Broadcast(kept) OBVIOUS
<1>5. PICK ga : ga = Gather(n) OBVIOUS
<1>6. PICK ex : ex = ExpertCalls(n, kept) OBVIOUS
<1>7. PICK ty : ty = Inquiry("type", kept) OBVIOUS
<1>8. PICK co : co = Inquiry("config", kept) OBVIOUS
<1>9. PICK la : la = Inquiry("layout", kept) OBVIOUS
<1>10. /\ br \in Seq(ExportCall) /\ ga \in Seq(ExportCall) /\ ex \in Seq(ExportCall)
       /\ ty \in Seq(ExportCall) /\ co \in Seq(ExportCall) /\ la \in Seq(ExportCall)
  <2>1. br \in Seq(ExportCall) BY <1>4, BroadcastFacts
  <2>2. ga \in Seq(ExportCall) BY <1>5, GatherFacts
  <2>3. ex \in Seq(ExportCall) BY <1>6, ExpertCallsFacts
  <2>4. ty \in Seq(ExportCall) /\ co \in Seq(ExportCall) /\ la \in Seq(ExportCall)
        BY <1>2, <1>7, <1>8, <1>9, InquiryFacts
  <2> QED BY <2>1, <2>2, <2>3, <2>4
<1>11. job.pp > 1 => TensorCall \in Range(br) BY <1>4, BroadcastFacts
<1>12. ASSUME job.pp > 1, ~kept
       PROVE  /\ br # <<>> /\ IsSurvey(Head(br)) /\ Answer("spec") \in Range(br)
              /\ ty # <<>> /\ IsSurvey(Head(ty)) /\ Answer("type") \in Range(ty)
              /\ co # <<>> /\ IsSurvey(Head(co)) /\ Answer("config") \in Range(co)
              /\ la # <<>> /\ IsSurvey(Head(la))
              /\ Par(n).expert # "no" => Answer("experts") \in Range(ex)
  <2>1. br # <<>> /\ IsSurvey(Head(br)) /\ Answer("spec") \in Range(br) BY <1>4, <1>12, BroadcastFacts DEF Answer
  <2>2. ty # <<>> /\ IsSurvey(Head(ty)) /\ Answer("type") \in Range(ty) BY <1>2, <1>7, <1>12, InquiryFacts DEF Answer
  <2>3. co # <<>> /\ IsSurvey(Head(co)) /\ Answer("config") \in Range(co)
        BY <1>2, <1>8, <1>12, InquiryFacts DEF Answer
  <2>4. la # <<>> /\ IsSurvey(Head(la)) BY <1>2, <1>9, <1>12, InquiryFacts
  <2>5. Par(n).expert # "no" => Answer("experts") \in Range(ex) BY <1>6, <1>12, ExpertCallsFacts DEF Answer
  <2> QED BY <2>1, <2>2, <2>3, <2>4, <2>5
<1>13. CASE job.pp = 1 /\ n.i \in job.missing
  <2>1. x = <<>> BY <1>3, <1>13 DEF Exporting
  <2> QED BY <1>3, <1>13, <2>1
<1>14. ASSUME ~(job.pp = 1 /\ n.i \in job.missing), kind \in Direct
       PROVE  /\ x \in Seq(ExportCall)
              /\ job.pp > 1 => TensorCall \in Range(x)
              /\ job.pp > 1 /\ ~kept =>
                    x # <<>> /\ IsSurvey(Head(x)) /\ \A what \in Asked(n) : Answer(what) \in Range(x)
  <2>1. x = ty \o br \o ga \o ex BY <1>3, <1>4, <1>5, <1>6, <1>7, <1>14 DEF Exporting, Direct
  <2>2. /\ x \in Seq(ExportCall) /\ Range(x) = Range(ty) \cup Range(br) \cup Range(ga) \cup Range(ex)
        /\ ty # <<>> => x # <<>> /\ Head(x) = Head(ty)
    <3>1. AllSeqs(ExportCall, ty, br, ga, ex) BY <1>10 DEF AllSeqs
    <3> QED BY <2>1, <3>1, FourEndToEnd
  <2>3. Asked(n) \subseteq {"spec", "type"} \cup (IF Par(n).expert # "no" THEN {"experts"} ELSE {})
        BY <1>14 DEF Asked, Direct
  <2> QED BY <1>11, <1>12, <2>2, <2>3
<1>15. ASSUME ~(job.pp = 1 /\ n.i \in job.missing), kind \in {"qkv", "concat", "kv"}
       PROVE  /\ x \in Seq(ExportCall)
              /\ job.pp > 1 => TensorCall \in Range(x)
              /\ job.pp > 1 /\ ~kept =>
                    x # <<>> /\ IsSurvey(Head(x)) /\ \A what \in Asked(n) : Answer(what) \in Range(x)
  <2>1. x = co \o ty \o br \o ga BY <1>3, <1>4, <1>5, <1>7, <1>8, <1>15 DEF Exporting, Direct
  <2>2. /\ x \in Seq(ExportCall) /\ Range(x) = Range(co) \cup Range(ty) \cup Range(br) \cup Range(ga)
        /\ co # <<>> => x # <<>> /\ Head(x) = Head(co)
    <3>1. AllSeqs(ExportCall, co, ty, br, ga) BY <1>10 DEF AllSeqs
    <3> QED BY <2>1, <3>1, FourEndToEnd
  <2>3. Asked(n) \subseteq {"spec", "type", "config"} BY <1>15 DEF Asked, Direct
  <2> QED BY <1>11, <1>12, <2>2, <2>3
<1>16. ASSUME ~(job.pp = 1 /\ n.i \in job.missing), kind = "gdn"
       PROVE  /\ x \in Seq(ExportCall)
              /\ job.pp > 1 => TensorCall \in Range(x)
              /\ job.pp > 1 /\ ~kept =>
                    x # <<>> /\ IsSurvey(Head(x)) /\ \A what \in Asked(n) : Answer(what) \in Range(x)
  <2>1. x = la \o ty \o br \o ga BY <1>3, <1>4, <1>5, <1>7, <1>9, <1>16 DEF Exporting, Direct
  <2>2. /\ x \in Seq(ExportCall) /\ Range(x) = Range(la) \cup Range(ty) \cup Range(br) \cup Range(ga)
        /\ la # <<>> => x # <<>> /\ Head(x) = Head(la)
    <3>1. AllSeqs(ExportCall, la, ty, br, ga) BY <1>10 DEF AllSeqs
    <3> QED BY <2>1, <3>1, FourEndToEnd
  <2>3. Asked(n) \subseteq {"spec", "type"} BY <1>16 DEF Asked, Direct
  <2> QED BY <1>11, <1>12, <2>2, <2>3
<1>17. ASSUME ~(job.pp = 1 /\ n.i \in job.missing), kind = "gated"
       PROVE  /\ x \in Seq(ExportCall)
              /\ job.pp > 1 => TensorCall \in Range(x)
              /\ job.pp > 1 /\ ~kept =>
                    x # <<>> /\ IsSurvey(Head(x)) /\ \A what \in Asked(n) : Answer(what) \in Range(x)
  <2>1. x = br \o ga \o ex BY <1>3, <1>4, <1>5, <1>6, <1>17 DEF Exporting, Direct
  <2>2. /\ x \in Seq(ExportCall) /\ Range(x) = Range(br) \cup Range(ga) \cup Range(ex)
        /\ br # <<>> => x # <<>> /\ Head(x) = Head(br)
    <3>1. AllSeqs(ExportCall, br, ga, ex, ex) BY <1>10 DEF AllSeqs
    <3> QED BY <2>1, <3>1, FourEndToEnd
  <2>3. Asked(n) \subseteq {"spec"} \cup (IF Par(n).expert # "no" THEN {"experts"} ELSE {})
        BY <1>17 DEF Asked, Direct
  <2> QED BY <1>11, <1>12, <2>2, <2>3
<1>18. ASSUME ~(job.pp = 1 /\ n.i \in job.missing), kind = "chunked"
       PROVE  /\ x \in Seq(ExportCall)
              /\ job.pp > 1 => TensorCall \in Range(x)
              /\ job.pp > 1 /\ ~kept =>
                    x # <<>> /\ IsSurvey(Head(x)) /\ \A what \in Asked(n) : Answer(what) \in Range(x)
  <2>1. x = br \o la \o ga BY <1>3, <1>4, <1>5, <1>9, <1>18 DEF Exporting, Direct
  <2>2. /\ x \in Seq(ExportCall) /\ Range(x) = Range(br) \cup Range(la) \cup Range(ga)
        /\ br # <<>> => x # <<>> /\ Head(x) = Head(br)
    <3>1. AllSeqs(ExportCall, br, la, ga, ga) BY <1>10 DEF AllSeqs
    <3> QED BY <2>1, <3>1, FourEndToEnd
  <2>3. Asked(n) \subseteq {"spec"} BY <1>18 DEF Asked, Direct
  <2> QED BY <1>11, <1>12, <2>2, <2>3
<1> HIDE DEF kind
<1> QED BY <1>1, <1>3, <1>13, <1>14, <1>15, <1>16, <1>17, <1>18

\* What an export asks for depends on the parameter alone.
LEMMA SameExporting ==
    ASSUME NEW m, NEW n, NEW kept \in BOOLEAN, m.i = n.i
    PROVE  Exporting(m, kept) = Exporting(n, kept)
<1>1. Par(m) = Par(n) BY DEF Par
<1>2. Tp(m) = Tp(n) /\ TpGroup(m) = TpGroup(n) BY <1>1 DEF Tp, TpGroup
<1>3. Gather(m) = Gather(n) BY <1>1, <1>2 DEF Gather
<1>4. ExpertCalls(m, kept) = ExpertCalls(n, kept) BY <1>1 DEF ExpertCalls
<1> QED BY <1>1, <1>3, <1>4 DEF Exporting

LEMMA ExportCallsAre ==
    ASSUME JobFacts, NEW r \in Ranks, NEW n \in Names(r), NEW kept \in BOOLEAN,
           <<n, "layout">> \notin known[r],
           job.pp > 1 /\ kept => \A what \in Asked(n) : <<n, what>> \in known[r],
           job.pp > 1 /\ ~kept => \A what \in Asked(n) : <<n, what>> \notin known[r]
    PROVE  ExportCalls(r, n) = Exporting(n, kept)
<1>1. Par(n) \in Param /\ n.i \in DOMAIN job.params /\ Par(n).stage \in 0 .. job.pp - 1 BY NamesAre
<1>2. PICK p \in Nat \ {0} : p = job.pp BY DEF JobFacts
<1>3. \A what \in Asked(n) \cap Cached : Ask(r, n, what) = Inquiry(what, kept)
  <2> SUFFICES ASSUME NEW what \in Asked(n) \cap Cached PROVE Ask(r, n, what) = Inquiry(what, kept) OBVIOUS
  <2>1. CASE job.pp = 1 BY <2>1 DEF Ask, Inquiry
  <2>2. CASE job.pp > 1 /\ kept
    <3>1. <<n, what>> \in known[r] BY <2>2
    <3> QED BY <2>2, <3>1 DEF Ask, Inquiry
  <2>3. CASE job.pp > 1 /\ ~kept
    <3>1. <<n, what>> \notin known[r] /\ job.pp # 1 BY <2>3
    <3> QED BY <2>3, <3>1 DEF Ask, Inquiry
  <2>4. job.pp = 1 \/ job.pp > 1 BY <1>2
  <2> QED BY <2>1, <2>2, <2>3, <2>4
<1>4. Ask(r, n, "layout") = Inquiry("layout", kept)
  <2>1. "layout" \notin Cached BY DEF Cached
  <2> QED BY <2>1 DEF Ask, Inquiry
<1>5. Fetch(r, n) = Broadcast(kept)
  <2>1. "spec" \in Asked(n) BY DEF Asked
  <2>2. CASE job.pp = 1 BY <2>2 DEF Fetch, Broadcast
  <2>3. CASE job.pp > 1 /\ kept
    <3>1. <<n, "spec">> \in known[r] /\ job.pp # 1 BY <2>1, <2>3
    <3> QED BY <2>3, <3>1 DEF Fetch, Broadcast
  <2>4. CASE job.pp > 1 /\ ~kept
    <3>1. <<n, "spec">> \notin known[r] /\ job.pp # 1 BY <2>1, <2>4
    <3> QED BY <2>4, <3>1 DEF Fetch, Broadcast
  <2>5. job.pp = 1 \/ job.pp > 1 BY <1>2
  <2> QED BY <2>2, <2>3, <2>4, <2>5
<1>6. Par(n).kind \in Direct \cup {"qkv", "concat", "kv", "gdn"} => Ask(r, n, "type") = Inquiry("type", kept)
  <2>1. Par(n).kind \in Direct \cup {"qkv", "concat", "kv", "gdn"} => "type" \in Asked(n) \cap Cached
        BY DEF Asked, Cached
  <2> QED BY <1>3, <2>1
<1>7. Par(n).kind \in {"qkv", "concat", "kv"} => Ask(r, n, "config") = Inquiry("config", kept)
  <2>1. Par(n).kind \in {"qkv", "concat", "kv"} => "config" \in Asked(n) \cap Cached BY DEF Asked, Cached
  <2> QED BY <1>3, <2>1
<1>8. Par(n).kind \in Direct \cup {"gated"} => Experts(r, n) = ExpertCalls(n, kept)
  <2> SUFFICES ASSUME Par(n).kind \in Direct \cup {"gated"} PROVE Experts(r, n) = ExpertCalls(n, kept) OBVIOUS
  <2>1. Par(n).expert # "no" => "experts" \in Asked(n) \cap Cached BY DEF Asked, Cached
  <2>2. Par(n).expert # "no" => Ask(r, n, "experts") = Inquiry("experts", kept) BY <1>3, <2>1
  <2> QED BY <2>2 DEF Experts, ExpertCalls
<1>9. job.pp = 1 /\ ~Owns(r, n) <=> job.pp = 1 /\ n.i \in job.missing
  <2>1. Stage(r) \in 0 .. job.pp - 1 BY RankParts
  <2>2. job.pp = 1 => Stage(r) = Par(n).stage BY <1>1, <2>1
  <2> QED BY <2>2 DEF Owns
<1>10. CASE job.pp = 1 /\ n.i \in job.missing BY <1>9, <1>10 DEF ExportCalls, Exporting
<1>11. CASE ~(job.pp = 1 /\ n.i \in job.missing)
  <2>1. ~(job.pp = 1 /\ ~Owns(r, n)) BY <1>9, <1>11
  <2>2. Par(n).kind \in Direct \cup {"qkv", "concat", "kv", "gdn", "gated", "chunked"} BY <1>1 DEF Param, Kinds
  <2>3. CASE Par(n).kind \in Direct
        BY <1>5, <1>6, <1>8, <1>11, <2>1, <2>3 DEF ExportCalls, Exporting, Direct
  <2>4. CASE Par(n).kind \in {"qkv", "concat", "kv"}
        BY <1>5, <1>6, <1>7, <1>11, <2>1, <2>4 DEF ExportCalls, Exporting, Direct
  <2>5. CASE Par(n).kind = "gdn"
        BY <1>4, <1>5, <1>6, <1>11, <2>1, <2>5 DEF ExportCalls, Exporting, Direct
  <2>6. CASE Par(n).kind = "gated"
        BY <1>5, <1>8, <1>11, <2>1, <2>6 DEF ExportCalls, Exporting, Direct
  <2>7. CASE Par(n).kind = "chunked"
        BY <1>4, <1>5, <1>11, <2>1, <2>7 DEF ExportCalls, Exporting, Direct
  <2> QED BY <2>2, <2>3, <2>4, <2>5, <2>6, <2>7
<1> QED BY <1>10, <1>11

\* The calls of a program, by where in it they are made.
Fits(r, p, a, c) ==
    \/ a = 0 /\ c = Call("pp", "names", "")
    \/ a \in 1 .. Size /\ job.plan[p].dir = "export" /\ c \in ExportCall
    \/ /\ a \in 1 .. Size /\ job.plan[p].dir = "import" /\ Owns(r, TaskList(r)[a])
       /\ c \in [group : {"tp", "etp"}, op : {"scatter", "bcast"}, what : {""}]
    \/ /\ a = Size + 1 /\ job.plan[p].dir = "import" /\ Stage(r) \in {0, job.pp - 1}
       /\ c = Call("embd", "embedding", "")

AnyCall == [group : {"pp", "tp", "etp", "ep", "embd"},
            op : PipelineOps \cup {"names", "part", "rows", "expert", "scatter", "bcast", "embedding"},
            what : Objects \cup {"", "gate", "up", "weight"}]

LEMMA Programs ==
    ASSUME JobFacts, NEW r \in Ranks, NEW p \in DOMAIN job.plan, NEW a \in 0 .. Size + 1
    PROVE  /\ job.plan[p].dir \in {"import", "export"} /\ Kept(p) \in BOOLEAN
           /\ Program(r, p, a) \in Seq(AnyCall)
           /\ \A x \in 1 .. Len(Program(r, p, a)) : Fits(r, p, a, Program(r, p, a)[x])
<1>1. job.plan[p] \in [dir : {"import", "export"}, fresh : BOOLEAN]
  <2>1. PICK T : T = [dir : {"import", "export"}, fresh : BOOLEAN] OBVIOUS
  <2>2. job.plan \in Seq(T) BY <2>1 DEF JobFacts
  <2>3. job.plan[p] \in T BY <2>2
  <2> QED BY <2>1, <2>3
<1>2. job.plan[p].dir \in {"import", "export"} /\ Kept(p) \in BOOLEAN BY <1>1 DEF Kept
<1>3. Size \in Nat \ {0} BY SameTasks
<1>4. CASE a = 0
  <2> DEFINE c == Call("pp", "names", "")
  <2>1. c \in AnyCall BY DEF AnyCall, Call
  <2>2. Program(r, p, a) = IF job.plan[p].fresh THEN <<c>> ELSE <<>> BY <1>4 DEF Program, Opening
  <2>3. Fits(r, p, a, c) BY <1>4 DEF Fits
  <2> HIDE DEF c
  <2>4. /\ <<c>> \in Seq(AnyCall) /\ <<>> \in Seq(AnyCall) /\ Len(<<c>>) = 1 /\ <<c>>[1] = c /\ Len(<<>>) = 0
        BY <2>1
  <2> QED BY <1>2, <2>2, <2>3, <2>4
<1>5. CASE a \in 1 .. Size /\ job.plan[p].dir = "export"
  <2> DEFINE n == TaskList(r)[a]
  <2>1. Par(n) \in Param
    <3>1. n \in Names(r) BY <1>5, SameTasks
    <3> QED BY <3>1, NamesAre
  <2>2. PICK s : s = Exporting(n, Kept(p)) OBVIOUS
  <2>3. s \in Seq(ExportCall) BY <1>2, <2>1, <2>2, ExportingFacts DEF JobFacts
  <2>4. Program(r, p, a) = s BY <1>5, <2>2 DEF Program
  <2>5. ExportCall \subseteq AnyCall BY DEF ExportCall, AnyCall
  <2>6. s \in Seq(AnyCall) BY <2>3, <2>5
  <2>7. \A x \in 1 .. Len(s) : s[x] \in ExportCall BY <2>3
  <2>8. \A x \in 1 .. Len(s) : Fits(r, p, a, s[x]) BY <1>5, <2>7 DEF Fits
  <2> QED BY <1>2, <2>4, <2>6, <2>8
<1>6. CASE a \in 1 .. Size /\ job.plan[p].dir = "import"
  <2> DEFINE n == TaskList(r)[a]
             c == Call(TpGroup(n), IF Par(n).kind = "replicated" THEN "bcast" ELSE "scatter", "")
  <2>1. c \in [group : {"tp", "etp"}, op : {"scatter", "bcast"}, what : {""}] BY DEF Call, TpGroup
  <2>2. Program(r, p, a) = IF ~Owns(r, n) \/ Tp(n) = 1 THEN <<>> ELSE <<c>>
    <3>1. a # 0 BY <1>6
    <3> QED BY <1>6, <3>1 DEF Program, ImportCalls
  <2>3. Owns(r, n) => Fits(r, p, a, c) BY <1>6, <2>1 DEF Fits
  <2>4. c \in AnyCall BY <2>1 DEF AnyCall
  <2> HIDE DEF c
  <2>5. /\ <<c>> \in Seq(AnyCall) /\ <<>> \in Seq(AnyCall) /\ Len(<<c>>) = 1 /\ <<c>>[1] = c /\ Len(<<>>) = 0
        BY <2>4
  <2> QED BY <1>2, <2>2, <2>3, <2>5
<1>7. CASE a = Size + 1
  <2> DEFINE c == Call("embd", "embedding", "")
  <2>1. c \in AnyCall BY DEF AnyCall, Call
  <2>2. a # 0 /\ a \notin 1 .. Size BY <1>3, <1>7
  <2>3. Program(r, p, a) = IF job.plan[p].dir = "import" /\ job.tied /\ job.pp > 1 /\ Stage(r) \in {0, job.pp - 1}
                           THEN <<c>> ELSE <<>>
        BY <2>2 DEF Program, ClosingCalls
  <2>4. job.plan[p].dir = "import" /\ Stage(r) \in {0, job.pp - 1} => Fits(r, p, a, c) BY <1>7 DEF Fits
  <2> HIDE DEF c
  <2>5. /\ <<c>> \in Seq(AnyCall) /\ <<>> \in Seq(AnyCall) /\ Len(<<c>>) = 1 /\ <<c>>[1] = c /\ Len(<<>>) = 0
        BY <2>1
  <2> QED BY <1>2, <2>3, <2>4, <2>5
<1>8. a = 0 \/ a \in 1 .. Size \/ a = Size + 1 BY <1>3
<1> QED BY <1>2, <1>4, <1>5, <1>6, <1>7, <1>8

LEMMA CallsInGroups ==
    ASSUME JobFacts, NEW r \in Ranks, NEW p \in DOMAIN job.plan, NEW a \in 0 .. Size + 1,
           NEW y \in 1 .. Len(Program(r, p, a))
    PROVE  FromEnd(Program(r, p, a), y).group \in {"pp", "tp", "etp", "ep", "embd"}
<1>1. PICK s : s = Program(r, p, a) OBVIOUS
<1>2. PICK S : S = AnyCall OBVIOUS
<1>3. s \in Seq(S) BY <1>1, <1>2, Programs
<1>4. PICK l \in Nat : l = Len(s) BY <1>3
<1>5. l - y + 1 \in 1 .. l BY <1>1, <1>4
<1>6. FromEnd(s, y) \in S BY <1>3, <1>4, <1>5 DEF FromEnd
<1> QED BY <1>1, <1>2, <1>6 DEF AnyCall

\* All of a group make a call at the same place of one program.
LEMMA SameProgram ==
    ASSUME JobFacts, NEW r \in Ranks, NEW p \in DOMAIN job.plan, NEW a \in 0 .. Size + 1,
           NEW x \in 1 .. Len(Program(r, p, a)), NEW m \in Members(r, Program(r, p, a)[x].group)
    PROVE  /\ m \in Ranks /\ Program(m, p, a) = Program(r, p, a)
           /\ r \in Members(r, Program(r, p, a)[x].group) /\ r \in Members(m, Program(r, p, a)[x].group)
           /\ Members(m, Program(r, p, a)[x].group) = Members(r, Program(r, p, a)[x].group)
<1> PICK c : c = Program(r, p, a)[x] OBVIOUS
<1>1. Fits(r, p, a, c) /\ Program(r, p, a) \in Seq(AnyCall) BY Programs
<1>2. c.group \in {"pp", "tp", "etp", "ep", "embd"}
  <2>1. c \in AnyCall BY <1>1
  <2> QED BY <2>1 DEF AnyCall
<1>3. Size \in Nat \ {0} BY SameTasks
<1>9. /\ c \in ExportCall => c.group \in {"pp", "tp", "etp", "ep"}
      /\ c = Call("pp", "names", "") => c.group = "pp"
      /\ c = Call("embd", "embedding", "") => c.group = "embd"
  <2>1. c \in ExportCall => c.group \in {"pp", "tp", "etp", "ep"} BY DEF ExportCall
  <2>2. /\ Call("pp", "names", "").group = "pp"
        /\ Call("embd", "embedding", "").group = "embd"
        BY DEF Call
  <2> QED BY <2>1, <2>2
<1>4. c.group = "embd" => Stage(r) \in {0, job.pp - 1} BY <1>1, <1>9 DEF Fits
<1>5. r \in Members(r, c.group) BY <1>2, <1>4, InOwnGroup
<1>6. m \in Ranks /\ Members(m, c.group) = Members(r, c.group) BY <1>2, <1>5, OneGroup
<1>7. \A k \in 1 .. Size : TaskList(m)[k].i = TaskList(r)[k].i
  <2>1. \A n : Shifted(r, m, n).i = n.i BY DEF Shifted
  <2> QED BY <1>6, <2>1, SameTasks
<1>8. Program(m, p, a) = Program(r, p, a)
  <2>1. CASE a = 0 BY <2>1 DEF Program
  <2>2. CASE a \in 1 .. Size /\ job.plan[p].dir = "export"
    <3>1. a # 0 /\ Kept(p) \in BOOLEAN BY <2>2, Programs
    <3>2. Exporting(TaskList(m)[a], Kept(p)) = Exporting(TaskList(r)[a], Kept(p)) BY <1>7, <2>2, <3>1, SameExporting
    <3> QED BY <2>2, <3>1, <3>2 DEF Program
  <2>3. CASE a \in 1 .. Size /\ job.plan[p].dir = "import"
    <3>1. a # 0 /\ c.group \in {"tp", "etp"}
      <4>1. a # 0 /\ a # Size + 1 BY <1>3, <2>3
      <4> QED BY <1>1, <2>3, <4>1 DEF Fits
    <3>2. Stage(m) = Stage(r) BY <1>2, <3>1, OneGroup
    <3>3. TaskList(m)[a].i = TaskList(r)[a].i BY <1>7, <2>3
    <3>4. ImportCalls(m, TaskList(m)[a]) = ImportCalls(r, TaskList(r)[a])
          BY <3>2, <3>3 DEF ImportCalls, Owns, Par, Tp, TpGroup
    <3> QED BY <2>3, <3>1, <3>4 DEF Program
  <2>4. CASE a = Size + 1
    <3>1. a # 0 /\ a \notin 1 .. Size BY <1>3, <2>4
    <3>2. job.plan[p].dir = "import" /\ c.group = "embd" BY <1>1, <1>9, <3>1 DEF Fits
    <3>3. Stage(m) \in {0, job.pp - 1} /\ Stage(r) \in {0, job.pp - 1} BY <1>4, <3>2, OneGroup
    <3>4. ClosingCalls(m) = ClosingCalls(r) BY <3>3 DEF ClosingCalls
    <3> QED BY <3>1, <3>2, <3>4 DEF Program
  <2>5. a = 0 \/ a \in 1 .. Size \/ a = Size + 1 BY <1>3
  <2>6. job.plan[p].dir \in {"import", "export"} BY Programs
  <2> QED BY <2>1, <2>2, <2>3, <2>4, <2>5, <2>6
<1> QED BY <1>5, <1>6, <1>8

-----------------------------------------------------------------------------
(* The conversion does not change while it runs, and nor does anything     *)
(* written down from it alone.                                             *)

LEMMA GridStays ==
    ASSUME job' = job
    PROVE  /\ Ranks' = Ranks /\ PerRank' = PerRank /\ Listed' = Listed
           /\ \A r : Slot(r)' = Slot(r) /\ Stage(r)' = Stage(r) /\ Ep(r)' = Ep(r)
           /\ \A n : Par(n)' = Par(n) /\ Tp(n)' = Tp(n) /\ TpGroup(n)' = TpGroup(n) /\ (Uneven(n)' <=> Uneven(n))
           /\ \A r, n : TpRank(r, n)' = TpRank(r, n) /\ (Owns(r, n)' <=> Owns(r, n))
           /\ \A r : \A g \in {"pp", "tp", "etp", "ep", "embd"} : Members(r, g)' = Members(r, g)
           /\ \A p : Opening(p)' = Opening(p) /\ (Kept(p)' <=> Kept(p))
           /\ \A n : Asked(n)' = Asked(n)
           /\ (Convertible' <=> Convertible)
<1>1. Ranks' = Ranks /\ PerRank' = PerRank /\ Listed' = Listed BY DEF Ranks, PerRank, Listed
<1>2. \A r : Slot(r)' = Slot(r) /\ Stage(r)' = Stage(r) BY DEF Slot, Stage
<1>3. \A r : Ep(r)' = Ep(r) BY <1>2 DEF Ep
<1>4. \A n : Par(n)' = Par(n) BY DEF Par
<1>5. \A n : Tp(n)' = Tp(n) /\ TpGroup(n)' = TpGroup(n) BY <1>4 DEF Tp, TpGroup
<1>6. \A r, n : TpRank(r, n)' = TpRank(r, n) BY <1>2, <1>5 DEF TpRank
<1>7. \A r, n : Owns(r, n)' <=> Owns(r, n) BY <1>2, <1>4 DEF Owns
<1>8. \A n : Uneven(n)' <=> Uneven(n) BY <1>4, <1>5 DEF Uneven
<1>9. ASSUME NEW r, NEW g \in {"pp", "tp", "etp", "ep", "embd"} PROVE Members(r, g)' = Members(r, g)
  <2>1. CASE g = "pp" BY <1>1, <1>2, <2>1 DEF Members
  <2>2. CASE g = "tp" BY <1>1, <1>2, <2>2 DEF Members
  <2>3. CASE g = "etp" BY <1>1, <1>2, <2>3 DEF Members
  <2>4. CASE g = "ep" BY <1>1, <1>2, <2>4 DEF Members
  <2>5. CASE g = "embd" BY <1>1, <1>2, <2>5 DEF Members
  <2> QED BY <2>1, <2>2, <2>3, <2>4, <2>5
<1>10. \A p : Opening(p)' = Opening(p) /\ (Kept(p)' <=> Kept(p)) BY DEF Opening, Kept
<1>11. \A n : Asked(n)' = Asked(n) BY <1>4 DEF Asked
<1>12. Convertible' <=> Convertible BY <1>1, <1>8 DEF Convertible, Directions
<1> QED BY <1>1, <1>2, <1>3, <1>4, <1>5, <1>6, <1>7, <1>8, <1>9, <1>10, <1>11, <1>12

LEMMA SortedStays ==
    ASSUME NEW W, \A m, n : Before(m, n)' <=> Before(m, n)
    PROVE  Sorted(W)' = Sorted(W)
<1> DEFINE C(k) == CHOOSE n \in W : Cardinality({m \in W : Before(m, n)}) = k - 1
<1>1. \A n \in W : {m \in W : Before(m, n)}' = {m \in W : Before(m, n)} OBVIOUS
<1>2. \A k : C(k)' = C(k) BY <1>1
<1>3. Sorted(W) = [k \in 1 .. Cardinality(W) |-> C(k)] BY DEF Sorted
<1>4. Sorted(W)' = [k \in 1 .. Cardinality(W) |-> C(k)'] BY DEF Sorted
<1> HIDE DEF C
<1> QED BY <1>2, <1>3, <1>4

LEMMA ListsStay ==
    ASSUME job' = job
    PROVE  Size' = Size /\ \A r : Names(r)' = Names(r) /\ TaskList(r)' = TaskList(r)
<1>1. PerRank' = PerRank /\ Listed' = Listed /\ (\A r : Ep(r)' = Ep(r)) /\ (\A n : Par(n)' = Par(n)) BY GridStays
<1>2. \A p, r : Numbers(p, r)' = Numbers(p, r) BY <1>1 DEF Numbers
<1>3. \A r : Names(r)' = Names(r) BY <1>1, <1>2 DEF Names
<1>4. \A n : SortKey(n)' = SortKey(n) BY <1>1 DEF SortKey
<1>5. \A m, n : Before(m, n)' <=> Before(m, n) BY <1>4 DEF Before
<1>6. \A W : Sorted(W)' = Sorted(W) BY <1>5, SortedStays
<1>7. \A r : TaskList(r)' = TaskList(r) BY <1>3, <1>6 DEF TaskList
<1>8. Size' = Size BY <1>3 DEF Size
<1> QED BY <1>3, <1>7, <1>8

LEMMA ProgramsStay ==
    ASSUME job' = job
    PROVE  \A r, p, a : Program(r, p, a)' = Program(r, p, a)
<1>1. /\ \A n : Par(n)' = Par(n) /\ Tp(n)' = Tp(n) /\ TpGroup(n)' = TpGroup(n)
      /\ \A r, n : Owns(r, n)' <=> Owns(r, n)
      /\ \A p : Opening(p)' = Opening(p) /\ (Kept(p)' <=> Kept(p))
      /\ \A r : Stage(r)' = Stage(r)
      BY GridStays
<1>2. Size' = Size /\ \A r : TaskList(r)' = TaskList(r) BY ListsStay
<1>3. \A what, kept : Inquiry(what, kept)' = Inquiry(what, kept) BY DEF Inquiry
<1>4. \A kept : Broadcast(kept)' = Broadcast(kept) BY DEF Broadcast
<1>5. \A n : Gather(n)' = Gather(n) BY <1>1 DEF Gather
<1>6. \A n, kept : ExpertCalls(n, kept)' = ExpertCalls(n, kept) BY <1>1, <1>3 DEF ExpertCalls
<1>7. ASSUME NEW n, NEW kept \in BOOLEAN PROVE Exporting(n, kept)' = Exporting(n, kept)
  <2>1. /\ Inquiry("type", kept)' = Inquiry("type", kept) /\ Inquiry("config", kept)' = Inquiry("config", kept)
        /\ Inquiry("layout", kept)' = Inquiry("layout", kept) /\ Broadcast(kept)' = Broadcast(kept)
        /\ Gather(n)' = Gather(n) /\ ExpertCalls(n, kept)' = ExpertCalls(n, kept) /\ Par(n)' = Par(n)
        BY <1>1, <1>3, <1>4, <1>5, <1>6
  <2>2. PICK v : v = Par(n).kind OBVIOUS
  <2>3. CASE job.pp = 1 /\ n.i \in job.missing BY <2>3 DEF Exporting
  <2>4. CASE ~(job.pp = 1 /\ n.i \in job.missing) /\ v \in Direct
        BY <2>1, <2>2, <2>4 DEF Exporting, Direct
  <2>5. CASE ~(job.pp = 1 /\ n.i \in job.missing) /\ v \in {"qkv", "concat", "kv"}
        BY <2>1, <2>2, <2>5 DEF Exporting, Direct
  <2>6. CASE ~(job.pp = 1 /\ n.i \in job.missing) /\ v = "gdn" BY <2>1, <2>2, <2>6 DEF Exporting, Direct
  <2>7. CASE ~(job.pp = 1 /\ n.i \in job.missing) /\ v = "gated" BY <2>1, <2>2, <2>7 DEF Exporting, Direct
  <2>8. CASE ~(job.pp = 1 /\ n.i \in job.missing) /\ v \notin Direct \cup {"qkv", "concat", "kv", "gdn", "gated"}
        BY <2>1, <2>2, <2>8 DEF Exporting, Direct
  <2> QED BY <2>3, <2>4, <2>5, <2>6, <2>7, <2>8
<1>8. \A r, n : ImportCalls(r, n)' = ImportCalls(r, n) BY <1>1 DEF ImportCalls
<1>9. \A r : ClosingCalls(r)' = ClosingCalls(r) BY <1>1 DEF ClosingCalls
<1>10. \A p : Opening(p)' = Opening(p) BY <1>1
<1>11. ASSUME NEW r, NEW p, NEW a PROVE Program(r, p, a)' = Program(r, p, a)
  <2>1. PICK kept \in BOOLEAN : kept = Kept(p) BY DEF Kept
  <2>2. Exporting(TaskList(r)[a], Kept(p))' = Exporting(TaskList(r)[a], Kept(p))
    <3>1. Kept(p)' = kept BY <2>1 DEF Kept
    <3>2. PICK n : n = TaskList(r)[a] OBVIOUS
    <3>3. (TaskList(r)[a])' = n BY <1>2, <3>2
    <3> QED BY <1>7, <2>1, <3>1, <3>2, <3>3
  <2>3. ImportCalls(r, TaskList(r)[a])' = ImportCalls(r, TaskList(r)[a]) BY <1>2, <1>8
  <2> QED BY <1>2, <1>9, <1>10, <2>2, <2>3 DEF Program
<1> QED BY <1>11

-----------------------------------------------------------------------------
(* Ranks at one call are at the same place of the same program.            *)

LEMMA MergedFacts ==
    ASSUME NEW f, NEW g, DOMAIN f \subseteq DOMAIN g
    PROVE  /\ DOMAIN Merged(f, g) = DOMAIN g
           /\ \A x \in DOMAIN g : Merged(f, g)[x] = IF x \in DOMAIN f THEN f[x] ELSE g[x]
           /\ Merged(f, g) = [x \in DOMAIN g |-> Merged(f, g)[x]]
BY DEF Merged

LEMMA FromEndFacts ==
    ASSUME NEW S, NEW s \in Seq(S), s # <<>>
    PROVE  /\ Head(s) = FromEnd(s, Len(s)) /\ Len(s) \in Nat \ {0} /\ Len(Tail(s)) = Len(s) - 1 /\ Tail(s) \in Seq(S)
           /\ \A y \in 1 .. Len(s) - 1 : FromEnd(Tail(s), y) = FromEnd(s, y)
           /\ Range(s) = {Head(s)} \cup Range(Tail(s))
<1>1. PICK l \in Nat \ {0} : l = Len(s) OBVIOUS
<1>2. PICK t \in Seq(S) : t = Tail(s) BY HeadTailProperties
<1>3. Len(t) = l - 1 /\ \A x \in 1 .. l - 1 : t[x] = s[x + 1] BY <1>1, <1>2
<1>4. Head(s) = s[1] /\ l - l + 1 = 1 OBVIOUS
<1>5. ASSUME NEW y \in 1 .. l - 1 PROVE FromEnd(t, y) = FromEnd(s, y)
  <2>1. (l - 1) - y + 1 \in 1 .. l - 1 /\ ((l - 1) - y + 1) + 1 = l - y + 1 OBVIOUS
  <2>2. t[(l - 1) - y + 1] = s[l - y + 1] BY <1>3, <2>1
  <2> QED BY <1>1, <1>3, <2>2 DEF FromEnd
<1>6. Range(s) = {Head(s)} \cup Range(t)
  <2>1. DOMAIN s = 1 .. l /\ DOMAIN t = 1 .. l - 1 BY <1>1, <1>3
  <2>2. ASSUME NEW c \in Range(s) PROVE c = Head(s) \/ c \in Range(t)
    <3>1. PICK x \in 1 .. l : s[x] = c BY <2>1 DEF Range
    <3>2. CASE x = 1 BY <1>4, <3>1, <3>2
    <3>3. CASE x # 1
      <4>1. x - 1 \in 1 .. l - 1 /\ (x - 1) + 1 = x BY <3>3
      <4>2. t[x - 1] = c BY <1>3, <3>1, <4>1
      <4> QED BY <2>1, <4>1, <4>2 DEF Range
    <3> QED BY <3>2, <3>3
  <2>3. Head(s) \in Range(s) BY <1>1, <1>4, <2>1 DEF Range
  <2>4. ASSUME NEW c \in Range(t) PROVE c \in Range(s)
    <3>1. PICK x \in 1 .. l - 1 : t[x] = c BY <2>1 DEF Range
    <3>2. x + 1 \in 1 .. l /\ s[x + 1] = c BY <1>3, <3>1
    <3> QED BY <2>1, <3>2 DEF Range
  <2> QED BY <2>2, <2>3, <2>4
<1> QED BY <1>1, <1>2, <1>3, <1>4, <1>5, <1>6 DEF FromEnd

\* The call a rank is to make next.
LEMMA Pending ==
    ASSUME JobFacts, Shapes, Follows, NEW r \in Ranks, todo[r] # <<>>
    PROVE  /\ phase[r] \in DOMAIN job.plan /\ at[r] \in 0 .. Size + 1
           /\ Len(todo[r]) \in 1 .. Len(Program(r, phase[r], at[r]))
           /\ Head(todo[r]) = FromEnd(Program(r, phase[r], at[r]), Len(todo[r]))
           /\ Fits(r, phase[r], at[r], Head(todo[r]))
           /\ Left(r, phase[r], at[r], Len(todo[r]))
<1>1. phase[r] \in DOMAIN job.plan /\ at[r] \in 0 .. Size + 1 BY DEF Shapes
<1>2. PICK s : s = Program(r, phase[r], at[r]) OBVIOUS
<1>3. s \in Seq(AnyCall) /\ \A x \in 1 .. Len(s) : Fits(r, phase[r], at[r], s[x]) BY <1>1, <1>2, Programs
<1>4. PICK l \in Nat : l = Len(s) BY <1>3
<1>5. PICK t : t = todo[r] OBVIOUS
<1>6. /\ Len(t) \in 0 .. l /\ t \in Seq(Range(s)) /\ t # <<>>
      /\ \A y \in 1 .. Len(t) : FromEnd(t, y) = FromEnd(s, y)
      BY <1>2, <1>4, <1>5 DEF Follows
<1>7. PICK y \in 1 .. l : y = Len(t) BY <1>6
<1>8. Head(t) = FromEnd(t, y) BY <1>6, <1>7, FromEndFacts
<1>9. Head(t) = FromEnd(s, y) BY <1>6, <1>7, <1>8
<1>10. l - y + 1 \in 1 .. l OBVIOUS
<1>11. Fits(r, phase[r], at[r], Head(t)) BY <1>3, <1>4, <1>9, <1>10 DEF FromEnd
<1>12. Left(r, phase[r], at[r], y) BY <1>5, <1>7 DEF Left
<1> QED BY <1>1, <1>2, <1>4, <1>5, <1>7, <1>9, <1>11, <1>12

LEMMA OwnGroup ==
    ASSUME JobFacts, Shapes, Follows, NEW r \in Ranks, todo[r] # <<>>
    PROVE  r \in Group(r)
<1>1. Fits(r, phase[r], at[r], Head(todo[r])) BY Pending
<1>2. /\ Head(todo[r]) \in ExportCall => Head(todo[r]).group \in {"pp", "tp", "etp", "ep"}
      /\ Call("pp", "names", "").group = "pp"
      /\ Call("embd", "embedding", "").group = "embd"
      BY DEF ExportCall, Call
<1>3. Head(todo[r]).group = "embd" => Stage(r) \in {0, job.pp - 1} BY <1>1, <1>2 DEF Fits
<1>4. Head(todo[r]).group \in {"pp", "tp", "etp", "ep", "embd"} BY <1>1, <1>2 DEF Fits
<1> QED BY <1>3, <1>4, InOwnGroup DEF Group

\* Members of a group share the place of a call in their programs.
LEMMA SharedCall ==
    ASSUME JobFacts, NEW r \in Ranks, NEW p \in DOMAIN job.plan, NEW a \in 0 .. Size + 1,
           NEW y \in 1 .. Len(Program(r, p, a)), NEW m \in Members(r, FromEnd(Program(r, p, a), y).group)
    PROVE  /\ m \in Ranks /\ Program(m, p, a) = Program(r, p, a)
           /\ r \in Members(r, FromEnd(Program(r, p, a), y).group) /\ r \in Members(m, FromEnd(Program(r, p, a), y).group)
           /\ Members(m, FromEnd(Program(r, p, a), y).group) = Members(r, FromEnd(Program(r, p, a), y).group)
<1>1. PICK s : s = Program(r, p, a) OBVIOUS
<1>2. s \in Seq(AnyCall) BY <1>1, Programs
<1>3. PICK l \in Nat : l = Len(s) BY <1>2
<1>4. PICK x \in 1 .. l : x = l - y + 1
  <2>1. y \in 1 .. l BY <1>1, <1>3
  <2>2. l - y + 1 \in 1 .. l BY <2>1
  <2> QED BY <2>2
<1>5. FromEnd(Program(r, p, a), y) = Program(r, p, a)[x] BY <1>1, <1>3, <1>4 DEF FromEnd
<1>6. x \in 1 .. Len(Program(r, p, a)) BY <1>1, <1>3
<1> QED BY <1>5, <1>6, SameProgram, SMTT(30)

LEMMA AtOneCall ==
    ASSUME JobFacts, Shapes, Follows, InStep, NEW r \in Ranks, NEW m \in Group(r),
           todo[r] # <<>>, todo[m] # <<>>, Head(todo[m]) = Head(todo[r])
    PROVE  /\ m \in Ranks /\ r \in Group(r) /\ r \in Group(m) /\ Group(m) = Group(r)
           /\ phase[m] = phase[r] /\ at[m] = at[r] /\ Len(todo[m]) = Len(todo[r])
           /\ Program(m, phase[r], at[r]) = Program(r, phase[r], at[r])
<1>1. PICK c : c = Head(todo[r]) OBVIOUS
<1>2. PICK y : y = Len(todo[r]) OBVIOUS
<1>3. PICK p : p = phase[r] OBVIOUS
<1>4. PICK a : a = at[r] OBVIOUS
<1>5. /\ p \in DOMAIN job.plan /\ a \in 0 .. Size + 1 /\ y \in 1 .. Len(Program(r, p, a))
      /\ c = FromEnd(Program(r, p, a), y) /\ Left(r, p, a, y)
      BY <1>1, <1>2, <1>3, <1>4, Pending
<1>6. m \in Members(r, FromEnd(Program(r, p, a), y).group) BY <1>1, <1>5 DEF Group
<1>7. /\ m \in Ranks /\ Program(m, p, a) = Program(r, p, a)
      /\ r \in Members(r, c.group) /\ r \in Members(m, c.group) /\ Members(m, c.group) = Members(r, c.group)
      BY <1>5, <1>6, SharedCall
<1>8. Left(m, p, a, y) BY <1>5, <1>6, <1>7 DEF InStep
<1>9. PICK z : z = Len(todo[m]) OBVIOUS
<1>10. PICK q : q = phase[m] OBVIOUS
<1>11. PICK b : b = at[m] OBVIOUS
<1>12. /\ q \in DOMAIN job.plan /\ b \in 0 .. Size + 1 /\ z \in 1 .. Len(Program(m, q, b))
       /\ c = FromEnd(Program(m, q, b), z) /\ Left(m, q, b, z)
       BY <1>1, <1>7, <1>9, <1>10, <1>11, Pending
<1>13. r \in Members(m, FromEnd(Program(m, q, b), z).group) BY <1>7, <1>12
<1>14. Left(r, q, b, z) BY <1>7, <1>12, <1>13 DEF InStep
<1>15. p \in Nat /\ q \in Nat
  <2>1. DOMAIN job.plan = 1 .. Len(job.plan) BY DEF JobFacts
  <2> QED BY <1>5, <1>12, <2>1
<1>16. a \in Nat /\ b \in Nat /\ y \in Nat /\ z \in Nat
  <2>1. Size \in Nat BY SameTasks
  <2>2. Len(Program(r, p, a)) \in Nat BY <1>5, Programs
  <2>3. Len(Program(m, q, b)) \in Nat BY <1>7, <1>12, Programs
  <2> QED BY <1>5, <1>12, <2>1, <2>2, <2>3
<1>17. q < p \/ (q = p /\ (b < a \/ (b = a /\ y <= z))) BY <1>8, <1>9, <1>10, <1>11 DEF Left
<1>18. p < q \/ (p = q /\ (a < b \/ (a = b /\ z <= y))) BY <1>2, <1>3, <1>4, <1>14 DEF Left
<1>19. p = q /\ a = b /\ y = z BY <1>15, <1>16, <1>17, <1>18
<1> QED BY <1>1, <1>2, <1>3, <1>4, <1>7, <1>9, <1>10, <1>11, <1>19 DEF Group

\* A call made by all of its group leaves the ranks in step.
LEMMA CallMade ==
    ASSUME JobFacts, Shapes, Follows, InStep, NEW r \in Ranks, NEW ops, Together(r, ops), Over(Group(r)),
           job' = job, phase' = phase, at' = at
    PROVE  /\ Group(r) \subseteq Ranks /\ r \in Group(r) /\ todo' = [m \in Ranks |-> todo'[m]]
           /\ \A m \in Ranks : todo'[m] = IF m \in Group(r) THEN Tail(todo[m]) ELSE todo[m]
           /\ Follows' /\ InStep'
<1> DEFINE G == Group(r)
<1>1. \A m \in G : status[m] = "running" /\ todo[m] # <<>> /\ Head(todo[m]) = Head(todo[r]) BY DEF Together
<1>2. todo[r] # <<>> BY DEF Together
<1>3. \A m \in G : /\ m \in Ranks /\ r \in G /\ Group(m) = G
                   /\ phase[m] = phase[r] /\ at[m] = at[r] /\ Len(todo[m]) = Len(todo[r])
                   /\ Program(m, phase[r], at[r]) = Program(r, phase[r], at[r])
      BY <1>1, <1>2, AtOneCall
<1>4. G \subseteq Ranks /\ r \in G
  <2>1. r \in G BY <1>2, OwnGroup
  <2> QED BY <1>3, <2>1
<1>5. DOMAIN todo = Ranks BY DEF Shapes
<1>6. /\ todo' = [m \in Ranks |-> todo'[m]]
      /\ \A m \in Ranks : todo'[m] = IF m \in G THEN Tail(todo[m]) ELSE todo[m]
  <2> DEFINE f == [m \in G |-> Tail(todo[m])]
  <2>1. DOMAIN f = G /\ \A m \in G : f[m] = Tail(todo[m]) OBVIOUS
  <2>2. todo' = Merged(f, todo) BY DEF Over
  <2> HIDE DEF f, G
  <2>3. DOMAIN f \subseteq DOMAIN todo BY <1>4, <1>5, <2>1
  <2>4. /\ DOMAIN Merged(f, todo) = DOMAIN todo
        /\ \A x \in DOMAIN todo : Merged(f, todo)[x] = IF x \in DOMAIN f THEN f[x] ELSE todo[x]
        /\ Merged(f, todo) = [x \in DOMAIN todo |-> Merged(f, todo)[x]]
        BY ONLY <2>3, MergedFacts
  <2>5. todo' = [m \in Ranks |-> todo'[m]] BY ONLY <1>5, <2>2, <2>4
  <2>6. ASSUME NEW m \in Ranks PROVE todo'[m] = IF m \in G THEN Tail(todo[m]) ELSE todo[m]
    <3>1. Merged(f, todo)[m] = IF m \in DOMAIN f THEN f[m] ELSE todo[m] BY ONLY <1>5, <2>4, <2>6
    <3> QED BY <2>1, <2>2, <3>1
  <2> QED BY <2>5, <2>6
<1>7. Ranks' = Ranks /\ (\A m \in Ranks : \A g \in {"pp", "tp", "etp", "ep", "embd"} : Members(m, g)' = Members(m, g))
      BY GridStays
<1>8. Size' = Size /\ \A m, p, a : Program(m, p, a)' = Program(m, p, a) BY ListsStay, ProgramsStay
<1>9. \A m \in Ranks : /\ phase[m] \in DOMAIN job.plan /\ at[m] \in 0 .. Size + 1
                       /\ Program(m, phase[m], at[m]) \in Seq(AnyCall)
  <2>1. \A m \in Ranks : phase[m] \in DOMAIN job.plan /\ at[m] \in 0 .. Size + 1 BY DEF Shapes
  <2> QED BY <2>1, Programs
<1>10. ASSUME NEW m \in G
       PROVE  /\ Len(Tail(todo[m])) = Len(todo[r]) - 1 /\ Len(todo[r]) \in Nat \ {0}
              /\ Tail(todo[m]) \in Seq(Range(Program(m, phase[m], at[m])))
              /\ Len(todo[r]) <= Len(Program(m, phase[m], at[m]))
              /\ \A y \in 1 .. Len(todo[r]) - 1 : FromEnd(Tail(todo[m]), y) = FromEnd(Program(m, phase[m], at[m]), y)
  <2>1. PICK s : s = Program(m, phase[m], at[m]) OBVIOUS
  <2>2. PICK t : t = todo[m] OBVIOUS
  <2>3. /\ Len(t) \in 0 .. Len(s) /\ t \in Seq(Range(s)) /\ t # <<>> /\ s \in Seq(AnyCall)
        /\ \A y \in 1 .. Len(t) : FromEnd(t, y) = FromEnd(s, y)
        BY <1>1, <1>3, <1>9, <2>1, <2>2 DEF Follows
  <2>4. PICK l \in Nat : l = Len(s) BY <2>3
  <2>5. PICK k \in Nat \ {0} : k = Len(t) /\ k <= l BY <2>3, <2>4
  <2>6. /\ Len(Tail(t)) = k - 1 /\ Tail(t) \in Seq(Range(s))
        /\ \A y \in 1 .. k - 1 : FromEnd(Tail(t), y) = FromEnd(t, y)
        BY <2>3, <2>5, FromEndFacts
  <2>7. \A y \in 1 .. k - 1 : FromEnd(Tail(t), y) = FromEnd(s, y) BY <2>3, <2>5, <2>6
  <2>8. Len(todo[r]) = k BY <1>3, <2>2, <2>5
  <2> QED BY <2>1, <2>2, <2>4, <2>5, <2>6, <2>7, <2>8
<1>11. Follows'
  <2>1. ASSUME NEW m \in Ranks
        PROVE  /\ Len(todo'[m]) \in 0 .. Len(Program(m, phase[m], at[m]))
               /\ todo'[m] \in Seq(Range(Program(m, phase[m], at[m])))
               /\ \A y \in 1 .. Len(todo'[m]) : FromEnd(todo'[m], y) = FromEnd(Program(m, phase[m], at[m]), y)
    <3>1. CASE m \notin G
      <4>1. todo'[m] = todo[m] BY <1>6, <3>1
      <4> QED BY <4>1 DEF Follows
    <3>2. CASE m \in G
      <4>1. todo'[m] = Tail(todo[m]) BY <1>6, <3>2
      <4>2. PICK l \in Nat : l = Len(Program(m, phase[m], at[m])) BY <1>9
      <4>3. PICK k \in Nat \ {0} : k = Len(todo[r]) /\ k <= l BY <1>10, <3>2, <4>2
      <4>4. Len(todo'[m]) = k - 1 BY <1>10, <3>2, <4>1, <4>3
      <4> QED BY <1>10, <3>2, <4>1, <4>2, <4>3, <4>4
    <3> QED BY <3>1, <3>2
  <2> QED BY <1>7, <1>8, <2>1 DEF Follows, FromEnd
<1>12. PICK P : P = phase[r] OBVIOUS
<1>13. PICK A : A = at[r] OBVIOUS
<1>14. PICK Y : Y = Len(todo[r]) OBVIOUS
<1>15. P \in Nat /\ A \in Nat /\ Y \in Nat \ {0}
  <2>1. DOMAIN job.plan = 1 .. Len(job.plan) BY DEF JobFacts
  <2>2. Size \in Nat BY SameTasks
  <2> QED BY <1>4, <1>9, <1>10, <1>12, <1>13, <1>14, <2>1, <2>2
<1>16. ASSUME NEW m \in Ranks, NEW p \in Nat, NEW a \in Nat, NEW y \in Nat
       PROVE  Left(m, p, a, y)' <=> Left(m, p, a, y) /\ ~(m \in G /\ p = P /\ a = A /\ y = Y)
  <2>1. CASE m \notin G
    <3>1. todo'[m] = todo[m] BY <1>6, <2>1
    <3> QED BY <2>1, <3>1 DEF Left
  <2>2. CASE m \in G
    <3>1. Len(todo'[m]) = Y - 1 /\ Len(todo[m]) = Y BY <1>3, <1>6, <1>10, <1>14, <2>2
    <3>2. phase[m] = P /\ at[m] = A BY <1>3, <1>12, <1>13, <2>2
    <3>3. Left(m, p, a, y)' <=> P < p \/ (P = p /\ (A < a \/ (A = a /\ y <= Y - 1))) BY <3>1, <3>2 DEF Left
    <3>4. Left(m, p, a, y) <=> P < p \/ (P = p /\ (A < a \/ (A = a /\ y <= Y))) BY <3>1, <3>2 DEF Left
    <3>5. (y <= Y - 1) <=> (y <= Y /\ y # Y) BY <1>15
    <3> QED BY <1>15, <2>2, <3>3, <3>4, <3>5
  <2> QED BY <2>1, <2>2
<1>17. ASSUME NEW q \in Ranks, NEW m \in Ranks, NEW p \in DOMAIN job.plan, NEW a \in 0 .. Size + 1,
              NEW y \in 1 .. Len(Program(q, p, a)), m \in Members(q, FromEnd(Program(q, p, a), y).group)
       PROVE  Left(q, p, a, y)' <=> Left(m, p, a, y)'
  <2>1. PICK c : c = FromEnd(Program(q, p, a), y) OBVIOUS
  <2>2. Left(q, p, a, y) <=> Left(m, p, a, y) BY <1>17 DEF InStep
  <2>3. Program(m, p, a) = Program(q, p, a) /\ q \in Members(m, c.group) BY <1>17, <2>1, SharedCall
  <2>4. p \in Nat /\ a \in Nat /\ y \in Nat
    <3>1. DOMAIN job.plan = 1 .. Len(job.plan) BY DEF JobFacts
    <3>2. Size \in Nat BY SameTasks
    <3>3. Len(Program(q, p, a)) \in Nat BY Programs
    <3> QED BY <3>1, <3>2, <3>3
  <2>5. ASSUME p = P, a = A, y = Y, NEW x \in G, Program(x, p, a) = Program(q, p, a)
        PROVE  Members(x, c.group) = G
    <3>1. Program(x, P, A) = Program(r, P, A) BY <1>3, <1>12, <1>13, <2>5
    <3>2. c = FromEnd(Program(r, P, A), Y) BY <2>1, <2>5, <3>1
    <3>3. c = Head(todo[r]) BY <1>2, <1>12, <1>13, <1>14, <3>2, Pending
    <3>4. Head(todo[x]) = c /\ Group(x) = G BY <1>1, <1>3, <2>5, <3>3
    <3> QED BY <3>4 DEF Group
  <2>6. p = P /\ a = A /\ y = Y => (q \in G <=> m \in G)
    <3> SUFFICES ASSUME p = P, a = A, y = Y PROVE q \in G <=> m \in G OBVIOUS
    <3>1. q \in G => m \in G BY <1>17, <2>1, <2>5
    <3>2. m \in G => q \in G BY <2>3, <2>5
    <3> QED BY <3>1, <3>2
  <2> HIDE DEF G
  <2> QED BY <1>16, <2>2, <2>4, <2>6
<1>18. InStep'
  <2>1. ASSUME NEW q \in Ranks, NEW p \in DOMAIN job.plan, NEW a \in 0 .. Size + 1, NEW y \in 1 .. Len(Program(q, p, a))
        PROVE  FromEnd(Program(q, p, a), y).group \in {"pp", "tp", "etp", "ep", "embd"}
        BY CallsInGroups
  <2>2. SUFFICES ASSUME NEW q \in Ranks, NEW m \in Ranks, NEW p \in DOMAIN job.plan, NEW a \in 0 .. Size + 1,
                        NEW y \in 1 .. Len(Program(q, p, a)),
                        (m \in Members(q, FromEnd(Program(q, p, a), y).group))'
                 PROVE  Left(q, p, a, y)' <=> Left(m, p, a, y)'
        BY <1>7, <1>8 DEF InStep
  <2>3. PICK c : c = FromEnd(Program(q, p, a), y) OBVIOUS
  <2>4. c.group \in {"pp", "tp", "etp", "ep", "embd"} BY <2>1, <2>3
  <2>5. Members(q, c.group)' = Members(q, c.group) BY <1>7, <2>4
  <2>6. FromEnd(Program(q, p, a), y)' = c BY <1>8, <2>3 DEF FromEnd
  <2>7. m \in Members(q, c.group) BY <2>2, <2>5, <2>6
  <2> QED BY <1>17, <2>3, <2>7
<1> QED BY <1>4, <1>6, <1>11, <1>18

\* What the invariant says of a rank's place depends on the conversion alone.
LEMMA RulesStay ==
    ASSUME job' = job
    PROVE  /\ \A r, p, a, t, k : CachesAt(r, p, a, t, k)' <=> CachesAt(r, p, a, t, k)
           /\ \A r, p, a, t, k, s : NoticesAt(r, p, a, t, k, s)' <=> NoticesAt(r, p, a, t, k, s)
           /\ \A r, p, a, t, w : WorksAt(r, p, a, t, w)' <=> WorksAt(r, p, a, t, w)
           /\ \A r, p, a, t, s : PassesAt(r, p, a, t, s)' <=> PassesAt(r, p, a, t, s)
<1>1. /\ \A n : Par(n)' = Par(n) /\ Asked(n)' = Asked(n) /\ (Uneven(n)' <=> Uneven(n))
      /\ \A r, n : (Owns(r, n)' <=> Owns(r, n)) /\ TpRank(r, n)' = TpRank(r, n)
      /\ \A p : Kept(p)' <=> Kept(p)
      /\ Convertible' <=> Convertible
      BY GridStays
<1>2. Size' = Size /\ \A r : Names(r)' = Names(r) /\ TaskList(r)' = TaskList(r) BY ListsStay
<1>3. \A r, p, a, t, k : CachesAt(r, p, a, t, k)' <=> CachesAt(r, p, a, t, k)
  <2> SUFFICES ASSUME NEW r, NEW p, NEW a, NEW t, NEW k PROVE CachesAt(r, p, a, t, k)' <=> CachesAt(r, p, a, t, k)
        OBVIOUS
  <2>1. \A x : Asked(TaskList(r)[x])' = Asked(TaskList(r)[x]) /\ (TaskList(r)[x])' = TaskList(r)[x] BY <1>1, <1>2
  <2> QED BY <1>1, <1>2, <2>1 DEF CachesAt
<1>4. \A r, p, a, t, k, s : NoticesAt(r, p, a, t, k, s)' <=> NoticesAt(r, p, a, t, k, s)
      BY <1>2 DEF NoticesAt
<1>5. \A r, p, a, t, w : WorksAt(r, p, a, t, w)' <=> WorksAt(r, p, a, t, w)
      BY <1>1, <1>2 DEF WorksAt
<1>6. \A p, a, x, dir : (Begun(p, a, x, dir)' <=> Begun(p, a, x, dir)) /\ (Gone(p, a, x, dir)' <=> Gone(p, a, x, dir))
      BY DEF Begun, Gone
<1>7. \A r, p, a, t, s : PassesAt(r, p, a, t, s)' <=> PassesAt(r, p, a, t, s)
      BY <1>1, <1>2, <1>6 DEF PassesAt
<1> QED BY <1>3, <1>4, <1>5, <1>7

\* A list is there when a rank needs it.
LEMMA ListThere ==
    ASSUME JobFacts, Shapes, Listing, NEW r \in Ranks
    PROVE  /\ todo[r] = <<>> \/ at[r] # 0 => tasks[r] = TaskList(r)
           /\ InTask(r) <=> at[r] \in 1 .. Size
           /\ Ended(r) <=> at[r] = Size + 1
           /\ at[r] \in 1 .. Size => Cur(r) = TaskList(r)[at[r]] /\ Cur(r) \in Names(r)
<1>1. Size \in Nat \ {0} /\ Len(TaskList(r)) = Size /\ \A k \in 1 .. Size : TaskList(r)[k] \in Names(r)
      BY SameTasks
<1>2. at[r] \in 0 .. Size + 1 BY DEF Shapes
<1>3. Opening(1) # <<>> BY DEF Opening, JobFacts
<1>4. todo[r] = <<>> \/ at[r] # 0 => tasks[r] = TaskList(r) BY <1>3 DEF Listing
<1>5. CASE tasks[r] = TaskList(r)
  <2>1. TaskList(r) # <<>> BY <1>1
  <2> QED BY <1>1, <1>2, <1>4, <1>5, <2>1 DEF InTask, Ended, Cur
<1>6. CASE tasks[r] # TaskList(r)
  <2>1. at[r] = 0 /\ tasks[r] = <<>> BY <1>6 DEF Listing
  <2> QED BY <1>1, <1>4, <2>1 DEF InTask, Ended
<1> QED BY <1>5, <1>6

\* A rank that takes a step of its own goes from one place of its program to the next.
Onward(r, p, a) ==
    /\ todo[r] = <<>> /\ p \in DOMAIN job.plan /\ a \in 0 .. Size + 1
    /\ \/ p = phase[r] /\ a = at[r] + 1
       \/ p = phase[r] + 1 /\ a = 0 /\ at[r] = Size + 1
    /\ phase' = [phase EXCEPT ![r] = p] /\ at' = [at EXCEPT ![r] = a]
    /\ todo' = [todo EXCEPT ![r] = Program(r, p, a)]

LEMMA OwnStep ==
    ASSUME JobFacts, Shapes, Follows, InStep, NEW r \in Ranks, NEW p, NEW a, Onward(r, p, a), job' = job
    PROVE  /\ \A m \in Ranks : m # r => phase'[m] = phase[m] /\ at'[m] = at[m] /\ todo'[m] = todo[m]
           /\ phase'[r] = p /\ at'[r] = a /\ todo'[r] = Program(r, p, a)
           /\ phase' = [m \in Ranks |-> phase'[m]] /\ at' = [m \in Ranks |-> at'[m]]
           /\ todo' = [m \in Ranks |-> todo'[m]]
           /\ \A m \in Ranks : phase'[m] \in DOMAIN job.plan /\ at'[m] \in 0 .. Size + 1
           /\ Follows' /\ InStep'
<1>1. /\ \A m \in Ranks : m # r => phase'[m] = phase[m] /\ at'[m] = at[m] /\ todo'[m] = todo[m]
      /\ phase'[r] = p /\ at'[r] = a /\ todo'[r] = Program(r, p, a)
      /\ phase' = [m \in Ranks |-> phase'[m]] /\ at' = [m \in Ranks |-> at'[m]]
      /\ todo' = [m \in Ranks |-> todo'[m]]
      BY DEF Onward, Shapes
<1>2. \A m \in Ranks : phase'[m] \in DOMAIN job.plan /\ at'[m] \in 0 .. Size + 1
  <2>1. \A m \in Ranks : phase[m] \in DOMAIN job.plan /\ at[m] \in 0 .. Size + 1 BY DEF Shapes
  <2>2. p \in DOMAIN job.plan /\ a \in 0 .. Size + 1 BY DEF Onward
  <2> QED BY <1>1, <2>1, <2>2
<1>3. Ranks' = Ranks /\ (\A m \in Ranks : \A g \in {"pp", "tp", "etp", "ep", "embd"} : Members(m, g)' = Members(m, g))
      BY GridStays
<1>4. Size' = Size /\ \A m, q, b : Program(m, q, b)' = Program(m, q, b) BY ListsStay, ProgramsStay
<1>5. Program(r, p, a) \in Seq(AnyCall) BY <1>1, <1>2, Programs
<1>6. ASSUME NEW m \in Ranks
      PROVE  /\ Len(todo'[m]) \in 0 .. Len(Program(m, phase'[m], at'[m]))
             /\ todo'[m] \in Seq(Range(Program(m, phase'[m], at'[m])))
             /\ \A y \in 1 .. Len(todo'[m]) : FromEnd(todo'[m], y) = FromEnd(Program(m, phase'[m], at'[m]), y)
  <2>1. CASE m # r BY <1>1, <2>1, ZenonT(40) DEF Follows
  <2>2. CASE m = r
    <3>1. PICK s : s = Program(r, p, a) OBVIOUS
    <3>2. s \in Seq(AnyCall) BY <1>5, <3>1
    <3>3. s \in Seq(Range(s)) /\ Len(s) \in 0 .. Len(s)
      <4>1. PICK l \in Nat : l = Len(s) /\ DOMAIN s = 1 .. l BY <3>2
      <4>2. \A x \in 1 .. l : s[x] \in Range(s) BY <4>1 DEF Range
      <4>3. s = [x \in 1 .. l |-> s[x]] BY <3>2, <4>1
      <4> QED BY <4>1, <4>2, <4>3
    <3>4. todo'[m] = s /\ Program(m, phase'[m], at'[m]) = s BY <1>1, <2>2, <3>1
    <3> QED BY <3>3, <3>4
  <2> QED BY <2>1, <2>2
<1>7. Follows' BY <1>3, <1>4, <1>6 DEF Follows, FromEnd
<1>8. ASSUME NEW m \in Ranks, NEW q \in DOMAIN job.plan, NEW b \in 0 .. Size + 1, NEW y \in 1 .. Len(Program(m, q, b))
      PROVE  Left(m, q, b, y)' <=> Left(m, q, b, y)
  <2>1. CASE m # r BY <1>1, <2>1 DEF Left
  <2>2. CASE m = r
    <3>1. PICK c : c = phase[r] OBVIOUS
    <3>2. PICK d : d = at[r] OBVIOUS
    <3>3. PICK l \in Nat : l = Len(Program(r, q, b)) BY <2>2, Programs
    <3>4. y \in 1 .. l BY <2>2, <3>3
    <3>5. PICK z \in Nat \ {0} : z = Size BY SameTasks
    <3>6. c \in Nat /\ p \in Nat /\ q \in Nat
      <4>1. DOMAIN job.plan = 1 .. Len(job.plan) /\ phase[r] \in DOMAIN job.plan BY DEF JobFacts, Shapes
      <4> QED BY <1>1, <1>2, <3>1, <4>1
    <3>7. a \in 0 .. z + 1 /\ b \in 0 .. z + 1 /\ d \in 0 .. z + 1 BY <1>1, <1>2, <3>2, <3>5 DEF Shapes
    <3>8. (p = c /\ a = d + 1) \/ (p = c + 1 /\ a = 0 /\ d = z + 1) BY <3>1, <3>2, <3>5 DEF Onward
    <3>9. Left(m, q, b, y) <=> c < q \/ (c = q /\ (d < b \/ (d = b /\ y <= 0)))
      <4>1. Len(todo[r]) = 0 BY DEF Onward
      <4> QED BY <2>2, <3>1, <3>2, <4>1 DEF Left
    <3>10. Left(m, q, b, y)' <=> p < q \/ (p = q /\ (a < b \/ (a = b /\ y <= Len(Program(r, p, a))))) 
          BY <1>1, <2>2 DEF Left
    <3>11. Left(m, q, b, y)' <=> p < q \/ (p = q /\ (a < b \/ (a = b /\ y <= l))) BY <3>3, <3>10
    <3> QED BY ONLY <3>4, <3>5, <3>6, <3>7, <3>8, <3>9, <3>11, l \in Nat
  <2> QED BY <2>1, <2>2
<1>9. InStep'
  <2>1. ASSUME NEW q \in Ranks, NEW e \in DOMAIN job.plan, NEW b \in 0 .. Size + 1, NEW y \in 1 .. Len(Program(q, e, b))
        PROVE  FromEnd(Program(q, e, b), y).group \in {"pp", "tp", "etp", "ep", "embd"}
        BY CallsInGroups
  <2>2. SUFFICES ASSUME NEW q \in Ranks, NEW m \in Ranks, NEW e \in DOMAIN job.plan, NEW b \in 0 .. Size + 1,
                        NEW y \in 1 .. Len(Program(q, e, b)),
                        (m \in Members(q, FromEnd(Program(q, e, b), y).group))'
                 PROVE  Left(q, e, b, y)' <=> Left(m, e, b, y)'
        BY <1>3, <1>4 DEF InStep
  <2>3. PICK c : c = FromEnd(Program(q, e, b), y) OBVIOUS
  <2>4. Members(q, c.group)' = Members(q, c.group) BY <1>3, <2>1, <2>3
  <2>5. FromEnd(Program(q, e, b), y)' = c BY <1>4, <2>3 DEF FromEnd
  <2>6. m \in Members(q, FromEnd(Program(q, e, b), y).group) BY <2>2, <2>3, <2>4, <2>5
  <2>7. Program(m, e, b) = Program(q, e, b) BY <2>6, SharedCall
  <2>8. Left(q, e, b, y) <=> Left(m, e, b, y) BY <2>6 DEF InStep
  <2> QED BY <1>8, <2>7, <2>8
<1> QED BY <1>1, <1>2, <1>7, <1>9

-----------------------------------------------------------------------------
(* Who makes a call, and when.                                             *)

ExportOps == PipelineOps \cup {"part", "rows", "expert"}

LEMMA CallKind ==
    ASSUME JobFacts, Shapes, Follows, NEW r \in Ranks, todo[r] # <<>>
    PROVE  /\ Head(todo[r]).op \in ExportOps =>
                Dir(r) = "export" /\ at[r] \in 1 .. Size /\ Head(todo[r]) \in ExportCall
           /\ Head(todo[r]).op \in {"scatter", "bcast"} =>
                /\ Dir(r) = "import" /\ at[r] \in 1 .. Size /\ Owns(r, TaskList(r)[at[r]])
                /\ Head(todo[r]).group \in {"tp", "etp"}
           /\ Head(todo[r]).op = "names" => at[r] = 0 /\ Head(todo[r]) = Call("pp", "names", "")
           /\ Head(todo[r]).op = "embedding" =>
                Dir(r) = "import" /\ at[r] = Size + 1 /\ Head(todo[r]).group = "embd" /\ Stage(r) \in {0, job.pp - 1}
           /\ Head(todo[r]).op \in ExportOps \cup {"names", "scatter", "bcast", "embedding"}
<1>1. PICK c : c = Head(todo[r]) OBVIOUS
<1>2. Fits(r, phase[r], at[r], c) BY <1>1, Pending
<1>3. CASE c = Call("pp", "names", "") /\ at[r] = 0
  <2>1. c.op = "names" BY <1>3 DEF Call
  <2> QED BY <1>1, <1>3, <2>1 DEF ExportOps, PipelineOps
<1>4. CASE at[r] \in 1 .. Size /\ Dir(r) = "export" /\ c \in ExportCall
  <2>1. c.op \in ExportOps BY <1>4 DEF ExportCall, ExportOps
  <2> QED BY <1>1, <1>4, <2>1 DEF ExportOps, PipelineOps
<1>5. CASE /\ at[r] \in 1 .. Size /\ Dir(r) = "import" /\ Owns(r, TaskList(r)[at[r]])
           /\ c \in [group : {"tp", "etp"}, op : {"scatter", "bcast"}, what : {""}]
  <2>1. c.op \in {"scatter", "bcast"} /\ c.group \in {"tp", "etp"} BY <1>5
  <2> QED BY <1>1, <1>5, <2>1 DEF ExportOps, PipelineOps
<1>6. CASE /\ at[r] = Size + 1 /\ Dir(r) = "import" /\ Stage(r) \in {0, job.pp - 1}
           /\ c = Call("embd", "embedding", "")
  <2>1. c.op = "embedding" /\ c.group = "embd" BY <1>6 DEF Call
  <2> QED BY <1>1, <1>6, <2>1 DEF ExportOps, PipelineOps
<1> QED BY <1>2, <1>3, <1>4, <1>5, <1>6 DEF Fits, Dir

LEMMA Callers ==
    ASSUME JobFacts, Shapes, Follows, Listing, InStep, NEW r \in Ranks, NEW ops, Together(r, ops), NEW m \in Group(r)
    PROVE  /\ m \in Ranks /\ status[m] = "running" /\ todo[m] # <<>> /\ Head(todo[m]) = Head(todo[r])
           /\ phase[m] = phase[r] /\ at[m] = at[r] /\ Group(m) = Group(r) /\ r \in Group(r)
           /\ at[r] \in 1 .. Size =>
                /\ Cur(m) = TaskList(m)[at[m]] /\ Cur(m) \in Names(m) /\ Cur(m).i = Cur(r).i
                /\ Par(Cur(m)) = Par(Cur(r)) /\ Tp(Cur(m)) = Tp(Cur(r))
<1>1. todo[r] # <<>> /\ status[m] = "running" /\ todo[m] # <<>> /\ Head(todo[m]) = Head(todo[r]) BY DEF Together
<1>2. m \in Ranks /\ phase[m] = phase[r] /\ at[m] = at[r] /\ Group(m) = Group(r) /\ r \in Group(r)
      BY <1>1, AtOneCall
<1>3. ASSUME at[r] \in 1 .. Size
      PROVE  /\ Cur(m) = TaskList(m)[at[m]] /\ Cur(m) \in Names(m) /\ Cur(m).i = Cur(r).i
             /\ Par(Cur(m)) = Par(Cur(r)) /\ Tp(Cur(m)) = Tp(Cur(r))
  <2>1. Cur(m) = TaskList(m)[at[m]] /\ Cur(m) \in Names(m) BY <1>2, <1>3, ListThere
  <2>2. Cur(r) = TaskList(r)[at[r]] BY <1>3, ListThere
  <2>3. TaskList(m)[at[r]].i = TaskList(r)[at[r]].i BY <1>2, <1>3, SameTasks
  <2>4. Cur(m).i = Cur(r).i BY <1>2, <2>1, <2>2, <2>3
  <2> QED BY <2>1, <2>4 DEF Par, Tp
<1> QED BY <1>1, <1>2, <1>3

\* A tensor that is asked for, sent or gathered is there.
LEMMA NotMissing ==
    ASSUME JobFacts, Shapes, Follows, Listing, InStep, Noticed, NEW r \in Ranks, NEW ops, Together(r, ops),
           Head(todo[r]).op \in ExportOps \ {"flags", "spec"}
    PROVE  Cur(r).i \notin job.missing
<1>1. todo[r] # <<>> /\ status[r] = "running"
  <2>1. todo[r] # <<>> BY DEF Together
  <2>2. r \in Group(r) BY <2>1, OwnGroup
  <2> QED BY <2>1, <2>2 DEF Together
<1>2. Dir(r) = "export" /\ at[r] \in 1 .. Size BY <1>1, CallKind
<1>3. Cur(r) = TaskList(r)[at[r]] /\ Cur(r) \in Names(r) BY <1>2, ListThere
<1>4. CASE job.pp = 1
  <2> SUFFICES ASSUME Cur(r).i \in job.missing PROVE FALSE OBVIOUS
  <2>1. phase[r] \in DOMAIN job.plan /\ at[r] \in 0 .. Size + 1 BY DEF Shapes
  <2>2. Par(Cur(r)) \in Param BY <1>3, NamesAre
  <2>3. Kept(phase[r]) \in BOOLEAN BY <2>1, Programs
  <2>4. Exporting(Cur(r), Kept(phase[r])) = <<>> BY <1>4, <2>2, <2>3, ExportingFacts DEF JobFacts
  <2>5. Program(r, phase[r], at[r]) = <<>> BY <1>2, <1>3, <2>4 DEF Program, Dir
  <2>6. Len(todo[r]) \in 1 .. Len(Program(r, phase[r], at[r])) BY <1>1, Pending
  <2>7. Len(Program(r, phase[r], at[r])) = 0 BY <2>5
  <2> QED BY <2>6, <2>7
<1>5. CASE job.pp > 1
  <2>1. NoticesAt(r, phase[r], at[r], todo[r], known[r], status[r]) BY DEF Noticed
  <2>2. ~IsSurvey(Head(todo[r])) BY DEF IsSurvey
  <2> QED BY <1>1, <1>2, <1>3, <1>5, <2>1, <2>2 DEF NoticesAt, Dir
<1>6. job.pp = 1 \/ job.pp > 1 BY OneStageOrMore
<1> QED BY <1>4, <1>5, <1>6

\* Over the pipeline stages the owner of a tensor is among the ranks.
LEMMA OwnerAmong ==
    ASSUME JobFacts, Shapes, Follows, Listing, InStep, NEW r \in Ranks, NEW ops, Together(r, ops),
           at[r] \in 1 .. Size, Head(todo[r]).group = "pp", Cur(r).i \notin job.missing
    PROVE  \E m \in Group(r) : Owns(m, Cur(m))
<1>1. Cur(r) \in Names(r) BY ListThere
<1>2. Par(Cur(r)).stage \in 0 .. job.pp - 1 BY <1>1, NamesAre
<1>3. Slot(r) \in 0 .. job.stageSize - 1 BY RankParts
<1>4. PICK m \in Ranks : Stage(m) = Par(Cur(r)).stage /\ Slot(m) = Slot(r) BY <1>2, <1>3, RankAt
<1>5. m \in Group(r) BY <1>4 DEF Group, Members
<1>6. Cur(m).i = Cur(r).i /\ Par(Cur(m)) = Par(Cur(r)) BY <1>5, Callers
<1> QED BY <1>4, <1>5, <1>6 DEF Owns

-----------------------------------------------------------------------------
(* Calls keep the invariant.                                               *)

\* When a call has been made, what it answers is cached, and nothing else is.
LEMMA CachesAfterCall ==
    ASSUME JobFacts, NEW m \in Ranks, NEW p, NEW a, NEW S, NEW t \in Seq(S), t # <<>>, NEW k, NEW l,
           CachesAt(m, p, a, t, k), k \subseteq l,
           \A z \in l : z \in k \/ (a \in 1 .. Size /\ \E what \in Cached \cup {"spec"} : z = <<TaskList(m)[a], what>>),
           a \in 1 .. Size => \A what \in Asked(TaskList(m)[a]) :
               Answer(what) = Head(t) => <<TaskList(m)[a], what>> \in l
    PROVE  CachesAt(m, p, a, Tail(t), l)
<1>1. ASSUME NEW n \in Names(m) PROVE <<n, "layout">> \notin l
  <2>1. <<n, "layout">> \notin k BY DEF CachesAt
  <2>2. "layout" \notin Cached \cup {"spec"} BY DEF Cached
  <2> QED BY <2>1, <2>2
<1>2. ASSUME job.pp > 1, job.plan[p].dir = "export", NEW x \in 1 .. Size, NEW what \in Asked(TaskList(m)[x])
      PROVE  /\ Kept(p) \/ x < a => <<TaskList(m)[x], what>> \in l
             /\ ~Kept(p) /\ x = a => <<TaskList(m)[x], what>> \in l \/ Answer(what) \in Range(Tail(t))
             /\ ~Kept(p) /\ x > a => <<TaskList(m)[x], what>> \notin l
  <2>1. /\ Kept(p) \/ x < a => <<TaskList(m)[x], what>> \in k
        /\ ~Kept(p) /\ x = a => <<TaskList(m)[x], what>> \in k \/ Answer(what) \in Range(t)
        /\ ~Kept(p) /\ x > a => <<TaskList(m)[x], what>> \notin k
        BY <1>2 DEF CachesAt
  <2>2. Range(t) = {Head(t)} \cup Range(Tail(t)) BY FromEndFacts
  <2>3. ~Kept(p) /\ x = a => <<TaskList(m)[x], what>> \in l \/ Answer(what) \in Range(Tail(t)) BY <2>1, <2>2
  <2>4. ASSUME ~Kept(p), x > a PROVE <<TaskList(m)[x], what>> \notin l
    <3> SUFFICES ASSUME <<TaskList(m)[x], what>> \in l PROVE FALSE OBVIOUS
    <3>1. a \in 1 .. Size /\ \E u \in Cached \cup {"spec"} : <<TaskList(m)[x], what>> = <<TaskList(m)[a], u>>
          BY <2>1, <2>4
    <3>2. TaskList(m)[x] = TaskList(m)[a] BY <3>1
    <3>3. x = a BY <3>1, <3>2, SameTasks
    <3>4. Size \in Nat BY SameTasks
    <3> QED BY <2>4, <3>1, <3>3, <3>4
  <2> QED BY <2>1, <2>3, <2>4
<1> QED BY <1>1, <1>2 DEF CachesAt

LEMMA NoticesAfterCall ==
    ASSUME NEW m \in Ranks, NEW p, NEW a, NEW t, NEW k, NEW l, NEW s, NEW u,
           NoticesAt(m, p, a, t, k, s), s # "raised",
           u # "raised" => /\ \A z \in l : z \in k \/ z[1].i \notin job.missing
                           /\ job.plan[p].dir = "export" /\ a \in 1 .. Size => TaskList(m)[a].i \notin job.missing
    PROVE  NoticesAt(m, p, a, Tail(t), l, u)
<1> SUFFICES ASSUME u # "raised" PROVE NoticesAt(m, p, a, Tail(t), l, u) BY DEF NoticesAt
<1>1. ASSUME NEW n \in Names(m), NEW what \in Cached \cup {"spec"}, job.pp > 1, <<n, what>> \in l
      PROVE  n.i \notin job.missing
  <2>1. <<n, what>>[1] = n OBVIOUS
  <2>2. CASE <<n, what>> \in k BY <1>1, <2>2 DEF NoticesAt
  <2>3. CASE <<n, what>> \notin k BY <1>1, <2>1, <2>3
  <2> QED BY <2>2, <2>3
<1> QED BY <1>1 DEF NoticesAt

\* The shard a rank has is not lost, and the broadcast brings it.
LEMMA WorksAfterCall ==
    ASSUME NEW m \in Ranks, NEW p, NEW a, NEW S, NEW t \in Seq(S), t # <<>>, NEW v, NEW w,
           WorksAt(m, p, a, t, v), v # <<>> => w # <<>>, w = v \/ (job.plan[p].dir = "export" /\ a \in 1 .. Size),
           w = v \/ TaskList(m)[a].i \notin job.missing, Head(t) = TensorCall => w # <<>>
    PROVE  WorksAt(m, p, a, Tail(t), w)
<1>1. Range(t) = {Head(t)} \cup Range(Tail(t)) BY FromEndFacts
<1> QED BY <1>1 DEF WorksAt

LEMMA PassesAfterCall ==
    ASSUME NEW m \in Ranks, NEW p, NEW a, NEW t, NEW s, NEW u,
           PassesAt(m, p, a, t, s), s = "running", u \in {"running", "raised"}, u = "raised" => ~Convertible
    PROVE  PassesAt(m, p, a, Tail(t), u)
BY DEF PassesAt

\* What a call does to a rank that makes it, and that it leaves the others alone.
Effect(m) ==
    /\ known[m] \subseteq known'[m]
    /\ \A z \in known'[m] : z \in known[m] \/
          (/\ Dir(m) = "export" /\ at[m] \in 1 .. Size
           /\ \E what \in Cached \cup {"spec"} : z = <<TaskList(m)[at[m]], what>>)
    /\ at[m] \in 1 .. Size => \A what \in Asked(TaskList(m)[at[m]]) :
          Answer(what) = Head(todo[m]) => <<TaskList(m)[at[m]], what>> \in known'[m]
    /\ status'[m] \in {"running", "raised"}
    /\ status'[m] = "raised" => ~Convertible
    /\ status'[m] # "raised" /\ Dir(m) = "export" /\ at[m] \in 1 .. Size => TaskList(m)[at[m]].i \notin job.missing
    /\ work[m] # <<>> => work'[m] # <<>>
    /\ work'[m] = work[m] \/ (Dir(m) = "export" /\ at[m] \in 1 .. Size /\ TaskList(m)[at[m]].i \notin job.missing)
    /\ Head(todo[m]) = TensorCall => work'[m] # <<>>
    /\ tasks'[m] = TaskList(m) \/ (tasks'[m] = tasks[m] /\ Head(todo[m]).op # "names")

Untouched(m) == known'[m] = known[m] /\ work'[m] = work[m] /\ status'[m] = status[m] /\ tasks'[m] = tasks[m]

Shaped == /\ tasks = [r \in Ranks |-> tasks[r]] /\ known = [r \in Ranks |-> known[r]]
          /\ mine = [r \in Ranks |-> mine[r]] /\ head = [r \in Ranks |-> head[r]]
          /\ work = [r \in Ranks |-> work[r]] /\ out = [r \in Ranks |-> out[r]]
          /\ status = [r \in Ranks |-> status[r]]

LEMMA InvAfterCall ==
    ASSUME JobFacts, IInv, NEW r \in Ranks, NEW ops, Together(r, ops), Over(Group(r)),
           job' = job, phase' = phase, at' = at, Shaped',
           \A m \in Group(r) : Effect(m), \A m \in Ranks : m \notin Group(r) => Untouched(m)
    PROVE  IInv'
<1> USE DEF IInv
<1>1. /\ todo' = [m \in Ranks |-> todo'[m]] /\ Follows' /\ InStep'
      /\ \A m \in Ranks : todo'[m] = IF m \in Group(r) THEN Tail(todo[m]) ELSE todo[m]
      BY CallMade
<1>2. Ranks' = Ranks BY GridStays
<1>3. Size' = Size /\ \A m : TaskList(m)' = TaskList(m) BY ListsStay
<1>4. ASSUME NEW m \in Group(r)
      PROVE  /\ m \in Ranks /\ status[m] = "running" /\ todo[m] # <<>> /\ Head(todo[m]) = Head(todo[r])
             /\ todo[m] \in Seq(Range(Program(m, phase[m], at[m])))
  <2>1. m \in Ranks /\ status[m] = "running" /\ todo[m] # <<>> /\ Head(todo[m]) = Head(todo[r]) BY Callers
  <2> QED BY <2>1 DEF Follows
<1>5. Shapes'
  <2>1. ASSUME NEW m \in Ranks PROVE status'[m] \in {"running", "raised", "done"}
    <3>1. CASE m \in Group(r) BY <3>1 DEF Effect
    <3>2. CASE m \notin Group(r) BY <3>2 DEF Untouched, Shapes
    <3> QED BY <3>1, <3>2
  <2> QED BY <1>1, <1>2, <1>3, <2>1 DEF Shapes, Shaped
<1>6. Listing'
  <2>1. ASSUME NEW m \in Ranks
        PROVE  \/ tasks'[m] = TaskList(m)
               \/ tasks'[m] = <<>> /\ phase[m] = 1 /\ at[m] = 0 /\ todo'[m] = Opening(1)
    <3>1. CASE m \notin Group(r)
      <4>1. todo'[m] = todo[m] /\ tasks'[m] = tasks[m] BY <1>1, <3>1 DEF Untouched
      <4> QED BY <4>1 DEF Listing
    <3>2. CASE m \in Group(r)
      <4>1. tasks'[m] = TaskList(m) \/ (tasks'[m] = tasks[m] /\ Head(todo[m]).op # "names") BY <3>2 DEF Effect
      <4>2. ASSUME todo[m] = Opening(1) PROVE Head(todo[m]).op = "names"
        <5>1. PICK c : c = Call("pp", "names", "") OBVIOUS
        <5>2. Opening(1) = <<c>> BY <5>1 DEF Opening, JobFacts
        <5>3. Head(<<c>>) = c OBVIOUS
        <5>4. c.op = "names" BY <5>1 DEF Call
        <5> QED BY <4>2, <5>2, <5>3, <5>4
      <4> QED BY <4>1, <4>2 DEF Listing
    <3> QED BY <3>1, <3>2
  <2>2. Opening(1)' = Opening(1) BY GridStays
  <2> QED BY <1>2, <1>3, <2>1, <2>2 DEF Listing
<1>7. ASSUME NEW m \in Ranks PROVE CachesAt(m, phase[m], at[m], todo'[m], known'[m])
  <2>1. CachesAt(m, phase[m], at[m], todo[m], known[m]) BY DEF Caching
  <2>2. CASE m \notin Group(r) BY <1>1, <2>1, <2>2 DEF Untouched
  <2>3. CASE m \in Group(r)
    <3>1. PICK S : S = Range(Program(m, phase[m], at[m])) OBVIOUS
    <3>2. PICK t : t = todo[m] OBVIOUS
    <3>3. PICK l : l = known'[m] OBVIOUS
    <3>4. t \in Seq(S) /\ t # <<>> BY <1>4, <2>3, <3>1, <3>2
    <3>5. /\ known[m] \subseteq l
          /\ \A z \in l : z \in known[m] \/
                (at[m] \in 1 .. Size /\ \E what \in Cached \cup {"spec"} : z = <<TaskList(m)[at[m]], what>>)
          /\ at[m] \in 1 .. Size => \A what \in Asked(TaskList(m)[at[m]]) :
                Answer(what) = Head(t) => <<TaskList(m)[at[m]], what>> \in l
          BY <2>3, <3>2, <3>3 DEF Effect
    <3>6. CachesAt(m, phase[m], at[m], t, known[m]) BY <2>1, <3>2
    <3>7. CachesAt(m, phase[m], at[m], Tail(t), l) BY <3>4, <3>5, <3>6, CachesAfterCall
    <3> QED BY <1>1, <2>3, <3>2, <3>3, <3>7
  <2> QED BY <2>2, <2>3
<1>8. ASSUME NEW m \in Ranks PROVE NoticesAt(m, phase[m], at[m], todo'[m], known'[m], status'[m])
  <2>1. NoticesAt(m, phase[m], at[m], todo[m], known[m], status[m]) BY DEF Noticed
  <2>2. CASE m \notin Group(r) BY <1>1, <2>1, <2>2 DEF Untouched
  <2>3. CASE m \in Group(r)
    <3>1. PICK l : l = known'[m] OBVIOUS
    <3>2. PICK u : u = status'[m] OBVIOUS
    <3>3. ASSUME u # "raised"
          PROVE  /\ \A z \in l : z \in known[m] \/ z[1].i \notin job.missing
                 /\ job.plan[phase[m]].dir = "export" /\ at[m] \in 1 .. Size => TaskList(m)[at[m]].i \notin job.missing
      <4>1. job.plan[phase[m]].dir = "export" /\ at[m] \in 1 .. Size => TaskList(m)[at[m]].i \notin job.missing
            BY <2>3, <3>2, <3>3 DEF Effect, Dir
      <4>2. ASSUME NEW z \in l, z \notin known[m] PROVE z[1].i \notin job.missing
        <5>1. /\ job.plan[phase[m]].dir = "export" /\ at[m] \in 1 .. Size
              /\ \E what \in Cached \cup {"spec"} : z = <<TaskList(m)[at[m]], what>>
              BY <2>3, <3>1, <4>2 DEF Effect, Dir
        <5>2. z[1] = TaskList(m)[at[m]] BY <5>1
        <5> QED BY <4>1, <5>1, <5>2
      <4> QED BY <4>1, <4>2
    <3>4. status[m] # "raised" BY <1>4, <2>3
    <3>5. NoticesAt(m, phase[m], at[m], Tail(todo[m]), l, u) BY <2>1, <3>3, <3>4, NoticesAfterCall
    <3> QED BY <1>1, <2>3, <3>1, <3>2, <3>5
  <2> QED BY <2>2, <2>3
<1>9. ASSUME NEW m \in Ranks PROVE WorksAt(m, phase[m], at[m], todo'[m], work'[m])
  <2>1. WorksAt(m, phase[m], at[m], todo[m], work[m]) BY DEF Working
  <2>2. CASE m \notin Group(r) BY <1>1, <2>1, <2>2 DEF Untouched
  <2>3. CASE m \in Group(r)
    <3>1. PICK S : S = Range(Program(m, phase[m], at[m])) OBVIOUS
    <3>2. PICK t : t = todo[m] OBVIOUS
    <3>3. PICK w : w = work'[m] OBVIOUS
    <3>4. t \in Seq(S) /\ t # <<>> BY <1>4, <2>3, <3>1, <3>2
    <3>5. /\ work[m] # <<>> => w # <<>>
          /\ w = work[m] \/ (job.plan[phase[m]].dir = "export" /\ at[m] \in 1 .. Size)
          /\ w = work[m] \/ TaskList(m)[at[m]].i \notin job.missing
          /\ Head(t) = TensorCall => w # <<>>
          BY <2>3, <3>2, <3>3 DEF Effect, Dir
    <3>6. WorksAt(m, phase[m], at[m], t, work[m]) BY <2>1, <3>2
    <3>7. WorksAt(m, phase[m], at[m], Tail(t), w) BY <3>4, <3>5, <3>6, WorksAfterCall
    <3> QED BY <1>1, <2>3, <3>2, <3>3, <3>7
  <2> QED BY <2>2, <2>3
<1>10. ASSUME NEW m \in Ranks PROVE PassesAt(m, phase[m], at[m], todo'[m], status'[m])
  <2>1. PassesAt(m, phase[m], at[m], todo[m], status[m]) BY DEF Passed
  <2>2. CASE m \notin Group(r) BY <1>1, <2>1, <2>2 DEF Untouched
  <2>3. CASE m \in Group(r)
    <3>1. PICK u : u = status'[m] OBVIOUS
    <3>2. u \in {"running", "raised"} /\ (u = "raised" => ~Convertible) BY <2>3, <3>1 DEF Effect
    <3>3. PassesAt(m, phase[m], at[m], Tail(todo[m]), u) BY <1>4, <2>1, <2>3, <3>2, PassesAfterCall
    <3> QED BY <1>1, <2>3, <3>1, <3>3
  <2> QED BY <2>2, <2>3
<1>11. Caching' /\ Noticed' /\ Working' /\ Passed'
  <2>1. /\ \A m, p, a, t, k : CachesAt(m, p, a, t, k)' <=> CachesAt(m, p, a, t, k)
        /\ \A m, p, a, t, k, s : NoticesAt(m, p, a, t, k, s)' <=> NoticesAt(m, p, a, t, k, s)
        /\ \A m, p, a, t, w : WorksAt(m, p, a, t, w)' <=> WorksAt(m, p, a, t, w)
        /\ \A m, p, a, t, s : PassesAt(m, p, a, t, s)' <=> PassesAt(m, p, a, t, s)
        BY RulesStay
  <2>2. Caching' BY <1>2, <1>7, <2>1 DEF Caching
  <2>3. Noticed' BY <1>2, <1>8, <2>1 DEF Noticed
  <2>4. Working' BY <1>2, <1>9, <2>1 DEF Working
  <2>5. Passed' BY <1>2, <1>10, <2>1 DEF Passed
  <2> QED BY <2>2, <2>3, <2>4, <2>5
<1> QED BY <1>1, <1>5, <1>6, <1>11

-----------------------------------------------------------------------------
(* The collectives.                                                        *)

LEMMA MergedOn ==
    ASSUME NEW S, NEW g, g = [x \in S |-> g[x]], NEW f, DOMAIN f \subseteq S
    PROVE  /\ Merged(f, g) = [x \in S |-> Merged(f, g)[x]]
           /\ \A x \in S : Merged(f, g)[x] = IF x \in DOMAIN f THEN f[x] ELSE g[x]
<1>1. DOMAIN g = S OBVIOUS
<1> QED BY <1>1, MergedFacts

LEMMA AnswersAre ==
    ASSUME NEW what
    PROVE  /\ what = "spec" => Answer(what).op = "spec"
           /\ what # "spec" => Answer(what).op = "object" /\ Answer(what).what = what
           /\ TensorCall.op = "tensor"
BY DEF Answer, Call, TensorCall

LEMMA SurveyStep ==
    ASSUME JobFacts, IInv, NEW r \in Ranks, Survey(r)
    PROVE  IInv'
<1> USE DEF IInv
<1> DEFINE G == Group(r)
           op == Head(todo[r]).op
           raises == op # "names" /\ \A m \in G : ~Owns(m, Cur(m))
<1>1. /\ Together(r, {"names", "flags", "spec"}) /\ Over(G) /\ job' = job /\ phase' = phase /\ at' = at
      /\ mine' = mine /\ head' = head /\ work' = work /\ out' = out
      /\ status' = IF raises THEN Merged([m \in G |-> "raised"], status) ELSE status
      /\ known' = IF op = "spec" THEN Merged([m \in G |-> known[m] \cup {<<Cur(m), "spec">>}], known) ELSE known
      /\ tasks' = IF op = "names" THEN Merged([m \in G |-> Sorted(Names(m))], tasks) ELSE tasks
      BY DEF Survey
<1>2. todo[r] # <<>> /\ op \in {"names", "flags", "spec"} BY <1>1 DEF Together
<1>3. G \subseteq Ranks BY <1>1, Callers
<1>4. /\ status' = [m \in Ranks |-> status'[m]]
      /\ \A m \in Ranks : status'[m] = IF raises /\ m \in G THEN "raised" ELSE status[m]
  <2>1. status = [m \in Ranks |-> status[m]] BY DEF Shapes
  <2>2. PICK f : f = [m \in G |-> "raised"] OBVIOUS
  <2>3. DOMAIN f = G /\ \A m \in G : f[m] = "raised" BY <2>2
  <2>4. status' = IF raises THEN Merged(f, status) ELSE status BY <1>1, <2>2
  <2> HIDE DEF G, raises
  <2>5. /\ Merged(f, status) = [m \in Ranks |-> Merged(f, status)[m]]
        /\ \A m \in Ranks : Merged(f, status)[m] = IF m \in G THEN "raised" ELSE status[m]
        BY <1>3, <2>1, <2>3, MergedOn
  <2>6. CASE raises BY <2>4, <2>5, <2>6
  <2>7. CASE ~raises BY <2>1, <2>4, <2>7
  <2> QED BY <2>6, <2>7
<1>5. /\ known' = [m \in Ranks |-> known'[m]]
      /\ \A m \in Ranks : known'[m] = IF op = "spec" /\ m \in G THEN known[m] \cup {<<Cur(m), "spec">>} ELSE known[m]
  <2>1. known = [m \in Ranks |-> known[m]] BY DEF Shapes
  <2>2. PICK f : f = [m \in G |-> known[m] \cup {<<Cur(m), "spec">>}] OBVIOUS
  <2>3. DOMAIN f = G /\ \A m \in G : f[m] = known[m] \cup {<<Cur(m), "spec">>} BY <2>2
  <2>4. known' = IF op = "spec" THEN Merged(f, known) ELSE known BY <1>1, <2>2
  <2> HIDE DEF G, op
  <2>5. /\ Merged(f, known) = [m \in Ranks |-> Merged(f, known)[m]]
        /\ \A m \in Ranks : Merged(f, known)[m] = IF m \in DOMAIN f THEN f[m] ELSE known[m]
        BY <1>3, <2>1, <2>3, MergedOn
  <2>6. CASE op = "spec" BY <2>3, <2>4, <2>5, <2>6
  <2>7. CASE op # "spec" BY <2>1, <2>4, <2>7
  <2> QED BY <2>6, <2>7
<1>6. /\ tasks' = [m \in Ranks |-> tasks'[m]]
      /\ \A m \in Ranks : tasks'[m] = IF op = "names" /\ m \in G THEN TaskList(m) ELSE tasks[m]
  <2>1. tasks = [m \in Ranks |-> tasks[m]] BY DEF Shapes
  <2>2. PICK f : f = [m \in G |-> TaskList(m)] OBVIOUS
  <2>3. DOMAIN f = G /\ \A m \in G : f[m] = TaskList(m) BY <2>2
  <2>4. tasks' = IF op = "names" THEN Merged(f, tasks) ELSE tasks BY <1>1, <2>2 DEF TaskList
  <2> HIDE DEF G, op
  <2>5. /\ Merged(f, tasks) = [m \in Ranks |-> Merged(f, tasks)[m]]
        /\ \A m \in Ranks : Merged(f, tasks)[m] = IF m \in DOMAIN f THEN f[m] ELSE tasks[m]
        BY <1>3, <2>1, <2>3, MergedOn
  <2>6. CASE op = "names" BY <2>3, <2>4, <2>5, <2>6
  <2>7. CASE op # "names" BY <2>1, <2>4, <2>7
  <2> QED BY <2>6, <2>7
<1>7. Ranks' = Ranks BY <1>1, GridStays
<1>8. Shaped' BY <1>1, <1>4, <1>5, <1>6, <1>7 DEF Shaped, Shapes
<1>9. \A m \in Ranks : m \notin G => Untouched(m) BY <1>1, <1>4, <1>5, <1>6 DEF Untouched
<1>10. ASSUME NEW m \in G PROVE Effect(m)
  <2>1. /\ m \in Ranks /\ status[m] = "running" /\ Head(todo[m]) = Head(todo[r])
        /\ phase[m] = phase[r] /\ at[m] = at[r]
        /\ at[r] \in 1 .. Size => Cur(m) = TaskList(m)[at[m]] /\ Cur(m).i = Cur(r).i
        BY <1>1, <1>10, Callers
  <2>2. Head(todo[m]) # TensorCall BY <1>2, <2>1, AnswersAre
  <2>3. CASE op = "names"
    <3>1. at[r] = 0 BY <1>2, <2>3, CallKind
    <3>2. at[m] \notin 1 .. Size BY <2>1, <3>1
    <3>3. known'[m] = known[m] /\ status'[m] = status[m] /\ tasks'[m] = TaskList(m) /\ work'[m] = work[m]
          BY <1>1, <1>4, <1>5, <1>6, <1>10, <2>1, <2>3
    <3> QED BY <2>1, <2>2, <3>2, <3>3 DEF Effect
  <2>4. CASE op # "names"
    <3>1. op \in {"flags", "spec"} BY <1>2, <2>4
    <3>2. Dir(r) = "export" /\ at[r] \in 1 .. Size /\ Head(todo[r]) \in ExportCall
          BY <1>2, <3>1, CallKind DEF ExportOps, PipelineOps
    <3>3. Head(todo[r]).group = "pp" /\ job.pp > 1 BY <3>1, <3>2 DEF ExportCall, PipelineOps
    <3>4. Cur(m) = TaskList(m)[at[m]] /\ Cur(m).i = Cur(r).i /\ Dir(m) = "export" /\ at[m] \in 1 .. Size
          BY <2>1, <3>2 DEF Dir
    <3>5. raises => ~Convertible
      <4> SUFFICES ASSUME raises PROVE ~Convertible OBVIOUS
      <4>1. Cur(r).i \in job.missing BY <1>1, <3>2, <3>3, OwnerAmong
      <4>2. Cur(r).i \in Listed
        <5>1. Cur(r) \in Names(r) BY <3>2, ListThere
        <5> QED BY <5>1, NamesAre
      <4>3. "export" \in Directions
        <5>1. phase[r] \in DOMAIN job.plan BY DEF Shapes
        <5> QED BY <3>2, <5>1 DEF Directions, Dir
      <4> QED BY <3>3, <4>1, <4>2, <4>3 DEF Convertible
    <3>6. ~raises => TaskList(m)[at[m]].i \notin job.missing
      <4> SUFFICES ASSUME ~raises PROVE TaskList(m)[at[m]].i \notin job.missing OBVIOUS
      <4>1. PICK q \in G : Owns(q, Cur(q)) BY <2>4
      <4>2. Cur(q).i = Cur(r).i BY <1>1, <3>2, <4>1, Callers
      <4> QED BY <3>4, <4>1, <4>2 DEF Owns
    <3>7. status'[m] = IF raises THEN "raised" ELSE "running" BY <1>4, <1>10, <2>1
    <3>8. known'[m] = IF op = "spec" THEN known[m] \cup {<<TaskList(m)[at[m]], "spec">>} ELSE known[m]
          BY <1>5, <1>10, <2>1, <3>4
    <3>9. ASSUME NEW what, Answer(what) = Head(todo[m]) PROVE <<TaskList(m)[at[m]], what>> \in known'[m]
      <4>1. Answer(what).op = op BY <2>1, <3>9
      <4>2. what = "spec" /\ op = "spec" BY <3>1, <4>1, AnswersAre
      <4> QED BY <3>8, <4>2
    <3>10. work'[m] = work[m] /\ tasks'[m] = tasks[m] /\ Head(todo[m]).op # "names" BY <1>1, <2>1, <2>4
    <3> HIDE DEF raises, op, G
    <3> QED BY <2>1, <2>2, <3>4, <3>5, <3>6, <3>7, <3>8, <3>9, <3>10 DEF Effect
  <2> QED BY <2>3, <2>4
<1> QED BY <1>1, <1>8, <1>9, <1>10, InvAfterCall

LEMMA ObjectStep ==
    ASSUME JobFacts, IInv, NEW r \in Ranks, Object(r)
    PROVE  IInv'
<1> USE DEF IInv
<1> DEFINE G == Group(r)
           c == Head(todo[r])
           told(m) == {<<Cur(m), what>> : what \in {c.what} \cap Cached}
<1>1. /\ Together(r, {"object"}) /\ Over(G) /\ job' = job /\ phase' = phase /\ at' = at /\ status' = status
      /\ mine' = mine /\ head' = head /\ work' = work /\ out' = out /\ tasks' = tasks
      /\ known' = Merged([m \in G |-> known[m] \cup told(m)], known)
      BY DEF Object, where
<1>2. todo[r] # <<>> /\ c.op = "object" BY <1>1 DEF Together
<1>3. G \subseteq Ranks BY <1>1, Callers
<1>4. /\ known' = [m \in Ranks |-> known'[m]]
      /\ \A m \in Ranks : known'[m] = IF m \in G THEN known[m] \cup told(m) ELSE known[m]
  <2>1. known = [m \in Ranks |-> known[m]] BY DEF Shapes
  <2>2. PICK f : f = [m \in G |-> known[m] \cup told(m)] OBVIOUS
  <2>3. DOMAIN f = G /\ \A m \in G : f[m] = known[m] \cup told(m) BY <2>2
  <2>4. known' = Merged(f, known) BY <1>1, <2>2
  <2> HIDE DEF G, told
  <2>5. /\ Merged(f, known) = [m \in Ranks |-> Merged(f, known)[m]]
        /\ \A m \in Ranks : Merged(f, known)[m] = IF m \in DOMAIN f THEN f[m] ELSE known[m]
        BY <1>3, <2>1, <2>3, MergedOn
  <2> QED BY <2>3, <2>4, <2>5
<1>5. Ranks' = Ranks BY <1>1, GridStays
<1>6. Shaped' BY <1>1, <1>4, <1>5 DEF Shaped, Shapes
<1>7. \A m \in Ranks : m \notin G => Untouched(m) BY <1>1, <1>4 DEF Untouched
<1>8. Dir(r) = "export" /\ at[r] \in 1 .. Size BY <1>2, CallKind DEF ExportOps, PipelineOps
<1>9. Cur(r).i \notin job.missing
  <2>1. c.op \in ExportOps \ {"flags", "spec"} BY <1>2 DEF ExportOps, PipelineOps
  <2> QED BY <1>1, <2>1, NotMissing
<1>10. ASSUME NEW m \in G PROVE Effect(m)
  <2>1. /\ m \in Ranks /\ status[m] = "running" /\ Head(todo[m]) = c
        /\ phase[m] = phase[r] /\ at[m] = at[r]
        /\ Cur(m) = TaskList(m)[at[m]] /\ Cur(m).i = Cur(r).i
        BY <1>1, <1>8, <1>10, Callers
  <2>2. Dir(m) = "export" /\ at[m] \in 1 .. Size /\ TaskList(m)[at[m]].i \notin job.missing
        BY <1>8, <1>9, <2>1 DEF Dir
  <2>3. known'[m] = known[m] \cup told(m) BY <1>3, <1>4, <1>10
  <2>4. ASSUME NEW what \in Asked(TaskList(m)[at[m]]), Answer(what) = Head(todo[m])
        PROVE  <<TaskList(m)[at[m]], what>> \in known'[m]
    <3>1. what # "spec" /\ c.what = what BY <1>2, <2>1, <2>4, AnswersAre
    <3>2. what \in Cached BY <3>1 DEF Asked, Cached
    <3>3. <<Cur(m), what>> \in told(m) BY <3>1, <3>2
    <3> QED BY <2>1, <2>3, <3>3
  <2>5. \A z \in known'[m] : z \in known[m] \/ \E what \in Cached \cup {"spec"} : z = <<TaskList(m)[at[m]], what>>
        BY <2>1, <2>3
  <2>6. Head(todo[m]) # TensorCall /\ Head(todo[m]).op # "names" BY <1>2, <2>1, AnswersAre
  <2>7. status'[m] = "running" /\ work'[m] = work[m] /\ tasks'[m] = tasks[m] BY <1>1, <2>1
  <2>8. known[m] \subseteq known'[m] BY <2>3
  <2> HIDE DEF c, G
  <2> QED BY <2>2, <2>4, <2>5, <2>6, <2>7, <2>8 DEF Effect
<1> QED BY <1>1, <1>6, <1>7, <1>10, InvAfterCall

\* The calls that carry tensors.
LEMMA TensorsCarried ==
    ASSUME JobFacts, IInv, NEW r \in Ranks, NEW ops, Together(r, ops), Over(Group(r)),
           ops \subseteq {"tensor", "part", "rows", "expert", "scatter", "bcast", "embedding"},
           job' = job, phase' = phase, at' = at, status' = status, known' = known, tasks' = tasks, Shaped',
           \A m \in Ranks : m \notin Group(r) => work'[m] = work[m],
           \A m \in Group(r) : IF Head(todo[r]).op \in {"tensor", "rows"} THEN work'[m] # <<>> ELSE work'[m] = work[m]
    PROVE  IInv'
<1> USE DEF IInv
<1>1. \A m \in Ranks : m \notin Group(r) => Untouched(m) BY DEF Untouched
<1>2. PICK c : c = Head(todo[r]) OBVIOUS
<1>3. c.op \in {"tensor", "part", "rows", "expert", "scatter", "bcast", "embedding"} /\ todo[r] # <<>>
      BY <1>2 DEF Together
<1>4. ASSUME NEW m \in Group(r) PROVE Effect(m)
  <2>1. /\ m \in Ranks /\ status[m] = "running" /\ Head(todo[m]) = c
        /\ phase[m] = phase[r] /\ at[m] = at[r]
        /\ at[r] \in 1 .. Size => Cur(m) = TaskList(m)[at[m]] /\ Cur(m).i = Cur(r).i
        BY <1>2, Callers
  <2>2. \A what \in Asked(TaskList(m)[at[m]]) : Answer(what) # Head(todo[m])
    <3>1. ASSUME NEW what \in Asked(TaskList(m)[at[m]]) PROVE Answer(what) # Head(todo[m])
          BY <1>3, <2>1, <3>1, AnswersAre
    <3> QED BY <3>1
  <2>3. CASE c.op \in {"scatter", "bcast", "embedding"}
    <3>1. Dir(r) = "import" BY <1>2, <1>3, <2>3, CallKind
    <3>2. Dir(m) = "import" BY <2>1, <3>1 DEF Dir
    <3>3. work'[m] = work[m] BY <1>2, <2>3
    <3>4. c # TensorCall /\ c.op # "names" BY <2>3, AnswersAre
    <3>5. status'[m] = "running" /\ known'[m] = known[m] /\ tasks'[m] = tasks[m] BY <2>1
    <3> QED BY <2>1, <2>2, <3>2, <3>3, <3>4, <3>5 DEF Effect
  <2>4. CASE c.op \in {"tensor", "part", "rows", "expert"}
    <3>1. c.op \in ExportOps \ {"flags", "spec"} BY <2>4 DEF ExportOps, PipelineOps
    <3>2. Dir(r) = "export" /\ at[r] \in 1 .. Size BY <1>2, <1>3, <3>1, CallKind
    <3>3. Cur(r).i \notin job.missing BY <1>2, <3>1, NotMissing
    <3>4. Dir(m) = "export" /\ at[m] \in 1 .. Size /\ TaskList(m)[at[m]].i \notin job.missing
          BY <2>1, <3>2, <3>3 DEF Dir
    <3>5. /\ work[m] # <<>> => work'[m] # <<>>
          /\ Head(todo[m]) = TensorCall => work'[m] # <<>>
          BY <1>2, <2>1, AnswersAre
    <3>6. status'[m] = "running" /\ known'[m] = known[m] /\ tasks'[m] = tasks[m] BY <2>1
    <3>7. Head(todo[m]).op # "names" BY <2>1, <2>4
    <3> QED BY <2>2, <3>4, <3>5, <3>6, <3>7 DEF Effect
  <2> QED BY <1>3, <2>3, <2>4
<1> QED BY <1>1, <1>4, InvAfterCall

LEMMA TensorStep ==
    ASSUME JobFacts, IInv, NEW r \in Ranks, Tensor(r)
    PROVE  IInv'
<1> USE DEF IInv
<1> PICK src : src = CHOOSE m \in Group(r) : Owns(m, Cur(m)) OBVIOUS
<1>1. /\ Together(r, {"tensor"}) /\ Over(Group(r)) /\ job' = job /\ phase' = phase /\ at' = at /\ status' = status
      /\ mine' = mine /\ head' = head /\ known' = known /\ out' = out /\ tasks' = tasks
      /\ work' = Merged([m \in Group(r) |-> work[src]], work)
      BY DEF Tensor, where
<1>2. todo[r] # <<>> /\ Head(todo[r]).op = "tensor" BY <1>1 DEF Together
<1>3. Group(r) \subseteq Ranks BY <1>1, Callers
<1>4. Dir(r) = "export" /\ at[r] \in 1 .. Size /\ Head(todo[r]) \in ExportCall
      BY <1>2, CallKind DEF ExportOps, PipelineOps
<1>5. Cur(r).i \notin job.missing
  <2>1. Head(todo[r]).op \in ExportOps \ {"flags", "spec"} BY <1>2 DEF ExportOps, PipelineOps
  <2> QED BY <1>1, <2>1, NotMissing
<1>6. src \in Group(r) /\ Owns(src, Cur(src))
  <2>1. Head(todo[r]).group = "pp" BY <1>2, <1>4 DEF ExportCall, PipelineOps
  <2> QED BY <1>1, <1>4, <1>5, <2>1, OwnerAmong
<1>7. work[src] # <<>>
  <2>1. /\ src \in Ranks /\ Cur(src) = TaskList(src)[at[src]] /\ Cur(src).i = Cur(r).i
        /\ phase[src] = phase[r] /\ at[src] = at[r]
        BY <1>1, <1>4, <1>6, Callers
  <2>2. WorksAt(src, phase[src], at[src], todo[src], work[src]) BY <2>1 DEF Working
  <2> QED BY <1>4, <1>5, <1>6, <2>1, <2>2 DEF WorksAt, Dir
<1>8. /\ work' = [m \in Ranks |-> work'[m]]
      /\ \A m \in Ranks : work'[m] = IF m \in Group(r) THEN work[src] ELSE work[m]
  <2>1. work = [m \in Ranks |-> work[m]] BY DEF Shapes
  <2>2. PICK f : f = [m \in Group(r) |-> work[src]] OBVIOUS
  <2>3. DOMAIN f = Group(r) /\ \A m \in Group(r) : f[m] = work[src] BY <2>2
  <2>4. work' = Merged(f, work) BY <1>1, <2>2
  <2>5. /\ Merged(f, work) = [m \in Ranks |-> Merged(f, work)[m]]
        /\ \A m \in Ranks : Merged(f, work)[m] = IF m \in DOMAIN f THEN f[m] ELSE work[m]
        BY <1>3, <2>1, <2>3, MergedOn
  <2> QED BY <2>3, <2>4, <2>5
<1>9. Ranks' = Ranks BY <1>1, GridStays
<1>10. Shaped' BY <1>1, <1>8, <1>9 DEF Shaped, Shapes
<1>11. /\ \A m \in Ranks : m \notin Group(r) => work'[m] = work[m]
       /\ \A m \in Group(r) : IF Head(todo[r]).op \in {"tensor", "rows"} THEN work'[m] # <<>> ELSE work'[m] = work[m]
       BY <1>2, <1>3, <1>7, <1>8
<1> QED BY <1>1, <1>10, <1>11, TensorsCarried

LEMMA TpGatherStep ==
    ASSUME JobFacts, IInv, NEW r \in Ranks, TpGather(r)
    PROVE  IInv'
<1> USE DEF IInv
<1> DEFINE peer(i) == CHOOSE m \in Group(r) : TpRank(m, Cur(r)) = i - 1
<1> PICK s : s = [i \in 1 .. Tp(Cur(r)) |-> work[peer(i)][1]] OBVIOUS
<1>1. /\ Together(r, {"part", "rows"}) /\ Over(Group(r)) /\ job' = job /\ phase' = phase /\ at' = at
      /\ status' = status /\ mine' = mine /\ head' = head /\ known' = known /\ out' = out /\ tasks' = tasks
      /\ work' = IF Head(todo[r]).op = "part" THEN work ELSE Merged([m \in Group(r) |-> s], work)
      BY DEF TpGather, where
<1> HIDE DEF peer
<1>2. todo[r] # <<>> /\ Head(todo[r]).op \in {"part", "rows"} BY <1>1 DEF Together
<1>3. Group(r) \subseteq Ranks BY <1>1, Callers
<1>4. s # <<>>
  <2>1. Tp(Cur(r)) \in Nat \ {0} BY DEF Tp, JobFacts
  <2>2. PICK t \in Nat \ {0} : t = Tp(Cur(r)) BY <2>1
  <2>3. DOMAIN s = 1 .. t /\ 1 \in 1 .. t BY <2>2
  <2>4. DOMAIN <<>> = {} OBVIOUS
  <2> QED BY <2>3, <2>4
<1>5. /\ work' = [m \in Ranks |-> work'[m]]
      /\ \A m \in Ranks : work'[m] = IF m \in Group(r) /\ Head(todo[r]).op # "part" THEN s ELSE work[m]
  <2>1. work = [m \in Ranks |-> work[m]] BY DEF Shapes
  <2>2. PICK f : f = [m \in Group(r) |-> s] OBVIOUS
  <2>3. DOMAIN f = Group(r) /\ \A m \in Group(r) : f[m] = s BY <2>2
  <2>4. work' = IF Head(todo[r]).op = "part" THEN work ELSE Merged(f, work) BY <1>1, <2>2
  <2>5. /\ Merged(f, work) = [m \in Ranks |-> Merged(f, work)[m]]
        /\ \A m \in Ranks : Merged(f, work)[m] = IF m \in DOMAIN f THEN f[m] ELSE work[m]
        BY <1>3, <2>1, <2>3, MergedOn
  <2>6. CASE Head(todo[r]).op = "part" BY <2>1, <2>4, <2>6
  <2>7. CASE Head(todo[r]).op # "part" BY <2>3, <2>4, <2>5, <2>7
  <2> QED BY <2>6, <2>7
<1>6. Ranks' = Ranks BY <1>1, GridStays
<1>7. Shaped' BY <1>1, <1>5, <1>6 DEF Shaped, Shapes
<1>8. /\ \A m \in Ranks : m \notin Group(r) => work'[m] = work[m]
      /\ \A m \in Group(r) : IF Head(todo[r]).op \in {"tensor", "rows"} THEN work'[m] # <<>> ELSE work'[m] = work[m]
      BY <1>2, <1>3, <1>4, <1>5
<1> QED BY <1>1, <1>7, <1>8, TensorsCarried

\* The other calls that carry tensors leave work alone.
LEMMA OtherCallStep ==
    ASSUME JobFacts, IInv, NEW r \in Ranks, EpGather(r) \/ TpScatter(r) \/ ShareEmbedding(r)
    PROVE  IInv'
<1> USE DEF IInv
<1> PICK ops : Together(r, ops) /\ ops \in {{"expert"}, {"scatter", "bcast"}, {"embedding"}}
    BY DEF EpGather, TpScatter, ShareEmbedding
<1>1. /\ Over(Group(r)) /\ job' = job /\ phase' = phase /\ at' = at /\ status' = status
      /\ known' = known /\ work' = work /\ tasks' = tasks
      BY DEF EpGather, TpScatter, ShareEmbedding, where
<1>2. Group(r) \subseteq Ranks BY Callers
<1>3. /\ mine = [m \in Ranks |-> mine[m]] /\ head = [m \in Ranks |-> head[m]] /\ out = [m \in Ranks |-> out[m]]
      BY DEF Shapes
<1>4. /\ mine' = [m \in Ranks |-> mine'[m]] /\ head' = [m \in Ranks |-> head'[m]] /\ out' = [m \in Ranks |-> out'[m]]
  <2>1. CASE EpGather(r)
    <3>1. mine' = mine /\ head' = head BY <2>1 DEF EpGather
    <3>2. PICK f : DOMAIN f = Group(r) /\ out' = Merged(f, out) BY <2>1 DEF EpGather
    <3>3. out' = [m \in Ranks |-> out'[m]] BY <1>2, <1>3, <3>2, MergedOn
    <3> QED BY <1>3, <3>1, <3>3
  <2>2. CASE TpScatter(r)
    <3>1. out' = out /\ head' = head BY <2>2 DEF TpScatter
    <3>2. PICK f : DOMAIN f = Group(r) /\ mine' = Merged(f, mine) BY <2>2 DEF TpScatter
    <3>3. mine' = [m \in Ranks |-> mine'[m]] BY <1>2, <1>3, <3>2, MergedOn
    <3> QED BY <1>3, <3>1, <3>3
  <2>3. CASE ShareEmbedding(r)
    <3>1. out' = out /\ mine' = mine BY <2>3 DEF ShareEmbedding
    <3>2. PICK f : DOMAIN f \subseteq Group(r) /\ head' = Merged(f, head) BY <2>3 DEF ShareEmbedding
    <3>3. head' = [m \in Ranks |-> head'[m]] BY <1>2, <1>3, <3>2, MergedOn
    <3> QED BY <1>3, <3>1, <3>3
  <2> QED BY <2>1, <2>2, <2>3
<1>5. Ranks' = Ranks BY <1>1, GridStays
<1>6. Shaped' BY <1>1, <1>4, <1>5 DEF Shaped, Shapes
<1>7. ops \subseteq {"tensor", "part", "rows", "expert", "scatter", "bcast", "embedding"} OBVIOUS
<1>8. Head(todo[r]).op \notin {"tensor", "rows"} BY DEF Together
<1> QED BY <1>1, <1>6, <1>7, <1>8, TensorsCarried

-----------------------------------------------------------------------------
(* A rank's own steps.                                                     *)

\* A step of one rank keeps the invariant when it does at that rank.
LEMMA InvAfterStep ==
    ASSUME JobFacts, IInv, NEW r \in Ranks, NEW p, NEW a, Onward(r, p, a), job' = job, tasks' = tasks, Shaped',
           tasks[r] = TaskList(r), \A m \in Ranks : m # r => Untouched(m),
           status'[r] \in {"running", "raised"},
           CachesAt(r, p, a, todo'[r], known'[r]), NoticesAt(r, p, a, todo'[r], known'[r], status'[r]),
           WorksAt(r, p, a, todo'[r], work'[r]), PassesAt(r, p, a, todo'[r], status'[r])
    PROVE  IInv'
<1> USE DEF IInv
<1>1. /\ \A m \in Ranks : m # r => phase'[m] = phase[m] /\ at'[m] = at[m] /\ todo'[m] = todo[m]
      /\ phase'[r] = p /\ at'[r] = a
      /\ phase' = [m \in Ranks |-> phase'[m]] /\ at' = [m \in Ranks |-> at'[m]]
      /\ todo' = [m \in Ranks |-> todo'[m]]
      /\ \A m \in Ranks : phase'[m] \in DOMAIN job.plan /\ at'[m] \in 0 .. Size + 1
      /\ Follows' /\ InStep'
      BY OwnStep
<1>2. Ranks' = Ranks /\ Opening(1)' = Opening(1) BY GridStays
<1>3. Size' = Size /\ \A m : TaskList(m)' = TaskList(m) BY ListsStay
<1>4. Shapes'
  <2>1. \A m \in Ranks : status'[m] \in {"running", "raised", "done"} BY DEF Untouched, Shapes
  <2>2. job' \in Jobs BY DEF Shapes
  <2> QED BY <1>1, <1>2, <1>3, <2>1, <2>2 DEF Shapes, Shaped
<1>5. Listing'
  <2>1. \A m \in Ranks : \/ tasks'[m] = TaskList(m)
                         \/ tasks'[m] = <<>> /\ phase'[m] = 1 /\ at'[m] = 0 /\ todo'[m] = Opening(1)
        BY <1>1 DEF Listing
  <2> QED BY <1>2, <1>3, <2>1 DEF Listing
<1>6. ASSUME NEW m \in Ranks
      PROVE  /\ CachesAt(m, phase'[m], at'[m], todo'[m], known'[m])
             /\ NoticesAt(m, phase'[m], at'[m], todo'[m], known'[m], status'[m])
             /\ WorksAt(m, phase'[m], at'[m], todo'[m], work'[m])
             /\ PassesAt(m, phase'[m], at'[m], todo'[m], status'[m])
  <2>1. CASE m = r BY <1>1, <2>1
  <2>2. CASE m # r
    <3>1. /\ phase'[m] = phase[m] /\ at'[m] = at[m] /\ todo'[m] = todo[m]
          /\ known'[m] = known[m] /\ work'[m] = work[m] /\ status'[m] = status[m]
          BY <1>1, <2>2 DEF Untouched
    <3>2. /\ CachesAt(m, phase[m], at[m], todo[m], known[m])
          /\ NoticesAt(m, phase[m], at[m], todo[m], known[m], status[m])
          /\ WorksAt(m, phase[m], at[m], todo[m], work[m])
          /\ PassesAt(m, phase[m], at[m], todo[m], status[m])
          BY DEF Caching, Noticed, Working, Passed
    <3> QED BY <3>1, <3>2
  <2> QED BY <2>1, <2>2
<1>7. Caching' /\ Noticed' /\ Working' /\ Passed'
  <2>1. /\ \A m, q, b, t, k : CachesAt(m, q, b, t, k)' <=> CachesAt(m, q, b, t, k)
        /\ \A m, q, b, t, k, s : NoticesAt(m, q, b, t, k, s)' <=> NoticesAt(m, q, b, t, k, s)
        /\ \A m, q, b, t, w : WorksAt(m, q, b, t, w)' <=> WorksAt(m, q, b, t, w)
        /\ \A m, q, b, t, s : PassesAt(m, q, b, t, s)' <=> PassesAt(m, q, b, t, s)
        BY RulesStay
  <2>2. Caching' BY <1>2, <1>6, <2>1 DEF Caching
  <2>3. Noticed' BY <1>2, <1>6, <2>1 DEF Noticed
  <2>4. Working' BY <1>2, <1>6, <2>1 DEF Working
  <2>5. Passed' BY <1>2, <1>6, <2>1 DEF Passed
  <2> QED BY <2>2, <2>3, <2>4, <2>5
<1> QED BY <1>1, <1>4, <1>5, <1>7

\* Whether a tensor can be scattered evenly does not depend on the expert.
LEMMA UnevenFor ==
    ASSUME NEW m, NEW n, m.i = n.i
    PROVE  Uneven(m) <=> Uneven(n)
<1>1. Par(m) = Par(n) BY DEF Par
<1>2. Tp(m) = Tp(n) BY <1>1 DEF Tp
<1> QED BY <1>1, <1>2 DEF Uneven

\* A rank that goes on to its next task has the calls of its program before it.
LEMMA NextTaskOnward ==
    ASSUME JobFacts, IInv, NEW r \in Ranks, NextTask(r)
    PROVE  Onward(r, phase[r], at[r] + 1)
<1> USE DEF IInv
<1> PICK p : p = phase[r] OBVIOUS
<1> PICK a : a = at[r] OBVIOUS
<1> PICK n : n = TaskList(r)[a + 1] OBVIOUS
<1> PICK z \in Nat \ {0} : z = Size BY SameTasks
<1>1. status[r] = "running" /\ todo[r] = <<>> /\ ~Ended(r) /\ ~Unnamed(r) BY DEF NextTask, Idle
<1>2. p \in DOMAIN job.plan /\ a \in 0 .. z + 1 BY DEF Shapes
<1>3. tasks[r] = TaskList(r) /\ a \in 0 .. z /\ Len(tasks[r]) = z
  <2>1. tasks[r] = TaskList(r) /\ a # z + 1 BY <1>1, ListThere
  <2> QED BY <1>2, <2>1, SameTasks
<1>4. PICK takes \in BOOLEAN : takes <=> a # z /\ job.plan[p].dir = "import" /\ Owns(r, n) OBVIOUS
<1>5. PICK refused \in BOOLEAN : refused <=> takes /\ Uneven(n) /\ TpRank(r, n) = 0 OBVIOUS
<1>6. /\ at' = [at EXCEPT ![r] = a + 1] /\ phase' = phase /\ job' = job /\ tasks' = tasks /\ head' = head
      /\ mine' = [mine EXCEPT ![r] = Merged(Loaded(r), @)]
      /\ out' = [out EXCEPT ![r] = Merged(Yielded(r), @)]
      /\ work' = [work EXCEPT ![r] =
            IF a # z /\ job.plan[p].dir = "export" /\ Owns(r, n) THEN <<mine[r][n]>> ELSE <<>>]
      /\ todo' = [todo EXCEPT ![r] =
            IF job.plan[p].dir = "import" THEN IF a = z THEN ClosingCalls(r) ELSE ImportCalls(r, n)
            ELSE IF a = z THEN <<>> ELSE ExportCalls(r, n)]
      /\ known' = [known EXCEPT ![r] = @ \cup IF takes /\ Delegated(n) THEN {<<n, "type">>} ELSE {}]
      /\ status' = [status EXCEPT ![r] = IF refused THEN "raised" ELSE @]
  <2>1. (at[r] = Len(tasks[r])) <=> a = z BY <1>3
  <2>2. tasks[r][at[r] + 1] = n BY <1>3
  <2> QED BY <1>4, <1>5, <2>1, <2>2 DEF NextTask, Dir
<1>7. job.plan[p].dir \in {"import", "export"} /\ Kept(p) \in BOOLEAN BY <1>2, Programs
<1>8. a # z => n \in Names(r) /\ a + 1 \in 1 .. z
  <2>1. a # z => a + 1 \in 1 .. z BY <1>3
  <2> QED BY <2>1, SameTasks
<1>9. CachesAt(r, p, a, <<>>, known[r]) BY <1>1 DEF Caching
<1>10. ASSUME a # z, job.plan[p].dir = "export" PROVE ExportCalls(r, n) = Exporting(n, Kept(p))
  <2>1. a + 1 \in 1 .. Size /\ a + 1 > a BY <1>3, <1>8, <1>10
  <2>2. <<n, "layout">> \notin known[r] BY <1>8, <1>9, <1>10 DEF CachesAt
  <2>3. /\ job.pp > 1 /\ Kept(p) => \A what \in Asked(n) : <<n, what>> \in known[r]
        /\ job.pp > 1 /\ ~Kept(p) => \A what \in Asked(n) : <<n, what>> \notin known[r]
        BY <1>9, <1>10, <2>1 DEF CachesAt
  <2>4. PICK kept \in BOOLEAN : kept = Kept(p) BY <1>7
  <2>5. /\ job.pp > 1 /\ kept => \A what \in Asked(n) : <<n, what>> \in known[r]
        /\ job.pp > 1 /\ ~kept => \A what \in Asked(n) : <<n, what>> \notin known[r]
        BY <2>3, <2>4
  <2>6. ExportCalls(r, n) = Exporting(n, kept) BY <1>8, <1>10, <2>2, <2>5, ExportCallsAre
  <2> QED BY <2>4, <2>6
<1>11. todo' = [todo EXCEPT ![r] = Program(r, p, a + 1)] /\ todo'[r] = Program(r, p, a + 1)
  <2>1. a + 1 # 0 /\ (a + 1 \in 1 .. Size <=> a # z) BY <1>3
  <2>2. Program(r, p, a + 1) = IF job.plan[p].dir = "import" THEN IF a = z THEN ClosingCalls(r) ELSE ImportCalls(r, n)
                              ELSE IF a = z THEN <<>> ELSE ExportCalls(r, n)
    <3>1. CASE a = z
      <4>1. a + 1 \notin 1 .. Size BY <2>1, <3>1
      <4> QED BY <1>7, <2>1, <3>1, <4>1 DEF Program
    <3>2. CASE a # z
      <4>1. a + 1 \in 1 .. Size BY <2>1, <3>2
      <4>2. job.plan[p].dir = "import" => Program(r, p, a + 1) = ImportCalls(r, n) BY <2>1, <4>1 DEF Program
      <4>3. job.plan[p].dir = "export" => Program(r, p, a + 1) = ExportCalls(r, n)
            BY <1>10, <2>1, <3>2, <4>1 DEF Program
      <4> QED BY <1>7, <3>2, <4>2, <4>3
    <3> QED BY <3>1, <3>2
  <2>3. todo' = [todo EXCEPT ![r] = Program(r, p, a + 1)] BY <1>6, <2>2
  <2>4. DOMAIN todo = Ranks BY DEF Shapes
  <2> QED BY <2>3, <2>4
<1>12. Onward(r, p, a + 1)
  <2>1. phase' = [phase EXCEPT ![r] = p] BY <1>6 DEF Shapes
  <2>2. a + 1 \in 0 .. Size + 1 BY <1>3
  <2> QED BY <1>1, <1>2, <1>6, <1>11, <2>1, <2>2 DEF Onward
<1> QED BY <1>12

LEMMA NextTaskStep ==
    ASSUME JobFacts, IInv, NEW r \in Ranks, NextTask(r)
    PROVE  IInv'
<1> USE DEF IInv
<1> PICK p : p = phase[r] OBVIOUS
<1> PICK a : a = at[r] OBVIOUS
<1> PICK n : n = TaskList(r)[a + 1] OBVIOUS
<1> PICK z \in Nat \ {0} : z = Size BY SameTasks
<1>1. status[r] = "running" /\ todo[r] = <<>> /\ ~Ended(r) /\ ~Unnamed(r) BY DEF NextTask, Idle
<1>2. p \in DOMAIN job.plan /\ a \in 0 .. z + 1 BY DEF Shapes
<1>3. tasks[r] = TaskList(r) /\ a \in 0 .. z /\ Len(tasks[r]) = z
  <2>1. tasks[r] = TaskList(r) /\ a # z + 1 BY <1>1, ListThere
  <2> QED BY <1>2, <2>1, SameTasks
<1>4. PICK takes \in BOOLEAN : takes <=> a # z /\ job.plan[p].dir = "import" /\ Owns(r, n) OBVIOUS
<1>5. PICK refused \in BOOLEAN : refused <=> takes /\ Uneven(n) /\ TpRank(r, n) = 0 OBVIOUS
<1>6. /\ at' = [at EXCEPT ![r] = a + 1] /\ phase' = phase /\ job' = job /\ tasks' = tasks /\ head' = head
      /\ mine' = [mine EXCEPT ![r] = Merged(Loaded(r), @)]
      /\ out' = [out EXCEPT ![r] = Merged(Yielded(r), @)]
      /\ work' = [work EXCEPT ![r] =
            IF a # z /\ job.plan[p].dir = "export" /\ Owns(r, n) THEN <<mine[r][n]>> ELSE <<>>]
      /\ todo' = [todo EXCEPT ![r] =
            IF job.plan[p].dir = "import" THEN IF a = z THEN ClosingCalls(r) ELSE ImportCalls(r, n)
            ELSE IF a = z THEN <<>> ELSE ExportCalls(r, n)]
      /\ known' = [known EXCEPT ![r] = @ \cup IF takes /\ Delegated(n) THEN {<<n, "type">>} ELSE {}]
      /\ status' = [status EXCEPT ![r] = IF refused THEN "raised" ELSE @]
  <2>1. (at[r] = Len(tasks[r])) <=> a = z BY <1>3
  <2>2. tasks[r][at[r] + 1] = n BY <1>3
  <2> QED BY <1>4, <1>5, <2>1, <2>2 DEF NextTask, Dir
<1>7. job.plan[p].dir \in {"import", "export"} /\ Kept(p) \in BOOLEAN BY <1>2, Programs
<1>8. a # z => n \in Names(r) /\ a + 1 \in 1 .. z
  <2>1. a # z => a + 1 \in 1 .. z BY <1>3
  <2> QED BY <2>1, SameTasks
<1>9. CachesAt(r, p, a, <<>>, known[r]) BY <1>1 DEF Caching
<1>10. Onward(r, p, a + 1) BY NextTaskOnward
<1>11. todo'[r] = Program(r, p, a + 1)
  <2>1. DOMAIN todo = Ranks BY DEF Shapes
  <2> QED BY <1>10, <2>1 DEF Onward
<1>12. /\ known'[r] = known[r] \cup (IF takes /\ Delegated(n) THEN {<<n, "type">>} ELSE {})
       /\ work'[r] = IF a # z /\ job.plan[p].dir = "export" /\ Owns(r, n) THEN <<mine[r][n]>> ELSE <<>>
       /\ status'[r] = IF refused THEN "raised" ELSE "running"
       /\ \A m \in Ranks : m # r => Untouched(m)
  <2>1. /\ DOMAIN known = Ranks /\ DOMAIN work = Ranks /\ DOMAIN status = Ranks
        BY DEF Shapes
  <2>2. /\ known'[r] = known[r] \cup (IF takes /\ Delegated(n) THEN {<<n, "type">>} ELSE {})
        /\ work'[r] = IF a # z /\ job.plan[p].dir = "export" /\ Owns(r, n) THEN <<mine[r][n]>> ELSE <<>>
        BY <1>6, <2>1
  <2>3. status'[r] = IF refused THEN "raised" ELSE "running" BY <1>1, <1>6, <2>1
  <2>4. \A m \in Ranks : m # r => Untouched(m) BY <1>6, <2>1 DEF Untouched
  <2> QED BY <2>2, <2>3, <2>4
<1>13. Ranks' = Ranks BY <1>6, GridStays
<1>14. Shaped'
  <2>1. /\ known' = [m \in Ranks |-> known'[m]] /\ mine' = [m \in Ranks |-> mine'[m]]
        /\ work' = [m \in Ranks |-> work'[m]] /\ out' = [m \in Ranks |-> out'[m]]
        /\ status' = [m \in Ranks |-> status'[m]]
        BY <1>6 DEF Shapes
  <2>2. tasks' = [m \in Ranks |-> tasks'[m]] /\ head' = [m \in Ranks |-> head'[m]] BY <1>6 DEF Shapes
  <2> QED BY <1>13, <2>1, <2>2 DEF Shaped
<1>16. job.plan[p].dir = "export" => ~takes BY <1>4
<1>17. CachesAt(r, p, a + 1, todo'[r], known'[r])
  <2>1. ASSUME NEW m \in Names(r) PROVE <<m, "layout">> \notin known'[r]
    <3>1. <<m, "layout">> \notin known[r] BY <1>9 DEF CachesAt
    <3>2. <<m, "layout">> # <<n, "type">> OBVIOUS
    <3> QED BY <1>12, <3>1, <3>2
  <2>2. ASSUME job.pp > 1, job.plan[p].dir = "export", NEW x \in 1 .. Size, NEW what \in Asked(TaskList(r)[x])
        PROVE  /\ Kept(p) \/ x < a + 1 => <<TaskList(r)[x], what>> \in known'[r]
               /\ ~Kept(p) /\ x = a + 1 =>
                    <<TaskList(r)[x], what>> \in known'[r] \/ Answer(what) \in Range(todo'[r])
               /\ ~Kept(p) /\ x > a + 1 => <<TaskList(r)[x], what>> \notin known'[r]
    <3>1. known'[r] = known[r] BY <1>12, <1>16, <2>2
    <3>2. /\ Kept(p) \/ x < a => <<TaskList(r)[x], what>> \in known[r]
          /\ ~Kept(p) /\ x = a => <<TaskList(r)[x], what>> \in known[r] \/ Answer(what) \in Range(<<>>)
          /\ ~Kept(p) /\ x > a => <<TaskList(r)[x], what>> \notin known[r]
          BY <1>9, <2>2 DEF CachesAt
    <3>3. Answer(what) \notin Range(<<>>) BY DEF Range
    <3>4. Kept(p) \/ x < a + 1 => <<TaskList(r)[x], what>> \in known'[r]
      <4>1. x < a + 1 => x < a \/ x = a BY <1>3
      <4> QED BY <1>7, <3>1, <3>2, <3>3, <4>1
    <3>5. ASSUME ~Kept(p), x = a + 1 PROVE Answer(what) \in Range(todo'[r])
      <4>1. a # z /\ TaskList(r)[x] = n BY <1>3, <3>5
      <4>2. Par(n) \in Param BY <1>8, <4>1, NamesAre
      <4>3. Program(r, p, a + 1) = Exporting(n, Kept(p))
        <5>1. a + 1 # 0 /\ a + 1 \in 1 .. Size BY <1>3, <4>1
        <5> QED BY <2>2, <5>1 DEF Program
      <4>4. Kept(p) = FALSE BY <1>7, <3>5
      <4>5. Answer(what) \in Range(Exporting(n, FALSE)) BY <2>2, <4>1, <4>2, ExportingFacts DEF JobFacts
      <4> QED BY <1>11, <4>3, <4>4, <4>5
    <3>6. x > a + 1 => x > a BY <1>3
    <3> QED BY <3>1, <3>2, <3>4, <3>5, <3>6
  <2> QED BY <2>1, <2>2 DEF CachesAt
<1>18. NoticesAt(r, p, a + 1, todo'[r], known'[r], status'[r])
  <2>1. NoticesAt(r, p, a, <<>>, known[r], "running") BY <1>1 DEF Noticed
  <2>2. ASSUME NEW m \in Names(r), NEW what \in Cached \cup {"spec"}, job.pp > 1, <<m, what>> \in known'[r]
        PROVE  m.i \notin job.missing
    <3>1. CASE <<m, what>> \in known[r] BY <2>1, <2>2, <3>1 DEF NoticesAt
    <3>2. CASE <<m, what>> \notin known[r]
      <4>1. takes /\ <<m, what>> = <<n, "type">> BY <1>12, <2>2, <3>2
      <4> QED BY <1>4, <4>1 DEF Owns
    <3> QED BY <3>1, <3>2
  <2>3. ASSUME job.pp > 1, job.plan[p].dir = "export", a + 1 \in 1 .. Size, TaskList(r)[a + 1].i \in job.missing
        PROVE  todo'[r] # <<>> /\ IsSurvey(Head(todo'[r]))
    <3>1. a # z /\ Par(n) \in Param
      <4>1. a # z BY <1>3, <2>3
      <4> QED BY <1>8, <4>1, NamesAre
    <3>2. "spec" \in Asked(n) BY DEF Asked
    <3>3. ~Kept(p)
      <4>1. Kept(p) => <<n, "spec">> \in known[r] BY <1>9, <2>3, <3>2 DEF CachesAt
      <4>2. <<n, "spec">> \notin known[r]
        <5>1. "spec" \in Cached \cup {"spec"} OBVIOUS
        <5> QED BY <1>8, <2>1, <2>3, <3>1, <5>1 DEF NoticesAt
      <4> QED BY <4>1, <4>2
    <3>4. Program(r, p, a + 1) = Exporting(n, Kept(p))
      <4>1. a + 1 # 0 BY <1>3
      <4> QED BY <2>3, <4>1 DEF Program
    <3>5. Kept(p) = FALSE BY <1>7, <3>3
    <3>6. Exporting(n, FALSE) # <<>> /\ IsSurvey(Head(Exporting(n, FALSE)))
          BY <2>3, <3>1, ExportingFacts DEF JobFacts
    <3> QED BY <1>11, <3>4, <3>5, <3>6
  <2> QED BY <2>2, <2>3 DEF NoticesAt
<1>19. WorksAt(r, p, a + 1, todo'[r], work'[r])
  <2>1. a + 1 \notin 1 .. Size \/ job.plan[p].dir # "export" => work'[r] = <<>> BY <1>8, <1>12
  <2>2. ASSUME job.plan[p].dir = "export", a + 1 \in 1 .. Size
        PROVE  IF n.i \in job.missing THEN work'[r] = <<>>
               ELSE (Owns(r, n) => work'[r] # <<>>) /\ (work'[r] # <<>> \/ TensorCall \in Range(todo'[r]))
    <3>1. a # z BY <1>3, <2>2
    <3>2. work'[r] = IF Owns(r, n) THEN <<mine[r][n]>> ELSE <<>> BY <1>12, <2>2, <3>1
    <3>3. n.i \in job.missing => work'[r] = <<>> BY <3>2 DEF Owns
    <3>4. Owns(r, n) => work'[r] # <<>> BY <3>2
    <3>5. ASSUME n.i \notin job.missing PROVE work'[r] # <<>> \/ TensorCall \in Range(todo'[r])
      <4>1. Par(n) \in Param /\ Par(n).stage \in 0 .. job.pp - 1 BY <1>8, <3>1, NamesAre
      <4>2. Stage(r) \in 0 .. job.pp - 1 BY RankParts
      <4>3. job.pp = 1 \/ job.pp > 1 BY OneStageOrMore
      <4>4. CASE job.pp = 1
        <5>1. Stage(r) = Par(n).stage BY <4>1, <4>2, <4>4
        <5> QED BY <3>4, <3>5, <5>1 DEF Owns
      <4>5. CASE job.pp > 1
        <5>1. Program(r, p, a + 1) = Exporting(n, Kept(p))
          <6>1. a + 1 # 0 BY <1>3
          <6> QED BY <2>2, <6>1 DEF Program
        <5>2. TensorCall \in Range(Exporting(n, Kept(p))) BY <1>7, <4>1, <4>5, ExportingFacts DEF JobFacts
        <5> QED BY <1>11, <5>1, <5>2
      <4> QED BY <4>3, <4>4, <4>5
    <3> QED BY <3>3, <3>4, <3>5
  <2> QED BY <2>1, <2>2 DEF WorksAt
<1>20. PassesAt(r, p, a + 1, todo'[r], status'[r])
  <2>1. PassesAt(r, p, a, <<>>, "running") BY <1>1 DEF Passed
  <2>2. status'[r] \in {"running", "raised"} BY <1>12
  <2>3. ASSUME refused PROVE ~Convertible
    <3>1. a # z /\ job.plan[p].dir = "import" /\ Owns(r, n) /\ Uneven(n) BY <1>4, <1>5, <2>3
    <3>2. "import" \in Directions BY <1>2, <3>1 DEF Directions
    <3>3. n.i \in Listed \ job.missing BY <1>8, <3>1, NamesAre DEF Owns
    <3>4. PICK m : m = [i |-> n.i, g |-> None] OBVIOUS
    <3>5. m.i = n.i BY <3>4
    <3>6. Uneven(m) BY <3>1, <3>5, UnevenFor
    <3> QED BY <3>2, <3>3, <3>4, <3>6 DEF Convertible
  <2>4. ASSUME ~refused, NEW x \in 1 .. Size, Begun(p, a + 1, x, "import")
        PROVE  ~(Owns(r, TaskList(r)[x]) /\ Uneven(TaskList(r)[x]) /\ TpRank(r, TaskList(r)[x]) = 0)
    <3>1. CASE Begun(p, a, x, "import") BY <2>1, <3>1 DEF PassesAt
    <3>2. CASE ~Begun(p, a, x, "import")
      <4>1. job.plan[p].dir = "import" /\ x <= a + 1 /\ ~(x <= a) BY <2>4, <3>2 DEF Begun
      <4>2. x = a + 1 /\ a # z BY <1>3, <4>1
      <4> QED BY <1>4, <1>5, <2>4, <4>1, <4>2
    <3> QED BY <3>1, <3>2
  <2>5. ASSUME NEW x \in 1 .. Size, Gone(p, a + 1, x, "export")
        PROVE  /\ Par(TaskList(r)[x]).expert # "sequential"
               /\ TaskList(r)[x].i \in job.missing =>
                    job.pp = 1 /\ Par(TaskList(r)[x]).kind \in {"gated", "chunked"}
    <3>1. CASE Gone(p, a, x, "export") BY <2>1, <3>1 DEF PassesAt
    <3>2. CASE ~Gone(p, a, x, "export")
      <4>1. job.plan[p].dir = "export" /\ x < a + 1 /\ ~(x < a) BY <2>5, <3>2 DEF Gone
      <4>2. x = a /\ a \in 1 .. Size BY <1>3, <4>1
      <4>3. InTask(r) /\ Cur(r) = TaskList(r)[x] /\ Cur(r) \in Names(r) BY <4>2, ListThere
      <4>4. Par(Cur(r)).expert # "sequential" /\ ~(work[r] = <<>> /\ Delegated(Cur(r)))
            BY <1>1, <4>1, <4>3 DEF Unnamed, Dir
      <4>5. ASSUME Cur(r).i \in job.missing PROVE job.pp = 1 /\ Par(Cur(r)).kind \in {"gated", "chunked"}
        <5>1. WorksAt(r, p, a, <<>>, work[r]) BY <1>1 DEF Working
        <5>2. work[r] = <<>> BY <4>1, <4>2, <4>3, <4>5, <5>1 DEF WorksAt
        <5>3. Par(Cur(r)).kind \in Kinds
          <6>1. Par(Cur(r)) \in Param BY <4>3, NamesAre
          <6> QED BY <6>1 DEF Param
        <5>4. Par(Cur(r)).kind \in {"gated", "chunked"} BY <4>4, <5>2, <5>3 DEF Delegated, Kinds
        <5>5. NoticesAt(r, p, a, <<>>, known[r], "running") BY <1>1 DEF Noticed
        <5>6. ~(job.pp > 1) BY <4>1, <4>2, <4>3, <4>5, <5>5 DEF NoticesAt
        <5>7. job.pp = 1 \/ job.pp > 1 BY OneStageOrMore
        <5> QED BY <5>4, <5>6, <5>7
      <4> QED BY <4>3, <4>4, <4>5
    <3> QED BY <3>1, <3>2
  <2>6. (status'[r] = "raised") <=> refused BY <1>12
  <2> QED BY <2>2, <2>3, <2>4, <2>5, <2>6 DEF PassesAt
<1>21. status'[r] \in {"running", "raised"} BY <1>12
<1>22. job' = job /\ tasks' = tasks BY <1>6
<1> QED BY <1>3, <1>10, <1>12, <1>14, <1>17, <1>18, <1>19, <1>20, <1>21, <1>22, InvAfterStep

LEMMA StillInStep ==
    ASSUME JobFacts, Shapes, Follows, InStep, job' = job, phase' = phase, at' = at, todo' = todo
    PROVE  Follows' /\ InStep'
<1>1. Ranks' = Ranks /\ (\A m \in Ranks : \A g \in {"pp", "tp", "etp", "ep", "embd"} : Members(m, g)' = Members(m, g))
      BY GridStays
<1>2. Size' = Size /\ \A m, p, a : Program(m, p, a)' = Program(m, p, a) BY ListsStay, ProgramsStay
<1>3. Follows' BY <1>1, <1>2 DEF Follows, FromEnd
<1>4. \A m, p, a, y : Left(m, p, a, y)' <=> Left(m, p, a, y) BY DEF Left
<1>5. InStep'
  <2>1. SUFFICES ASSUME NEW q \in Ranks, NEW m \in Ranks, NEW p \in DOMAIN job.plan, NEW a \in 0 .. Size + 1,
                        NEW y \in 1 .. Len(Program(q, p, a)),
                        (m \in Members(q, FromEnd(Program(q, p, a), y).group))'
                 PROVE  Left(q, p, a, y)' <=> Left(m, p, a, y)'
        BY <1>1, <1>2 DEF InStep
  <2>2. PICK c : c = FromEnd(Program(q, p, a), y) OBVIOUS
  <2>3. c.group \in {"pp", "tp", "etp", "ep", "embd"} BY <2>2, CallsInGroups
  <2>4. Members(q, c.group)' = Members(q, c.group) BY <1>1, <2>3
  <2>5. FromEnd(Program(q, p, a), y)' = c BY <1>2, <2>2 DEF FromEnd
  <2>6. m \in Members(q, FromEnd(Program(q, p, a), y).group) BY <2>1, <2>2, <2>4, <2>5
  <2> QED BY <1>4, <2>6 DEF InStep
<1> QED BY <1>3, <1>5

\* A rank that stops where it is.
LEMMA InvAfterStop ==
    ASSUME JobFacts, IInv, NEW r \in Ranks, NEW s \in {"raised", "done"}, status' = [status EXCEPT ![r] = s],
           UNCHANGED <<job, phase, tasks, at, todo, known, mine, head, work, out>>,
           status[r] = "running", PassesAt(r, phase[r], at[r], todo[r], s)
    PROVE  IInv'
<1> USE DEF IInv
<1>1. /\ job' = job /\ phase' = phase /\ tasks' = tasks /\ at' = at /\ todo' = todo /\ known' = known
      /\ mine' = mine /\ head' = head /\ work' = work /\ out' = out
      OBVIOUS
<1>2. Follows' /\ InStep' BY <1>1, StillInStep
<1>3. Ranks' = Ranks /\ Opening(1)' = Opening(1) BY <1>1, GridStays
<1>4. Size' = Size /\ \A m : TaskList(m)' = TaskList(m) BY <1>1, ListsStay
<1>5. status' = [m \in Ranks |-> status'[m]] /\ \A m \in Ranks : status'[m] = IF m = r THEN s ELSE status[m]
      BY DEF Shapes
<1>6. Shapes'
  <2>1. \A m \in Ranks : status'[m] \in {"running", "raised", "done"} BY <1>5 DEF Shapes
  <2> QED BY <1>1, <1>3, <1>4, <1>5, <2>1 DEF Shapes
<1>7. Listing' BY <1>1, <1>3, <1>4 DEF Listing
<1>8. \A m \in Ranks : NoticesAt(m, phase[m], at[m], todo[m], known[m], status'[m])
  <2>1. ASSUME NEW m \in Ranks PROVE NoticesAt(m, phase[m], at[m], todo[m], known[m], status'[m])
    <3>1. NoticesAt(m, phase[m], at[m], todo[m], known[m], status[m]) BY DEF Noticed
    <3> QED BY <1>5, <3>1 DEF NoticesAt
  <2> QED BY <2>1
<1>9. \A m \in Ranks : PassesAt(m, phase[m], at[m], todo[m], status'[m]) BY <1>5 DEF Passed
<1>10. Caching' /\ Noticed' /\ Working' /\ Passed'
  <2>1. /\ \A m, p, a, t, k : CachesAt(m, p, a, t, k)' <=> CachesAt(m, p, a, t, k)
        /\ \A m, p, a, t, k, u : NoticesAt(m, p, a, t, k, u)' <=> NoticesAt(m, p, a, t, k, u)
        /\ \A m, p, a, t, w : WorksAt(m, p, a, t, w)' <=> WorksAt(m, p, a, t, w)
        /\ \A m, p, a, t, u : PassesAt(m, p, a, t, u)' <=> PassesAt(m, p, a, t, u)
        BY <1>1, RulesStay
  <2>2. Caching' BY <1>1, <1>3, <2>1 DEF Caching
  <2>3. Noticed' BY <1>1, <1>3, <1>8, <2>1 DEF Noticed
  <2>4. Working' BY <1>1, <1>3, <2>1 DEF Working
  <2>5. Passed' BY <1>1, <1>3, <1>9, <2>1 DEF Passed
  <2> QED BY <2>2, <2>3, <2>4, <2>5
<1> QED BY <1>2, <1>6, <1>7, <1>10

LEMMA InvAfterStutter ==
    ASSUME JobFacts, IInv, UNCHANGED <<job, phase, tasks, at, todo, known, mine, head, work, out, status>>
    PROVE  IInv'
<1> USE DEF IInv
<1>1. /\ job' = job /\ phase' = phase /\ tasks' = tasks /\ at' = at /\ todo' = todo /\ known' = known
      /\ mine' = mine /\ head' = head /\ work' = work /\ out' = out /\ status' = status
      OBVIOUS
<1>2. Follows' /\ InStep' BY <1>1, StillInStep
<1>3. Ranks' = Ranks /\ Opening(1)' = Opening(1) BY <1>1, GridStays
<1>4. Size' = Size /\ \A m : TaskList(m)' = TaskList(m) BY <1>1, ListsStay
<1>5. Shapes' BY <1>1, <1>3, <1>4 DEF Shapes
<1>6. Listing' BY <1>1, <1>3, <1>4 DEF Listing
<1>7. Caching' /\ Noticed' /\ Working' /\ Passed'
  <2>1. /\ \A m, p, a, t, k : CachesAt(m, p, a, t, k)' <=> CachesAt(m, p, a, t, k)
        /\ \A m, p, a, t, k, u : NoticesAt(m, p, a, t, k, u)' <=> NoticesAt(m, p, a, t, k, u)
        /\ \A m, p, a, t, w : WorksAt(m, p, a, t, w)' <=> WorksAt(m, p, a, t, w)
        /\ \A m, p, a, t, u : PassesAt(m, p, a, t, u)' <=> PassesAt(m, p, a, t, u)
        BY <1>1, RulesStay
  <2>2. Caching' BY <1>1, <1>3, <2>1 DEF Caching
  <2>3. Noticed' BY <1>1, <1>3, <2>1 DEF Noticed
  <2>4. Working' BY <1>1, <1>3, <2>1 DEF Working
  <2>5. Passed' BY <1>1, <1>3, <2>1 DEF Passed
  <2> QED BY <2>2, <2>3, <2>4, <2>5
<1> QED BY <1>2, <1>5, <1>6, <1>7

LEMMA RaiseStep ==
    ASSUME JobFacts, IInv, NEW r \in Ranks, Raise(r)
    PROVE  IInv'
<1> USE DEF IInv
<1>1. /\ status[r] = "running" /\ todo[r] = <<>> /\ Unnamed(r) /\ status' = [status EXCEPT ![r] = "raised"]
      /\ UNCHANGED <<job, phase, tasks, at, todo, known, mine, head, work, out>>
      BY DEF Raise, Idle
<1>2. /\ at[r] \in 1 .. Size /\ Dir(r) = "export" /\ Cur(r) = TaskList(r)[at[r]] /\ Cur(r) \in Names(r)
      BY <1>1, ListThere DEF Unnamed
<1>3. ~Convertible
  <2>1. "export" \in Directions
    <3>1. phase[r] \in DOMAIN job.plan BY DEF Shapes
    <3> QED BY <1>2, <3>1 DEF Directions, Dir
  <2>2. Cur(r).i \in Listed BY <1>2, NamesAre
  <2>3. CASE Par(Cur(r)).expert = "sequential" BY <2>1, <2>2, <2>3 DEF Convertible, Par
  <2>4. CASE work[r] = <<>> /\ Delegated(Cur(r))
    <3>1. WorksAt(r, phase[r], at[r], <<>>, work[r]) BY <1>1 DEF Working
    <3>2. Range(<<>>) = {} BY DEF Range
    <3>3. Cur(r).i \in job.missing BY <1>2, <2>4, <3>1, <3>2 DEF WorksAt, Dir
    <3>4. Par(Cur(r)).kind \notin {"gated", "chunked"} BY <2>4 DEF Delegated, Direct
    <3> QED BY <2>1, <2>2, <3>3, <3>4 DEF Convertible, Par
  <2> QED BY <1>1, <2>3, <2>4 DEF Unnamed
<1>4. PassesAt(r, phase[r], at[r], todo[r], "raised") BY <1>3 DEF PassesAt
<1> QED BY <1>1, <1>4, InvAfterStop

LEMMA ReturnStep ==
    ASSUME ExportsAfterExports, JobFacts, IInv, NEW r \in Ranks, Return(r)
    PROVE  IInv'
<1> USE DEF IInv
<1> PICK p : p = phase[r] OBVIOUS
<1> PICK z \in Nat \ {0} : z = Size BY SameTasks
<1>1. status[r] = "running" /\ todo[r] = <<>> /\ Ended(r) BY DEF Return, Idle
<1>2. at[r] = z + 1 /\ tasks[r] = TaskList(r) BY <1>1, ListThere
<1>3. p \in DOMAIN job.plan /\ DOMAIN job.plan = 1 .. Len(job.plan) /\ Len(job.plan) \in Nat
      BY PlanIsSequence DEF Shapes
<1>4. PassesAt(r, p, z + 1, <<>>, "running") BY <1>1, <1>2 DEF Passed
<1>5. CASE p = Len(job.plan)
  <2>1. /\ status' = [status EXCEPT ![r] = "done"]
        /\ UNCHANGED <<job, phase, tasks, at, todo, known, mine, head, work, out>>
        BY <1>5 DEF Return
  <2>2. PassesAt(r, phase[r], at[r], todo[r], "done") BY <1>1, <1>2, <1>4, <1>5 DEF PassesAt
  <2> QED BY <1>1, <2>1, <2>2, InvAfterStop
<1>6. CASE p # Len(job.plan)
  <2>1. /\ phase' = [phase EXCEPT ![r] = p + 1] /\ at' = [at EXCEPT ![r] = 0]
        /\ todo' = [todo EXCEPT ![r] = Opening(p + 1)]
        /\ known' = [known EXCEPT ![r] = IF job.plan[p + 1].fresh THEN {} ELSE @]
        /\ out' = [out EXCEPT ![r] = <<>>] /\ status' = status
        /\ job' = job /\ tasks' = tasks /\ mine' = mine /\ head' = head /\ work' = work
        BY <1>6 DEF Return
  <2>2. p \in Nat /\ p + 1 \in DOMAIN job.plan /\ p < p + 1 /\ (p + 1) - 1 = p BY <1>3, <1>6
  <2>3. Program(r, p + 1, 0) = Opening(p + 1) BY DEF Program
  <2>4. Onward(r, p + 1, 0)
    <3>1. 0 \in 0 .. Size + 1 OBVIOUS
    <3> QED BY <1>1, <1>2, <2>1, <2>2, <2>3, <3>1 DEF Onward
  <2>5. Ranks' = Ranks BY <2>1, GridStays
  <2>6. Shaped' BY <2>1, <2>5 DEF Shaped, Shapes
  <2>7. /\ known'[r] = (IF job.plan[p + 1].fresh THEN {} ELSE known[r]) /\ work'[r] = work[r] /\ status'[r] = "running"
        /\ \A m \in Ranks : m # r => Untouched(m)
    <3>1. DOMAIN known = Ranks BY DEF Shapes
    <3> QED BY <1>1, <2>1, <3>1 DEF Untouched
  <2>8. CachesAt(r, p, z + 1, <<>>, known[r]) BY <1>1, <1>2 DEF Caching
  <2>9. CachesAt(r, p + 1, 0, todo'[r], known'[r])
    <3>1. \A n \in Names(r) : <<n, "layout">> \notin known'[r] BY <2>7, <2>8 DEF CachesAt
    <3>2. ASSUME job.pp > 1, job.plan[p + 1].dir = "export", NEW x \in 1 .. Size, NEW what \in Asked(TaskList(r)[x])
          PROVE  /\ Kept(p + 1) \/ x < 0 => <<TaskList(r)[x], what>> \in known'[r]
                 /\ ~(~Kept(p + 1) /\ x = 0)
                 /\ ~Kept(p + 1) /\ x > 0 => <<TaskList(r)[x], what>> \notin known'[r]
      <4>1. x > 0 BY <1>2
      <4>2. ASSUME Kept(p + 1) PROVE <<TaskList(r)[x], what>> \in known'[r]
        <5>1. ~job.plan[p + 1].fresh BY <4>2 DEF Kept
        <5>2. job.plan[(p + 1) - 1].dir = "export" BY <2>2, <3>2, <5>1 DEF ExportsAfterExports, Shapes
        <5>3. job.plan[p].dir = "export" BY <2>2, <5>2
        <5>4. x < z + 1 BY <1>2
        <5>5. <<TaskList(r)[x], what>> \in known[r] BY <2>8, <3>2, <5>3, <5>4 DEF CachesAt
        <5> QED BY <2>7, <5>1, <5>5
      <4>3. ~Kept(p + 1) => <<TaskList(r)[x], what>> \notin known'[r] BY <2>7 DEF Kept
      <4> QED BY <4>1, <4>2, <4>3
    <3> QED BY <3>1, <3>2 DEF CachesAt
  <2>10. NoticesAt(r, p + 1, 0, todo'[r], known'[r], status'[r])
    <3>1. NoticesAt(r, p, z + 1, <<>>, known[r], "running") BY <1>1, <1>2 DEF Noticed
    <3>2. known'[r] \subseteq known[r] BY <2>7
    <3>3. 0 \notin 1 .. Size OBVIOUS
    <3> QED BY <3>1, <3>2, <3>3 DEF NoticesAt
  <2>11. WorksAt(r, p + 1, 0, todo'[r], work'[r])
    <3>1. WorksAt(r, p, z + 1, <<>>, work[r]) BY <1>1, <1>2 DEF Working
    <3>2. 0 \notin 1 .. Size /\ z + 1 \notin 1 .. Size OBVIOUS
    <3> QED BY <2>7, <3>1, <3>2 DEF WorksAt
  <2>12. PassesAt(r, p + 1, 0, todo'[r], status'[r])
    <3>1. ASSUME NEW x \in 1 .. Size, NEW dir
          PROVE  /\ Begun(p + 1, 0, x, dir) => Begun(p, z + 1, x, dir)
                 /\ Gone(p + 1, 0, x, dir) => Gone(p, z + 1, x, dir)
      <4>1. x <= z + 1 /\ x < z + 1 /\ ~(x <= 0) /\ ~(x < 0) BY <1>2
      <4>2. \A q \in DOMAIN job.plan : q < p + 1 => q < p \/ q = p BY <1>3
      <4> QED BY <4>1, <4>2 DEF Begun, Gone
    <3> QED BY <1>4, <2>7, <3>1 DEF PassesAt
  <2>13. status'[r] \in {"running", "raised"} /\ job' = job /\ tasks' = tasks BY <2>1, <2>7
  <2> QED BY <1>2, <2>4, <2>6, <2>7, <2>9, <2>10, <2>11, <2>12, <2>13, InvAfterStep
<1> QED BY <1>5, <1>6

-----------------------------------------------------------------------------
(* The invariant holds.                                                    *)

LEMMA InitInv == Init => JobFacts /\ IInv
<1> SUFFICES ASSUME Init PROVE JobFacts /\ IInv OBVIOUS
<1>1. job \in Jobs BY DEF Init
<1>2. JobFacts BY <1>1, JobsAreSuch
<1>3. Ranks # {} => Size \in Nat \ {0} BY <1>2, SameTasks
<1>4. /\ \A r \in Ranks : /\ phase[r] = 1 /\ tasks[r] = <<>> /\ at[r] = 0 /\ todo[r] = Opening(1) /\ known[r] = {}
                          /\ mine[r] = <<>> /\ head[r] = <<>> /\ work[r] = <<>> /\ out[r] = <<>>
                          /\ status[r] = "running"
      BY DEF Init
<1>5. 1 \in DOMAIN job.plan /\ job.plan[1].fresh BY <1>2 DEF JobFacts
<1>6. ASSUME NEW r \in Ranks PROVE 0 \in 0 .. Size + 1 /\ 0 \notin 1 .. Size /\ \A x \in 1 .. Size : x > 0 /\ x \in Nat
      BY <1>3
<1>7. Shapes
  <2>1. \A r \in Ranks : /\ phase[r] \in DOMAIN job.plan /\ at[r] \in 0 .. Size + 1
                         /\ status[r] \in {"running", "raised", "done"}
        BY <1>4, <1>5, <1>6
  <2> QED BY <1>1, <2>1 DEF Shapes, Init
<1>8. Follows
  <2>1. ASSUME NEW r \in Ranks
        PROVE  /\ Len(todo[r]) \in 0 .. Len(Program(r, phase[r], at[r]))
               /\ todo[r] \in Seq(Range(Program(r, phase[r], at[r])))
               /\ \A y \in 1 .. Len(todo[r]) : FromEnd(todo[r], y) = FromEnd(Program(r, phase[r], at[r]), y)
    <3>1. PICK s : s = Program(r, 1, 0) OBVIOUS
    <3>2. s \in Seq(AnyCall) BY <1>2, <1>5, <1>6, <3>1, Programs
    <3>3. s \in Seq(Range(s)) /\ Len(s) \in 0 .. Len(s)
      <4>1. PICK l \in Nat : l = Len(s) /\ DOMAIN s = 1 .. l BY <3>2
      <4>2. \A x \in 1 .. l : s[x] \in Range(s) BY <4>1 DEF Range
      <4>3. s = [x \in 1 .. l |-> s[x]] BY <3>2, <4>1
      <4> QED BY <4>1, <4>2, <4>3
    <3>4. todo[r] = s /\ Program(r, phase[r], at[r]) = s BY <1>4, <3>1 DEF Program
    <3> QED BY <3>3, <3>4
  <2> QED BY <2>1 DEF Follows
<1>9. Listing BY <1>4 DEF Listing
<1>10. InStep
  <2>1. ASSUME NEW r \in Ranks, NEW m \in Ranks, NEW p, NEW a, NEW y PROVE Left(r, p, a, y) <=> Left(m, p, a, y)
        BY <1>4 DEF Left
  <2> QED BY <2>1 DEF InStep
<1>11. ~Kept(1) BY <1>5 DEF Kept
<1>12. ASSUME NEW r \in Ranks
       PROVE  /\ CachesAt(r, 1, 0, todo[r], {}) /\ NoticesAt(r, 1, 0, todo[r], {}, "running")
              /\ WorksAt(r, 1, 0, todo[r], <<>>) /\ PassesAt(r, 1, 0, todo[r], "running")
  <2>1. 0 \notin 1 .. Size /\ \A x \in 1 .. Size : x > 0 /\ ~(x < 0) /\ x # 0 /\ ~(x <= 0) BY <1>6
  <2>2. CachesAt(r, 1, 0, todo[r], {}) BY <1>11, <2>1 DEF CachesAt
  <2>3. NoticesAt(r, 1, 0, todo[r], {}, "running") BY <2>1 DEF NoticesAt
  <2>4. WorksAt(r, 1, 0, todo[r], <<>>) BY <2>1 DEF WorksAt
  <2>5. \A x \in 1 .. Size : \A dir : ~Begun(1, 0, x, dir) /\ ~Gone(1, 0, x, dir)
    <3>1. \A q \in DOMAIN job.plan : ~(q < 1)
      <4>1. DOMAIN job.plan = 1 .. Len(job.plan) BY <1>2 DEF JobFacts
      <4> QED BY <4>1
    <3> QED BY <2>1, <3>1 DEF Begun, Gone
  <2>6. PassesAt(r, 1, 0, todo[r], "running") BY <2>5 DEF PassesAt
  <2> QED BY <2>2, <2>3, <2>4, <2>6
<1>13. Caching /\ Noticed /\ Working /\ Passed BY <1>4, <1>12 DEF Caching, Noticed, Working, Passed
<1> QED BY <1>2, <1>7, <1>8, <1>9, <1>10, <1>13 DEF IInv

LEMMA StepInv ==
    ASSUME ExportsAfterExports, IInv, [Next]_vars
    PROVE  IInv'
<1>1. JobFacts BY JobsAreSuch DEF IInv, Shapes
<1>2. CASE Next
  <2>1. PICK r \in Ranks :
           \/ NextTask(r) \/ Raise(r) \/ Return(r) \/ Survey(r) \/ Object(r) \/ Tensor(r) \/ TpGather(r)
           \/ EpGather(r) \/ TpScatter(r) \/ ShareEmbedding(r)
        BY <1>2 DEF Next
  <2>2. CASE NextTask(r) BY <1>1, <2>2, NextTaskStep
  <2>3. CASE Raise(r) BY <1>1, <2>3, RaiseStep
  <2>4. CASE Return(r) BY <1>1, <2>4, ReturnStep
  <2>5. CASE Survey(r) BY <1>1, <2>5, SurveyStep
  <2>6. CASE Object(r) BY <1>1, <2>6, ObjectStep
  <2>7. CASE Tensor(r) BY <1>1, <2>7, TensorStep
  <2>8. CASE TpGather(r) BY <1>1, <2>8, TpGatherStep
  <2>9. CASE EpGather(r) \/ TpScatter(r) \/ ShareEmbedding(r) BY <1>1, <2>9, OtherCallStep
  <2> QED BY <2>1, <2>2, <2>3, <2>4, <2>5, <2>6, <2>7, <2>8, <2>9
<1>3. CASE UNCHANGED vars
  <2>1. UNCHANGED <<job, phase, tasks, at, todo, known, mine, head, work, out>> /\ status' = status
        BY <1>3 DEF vars, where
  <2> QED BY <1>1, <2>1, InvAfterStutter
<1> QED BY <1>2, <1>3

\* The ranks of a conversion always follow their programs in step, whatever
\* the grid, the parameters and the plan: every collective of the import and
\* of the export is reached by its whole group at one task, with the caches
\* and gathered tensors the next calls are decided by alike on all of them.
THEOREM InStepAlways ==
    ASSUME ExportsAfterExports
    PROVE  Spec => []IInv
<1>1. Init => IInv BY InitInv
<1>2. IInv /\ [Next]_vars => IInv' BY StepInv
<1> QED BY <1>1, <1>2, PTL DEF Spec

-----------------------------------------------------------------------------
(* No hang.                                                                *)

\* What a conversion that has ended has passed is all there is.
LEMMA DoneConvertible ==
    ASSUME JobFacts, IInv, \A r \in Ranks : status[r] = "done"
    PROVE  Convertible
<1> USE DEF IInv
<1>1. ASSUME NEW i \in Listed, NEW s \in 0 .. job.pp - 1, NEW dir, dir \in Directions
      PROVE  \E r \in Ranks : \E x \in 1 .. Size :
                /\ Stage(r) = s /\ Slot(r) = 0 /\ TaskList(r)[x].i = i
                /\ Begun(phase[r], at[r], x, dir) /\ Gone(phase[r], at[r], x, dir)
                /\ PassesAt(r, phase[r], at[r], todo[r], "done")
  <2>1. 0 \in 0 .. job.stageSize - 1 BY DEF JobFacts
  <2>2. PICK r \in Ranks : Stage(r) = s /\ Slot(r) = 0 BY <2>1, RankAt
  <2>3. \E n \in Names(r) : n.i = i
    <3>1. PICK g : g \in Numbers(job.params[i], r) BY NamesAre
    <3>2. [i |-> i, g |-> g] \in Names(r) BY <3>1, NamesAre
    <3> QED BY <3>2
  <2>4. PICK x \in 1 .. Size : TaskList(r)[x].i = i BY <2>3, SameTasks
  <2>5. PassesAt(r, phase[r], at[r], todo[r], "done") BY DEF Passed
  <2>6. phase[r] = Len(job.plan) /\ at[r] = Size + 1 BY <2>5 DEF PassesAt
  <2>7. Begun(phase[r], at[r], x, dir) /\ Gone(phase[r], at[r], x, dir)
    <3>1. PICK k \in DOMAIN job.plan : job.plan[k].dir = dir BY <1>1 DEF Directions
    <3>2. DOMAIN job.plan = 1 .. Len(job.plan) /\ Len(job.plan) \in Nat BY PlanIsSequence
    <3>3. k < phase[r] \/ k = phase[r] BY <2>6, <3>2
    <3>4. x <= at[r] /\ x < at[r]
      <4>1. Size \in Nat BY SameTasks
      <4> QED BY <2>6, <4>1
    <3> QED BY <3>1, <3>3, <3>4 DEF Begun, Gone
  <2> QED BY <2>2, <2>4, <2>5, <2>7
<1>2. ASSUME "import" \in Directions, NEW i \in Listed \ job.missing PROVE ~Uneven([i |-> i, g |-> None])
  <2>1. i \in Listed /\ job.params[i].stage \in 0 .. job.pp - 1
    <3>1. i \in DOMAIN job.params BY DEF JobFacts
    <3>2. job.params[i] \in Param /\ job.params[i].stage < job.pp BY <3>1 DEF JobFacts
    <3>3. PICK s \in Nat : s = job.params[i].stage BY <3>2 DEF Param
    <3>4. PICK p \in Nat \ {0} : p = job.pp BY DEF JobFacts
    <3>5. s < p BY <3>2, <3>3, <3>4
    <3>6. s \in 0 .. p - 1 BY ONLY <3>5, p \in Nat \ {0}, s \in Nat
    <3> QED BY <3>3, <3>4, <3>6
  <2>2. PICK r \in Ranks : \E x \in 1 .. Size :
            /\ Stage(r) = job.params[i].stage /\ Slot(r) = 0 /\ TaskList(r)[x].i = i
            /\ Begun(phase[r], at[r], x, "import") /\ PassesAt(r, phase[r], at[r], todo[r], "done")
        BY <1>1, <1>2, <2>1
  <2>3. PICK x \in 1 .. Size :
            /\ Stage(r) = job.params[i].stage /\ Slot(r) = 0 /\ TaskList(r)[x].i = i
            /\ Begun(phase[r], at[r], x, "import") /\ PassesAt(r, phase[r], at[r], todo[r], "done")
        BY <2>2
  <2>4. PICK n : n = TaskList(r)[x] OBVIOUS
  <2>5. ~(Owns(r, n) /\ Uneven(n) /\ TpRank(r, n) = 0) BY <2>3, <2>4 DEF PassesAt
  <2>6. Owns(r, n) BY <1>2, <2>3, <2>4 DEF Owns, Par
  <2>7. TpRank(r, n) = 0
    <3>1. PICK t \in Nat \ {0} : t = Tp(n) BY DEF Tp, JobFacts
    <3>2. 0 % t = 0 OBVIOUS
    <3> QED BY <2>3, <3>1, <3>2 DEF TpRank
  <2>8. ~Uneven(n) BY <2>5, <2>6, <2>7
  <2>9. PICK m : m = [i |-> i, g |-> None] OBVIOUS
  <2>10. m.i = n.i BY <2>3, <2>4, <2>9
  <2> QED BY <2>8, <2>9, <2>10, UnevenFor
<1>3. ASSUME "export" \in Directions, NEW i \in Listed
      PROVE  /\ job.params[i].expert # "sequential"
             /\ i \in job.missing => job.pp = 1 /\ job.params[i].kind \in {"gated", "chunked"}
  <2>1. 0 \in 0 .. job.pp - 1 BY DEF JobFacts
  <2>2. PICK r \in Ranks : \E x \in 1 .. Size :
            TaskList(r)[x].i = i /\ Gone(phase[r], at[r], x, "export") /\ PassesAt(r, phase[r], at[r], todo[r], "done")
        BY <1>1, <1>3, <2>1
  <2> QED BY <2>2 DEF PassesAt, Par
<1> QED BY <1>2, <1>3 DEF Convertible

\* A rank that is furthest behind is joined by its whole group, or idle.
LEMMA SomeRankMoves ==
    ASSUME JobFacts, IInv, NEW r \in Ranks, status[r] = "running", \A m \in Ranks : status[m] # "raised",
           \A m \in Ranks : ~Idle(m)
    PROVE  \E m \in Ranks : Together(m, ExportOps \cup {"names", "scatter", "bcast", "embedding"})
<1> USE DEF IInv
<1> DEFINE R == {m \in Ranks : status[m] = "running"}
<1>1. /\ DOMAIN job.plan = 1 .. Len(job.plan) /\ Size \in Nat
      /\ \A m \in Ranks : phase[m] \in Nat /\ at[m] \in Nat /\ phase[m] \in DOMAIN job.plan /\ at[m] \in 0 .. Size + 1
  <2>1. DOMAIN job.plan = 1 .. Len(job.plan) /\ Size \in Nat BY SameTasks DEF JobFacts
  <2>2. \A m \in Ranks : phase[m] \in DOMAIN job.plan /\ at[m] \in 0 .. Size + 1 BY DEF Shapes
  <2> QED BY <2>1, <2>2
<1>2. PICK p \in {phase[m] : m \in R} : \A q \in {phase[m] : m \in R} : p <= q
  <2>1. {phase[m] : m \in R} \subseteq Nat /\ {phase[m] : m \in R} # {} BY <1>1
  <2> QED BY <2>1, LeastNumber
<1> DEFINE S == {m \in R : phase[m] = p}
<1>3. PICK a \in {at[m] : m \in S} : \A b \in {at[m] : m \in S} : a <= b
  <2>1. {at[m] : m \in S} \subseteq Nat /\ {at[m] : m \in S} # {} BY <1>1, <1>2
  <2> QED BY <2>1, LeastNumber
<1> DEFINE T == {m \in S : at[m] = a}
           made(m) == Len(Program(m, p, a)) - Len(todo[m])
<1>4. ASSUME NEW m \in T
      PROVE  /\ m \in Ranks /\ phase[m] = p /\ at[m] = a /\ status[m] = "running" /\ todo[m] # <<>>
             /\ Len(Program(m, p, a)) \in Nat /\ Len(todo[m]) \in 1 .. Len(Program(m, p, a)) /\ made(m) \in Nat
  <2>1. m \in Ranks /\ phase[m] = p /\ at[m] = a /\ status[m] = "running" OBVIOUS
  <2>2. todo[m] # <<>> BY <2>1 DEF Idle
  <2>3. Len(Program(m, p, a)) \in Nat BY <1>1, <2>1, Programs
  <2>4. Len(todo[m]) \in 1 .. Len(Program(m, p, a)) BY <2>1, <2>2, Pending
  <2>5. made(m) \in Nat BY <2>3, <2>4
  <2> QED BY <2>1, <2>2, <2>3, <2>4, <2>5
<1>5. PICK d \in {made(m) : m \in T} : \A e \in {made(m) : m \in T} : d <= e
  <2>1. {made(m) : m \in T} \subseteq Nat BY <1>4
  <2>2. {made(m) : m \in T} # {} BY <1>3
  <2> HIDE DEF made, T
  <2> QED BY <2>1, <2>2, LeastNumber
<1>6. PICK k \in T : made(k) = d BY <1>5
<1>7. PICK y : y = Len(todo[k]) OBVIOUS
<1>8. PICK c : c = Head(todo[k]) OBVIOUS
<1>9. /\ k \in Ranks /\ phase[k] = p /\ at[k] = a /\ todo[k] # <<>> /\ y \in 1 .. Len(Program(k, p, a))
      /\ p \in DOMAIN job.plan /\ a \in 0 .. Size + 1 /\ y \in Nat \ {0}
  <2>1. /\ k \in Ranks /\ phase[k] = p /\ at[k] = a /\ todo[k] # <<>> /\ y \in 1 .. Len(Program(k, p, a))
        /\ Len(Program(k, p, a)) \in Nat
        BY <1>4, <1>6, <1>7
  <2>2. p \in DOMAIN job.plan /\ a \in 0 .. Size + 1 BY <1>1, <2>1
  <2> QED BY <2>1, <2>2
<1>10. c = FromEnd(Program(k, p, a), y) /\ Left(k, p, a, y) BY <1>7, <1>8, <1>9, Pending
<1>11. ASSUME NEW m \in Group(k) PROVE status[m] = "running" /\ todo[m] # <<>> /\ Head(todo[m]) = c
  <2>1. m \in Members(k, FromEnd(Program(k, p, a), y).group) BY <1>8, <1>10, <1>11 DEF Group
  <2>2. m \in Ranks /\ Program(m, p, a) = Program(k, p, a) BY <1>9, <2>1, SharedCall
  <2>3. Left(m, p, a, y) BY <1>9, <1>10, <2>1, <2>2 DEF InStep
  <2>4. status[m] # "done"
    <3> SUFFICES ASSUME status[m] = "done" PROVE FALSE OBVIOUS
    <3>1. PassesAt(m, phase[m], at[m], todo[m], "done") BY <2>2 DEF Passed
    <3>2. phase[m] = Len(job.plan) /\ at[m] = Size + 1 /\ todo[m] = <<>> BY <3>1 DEF PassesAt
    <3>3. Len(todo[m]) = 0 /\ Len(job.plan) \in Nat /\ p <= Len(job.plan) /\ a <= Size + 1 /\ ~(y <= 0)
          BY <1>1, <1>9, <3>2 DEF JobFacts
    <3>4. p \in Nat /\ a \in Nat BY <1>1, <1>9
    <3> QED BY <1>1, <2>3, <3>2, <3>3, <3>4 DEF Left
  <2>5. status[m] = "running" BY <2>2, <2>4 DEF Shapes
  <2>6. todo[m] # <<>> BY <2>2, <2>5 DEF Idle
  <2>7. m \in R BY <2>2, <2>5
  <2>8. p <= phase[m] BY <1>2, <2>7
  <2>9. phase[m] = p
    <3>1. phase[m] \in Nat /\ p \in Nat BY <1>1, <1>9, <2>2
    <3> QED BY <2>3, <2>8, <3>1 DEF Left
  <2>10. a <= at[m] BY <1>3, <2>7, <2>9
  <2>11. at[m] = a /\ y <= Len(todo[m])
    <3>1. p \in Nat /\ a \in Nat /\ at[m] \in Nat BY <1>1, <1>9, <2>2
    <3>2. phase[m] < p \/ (phase[m] = p /\ (at[m] < a \/ (at[m] = a /\ y <= Len(todo[m])))) BY <2>3 DEF Left
    <3> QED BY <2>9, <2>10, <3>1, <3>2
  <2>12. m \in T BY <2>7, <2>9, <2>11
  <2>13. made(k) <= made(m) BY <1>5, <1>6, <2>12
  <2>14. Len(todo[m]) = y
    <3>1. PICK l \in Nat : l = Len(Program(k, p, a)) BY <1>4, <1>6
    <3>2. PICK z \in Nat : z = Len(todo[m])
      <4>1. Len(todo[m]) \in 1 .. Len(Program(m, p, a)) /\ Len(Program(m, p, a)) \in Nat BY <1>4, <2>12
      <4> QED BY <4>1
    <3>3. made(k) = l - y /\ made(m) = l - z BY <1>7, <2>2, <3>1, <3>2
    <3> HIDE DEF made
    <3>4. l - y <= l - z BY <2>13, <3>3
    <3> QED BY <1>9, <2>11, <3>2, <3>4
  <2>15. Head(todo[m]) = FromEnd(Program(m, phase[m], at[m]), Len(todo[m])) BY <2>2, <2>6, Pending
  <2>16. Head(todo[m]) = c BY <1>10, <2>2, <2>9, <2>11, <2>14, <2>15
  <2> QED BY <2>5, <2>6, <2>16
<1>12. c.op \in ExportOps \cup {"names", "scatter", "bcast", "embedding"} BY <1>8, <1>9, CallKind
<1>13. Together(k, ExportOps \cup {"names", "scatter", "bcast", "embedding"}) BY <1>8, <1>9, <1>11, <1>12 DEF Together
<1> QED BY <1>9, <1>13

LEMMA InvNoHang == ASSUME IInv PROVE NoHang
<1> USE DEF IInv
<1>1. JobFacts BY JobsAreSuch DEF Shapes
<1>2. ASSUME NEW r \in Ranks, status[r] = "raised" PROVE ~Convertible
  <2>1. PassesAt(r, phase[r], at[r], todo[r], "raised") BY <1>2 DEF Passed
  <2> QED BY <2>1 DEF PassesAt
<1>3. (\A r \in Ranks : status[r] = "done") => Convertible BY <1>1, DoneConvertible
<1>4. \/ \E r \in Ranks : Idle(r) \/ Together(r, {"names", "flags", "spec", "object", "tensor", "part", "rows",
                                                  "expert", "scatter", "bcast", "embedding"})
      \/ \E r \in Ranks : status[r] = "raised"
      \/ \A r \in Ranks : status[r] = "done"
  <2> SUFFICES ASSUME \A r \in Ranks : ~Idle(r), \A r \in Ranks : status[r] # "raised",
                      NEW k \in Ranks, status[k] # "done"
               PROVE  \E r \in Ranks : Together(r, {"names", "flags", "spec", "object", "tensor", "part", "rows",
                                                    "expert", "scatter", "bcast", "embedding"})
        OBVIOUS
  <2>1. status[k] = "running" BY DEF Shapes
  <2>2. PICK r \in Ranks : Together(r, ExportOps \cup {"names", "scatter", "bcast", "embedding"})
        BY <1>1, <2>1, SomeRankMoves
  <2>3. ExportOps \cup {"names", "scatter", "bcast", "embedding"} =
        {"names", "flags", "spec", "object", "tensor", "part", "rows", "expert", "scatter", "bcast", "embedding"}
        BY DEF ExportOps, PipelineOps
  <2> QED BY <2>2, <2>3
<1> QED BY <1>2, <1>3, <1>4 DEF NoHang

\* The ranks' collectives always meet: while a rank of a conversion has not
\* finished, some rank or some group of ranks can go on, or a rank has raised
\* an exception; only a conversion that cannot succeed raises one, and one
\* that cannot succeed does not finish.
THEOREM NoHangAlways ==
    ASSUME ExportsAfterExports
    PROVE  Spec => []NoHang
<1>1. IInv => NoHang BY InvNoHang
<1>2. Spec => []IInv BY InStepAlways
<1> QED BY <1>1, <1>2, PTL

-----------------------------------------------------------------------------
(* Types.                                                                  *)

\* A rank has shards, and has cached answers, of its own tasks only, and holds
\* no more shards than its tensor parallel group has ranks.
Sized ==
    /\ \A r \in Ranks : DOMAIN mine[r] \subseteq Names(r)
    /\ \A r \in Ranks : at[r] \in 1 .. Size => Len(work[r]) <= Tp(TaskList(r)[at[r]])
    /\ \A r \in Ranks : \A x \in known[r] : x[1] \in Names(r) /\ x[2] \in Cached \cup {"spec"}

LEMMA SizedAfter ==
    ASSUME JobFacts, job' = job,
           \A m \in Ranks : DOMAIN mine'[m] \subseteq Names(m),
           \A m \in Ranks : at'[m] \in 1 .. Size => Len(work'[m]) <= Tp(TaskList(m)[at'[m]]),
           \A m \in Ranks : \A x \in known'[m] : x[1] \in Names(m) /\ x[2] \in Cached \cup {"spec"}
    PROVE  Sized'
<1>1. Ranks' = Ranks /\ \A n : Tp(n)' = Tp(n) BY GridStays
<1>2. Size' = Size /\ \A m : Names(m)' = Names(m) /\ TaskList(m)' = TaskList(m) BY ListsStay
<1> QED BY <1>1, <1>2 DEF Sized

LEMMA TpIsPositive == ASSUME JobFacts, NEW n PROVE Tp(n) \in Nat \ {0}
BY DEF JobFacts, Tp

LEMMA SizedOwnStep ==
    ASSUME JobFacts, IInv, Sized, NEW r \in Ranks, NextTask(r) \/ Raise(r) \/ Return(r)
    PROVE  Sized'
<1> USE DEF IInv
<1> PICK z \in Nat \ {0} : z = Size BY SameTasks
<1>1. /\ DOMAIN mine = Ranks /\ DOMAIN work = Ranks /\ DOMAIN known = Ranks /\ DOMAIN at = Ranks
      BY DEF Shapes
<1>2. CASE Raise(r)
  <2>1. job' = job /\ mine' = mine /\ work' = work /\ known' = known /\ at' = at BY <1>2 DEF Raise
  <2> QED BY <2>1, SizedAfter DEF Sized
<1>3. CASE Return(r)
  <2>1. job' = job /\ mine' = mine /\ work' = work BY <1>3 DEF Return
  <2>2. \A m \in Ranks : at'[m] = at[m] \/ at'[m] = 0 BY <1>1, <1>3 DEF Return
  <2>3. \A m \in Ranks : known'[m] \subseteq known[m] BY <1>1, <1>3 DEF Return
  <2>4. 0 \notin 1 .. Size OBVIOUS
  <2> QED BY <2>1, <2>2, <2>3, <2>4, SizedAfter DEF Sized
<1>4. CASE NextTask(r)
  <2>1. todo[r] = <<>> /\ ~Ended(r) BY <1>4 DEF NextTask, Idle
  <2>2. tasks[r] = TaskList(r) /\ at[r] \in 0 .. z /\ Len(tasks[r]) = z
    <3>1. tasks[r] = TaskList(r) /\ at[r] # z + 1 /\ at[r] \in 0 .. z + 1 BY <2>1, ListThere DEF Shapes
    <3> QED BY <3>1, SameTasks
  <2> PICK a : a = at[r] OBVIOUS
  <2> PICK n : n = TaskList(r)[a + 1] OBVIOUS
  <2>3. a # z => n \in Names(r)
    <3>1. a # z => a + 1 \in 1 .. Size BY <2>2
    <3> QED BY <3>1, SameTasks
  <2>4. /\ job' = job /\ \A m \in Ranks : at'[m] = IF m = r THEN a + 1 ELSE at[m]
        BY <1>1, <1>4 DEF NextTask
  <2>5. ASSUME NEW m \in Ranks PROVE DOMAIN mine'[m] \subseteq Names(m)
    <3>1. mine' = [mine EXCEPT ![r] = Merged(Loaded(r), @)] BY <1>4 DEF NextTask
    <3>2. mine'[m] = IF m = r THEN Merged(Loaded(r), mine[r]) ELSE mine[m] BY <1>1, <3>1
    <3>3. DOMAIN Loaded(r) \subseteq Names(r)
      <4>1. CASE InTask(r)
        <5>1. Cur(r) \in Names(r) BY <4>1, ListThere
        <5>2. DOMAIN Loaded(r) \subseteq {Cur(r)} BY DEF Loaded
        <5> QED BY <5>1, <5>2
      <4>2. CASE ~InTask(r) BY <4>2 DEF Loaded
      <4> QED BY <4>1, <4>2
    <3>4. DOMAIN Merged(Loaded(r), mine[r]) \subseteq Names(r) BY <3>3 DEF Merged, Sized
    <3> QED BY <3>2, <3>4 DEF Sized
  <2>6. ASSUME NEW m \in Ranks, at'[m] \in 1 .. Size PROVE Len(work'[m]) <= Tp(TaskList(m)[at'[m]])
    <3>1. CASE m # r
      <4>1. work'[m] = work[m] BY <1>1, <1>4, <3>1 DEF NextTask
      <4> QED BY <2>4, <2>6, <3>1, <4>1 DEF Sized
    <3>2. CASE m = r
      <4>1. \E w : work'[r] = <<w>> \/ work'[r] = <<>> BY <1>1, <1>4 DEF NextTask
      <4>2. PICK w : work'[r] = <<w>> \/ work'[r] = <<>> BY <4>1
      <4>3. Len(<<w>>) = 1 /\ Len(<<>>) = 0 OBVIOUS
      <4>4. PICK l \in {0, 1} : l = Len(work'[m]) BY <3>2, <4>2, <4>3
      <4>5. PICK o : o = TaskList(m)[at'[m]] OBVIOUS
      <4>6. PICK t \in Nat \ {0} : t = Tp(o) BY TpIsPositive
      <4>7. l <= t BY ONLY l \in {0, 1}, t \in Nat \ {0}
      <4> QED BY <4>4, <4>5, <4>6, <4>7
    <3> QED BY <3>1, <3>2
  <2>7. ASSUME NEW m \in Ranks, NEW x \in known'[m] PROVE x[1] \in Names(m) /\ x[2] \in Cached \cup {"spec"}
    <3>1. CASE x \in known[m] BY <3>1 DEF Sized
    <3>2. CASE x \notin known[m]
      <4>1. (at[r] = Len(tasks[r])) <=> a = z BY <2>2
      <4>2. tasks[r][at[r] + 1] = n BY <2>2
      <4>3. m = r /\ a # z /\ x = <<n, "type">> BY <1>1, <1>4, <2>7, <3>2, <4>1, <4>2 DEF NextTask
      <4>4. x[1] = n /\ x[2] = "type" BY <4>3
      <4> QED BY <2>3, <4>3, <4>4 DEF Cached
    <3> QED BY <3>1, <3>2
  <2> QED BY <2>4, <2>5, <2>6, <2>7, SizedAfter
<1> QED BY <1>2, <1>3, <1>4

LEMMA SizedCall ==
    ASSUME JobFacts, IInv, Sized, NEW r \in Ranks,
           \/ Survey(r) \/ Object(r) \/ Tensor(r) \/ TpGather(r) \/ EpGather(r) \/ TpScatter(r) \/ ShareEmbedding(r)
    PROVE  Sized'
<1> USE DEF IInv
<1>1. /\ job' = job /\ at' = at
      BY DEF Survey, Object, Tensor, TpGather, EpGather, TpScatter, ShareEmbedding, where
<1>2. ASSUME NEW ops, Together(r, ops) PROVE Group(r) \subseteq Ranks /\ todo[r] # <<>> /\ Head(todo[r]).op \in ops
      BY <1>2, Callers DEF Together
<1>3. CASE Survey(r)
  <2>1. /\ Together(r, {"names", "flags", "spec"}) /\ mine' = mine /\ work' = work
        /\ known' = IF Head(todo[r]).op = "spec"
                    THEN Merged([m \in Group(r) |-> known[m] \cup {<<Cur(m), "spec">>}], known) ELSE known
        BY <1>3 DEF Survey
  <2>2. CASE Head(todo[r]).op = "spec"
    <3>1. at[r] \in 1 .. Size BY <1>2, <2>1, <2>2, CallKind DEF ExportOps, PipelineOps
    <3>2. ASSUME NEW m \in Group(r) PROVE Cur(m) \in Names(m) BY <2>1, <3>1, Callers
    <3>3. PICK f : f = [m \in Group(r) |-> known[m] \cup {<<Cur(m), "spec">>}] OBVIOUS
    <3>4. DOMAIN f = Group(r) /\ \A m \in Group(r) : f[m] = known[m] \cup {<<Cur(m), "spec">>} BY <3>3
    <3>5. known = [m \in Ranks |-> known[m]] BY DEF Shapes
    <3>6. \A m \in Ranks : Merged(f, known)[m] = IF m \in DOMAIN f THEN f[m] ELSE known[m]
          BY <1>2, <2>1, <3>4, <3>5, MergedOn
    <3>7. known' = Merged(f, known) BY <2>1, <2>2, <3>3
    <3>8. ASSUME NEW m \in Ranks, NEW x \in known'[m] PROVE x[1] \in Names(m) /\ x[2] \in Cached \cup {"spec"}
      <4>1. CASE x \in known[m] BY <4>1 DEF Sized
      <4>2. CASE x \notin known[m]
        <5>1. m \in Group(r) /\ x = <<Cur(m), "spec">> BY <3>4, <3>6, <3>7, <3>8, <4>2
        <5> QED BY <3>2, <5>1
      <4> QED BY <4>1, <4>2
    <3> QED BY <1>1, <2>1, <3>8, SizedAfter DEF Sized
  <2>3. CASE Head(todo[r]).op # "spec" BY <1>1, <2>1, <2>3, SizedAfter DEF Sized
  <2> QED BY <2>2, <2>3
<1>4. CASE Object(r)
  <2> DEFINE told(m) == {<<Cur(m), what>> : what \in {Head(todo[r]).what} \cap Cached}
  <2>1. /\ Together(r, {"object"}) /\ mine' = mine /\ work' = work
        /\ known' = Merged([m \in Group(r) |-> known[m] \cup told(m)], known)
        BY <1>4 DEF Object
  <2>2. at[r] \in 1 .. Size BY <1>2, <2>1, CallKind DEF ExportOps, PipelineOps
  <2>3. ASSUME NEW m \in Group(r) PROVE Cur(m) \in Names(m) BY <2>1, <2>2, Callers
  <2>4. PICK f : f = [m \in Group(r) |-> known[m] \cup told(m)] OBVIOUS
  <2>5. DOMAIN f = Group(r) /\ \A m \in Group(r) : f[m] = known[m] \cup told(m) BY <2>4
  <2>6. known = [m \in Ranks |-> known[m]] BY DEF Shapes
  <2>7. \A m \in Ranks : Merged(f, known)[m] = IF m \in DOMAIN f THEN f[m] ELSE known[m]
        BY <1>2, <2>1, <2>5, <2>6, MergedOn
  <2>8. known' = Merged(f, known) BY <2>1, <2>4
  <2>9. ASSUME NEW m \in Ranks, NEW x \in known'[m] PROVE x[1] \in Names(m) /\ x[2] \in Cached \cup {"spec"}
    <3>1. CASE x \in known[m] BY <3>1 DEF Sized
    <3>2. CASE x \notin known[m]
      <4>1. m \in Group(r) /\ x \in told(m)
        <5> HIDE DEF told
        <5> QED BY <2>5, <2>7, <2>8, <2>9, <3>2
      <4>2. PICK what \in Cached : x = <<Cur(m), what>> BY <4>1
      <4> QED BY <2>3, <4>1, <4>2
    <3> QED BY <3>1, <3>2
  <2> QED BY <1>1, <2>1, <2>9, SizedAfter DEF Sized
<1>5. CASE Tensor(r)
  <2>1. PICK src : src = CHOOSE m \in Group(r) : Owns(m, Cur(m)) OBVIOUS
  <2>2. /\ Together(r, {"tensor"}) /\ mine' = mine /\ known' = known
        /\ work' = Merged([m \in Group(r) |-> work[src]], work)
        BY <1>5, <2>1 DEF Tensor
  <2>3. at[r] \in 1 .. Size /\ Head(todo[r]) \in ExportCall BY <1>2, <2>2, CallKind DEF ExportOps, PipelineOps
  <2>4. src \in Group(r)
    <3>1. Head(todo[r]).op = "tensor" BY <1>2, <2>2
    <3>2. Head(todo[r]).group = "pp" BY <2>3, <3>1 DEF ExportCall, PipelineOps
    <3>3. Head(todo[r]).op \in ExportOps \ {"flags", "spec"} BY <3>1 DEF ExportOps, PipelineOps
    <3>4. Cur(r).i \notin job.missing BY <2>2, <3>3, NotMissing
    <3> QED BY <2>1, <2>2, <2>3, <3>2, <3>4, OwnerAmong
  <2>5. ASSUME NEW m \in Group(r) PROVE at[m] = at[r] /\ m \in Ranks /\ Tp(TaskList(m)[at[m]]) = Tp(Cur(r))
    <3>1. Cur(m) = TaskList(m)[at[m]] /\ Tp(Cur(m)) = Tp(Cur(r)) BY <2>2, <2>3, Callers
    <3> QED BY <2>2, <3>1, Callers
  <2>6. Len(work[src]) <= Tp(Cur(r)) BY <2>3, <2>4, <2>5 DEF Sized
  <2>7. PICK f : f = [m \in Group(r) |-> work[src]] OBVIOUS
  <2>8. DOMAIN f = Group(r) /\ \A m \in Group(r) : f[m] = work[src] BY <2>7
  <2>9. work = [m \in Ranks |-> work[m]] BY DEF Shapes
  <2>10. \A m \in Ranks : Merged(f, work)[m] = IF m \in DOMAIN f THEN f[m] ELSE work[m]
         BY <1>2, <2>2, <2>8, <2>9, MergedOn
  <2>11. \A m \in Ranks : at'[m] \in 1 .. Size => Len(work'[m]) <= Tp(TaskList(m)[at'[m]])
         BY <1>1, <2>2, <2>5, <2>6, <2>7, <2>8, <2>10 DEF Sized
  <2> QED BY <1>1, <2>2, <2>11, SizedAfter DEF Sized
<1>6. CASE TpGather(r)
  <2> DEFINE peer(i) == CHOOSE m \in Group(r) : TpRank(m, Cur(r)) = i - 1
             rows == [i \in 1 .. Tp(Cur(r)) |-> work[peer(i)][1]]
  <2>1. /\ Together(r, {"part", "rows"}) /\ mine' = mine /\ known' = known
        /\ work' = IF Head(todo[r]).op = "part" THEN work ELSE Merged([m \in Group(r) |-> rows], work)
        BY <1>6 DEF TpGather
  <2>2. at[r] \in 1 .. Size BY <1>2, <2>1, CallKind DEF ExportOps, PipelineOps
  <2>3. ASSUME NEW m \in Group(r) PROVE at[m] = at[r] /\ Tp(TaskList(m)[at[m]]) = Tp(Cur(r))
    <3>1. Cur(m) = TaskList(m)[at[m]] /\ Tp(Cur(m)) = Tp(Cur(r)) BY <2>1, <2>2, Callers
    <3> QED BY <2>1, <3>1, Callers
  <2>4. PICK n : n = Cur(r) OBVIOUS
  <2>5. PICK z \in Nat \ {0} : z = Tp(n) BY TpIsPositive
  <2>6. Len(rows) = z BY <2>4, <2>5
  <2>7. PICK f : f = [m \in Group(r) |-> rows] OBVIOUS
  <2>8. DOMAIN f = Group(r) /\ \A m \in Group(r) : Len(f[m]) = z
    <3> HIDE DEF rows
    <3> QED BY <2>6, <2>7
  <2>9. work' = work \/ work' = Merged(f, work) BY <2>1, <2>7
  <2>10. work = [m \in Ranks |-> work[m]] BY DEF Shapes
  <2>11. \A m \in Ranks : Merged(f, work)[m] = IF m \in DOMAIN f THEN f[m] ELSE work[m]
         BY <1>2, <2>1, <2>8, <2>10, MergedOn
  <2>12. \A m \in Ranks : work'[m] = work[m] \/ (m \in Group(r) /\ Len(work'[m]) = z)
    <3> HIDE DEF rows
    <3> QED BY <2>8, <2>9, <2>11
  <2>13. ASSUME NEW m \in Ranks, at'[m] \in 1 .. Size PROVE Len(work'[m]) <= Tp(TaskList(m)[at'[m]])
    <3>1. CASE work'[m] = work[m] BY <1>1, <2>13, <3>1 DEF Sized
    <3>2. CASE m \in Group(r) /\ Len(work'[m]) = z
      <4>1. Tp(TaskList(m)[at'[m]]) = z BY <1>1, <2>3, <2>4, <2>5, <3>2
      <4>2. z <= z OBVIOUS
      <4> QED BY <3>2, <4>1, <4>2
    <3> QED BY <2>12, <3>1, <3>2
  <2> QED BY <1>1, <2>1, <2>13, SizedAfter DEF Sized
<1>7. CASE EpGather(r)
  <2>1. mine' = mine /\ known' = known /\ work' = work BY <1>7 DEF EpGather
  <2> QED BY <1>1, <2>1, SizedAfter DEF Sized
<1>8. CASE ShareEmbedding(r)
  <2>1. mine' = mine /\ known' = known /\ work' = work BY <1>8 DEF ShareEmbedding
  <2> QED BY <1>1, <2>1, SizedAfter DEF Sized
<1>9. CASE TpScatter(r)
  <2> DEFINE root == CHOOSE m \in Group(r) : TpRank(m, Cur(m)) = 0
             n    == Cur(root)
             shard(m) == Shard(Par(n), HF(Par(n), n.g), Tp(n), TpRank(m, n))
             given(m) == Merged([x \in {Cur(m)} |-> shard(m)], mine[m])
  <2>1. /\ Together(r, {"scatter", "bcast"}) /\ known' = known /\ work' = work
        /\ mine' = Merged([m \in Group(r) |-> given(m)], mine)
        BY <1>9 DEF TpScatter
  <2>2. at[r] \in 1 .. Size BY <1>2, <2>1, CallKind
  <2>3. ASSUME NEW m \in Group(r) PROVE DOMAIN given(m) \subseteq Names(m)
    <3>1. Cur(m) \in Names(m) /\ m \in Ranks BY <2>1, <2>2, Callers
    <3> HIDE DEF shard
    <3>2. DOMAIN given(m) = {Cur(m)} \cup DOMAIN mine[m] BY DEF Merged
    <3> QED BY <3>1, <3>2 DEF Sized
  <2> HIDE DEF given
  <2>4. PICK f : f = [m \in Group(r) |-> given(m)] OBVIOUS
  <2>5. DOMAIN f = Group(r) /\ \A m \in Group(r) : DOMAIN f[m] \subseteq Names(m) BY <2>3, <2>4
  <2>6. mine = [m \in Ranks |-> mine[m]] BY DEF Shapes
  <2>7. \A m \in Ranks : Merged(f, mine)[m] = IF m \in DOMAIN f THEN f[m] ELSE mine[m]
        BY <1>2, <2>1, <2>5, <2>6, MergedOn
  <2>8. \A m \in Ranks : DOMAIN mine'[m] \subseteq Names(m) BY <2>1, <2>4, <2>5, <2>7 DEF Sized
  <2> QED BY <1>1, <2>1, <2>8, SizedAfter DEF Sized
<1> QED BY <1>3, <1>4, <1>5, <1>6, <1>7, <1>8, <1>9

LEMMA SizedInit == ASSUME JobFacts, Init PROVE Sized
<1>1. \A r \in Ranks : mine[r] = <<>> /\ work[r] = <<>> /\ known[r] = {} /\ at[r] = 0 BY DEF Init
<1>2. 0 \notin 1 .. Size OBVIOUS
<1> QED BY <1>1, <1>2 DEF Sized

LEMMA SizedTyped == ASSUME JobFacts, IInv, Sized PROVE TypeOK
<1> USE DEF IInv
<1> SUFFICES ASSUME NEW r \in Ranks
             PROVE  /\ phase[r] \in DOMAIN job.plan
                    /\ at[r] \in 0 .. Len(tasks[r]) + 1
                    /\ status[r] \in {"running", "raised", "done"}
                    /\ DOMAIN mine[r] \subseteq Names(r)
                    /\ Len(work[r]) <= IF InTask(r) THEN Tp(Cur(r)) ELSE 0
                    /\ \A x \in known[r] : x[1] \in Names(r) /\ x[2] \in Cached \cup {"spec"}
    BY DEF TypeOK, Shapes
<1>1. phase[r] \in DOMAIN job.plan /\ status[r] \in {"running", "raised", "done"} BY DEF Shapes
<1>2. at[r] \in 0 .. Len(tasks[r]) + 1
  <2>1. CASE tasks[r] = TaskList(r)
    <3>1. Len(tasks[r]) = Size BY <2>1, SameTasks
    <3> QED BY <3>1 DEF Shapes
  <2>2. CASE tasks[r] # TaskList(r)
    <3>1. at[r] = 0 /\ Len(tasks[r]) = 0 BY <2>2 DEF Listing
    <3> QED BY <3>1
  <2> QED BY <2>1, <2>2
<1>3. Len(work[r]) <= IF InTask(r) THEN Tp(Cur(r)) ELSE 0
  <2>1. CASE InTask(r)
    <3>1. at[r] \in 1 .. Size /\ Cur(r) = TaskList(r)[at[r]] BY <2>1, ListThere
    <3> QED BY <2>1, <3>1 DEF Sized
  <2>2. CASE ~InTask(r)
    <3>1. at[r] \notin 1 .. Size BY <2>2, ListThere
    <3>2. work[r] = <<>> BY <3>1 DEF Working, WorksAt
    <3>3. Len(<<>>) <= 0 OBVIOUS
    <3> QED BY <2>2, <3>2, <3>3
  <2> QED BY <2>1, <2>2
<1> QED BY <1>1, <1>2, <1>3 DEF Sized

\* A rank never has shards of, or caches answers about, a parameter that is
\* not in its task list, and gathers tensors only within a task, at most one
\* of each rank of its tensor parallel group.
THEOREM TypeOKAlways ==
    ASSUME ExportsAfterExports
    PROVE  Spec => []TypeOK
<1>1. IInv => JobFacts BY JobsAreSuch DEF IInv, Shapes
<1>2. Init => IInv /\ Sized
  <2> SUFFICES ASSUME Init PROVE IInv /\ Sized OBVIOUS
  <2>1. IInv BY InitInv
  <2> QED BY <1>1, <2>1, SizedInit
<1>3. (IInv /\ Sized) /\ [Next]_vars => (IInv /\ Sized)'
  <2> SUFFICES ASSUME IInv, Sized, [Next]_vars PROVE IInv' /\ Sized' OBVIOUS
  <2>1. IInv' BY StepInv
  <2>2. JobFacts BY <1>1
  <2>3. CASE Next
    <3>1. PICK r \in Ranks :
             \/ NextTask(r) \/ Raise(r) \/ Return(r)
             \/ Survey(r) \/ Object(r) \/ Tensor(r) \/ TpGather(r) \/ EpGather(r)
             \/ TpScatter(r) \/ ShareEmbedding(r)
          BY <2>3 DEF Next
    <3> QED BY <2>1, <2>2, <3>1, SizedOwnStep, SizedCall
  <2>4. CASE UNCHANGED vars
    <3>1. job' = job /\ mine' = mine /\ work' = work /\ known' = known /\ at' = at BY <2>4 DEF vars, where
    <3> QED BY <2>1, <2>2, <3>1, SizedAfter DEF Sized
  <2> QED BY <2>3, <2>4
<1>4. IInv /\ Sized => TypeOK BY <1>1, SizedTyped
<1> QED BY <1>2, <1>3, <1>4, PTL DEF Spec

----------------------------------------------------------------------------
(* Layouts.  Cutting a tensor into shards and joining them again, and the  *)
(* rearrangements of each mapping class, undo one another.                 *)

\* Sequences of one length with the same elements.
LEMMA SameSequence ==
    ASSUME NEW S, NEW s \in Seq(S), NEW t \in Seq(S), Len(s) = Len(t), \A x \in 1 .. Len(s) : s[x] = t[x]
    PROVE  s = t
BY SeqEqual

\* s is what w has after f others.
Within(w, f, s, l) == \A x \in 1 .. l : s[x] = w[f + x]

LEMMA WithinBoth ==
    ASSUME NEW S, NEW a \in Seq(S), NEW b \in Seq(S), NEW l \in Nat, l = Len(a), NEW m \in Nat, m = Len(b),
           NEW f \in Nat, NEW g \in Nat, g = f + l, NEW w, Within(w, f, a, l), Within(w, g, b, m)
    PROVE  a \o b \in Seq(S) /\ Len(a \o b) = l + m /\ Within(w, f, a \o b, l + m)
<1>1. a \o b \in Seq(S) /\ Len(a \o b) = l + m BY ConcatProperties
<1>2. \A x \in 1 .. l + m : (a \o b)[x] = IF x <= l THEN a[x] ELSE b[x - l] BY ConcatProperties
<1>3. ASSUME NEW x \in 1 .. l + m PROVE (a \o b)[x] = w[f + x]
  <2>1. CASE x <= l
    <3>1. x \in 1 .. l BY <2>1
    <3>2. a[x] = w[f + x] BY <3>1 DEF Within
    <3> QED BY <1>2, <2>1, <3>2
  <2>2. CASE ~(x <= l)
    <3> PICK y \in 1 .. m : y = x - l BY ONLY <2>2, x \in 1 .. l + m, l \in Nat, m \in Nat
    <3>1. b[y] = w[g + y] BY DEF Within
    <3>2. g + y = f + x
          BY ONLY y = x - l, g = f + l, x \in 1 .. l + m, l \in Nat, m \in Nat, f \in Nat
    <3> QED BY <1>2, <2>2, <3>1, <3>2
  <2> QED BY <2>1, <2>2
<1> QED BY <1>1, <1>3 DEF Within

\* w has the n sequences t in it, one after the other, k-th after A[k - 1] others.
Pieces(S, n, t, A, w) ==
    /\ DOMAIN t = 1 .. n /\ Len(t) = n /\ \A k \in 1 .. n : t[k] \in Seq(S)
    /\ A[0] = 0 /\ \A k \in 1 .. n : A[k] = A[k - 1] + Len(t[k])
    /\ w \in Seq(S) /\ Len(w) = A[n]
    /\ \A k \in 1 .. n : \A x \in 1 .. Len(t[k]) : w[A[k - 1] + x] = t[k][x]

LEMMA LaidOut ==
    ASSUME NEW S, NEW n \in Nat \ {0}, NEW t, NEW A, NEW w, Pieces(S, n, t, A, w)
    PROVE  FlattenSeq(t) = w
<1> USE DEF Pieces
<1> DEFINE L == [k \in 1 .. n |-> Len(t[k])]
<1>1. \A k \in 1 .. n : L[k] = Len(t[k]) OBVIOUS
<1> HIDE DEF L
<1>2. Partial(A, L, n) BY <1>1 DEF Partial
<1> PICK F : F = FlattenSeq(t) OBVIOUS
<1>3. F \in Seq(S) /\ EndToEnd(F, t, A, n) BY <1>1, <1>2, FlattenPlaces
<1>4. Len(F) = Len(w) BY <1>3 DEF EndToEnd
<1>5. ASSUME NEW p \in 1 .. Len(F) PROVE F[p] = w[p]
  <2>1. PICK k \in 1 .. n : \E x \in 1 .. Len(t[k]) : p = A[k - 1] + x BY <1>3, <1>5 DEF EndToEnd
  <2>2. PICK x \in 1 .. Len(t[k]) : p = A[k - 1] + x BY <2>1
  <2>3. F[A[k - 1] + x] = t[k][x] BY <1>3 DEF EndToEnd
  <2>4. w[A[k - 1] + x] = t[k][x] OBVIOUS
  <2> QED BY <2>2, <2>3, <2>4
<1> QED BY <1>3, <1>4, <1>5, SameSequence

\* A sequence of one piece laid end to end is that piece.
LEMMA FlattenOne ==
    ASSUME NEW S, NEW s \in Seq(S)
    PROVE  FlattenSeq(<<s>>) = s
<1> DEFINE t == <<s>>
           A == [k \in 0 .. 1 |-> IF k = 0 THEN 0 ELSE Len(s)]
<1> PICK n \in Nat \ {0} : n = 1 OBVIOUS
<1>1. DOMAIN t = 1 .. n /\ Len(t) = n /\ \A k \in 1 .. n : t[k] = s /\ k - 1 = 0 /\ k = 1 OBVIOUS
<1>2. A[0] = 0 /\ A[n] = Len(s) /\ Len(s) \in Nat OBVIOUS
<1>3. \A x \in 1 .. Len(s) : 0 + x = x OBVIOUS
<1> HIDE DEF t, A
<1>4. \A k \in 1 .. n : A[k] = A[k - 1] + Len(t[k]) BY <1>1, <1>2
<1>5. \A k \in 1 .. n : \A x \in 1 .. Len(t[k]) : s[A[k - 1] + x] = t[k][x] BY <1>1, <1>2, <1>3
<1>6. DOMAIN t = 1 .. n /\ Len(t) = n /\ (\A k \in 1 .. n : t[k] \in Seq(S)) /\ A[0] = 0 /\ Len(s) = A[n]
      BY <1>1, <1>2
<1>7. Pieces(S, n, t, A, s) BY <1>4, <1>5, <1>6 DEF Pieces
<1>8. FlattenSeq(t) = s BY <1>7, LaidOut
<1> QED BY <1>8 DEF t

\* The running totals of a sequence of numbers.
LEMMA RunningTotals ==
    ASSUME NEW n \in Nat, NEW L \in Seq(Nat), Len(L) = n,
           NEW A, \A k \in 0 .. n : A[k] = Total(SubSeq(L, 1, k))
    PROVE  /\ Partial(A, L, n) /\ \A k \in 0 .. n : A[k] \in Nat
           /\ Total(L) = A[n]
<1>1. \A s : Total(s) = SumOf(s) BY DEF Total, SumOf
<1>2. ASSUME NEW k \in 0 .. n PROVE SubSeq(L, 1, k) = [y \in 1 .. k |-> L[y]]
  <2> DEFINE v == SubSeq(L, 1, k)
  <2>1. SubSeq(L, 0 + 1, 0 + k) \in Seq(Nat) /\ Len(SubSeq(L, 0 + 1, 0 + k)) = k
        /\ \A j \in 1 .. k : SubSeq(L, 0 + 1, 0 + k)[j] = L[0 + j]
        BY CutFacts
  <2>2. 0 + 1 = 1 /\ 0 + k = k /\ \A j \in 1 .. k : 0 + j = j OBVIOUS
  <2>3. v \in Seq(Nat) /\ Len(v) = k /\ \A j \in 1 .. k : v[j] = L[j] BY <2>1, <2>2
  <2> HIDE DEF v
  <2>4. v = [y \in 1 .. k |-> L[y]] BY <2>3
  <2> QED BY <2>4 DEF v
<1>3. \A k \in 0 .. n : A[k] = SumOf([y \in 1 .. k |-> L[y]]) BY <1>1, <1>2
<1>4. DOMAIN L = 1 .. n /\ \A k \in 1 .. n : L[k] \in Nat OBVIOUS
<1>5. Partial(A, L, n) /\ \A k \in 0 .. n : A[k] \in Nat BY <1>3, <1>4, PartialSums
<1>6. n \in 0 .. n /\ L = [y \in 1 .. n |-> L[y]] BY <1>4
<1>7. Total(L) = A[n] BY <1>1, <1>3, <1>6
<1> QED BY <1>5, <1>7

\* The i-th of size equal chunks is the m after i * m others.
ChunkAt(s, size, i, m) ==
    /\ Len(s) = size * m /\ i * m \in Nat /\ i * m + m <= Len(s)
    /\ Chunk(s, size, i) = SubSeq(s, i * m + 1, i * m + m)

LEMMA ChunkCut ==
    ASSUME NEW S, NEW s \in Seq(S), NEW size \in Nat \ {0}, Len(s) % size = 0, NEW i \in 0 .. size - 1,
           NEW m \in Nat, m = Len(s) \div size
    PROVE  ChunkAt(s, size, i, m)
<1>1. Len(s) = size * m BY MultipleOf
<1>2. i * m \in Nat /\ (i + 1) * m = i * m + m OBVIOUS
<1>3. i * m + m <= size * m
  <2>1. PICK d \in Nat : size = (i + 1) + d
    <3>1. size - (i + 1) \in Nat /\ size = (i + 1) + (size - (i + 1)) OBVIOUS
    <3> QED BY <3>1
  <2>2. ((i + 1) + d) * m = (i * m + m) + d * m OBVIOUS
  <2>3. d * m \in Nat OBVIOUS
  <2> QED BY <1>2, <2>1, <2>2, <2>3
<1>4. Chunk(s, size, i) = SubSeq(s, i * m + 1, i * m + m) BY <1>2 DEF Chunk
<1> QED BY <1>1, <1>2, <1>3, <1>4 DEF ChunkAt

IsChunk(S, s, size, i, m, c) == c \in Seq(S) /\ Len(c) = m /\ Within(s, i * m, c, m)

LEMMA ChunkHas ==
    ASSUME NEW S, NEW s \in Seq(S), NEW size \in Nat \ {0}, Len(s) % size = 0, NEW i \in 0 .. size - 1,
           NEW m \in Nat, m = Len(s) \div size
    PROVE  IsChunk(S, s, size, i, m, Chunk(s, size, i))
<1>1. ChunkAt(s, size, i, m) BY ChunkCut
<1>2. /\ Len(s) = size * m /\ i * m \in Nat /\ i * m + m <= Len(s)
      /\ Chunk(s, size, i) = SubSeq(s, i * m + 1, i * m + m)
      BY <1>1 DEF ChunkAt
<1> PICK f \in Nat : f = i * m BY <1>2
<1>3. f + m <= Len(s) BY <1>2
<1>4. /\ SubSeq(s, f + 1, f + m) \in Seq(S) /\ Len(SubSeq(s, f + 1, f + m)) = m
      /\ \A x \in 1 .. m : SubSeq(s, f + 1, f + m)[x] = s[f + x]
      BY ONLY <1>3, s \in Seq(S), f \in Nat, m \in Nat, CutFacts
<1> QED BY ONLY <1>2, <1>4, f = i * m DEF IsChunk, Within

LEMMA ChunkIs ==
    ASSUME NEW S, NEW s \in Seq(S), NEW size \in Nat \ {0}, Len(s) % size = 0, NEW i \in 0 .. size - 1,
           NEW m \in Nat, m = Len(s) \div size
    PROVE  /\ Chunk(s, size, i) \in Seq(S) /\ Len(Chunk(s, size, i)) = m
           /\ \A x \in 1 .. m : Chunk(s, size, i)[x] = s[i * m + x]
           /\ Len(s) = size * m
<1>1. IsChunk(S, s, size, i, m, Chunk(s, size, i)) BY ChunkHas
<1>2. Len(s) = size * m BY MultipleOf
<1> QED BY ONLY <1>1, <1>2 DEF IsChunk, Within

\* The chunks of a sequence, end to end, are the sequence.
LEMMA ChunksLaidOut ==
    ASSUME NEW S, NEW s \in Seq(S), NEW size \in Nat \ {0}, Len(s) % size = 0,
           NEW t, t = [i \in 1 .. size |-> Chunk(s, size, i - 1)]
    PROVE  FlattenSeq(t) = s
<1>1. PICK m \in Nat : m = Len(s) \div size BY DivMod
<1> DEFINE A == [k \in 0 .. size |-> k * m]
<1>2. \A k \in 1 .. size : k - 1 \in 0 .. size - 1 /\ k - 1 \in 0 .. size /\ t[k] = Chunk(s, size, k - 1) OBVIOUS
<1>3. \A k \in 1 .. size : /\ t[k] \in Seq(S) /\ Len(t[k]) = m
                           /\ \A x \in 1 .. m : t[k][x] = s[(k - 1) * m + x]
      BY <1>1, <1>2, ChunkIs, SMTT(30)
<1>4. \A k \in 1 .. size : A[k] = A[k - 1] + m /\ A[k - 1] = (k - 1) * m
  <2> SUFFICES ASSUME NEW k \in 1 .. size PROVE A[k] = A[k - 1] + m /\ A[k - 1] = (k - 1) * m OBVIOUS
  <2>1. A[k] = k * m /\ A[k - 1] = (k - 1) * m BY <1>2
  <2>2. k * m = (k - 1) * m + m OBVIOUS
  <2> QED BY <2>1, <2>2
<1>5. A[0] = 0 /\ A[size] = size * m
  <2>1. 0 * m = 0 OBVIOUS
  <2> QED BY <2>1
<1>6. Len(s) = size * m
  <2>1. 0 \in 0 .. size - 1 OBVIOUS
  <2> QED BY <1>1, <2>1, ChunkIs
<1>7. DOMAIN t = 1 .. size /\ Len(t) = size OBVIOUS
<1> HIDE DEF A
<1>8. ASSUME NEW k \in 1 .. size, NEW x \in 1 .. Len(t[k]) PROVE s[A[k - 1] + x] = t[k][x]
  <2>1. PICK a : a = A[k - 1] OBVIOUS
  <2>2. x \in 1 .. m /\ t[k][x] = s[(k - 1) * m + x] BY <1>3
  <2>3. a = (k - 1) * m BY <1>4, <2>1
  <2> QED BY <2>1, <2>2, <2>3
<1>9. \A k \in 1 .. size : t[k] \in Seq(S) /\ A[k] = A[k - 1] + Len(t[k])
  <2>1. \A k \in 1 .. size : Len(t[k]) = m /\ t[k] \in Seq(S) BY <1>3
  <2>2. \A k \in 1 .. size : A[k] = A[k - 1] + m BY <1>4
  <2> QED BY <2>1, <2>2
<1>10. Len(s) = A[size] BY <1>5, <1>6
<1>11. Pieces(S, size, t, A, s) BY <1>5, <1>7, <1>8, <1>9, <1>10 DEF Pieces
<1> QED BY <1>11, LaidOut

\* Each of the parts is cut evenly, into chunks of the lengths L.
Divided(S, n, parts, L, size) ==
    /\ n \in Nat \ {0} /\ L \in Seq(Nat) /\ Len(L) = n /\ size \in Nat \ {0}
    /\ \A c \in 1 .. n : parts[c] \in Seq(S) /\ Len(parts[c]) % size = 0 /\ L[c] = Len(parts[c]) \div size

SumBefore(L, c) == Total(SubSeq(L, 1, c - 1))
ChunkOfEach(n, parts, size, i) == FlattenSeq([c \in 1 .. n |-> Chunk(parts[c], size, i)])

\* A shard holds its chunk of each part in the place where it is looked for.
LEMMA ShardHolds ==
    ASSUME NEW S, NEW n, NEW parts, NEW L, NEW size, Divided(S, n, parts, L, size),
           NEW i, i \in 0 .. size - 1, NEW s, s = ChunkOfEach(n, parts, size, i),
           NEW c, c \in 1 .. n, NEW b, b = SumBefore(L, c)
    PROVE  SubSeq(s, b + 1, b + L[c]) = Chunk(parts[c], size, i) /\ s \in Seq(S)
<1>0. /\ n \in Nat \ {0} /\ L \in Seq(Nat) /\ Len(L) = n /\ size \in Nat \ {0}
      /\ \A k \in 1 .. n : parts[k] \in Seq(S) /\ Len(parts[k]) % size = 0 /\ L[k] = Len(parts[k]) \div size
      BY DEF Divided
<1> USE <1>0
<1> DEFINE A == [k \in 0 .. n |-> Total(SubSeq(L, 1, k))]
           t == [k \in 1 .. n |-> Chunk(parts[k], size, i)]
<1>1. \A k \in 0 .. n : A[k] = Total(SubSeq(L, 1, k)) OBVIOUS
<1>2. DOMAIN t = 1 .. n /\ Len(t) = n /\ \A k \in 1 .. n : t[k] = Chunk(parts[k], size, i) OBVIOUS
<1>3. s = FlattenSeq(t) BY DEF ChunkOfEach
<1> HIDE DEF A, t
<1>4. Partial(A, L, n) /\ \A k \in 0 .. n : A[k] \in Nat BY <1>1, RunningTotals
<1>5. \A k \in 1 .. n : L[k] \in Nat OBVIOUS
<1>6. ASSUME NEW k \in 1 .. n PROVE t[k] \in Seq(S) /\ Len(t[k]) = L[k]
  <2> PICK m \in Nat : m = L[k] BY <1>5
  <2> PICK u : u = parts[k] OBVIOUS
  <2>1. u \in Seq(S) /\ Len(u) % size = 0 /\ m = Len(u) \div size OBVIOUS
  <2>2. Chunk(u, size, i) \in Seq(S) /\ Len(Chunk(u, size, i)) = m
      BY ONLY <2>1, m \in Nat, size \in Nat \ {0}, i \in 0 .. size - 1, ChunkIs
  <2> QED BY <1>2, <2>2
<1>7. s \in Seq(S) /\ EndToEnd(s, t, A, n)
  <2>1. \A k \in 1 .. n : t[k] \in Seq(S) BY <1>6
  <2>2. \A k \in 1 .. n : L[k] = Len(t[k]) BY <1>6
  <2>3. DOMAIN t = 1 .. n /\ Len(t) = n BY <1>2
  <2>4. FlattenSeq(t) \in Seq(S) /\ EndToEnd(FlattenSeq(t), t, A, n)
        BY ONLY <1>4, <2>1, <2>2, <2>3, n \in Nat \ {0}, FlattenPlaces
  <2> QED BY <1>3, <2>4
<1>8. b = A[c - 1] /\ b \in Nat /\ A[c] = b + L[c]
  <2>1. c - 1 \in 0 .. n OBVIOUS
  <2> QED BY <1>1, <1>4, <2>1 DEF Partial, SumBefore
<1>9. Len(s) = A[n] BY <1>7 DEF EndToEnd
<1>10. A[c] <= A[n]
  <2>1. c \in 0 .. n /\ n \in c .. n OBVIOUS
  <2>2. \A k \in c .. n : A[c] <= A[k] BY <1>4, <1>5, <2>1, PartialsGrow
  <2> QED BY <2>1, <2>2
<1> PICK l \in Nat : l = L[c] BY <1>5
<1> PICK f \in Nat : f = b BY <1>8
<1>11. f + l <= Len(s) BY <1>8, <1>9, <1>10
<1>12. /\ SubSeq(s, f + 1, f + l) \in Seq(S) /\ Len(SubSeq(s, f + 1, f + l)) = l
       /\ \A x \in 1 .. l : SubSeq(s, f + 1, f + l)[x] = s[f + x]
       BY ONLY <1>7, <1>11, f \in Nat, l \in Nat, CutFacts
<1>13. ASSUME NEW x \in 1 .. l PROVE s[f + x] = t[c][x]
  <2>1. x \in 1 .. Len(t[c]) BY <1>6
  <2>2. s[A[c - 1] + x] = t[c][x] BY <1>7, <2>1 DEF EndToEnd
  <2> QED BY <1>8, <2>2
<1> PICK v : v = SubSeq(s, f + 1, f + l) OBVIOUS
<1>14. v = t[c]
  <2>1. v \in Seq(S) /\ t[c] \in Seq(S) /\ Len(v) = l /\ Len(t[c]) = l BY <1>6, <1>12
  <2>2. ASSUME NEW x \in 1 .. Len(v) PROVE v[x] = t[c][x]
    <3>1. x \in 1 .. l BY <2>1
    <3>2. v[x] = s[f + x] BY ONLY <1>12, <3>1, v = SubSeq(s, f + 1, f + l)
    <3> QED BY <1>13, <3>1, <3>2
  <2> QED BY ONLY <2>1, <2>2, SameSequence
<1> QED BY <1>2, <1>7, <1>14

\* The numbers of a head of h = j * P + o + 1, and their bounds.
LEMMA HeadNumber ==
    ASSUME NEW P \in Nat \ {0}, NEW N \in Nat, NEW j \in Nat, j < N, NEW o \in 0 .. P - 1,
           NEW x, x = j * P + o + 1
    PROVE  x \in 1 .. N * P /\ (x - 1) \div P = j /\ (x - 1) % P = o
<1>1. x - 1 = j * P + o OBVIOUS
<1>2. (j * P + o) \div P = j /\ (j * P + o) % P = o BY DivUnique
<1>3. PICK d \in Nat : N = (j + 1) + d
  <2>1. N - (j + 1) \in Nat /\ N = (j + 1) + (N - (j + 1)) OBVIOUS
  <2> QED BY <2>1
<1>4. ((j + 1) + d) * P = j * P + P + d * P OBVIOUS
<1>5. j * P \in Nat /\ d * P \in Nat OBVIOUS
<1>6. j * P + o + 1 \in 1 .. j * P + P + d * P BY <1>5
<1> QED BY <1>1, <1>2, <1>3, <1>4, <1>6

\* A number is a head of its group.
InGroups(x, P, N) == P \in Nat \ {0} /\ N \in Nat /\ x \in 1 .. N * P

LEMMA HeadOf ==
    ASSUME NEW P, NEW N, NEW x, InGroups(x, P, N)
    PROVE  \E j \in 0 .. N - 1 : \E o \in 0 .. P - 1 :
              x = j * P + o + 1 /\ (x - 1) \div P = j /\ (x - 1) % P = o
<1> USE DEF InGroups
<1>1. x - 1 \in Nat OBVIOUS
<1>2. PICK j \in Nat : j = (x - 1) \div P BY <1>1, DivMod
<1>3. PICK o \in 0 .. P - 1 : o = (x - 1) % P BY <1>1, DivMod
<1>4. x - 1 = j * P + o BY <1>1, <1>2, <1>3, DivMod
<1>5. j < N
  <2> SUFFICES ASSUME N <= j PROVE FALSE OBVIOUS
  <2>1. PICK d \in Nat : j = N + d
    <3>1. j - N \in Nat /\ j = N + (j - N) OBVIOUS
    <3> QED BY <3>1
  <2>2. (N + d) * P = N * P + d * P /\ d * P \in Nat /\ N * P \in Nat OBVIOUS
  <2> QED BY <1>4, <2>1, <2>2
<1>6. x = j * P + o + 1 /\ j \in 0 .. N - 1 BY <1>4, <1>5
<1> QED BY <1>2, <1>3, <1>6

\* The shapes a query, key and value tensor have: so many heads, in groups of
\* equal size, with a gate beside each query head or without.
Grouped(p) ==
    /\ p.n[1] \in Nat \ {0} /\ p.n[2] \in Nat \ {0} /\ PerGroup(p) \in Nat \ {0}
    /\ p.n[1] = p.n[2] * PerGroup(p) /\ p.gate \in BOOLEAN

QKV(S, p, q, k, v) ==
    /\ q \in Seq(S) /\ k \in Seq(S) /\ v \in Seq(S)
    /\ Len(q) = (IF p.gate THEN 2 ELSE 1) * p.n[1] /\ Len(k) = p.n[2] /\ Len(v) = p.n[2]

\* What the merged tensor has at place o of group j.
LEMMA MergedAt ==
    ASSUME NEW p, Grouped(p), NEW q, NEW k, NEW v, NEW M, M = MergeQKV(p, q, k, v),
           NEW P, P = PerGroup(p), NEW W, W = Span(p), NEW j \in Nat, j < p.n[2], NEW o \in 0 .. W - 1
    PROVE  /\ W \in Nat \ {0} /\ j * W + o + 1 \in 1 .. W * p.n[2]
           /\ o = W - 2 => M[j * W + o + 1] = k[j + 1]
           /\ o = W - 1 => M[j * W + o + 1] = v[j + 1]
           /\ o < W - 2 => M[j * W + o + 1] =
                LET h == j * P + (o % P) + 1
                IN IF ~p.gate THEN q[h] ELSE IF o < P THEN q[2 * h - 1] ELSE q[2 * h]
<1>1. W \in Nat \ {0} /\ W >= 3
  <2>1. W = (IF p.gate THEN 2 ELSE 1) * P + 2 /\ P \in Nat \ {0} BY DEF Span, Grouped
  <2> QED BY <2>1
<1> PICK n2 \in Nat \ {0} : n2 = p.n[2] BY DEF Grouped
<1> PICK x : x = j * W + o + 1 OBVIOUS
<1>2. x \in 1 .. n2 * W /\ (x - 1) \div W = j /\ (x - 1) % W = o
  <2>1. j < n2 OBVIOUS
  <2> PICK w \in Nat \ {0} : w = W BY <1>1
  <2>2. o \in 0 .. w - 1 /\ x = j * w + o + 1 OBVIOUS
  <2>3. x \in 1 .. n2 * w /\ (x - 1) \div w = j /\ (x - 1) % w = o
        BY ONLY <2>1, <2>2, n2 \in Nat \ {0}, j \in Nat, w \in Nat \ {0}, HeadNumber
  <2> QED BY <2>3
<1>3. n2 * W = W * n2 BY <1>1
<1>4. x \in 1 .. W * n2 BY <1>2, <1>3
<1>5. M[x] = LET h == j * P + (o % P) + 1
             IN CASE o = W - 2 -> k[j + 1]
                  [] o = W - 1 -> v[j + 1]
                  [] OTHER -> IF ~p.gate THEN q[h] ELSE IF o < P THEN q[2 * h - 1] ELSE q[2 * h]
      BY <1>2, <1>4 DEF MergeQKV
<1>6. o = W - 2 => o # W - 1 BY <1>1
<1>7. o < W - 2 => o # W - 2 /\ o # W - 1 BY <1>1
<1>8. o = W - 1 => o # W - 2 BY <1>1
<1> QED BY <1>1, <1>4, <1>5, <1>6, <1>7, <1>8

LEMMA GroupSize ==
    ASSUME NEW p, Grouped(p)
    PROVE  Span(p) \in Nat \ {0} /\ Span(p) = IF p.gate THEN 2 * PerGroup(p) + 2 ELSE PerGroup(p) + 2
<1> PICK P \in Nat \ {0} : P = PerGroup(p) BY DEF Grouped
<1>1. Span(p) = (IF p.gate THEN 2 ELSE 1) * P + 2 BY DEF Span
<1>2. CASE p.gate BY <1>1, <1>2
<1>3. CASE ~p.gate BY <1>1, <1>3
<1> QED BY <1>2, <1>3

LEMMA MergedIs ==
    ASSUME NEW S, NEW p, Grouped(p), NEW q, NEW k, NEW v, QKV(S, p, q, k, v), NEW M, M = MergeQKV(p, q, k, v)
    PROVE  M \in Seq(S) /\ Len(M) = Span(p) * p.n[2] /\ Span(p) * p.n[2] \in Nat
<1> PICK W \in Nat \ {0} : W = Span(p) BY GroupSize
<1> PICK P \in Nat \ {0} : P = PerGroup(p) BY DEF Grouped
<1> PICK n1 \in Nat \ {0} : n1 = p.n[1] BY DEF Grouped
<1> PICK n2 \in Nat \ {0} : n2 = p.n[2] BY DEF Grouped
<1>1. /\ k \in Seq(S) /\ Len(k) = n2 /\ v \in Seq(S) /\ Len(v) = n2 /\ q \in Seq(S)
      /\ p.gate => Len(q) = 2 * n1
      /\ ~p.gate => Len(q) = n1
      BY DEF QKV
<1>2. n1 = n2 * P BY DEF Grouped
<1>3. ASSUME NEW x \in 1 .. W * n2 PROVE M[x] \in S
  <2>1. InGroups(x, W, n2)
    <3>1. W * n2 = n2 * W OBVIOUS
    <3> QED BY <3>1 DEF InGroups
  <2>2. PICK j \in 0 .. n2 - 1 : \E o \in 0 .. W - 1 : x = j * W + o + 1 /\ (x - 1) \div W = j /\ (x - 1) % W = o
        BY ONLY <2>1, HeadOf
  <2>3. PICK o \in 0 .. W - 1 : x = j * W + o + 1 BY <2>2
  <2> PICK h : h = j * P + (o % P) + 1 OBVIOUS
  <2>4. h \in 1 .. n1
    <3>0. o \in Nat OBVIOUS
    <3>1. PICK e \in 0 .. P - 1 : e = o % P BY <3>0, DivMod
    <3>2. j \in Nat /\ j < n2 OBVIOUS
    <3> QED BY <1>2, <3>1, <3>2, HeadNumber
  <2>5. j \in Nat /\ j < p.n[2] OBVIOUS
  <2>6. /\ o = W - 2 => M[x] = k[j + 1]
        /\ o = W - 1 => M[x] = v[j + 1]
        /\ o < W - 2 => M[x] = IF ~p.gate THEN q[h] ELSE IF o < P THEN q[2 * h - 1] ELSE q[2 * h]
        BY <2>3, <2>5, MergedAt
  <2>7. k[j + 1] \in S /\ v[j + 1] \in S
    <3>1. PICK y \in 1 .. n2 : y = j + 1 OBVIOUS
    <3>2. k[y] \in S /\ v[y] \in S BY ONLY <1>1, <3>1, n2 \in Nat \ {0}
    <3> QED BY <3>1, <3>2
  <2>8. p.gate => q[2 * h] \in S /\ q[2 * h - 1] \in S
    <3>1. PICK a \in 1 .. 2 * n1 : a = 2 * h BY <2>4
    <3>2. PICK b \in 1 .. 2 * n1 : b = 2 * h - 1 BY <2>4
    <3>3. p.gate => q[a] \in S /\ q[b] \in S BY ONLY <1>1, <3>1, <3>2, n1 \in Nat \ {0}
    <3> QED BY <3>1, <3>2, <3>3
  <2>9. ~p.gate => q[h] \in S BY <1>1, <2>4
  <2>10. o = W - 2 \/ o = W - 1 \/ o < W - 2 BY ONLY o \in 0 .. W - 1, W \in Nat \ {0}
  <2>11. CASE o < W - 2 BY <2>6, <2>8, <2>9, <2>11
  <2> QED BY <2>6, <2>7, <2>10, <2>11
<1>4. M = [x \in 1 .. W * n2 |-> M[x]] BY DEF MergeQKV
<1>5. W * n2 \in Nat OBVIOUS
<1> PICK l \in Nat : l = W * n2 BY <1>5
<1>6. M = [x \in 1 .. l |-> M[x]] /\ \A x \in 1 .. l : M[x] \in S BY <1>3, <1>4
<1>7. M \in Seq(S) /\ Len(M) = l BY ONLY <1>6, l \in Nat
<1> QED BY <1>7

LEMMA SplitMerged ==
    ASSUME NEW S, NEW p, Grouped(p), NEW q, NEW k, NEW v, QKV(S, p, q, k, v)
    PROVE  SplitQKV(p, MergeQKV(p, q, k, v)) = [q |-> q, k |-> k, v |-> v]
<1> PICK M : M = MergeQKV(p, q, k, v) OBVIOUS
<1> PICK W \in Nat \ {0} : W = Span(p) BY GroupSize
<1> PICK P \in Nat \ {0} : P = PerGroup(p) BY DEF Grouped
<1> PICK n1 \in Nat \ {0} : n1 = p.n[1] BY DEF Grouped
<1> PICK n2 \in Nat \ {0} : n2 = p.n[2] BY DEF Grouped
<1>1. W = IF p.gate THEN 2 * P + 2 ELSE P + 2 BY GroupSize
<1>2. n1 = n2 * P BY DEF Grouped
<1>3. ASSUME NEW y \in 1 .. n2 PROVE M[W * y - 1] = k[y] /\ M[W * y] = v[y]
  <2> PICK j \in Nat : y = j + 1
    <3>1. y - 1 \in Nat /\ y = (y - 1) + 1 OBVIOUS
    <3> QED BY <3>1
  <2>1. j < p.n[2] OBVIOUS
  <2>2. W - 1 \in 0 .. W - 1 /\ W - 2 \in 0 .. W - 1 BY <1>1
  <2>3. M[j * W + (W - 2) + 1] = k[j + 1] BY <2>1, <2>2, MergedAt
  <2>4. M[j * W + (W - 1) + 1] = v[j + 1] BY <2>1, <2>2, MergedAt
  <2>5. W * y = j * W + W
    <3>1. W * (j + 1) = j * W + W OBVIOUS
    <3> QED BY <3>1
  <2>6. W * y - 1 = j * W + (W - 2) + 1 /\ W * y = j * W + (W - 1) + 1
    <3> PICK a \in Nat : a = j * W OBVIOUS
    <3>1. W * y = a + W BY <2>5
    <3> QED BY <3>1
  <2> QED BY <2>3, <2>4, <2>6
<1>4. ASSUME NEW h \in 1 .. n1, NEW s \in {0, 1}, s = 1 => p.gate
      PROVE  M[HeadAt(p, h, s * P + 1)] = IF ~p.gate THEN q[h] ELSE IF s = 0 THEN q[2 * h - 1] ELSE q[2 * h]
  <2>1. PICK j \in 0 .. n2 - 1 : \E o \in 0 .. P - 1 : h = j * P + o + 1 /\ (h - 1) \div P = j /\ (h - 1) % P = o
    <3>1. InGroups(h, P, n2) BY <1>2 DEF InGroups
    <3> QED BY <3>1, HeadOf
  <2>2. PICK o \in 0 .. P - 1 : h = j * P + o + 1 /\ (h - 1) \div P = j /\ (h - 1) % P = o BY <2>1
  <2> PICK e : e = s * P + o OBVIOUS
  <2>3. e \in 0 .. W - 1 /\ e < W - 2 /\ e \in Nat /\ (e < P <=> s = 0)
    <3>1. CASE s = 0 BY <1>1, <3>1
    <3>2. CASE s = 1 BY <1>1, <1>4, <3>2
    <3> QED BY <3>1, <3>2
  <2>4. e % P = o
    <3>1. s \in Nat OBVIOUS
    <3> QED BY <3>1, DivUnique
  <2>5. HeadAt(p, h, s * P + 1) = W * j + o + (s * P + 1) BY <2>2 DEF HeadAt
  <2>6. W * j + o + (s * P + 1) = j * W + e + 1 OBVIOUS
  <2>7. j \in Nat /\ j < p.n[2] OBVIOUS
  <2>8. M[j * W + e + 1] = LET g == j * P + (e % P) + 1
                           IN IF ~p.gate THEN q[g] ELSE IF e < P THEN q[2 * g - 1] ELSE q[2 * g]
    <3> PICK a \in Nat : a = e BY <2>3
    <3>1. a \in 0 .. W - 1 /\ a < W - 2 BY <2>3
    <3> QED BY ONLY <2>7, <3>1, a = e, Grouped(p), M = MergeQKV(p, q, k, v), P = PerGroup(p), W = Span(p), MergedAt
  <2>9. M[j * W + e + 1] = IF ~p.gate THEN q[h] ELSE IF s = 0 THEN q[2 * h - 1] ELSE q[2 * h]
        BY <2>2, <2>3, <2>4, <2>8
  <2> QED BY <2>5, <2>6, <2>9
<1>5. [y \in 1 .. n2 |-> M[W * y - 1]] = k /\ [y \in 1 .. n2 |-> M[W * y]] = v
  <2>1. k = [y \in 1 .. n2 |-> k[y]] /\ v = [y \in 1 .. n2 |-> v[y]]
    <3>1. k \in Seq(S) /\ Len(k) = n2 /\ v \in Seq(S) /\ Len(v) = n2 BY DEF QKV
    <3> QED BY ONLY <3>1
  <2> QED BY <1>3, <2>1
<1>6. ASSUME ~p.gate PROVE [h \in 1 .. n1 |-> M[HeadAt(p, h, 1)]] = q
  <2>1. q \in Seq(S) /\ Len(q) = n1 BY <1>6 DEF QKV
  <2>2. q = [h \in 1 .. n1 |-> q[h]] BY ONLY <2>1
  <2>3. \A h \in 1 .. n1 : M[HeadAt(p, h, 1)] = q[h]
    <3> SUFFICES ASSUME NEW h \in 1 .. n1 PROVE M[HeadAt(p, h, 1)] = q[h] OBVIOUS
    <3>1. 0 * P + 1 = 1 /\ 0 \in {0, 1} OBVIOUS
    <3> QED BY <1>4, <1>6, <3>1
  <2> QED BY <2>2, <2>3
<1>7. ASSUME p.gate
      PROVE  [i \in 1 .. 2 * n1 |-> M[HeadAt(p, (i + 1) \div 2, IF i % 2 = 1 THEN 1 ELSE P + 1)]] = q
  <2>1. q \in Seq(S) /\ Len(q) = 2 * n1 BY <1>7 DEF QKV
  <2>2. q = [i \in 1 .. 2 * n1 |-> q[i]] BY ONLY <2>1
  <2>3. ASSUME NEW i \in 1 .. 2 * n1
        PROVE M[HeadAt(p, (i + 1) \div 2, IF i % 2 = 1 THEN 1 ELSE P + 1)] = q[i]
    <3>1. CASE i % 2 = 1
      <4>1. PICK h \in 1 .. n1 : i = 2 * h - 1 /\ (i + 1) \div 2 = h BY ONLY <3>1, i \in 1 .. 2 * n1, n1 \in Nat \ {0}
      <4>2. 0 * P + 1 = 1 /\ 0 \in {0, 1} OBVIOUS
      <4>3. M[HeadAt(p, h, 1)] = q[2 * h - 1] BY <1>4, <1>7, <4>2
      <4> QED BY <3>1, <4>1, <4>3
    <3>2. CASE i % 2 # 1
      <4>1. PICK h \in 1 .. n1 : i = 2 * h /\ (i + 1) \div 2 = h BY ONLY <3>2, i \in 1 .. 2 * n1, n1 \in Nat \ {0}
      <4>2. 1 * P + 1 = P + 1 /\ 1 \in {0, 1} /\ 1 # 0 OBVIOUS
      <4>3. M[HeadAt(p, h, P + 1)] = q[2 * h] BY <1>4, <1>7, <4>2
      <4> QED BY <3>2, <4>1, <4>3
    <3> QED BY <3>1, <3>2
  <2> QED BY <2>2, <2>3
<1> PICK s : s = SplitQKV(p, M) OBVIOUS
<1>8. s = [q |-> s.q, k |-> s.k, v |-> s.v] /\ s.k = k /\ s.v = v
  <2>1. /\ s = [q |-> s.q, k |-> s.k, v |-> s.v]
        /\ s.k = [y \in 1 .. n2 |-> M[W * y - 1]] /\ s.v = [y \in 1 .. n2 |-> M[W * y]]
        BY DEF SplitQKV
  <2> QED BY <1>5, <2>1
<1>9. s.q = q
  <2>1. CASE p.gate
    <3>1. s.q = [i \in 1 .. 2 * n1 |-> M[HeadAt(p, (i + 1) \div 2, IF i % 2 = 1 THEN 1 ELSE P + 1)]]
          BY <2>1 DEF SplitQKV
    <3> QED BY <1>7, <2>1, <3>1
  <2>2. CASE ~p.gate
    <3>1. s.q = [h \in 1 .. n1 |-> M[HeadAt(p, h, 1)]] BY <2>2 DEF SplitQKV
    <3> QED BY <1>6, <2>2, <3>1
  <2> QED BY <2>1, <2>2
<1> QED BY <1>8, <1>9

\* The shards, and what is cut out of each of them at one place.
ShardsOf(n, parts, size) == [i \in 1 .. size |-> ChunkOfEach(n, parts, size, i - 1)]
CutOut(shards, size, b, l) == [i \in 1 .. size |-> SubSeq(shards[i], b + 1, b + l)]

\* The shards, cut at the same places and joined place by place, are the parts again.
LEMMA Regrouped ==
    ASSUME NEW S, NEW n, NEW parts, NEW L, NEW size, Divided(S, n, parts, L, size),
           NEW shards, shards = ShardsOf(n, parts, size), NEW c, c \in 1 .. n
    PROVE  FlattenSeq(CutOut(shards, size, SumBefore(L, c), L[c])) = parts[c]
<1> PICK b : b = SumBefore(L, c) OBVIOUS
<1> PICK t : t = CutOut(shards, size, b, L[c]) OBVIOUS
<1> PICK u : u = parts[c] OBVIOUS
<1>1. u \in Seq(S) /\ Len(u) % size = 0 /\ size \in Nat \ {0} BY DEF Divided
<1>2. ASSUME NEW i \in 1 .. size PROVE t[i] = Chunk(u, size, i - 1)
  <2> PICK h \in 0 .. size - 1 : h = i - 1 BY <1>1
  <2> PICK s : s = ChunkOfEach(n, parts, size, h) OBVIOUS
  <2>1. SubSeq(s, b + 1, b + L[c]) = Chunk(parts[c], size, h) BY ShardHolds
  <2>2. shards[i] = s BY DEF ShardsOf
  <2> QED BY <2>1, <2>2 DEF CutOut
<1>3. t = [i \in 1 .. size |-> Chunk(u, size, i - 1)] BY <1>2 DEF CutOut
<1>4. FlattenSeq(t) = u BY ONLY <1>1, <1>3, ChunksLaidOut
<1> QED BY <1>4

\* ConcatenatedQKVMapping cuts out the three pieces it joins.
LEMMA ConcatenatedCut ==
    ASSUME NEW S, NEW p, Grouped(p), ~p.gate, NEW w \in Seq(S), Len(w) = p.n[1] + 2 * p.n[2]
    PROVE  /\ QKV(S, p, Queries(p, w), Keys(p, w), Values(p, w))
           /\ Queries(p, w) \o Keys(p, w) \o Values(p, w) = w
<1> PICK n1 \in Nat \ {0} : n1 = p.n[1] BY DEF Grouped
<1> PICK n2 \in Nat \ {0} : n2 = p.n[2] BY DEF Grouped
<1> PICK q : q = Queries(p, w) OBVIOUS
<1> PICK k : k = Keys(p, w) OBVIOUS
<1> PICK v : v = Values(p, w) OBVIOUS
<1>1. Len(w) = n1 + n2 + n2 OBVIOUS
<1>2. q \in Seq(S) /\ Len(q) = n1 /\ \A x \in 1 .. n1 : q[x] = w[x]
  <2> PICK z \in Nat : z = 0 OBVIOUS
  <2>1. /\ SubSeq(w, z + 1, z + n1) \in Seq(S) /\ Len(SubSeq(w, z + 1, z + n1)) = n1
        /\ \A x \in 1 .. n1 : SubSeq(w, z + 1, z + n1)[x] = w[z + x]
    <3>1. z + n1 <= Len(w) BY ONLY <1>1, z = 0, n1 \in Nat \ {0}, n2 \in Nat \ {0}
    <3> QED BY ONLY <3>1, z \in Nat, n1 \in Nat \ {0}, w \in Seq(S), CutFacts
  <2>2. z + 1 = 1 /\ z + n1 = n1 /\ \A x \in 1 .. n1 : z + x = x
        BY ONLY z = 0, n1 \in Nat \ {0}
  <2>3. q = SubSeq(w, 1, n1) BY DEF Queries
  <2> QED BY <2>1, <2>2, <2>3
<1>3. k \in Seq(S) /\ Len(k) = n2 /\ \A x \in 1 .. n2 : k[x] = w[n1 + x]
  <2>1. k = SubSeq(w, n1 + 1, n1 + n2) BY DEF Keys
  <2>2. n1 \in Nat /\ n2 \in Nat /\ n1 + n2 <= Len(w) BY <1>1
  <2>3. /\ SubSeq(w, n1 + 1, n1 + n2) \in Seq(S) /\ Len(SubSeq(w, n1 + 1, n1 + n2)) = n2
        /\ \A x \in 1 .. n2 : SubSeq(w, n1 + 1, n1 + n2)[x] = w[n1 + x]
        BY ONLY <2>2, w \in Seq(S), CutFacts
  <2> QED BY ONLY <2>1, <2>3
<1>4. v \in Seq(S) /\ Len(v) = n2 /\ \A x \in 1 .. n2 : v[x] = w[n1 + n2 + x]
  <2> PICK f \in Nat : f = n1 + n2 OBVIOUS
  <2>1. v = SubSeq(w, f + 1, f + n2)
    <3>1. n1 + 2 * n2 = f + n2 BY ONLY f = n1 + n2, n1 \in Nat \ {0}, n2 \in Nat \ {0}
    <3> QED BY <3>1 DEF Values
  <2>2. f + n2 <= Len(w) BY <1>1
  <2>3. /\ SubSeq(w, f + 1, f + n2) \in Seq(S) /\ Len(SubSeq(w, f + 1, f + n2)) = n2
        /\ \A x \in 1 .. n2 : SubSeq(w, f + 1, f + n2)[x] = w[f + x]
        BY ONLY <2>2, f \in Nat, n2 \in Nat \ {0}, w \in Seq(S), CutFacts
  <2> QED BY <2>1, <2>3
<1>5. QKV(S, p, q, k, v) BY <1>2, <1>3, <1>4 DEF QKV
<1>6. q \o k \o v = w
  <2> PICK z \in Nat : z = 0 OBVIOUS
  <2> PICK l \in Nat : l = n1 + n2 OBVIOUS
  <2>1. Within(w, z, q, n1)
    <3>1. \A x \in 1 .. n1 : z + x = x BY ONLY z = 0, n1 \in Nat \ {0}
    <3> QED BY <1>2, <3>1 DEF Within
  <2>2. Within(w, n1, k, n2) BY <1>3 DEF Within
  <2>3. Within(w, l, v, n2) BY <1>4 DEF Within
  <2>4. n1 = z + n1 /\ l = z + l BY ONLY z = 0, n1 \in Nat \ {0}, l \in Nat
  <2> PICK a : a = q \o k OBVIOUS
  <2>5. a \in Seq(S) /\ Len(a) = l /\ Within(w, z, a, l)
    <3>1. q \in Seq(S) /\ n1 = Len(q) /\ k \in Seq(S) /\ n2 = Len(k) BY <1>2, <1>3
    <3>2. n1 \in Nat /\ n2 \in Nat OBVIOUS
    <3>3. q \o k \in Seq(S) /\ Len(q \o k) = n1 + n2 /\ Within(w, z, q \o k, n1 + n2)
          BY ONLY <2>1, <2>2, <2>4, <3>1, <3>2, z \in Nat, WithinBoth, SMTT(30)
    <3> QED BY ONLY <3>3, a = q \o k, l = n1 + n2
  <2> PICK c : c = a \o v OBVIOUS
  <2>6. c \in Seq(S) /\ Len(c) = l + n2 /\ Within(w, z, c, l + n2)
    <3>1. v \in Seq(S) /\ n2 = Len(v) /\ l = Len(a) BY <1>4, <2>5
    <3>2. n2 \in Nat OBVIOUS
    <3>3. a \o v \in Seq(S) /\ Len(a \o v) = l + n2 /\ Within(w, z, a \o v, l + n2)
          BY ONLY <2>3, <2>4, <2>5, <3>1, <3>2, l \in Nat, z \in Nat, WithinBoth, SMTT(30)
    <3> QED BY ONLY <3>3, c = a \o v
  <2>7. Len(c) = Len(w) BY ONLY <1>1, <2>6, l = n1 + n2
  <2>8. ASSUME NEW x \in 1 .. l + n2 PROVE c[x] = w[x]
    <3>1. c[x] = w[z + x] BY <2>6 DEF Within
    <3>2. z + x = x BY ONLY z = 0, x \in 1 .. l + n2, l \in Nat, n2 \in Nat \ {0}
    <3> QED BY <3>1, <3>2
  <2>9. c = w BY ONLY <2>6, <2>7, <2>8, w \in Seq(S), SameSequence
  <2> QED BY <2>9
<1> QED BY <1>5, <1>6

\* Keys and values side by side, head by head.
LEMMA KVRoundTrip ==
    ASSUME NEW S, NEW p, NEW n \in Nat \ {0}, p.n[2] = n, NEW k \in Seq(S), Len(k) = n, NEW v \in Seq(S), Len(v) = n
    PROVE  /\ MergeKV(p, k, v) \in Seq(S) /\ Len(MergeKV(p, k, v)) = 2 * n
           /\ SplitKV(p, MergeKV(p, k, v)) = [k |-> k, v |-> v]
<1> DEFINE w == [x \in 1 .. 2 * n |-> IF x % 2 = 1 THEN k[(x + 1) \div 2] ELSE v[x \div 2]]
           t == [j \in 1 .. n |-> <<k[j], v[j]>>]
           A == [j \in 0 .. n |-> 2 * j]
<1>1. \A j \in 1 .. n : k[j] \in S /\ v[j] \in S OBVIOUS
<1>2. w \in Seq(S) /\ Len(w) = 2 * n
  <2>1. ASSUME NEW x \in 1 .. 2 * n PROVE w[x] \in S
    <3>1. CASE x % 2 = 1
      <4> PICK j \in 1 .. n : j = (x + 1) \div 2 BY <3>1
      <4> QED BY <1>1, <3>1
    <3>2. CASE ~(x % 2 = 1)
      <4> PICK j \in 1 .. n : j = x \div 2 BY <3>2
      <4> QED BY <1>1, <3>2
    <3> QED BY <3>1, <3>2
  <2> PICK l \in Nat : l = 2 * n OBVIOUS
  <2>2. w = [x \in 1 .. l |-> w[x]] OBVIOUS
  <2> HIDE DEF w
  <2>3. \A x \in 1 .. l : w[x] \in S BY <2>1
  <2>4. w \in Seq(S) /\ Len(w) = l BY ONLY <2>2, <2>3, l \in Nat
  <2> QED BY <2>4
<1>3. \A j \in 1 .. n : w[2 * j - 1] = k[j] /\ w[2 * j] = v[j]
  <2> SUFFICES ASSUME NEW j \in 1 .. n PROVE w[2 * j - 1] = k[j] /\ w[2 * j] = v[j] OBVIOUS
  <2> PICK a \in 1 .. 2 * n : a = 2 * j - 1 OBVIOUS
  <2> PICK b \in 1 .. 2 * n : b = 2 * j OBVIOUS
  <2>1. a % 2 = 1 /\ (a + 1) \div 2 = j /\ b % 2 # 1 /\ b \div 2 = j OBVIOUS
  <2>2. w[a] = k[j] /\ w[b] = v[j] BY <2>1
  <2> QED BY <2>2
<1>4. \A j \in 1 .. n : t[j] = <<k[j], v[j]>> OBVIOUS
<1>5. DOMAIN t = 1 .. n /\ Len(t) = n OBVIOUS
<1>6. \A j \in 0 .. n : A[j] = 2 * j OBVIOUS
<1>7. MergeKV(p, k, v) = FlattenSeq(t) BY DEF MergeKV
<1> HIDE DEF w, t, A
<1>8. \A j \in 1 .. n : t[j] \in Seq(S) /\ Len(t[j]) = 2 /\ t[j][1] = k[j] /\ t[j][2] = v[j]
  <2> SUFFICES ASSUME NEW j \in 1 .. n
               PROVE  t[j] \in Seq(S) /\ Len(t[j]) = 2 /\ t[j][1] = k[j] /\ t[j][2] = v[j] OBVIOUS
  <2> PICK a \in S : a = k[j] BY <1>1
  <2> PICK b \in S : b = v[j] BY <1>1
  <2>1. t[j] = <<a, b>> BY <1>4
  <2> QED BY <2>1
<1>9. Pieces(S, n, t, A, w)
  <2>1. ASSUME NEW j \in 1 .. n PROVE A[j] = A[j - 1] + Len(t[j]) /\ A[j - 1] = 2 * j - 2
    <3>1. j - 1 \in 0 .. n /\ j \in 0 .. n OBVIOUS
    <3>2. A[j - 1] = 2 * (j - 1) /\ A[j] = 2 * j BY <1>6, <3>1
    <3>3. Len(t[j]) = 2 BY <1>8
    <3> PICK a : a = A[j - 1] OBVIOUS
    <3> PICK b : b = A[j] OBVIOUS
    <3>4. a = 2 * (j - 1) /\ b = 2 * j BY <3>2
    <3>5. a = 2 * j - 2 /\ b = a + 2 BY ONLY <3>4, j \in 1 .. n, n \in Nat \ {0}
    <3> QED BY <3>3, <3>5
  <2>2. A[0] = 0 /\ A[n] = 2 * n BY <1>6
  <2>3. ASSUME NEW j \in 1 .. n, NEW x \in 1 .. Len(t[j]) PROVE w[A[j - 1] + x] = t[j][x]
    <3>0. Len(t[j]) = 2 BY <1>8
    <3>1. x = 1 \/ x = 2
      <4>1. x \in 1 .. 2 BY <3>0
      <4> QED BY ONLY <4>1
    <3>2. A[j - 1] = 2 * j - 2 BY <2>1
    <3>3. CASE x = 1
      <4>1. A[j - 1] + x = 2 * j - 1 BY <3>2, <3>3
      <4> QED BY <1>3, <1>8, <3>3, <4>1
    <3>4. CASE x = 2
      <4>1. A[j - 1] + x = 2 * j BY <3>2, <3>4
      <4> QED BY <1>3, <1>8, <3>4, <4>1
    <3> QED BY <3>1, <3>3, <3>4
  <2>4. \A j \in 1 .. n : t[j] \in Seq(S) BY <1>8
  <2>5. \A j \in 1 .. n : A[j] = A[j - 1] + Len(t[j]) BY <2>1
  <2> QED BY <1>2, <1>5, <2>2, <2>3, <2>4, <2>5 DEF Pieces
<1>10. FlattenSeq(t) = w BY <1>9, LaidOut
<1>11. SplitKV(p, w) = [k |-> k, v |-> v]
  <2>1. [j \in 1 .. n |-> w[2 * j - 1]] = k /\ [j \in 1 .. n |-> w[2 * j]] = v
    <3>1. k = [j \in 1 .. n |-> k[j]] /\ v = [j \in 1 .. n |-> v[j]] OBVIOUS
    <3> QED BY <1>3, <3>1
  <2> QED BY <2>1 DEF SplitKV
<1> QED BY <1>2, <1>7, <1>10, <1>11

LEMMA IsSequence ==
    ASSUME NEW T, NEW n \in Nat, NEW t, t = [c \in 1 .. n |-> t[c]], \A c \in 1 .. n : t[c] \in T
    PROVE  t \in Seq(T) /\ Len(t) = n
OBVIOUS

\* The parts, of the lengths L, make w end to end.
CutInto(S, w, L, parts) ==
    /\ parts \in Seq(Seq(S)) /\ Len(parts) = Len(L) /\ FlattenSeq(parts) = w
    /\ \A c \in 1 .. Len(L) : parts[c] \in Seq(S) /\ Len(parts[c]) = L[c]

\* The components of a tensor, end to end, are the tensor.
LEMMA ComponentsRoundTrip ==
    ASSUME NEW S, NEW p, NEW L \in Seq(Nat), p.n = L, L # <<>>, NEW w \in Seq(S), Len(w) = Total(L)
    PROVE  CutInto(S, w, L, Components(p, w))
<1> PICK n \in Nat \ {0} : n = Len(L) /\ DOMAIN L = 1 .. n OBVIOUS
<1> DEFINE A == [k \in 0 .. n |-> Total(SubSeq(L, 1, k))]
           t == [c \in 1 .. n |-> SubSeq(w, Total(SubSeq(L, 1, c - 1)) + 1, Total(SubSeq(L, 1, c - 1)) + L[c])]
<1>1. \A k \in 0 .. n : A[k] = Total(SubSeq(L, 1, k)) OBVIOUS
<1>2. Components(p, w) = t BY DEF Components
<1>3. DOMAIN t = 1 .. n /\ Len(t) = n /\ t = [c \in 1 .. n |-> t[c]]
      /\ \A c \in 1 .. n : t[c] = SubSeq(w, Total(SubSeq(L, 1, c - 1)) + 1, Total(SubSeq(L, 1, c - 1)) + L[c])
  <2>1. \A c \in 1 .. n : t[c] = SubSeq(w, Total(SubSeq(L, 1, c - 1)) + 1, Total(SubSeq(L, 1, c - 1)) + L[c])
        OBVIOUS
  <2>2. t = [c \in 1 .. n |-> t[c]] OBVIOUS
  <2> HIDE DEF t
  <2>3. DOMAIN t = 1 .. n /\ Len(t) = n BY ONLY <2>2, n \in Nat \ {0}
  <2> QED BY <2>1, <2>2, <2>3
<1> HIDE DEF A, t
<1>4. Partial(A, L, n) /\ (\A k \in 0 .. n : A[k] \in Nat) /\ Total(L) = A[n] BY <1>1, RunningTotals
<1>5. \A k \in 1 .. n : L[k] \in Nat OBVIOUS
<1>6. ASSUME NEW c \in 1 .. n
      PROVE  /\ t[c] \in Seq(S) /\ Len(t[c]) = L[c] /\ A[c] = A[c - 1] + L[c]
             /\ \A x \in 1 .. L[c] : t[c][x] = w[A[c - 1] + x]
  <2> PICK l \in Nat : l = L[c] BY <1>5
  <2>1. c - 1 \in 0 .. n /\ c \in 0 .. n /\ n \in c .. n OBVIOUS
  <2> PICK f \in Nat : f = A[c - 1] BY <1>4, <2>1
  <2>2. A[c] = f + l BY <1>4 DEF Partial
  <2>3. A[c] <= A[n]
    <3>1. \A k \in c .. n : A[c] <= A[k] BY <1>4, <1>5, <2>1, PartialsGrow
    <3> QED BY <2>1, <3>1
  <2>4. f + l <= Len(w) BY <1>4, <2>2, <2>3
  <2>5. t[c] = SubSeq(w, f + 1, f + l) BY <1>1, <1>3, <2>1
  <2>6. /\ SubSeq(w, f + 1, f + l) \in Seq(S) /\ Len(SubSeq(w, f + 1, f + l)) = l
        /\ \A x \in 1 .. l : SubSeq(w, f + 1, f + l)[x] = w[f + x]
        BY ONLY <2>4, f \in Nat, l \in Nat, w \in Seq(S), CutFacts
  <2> QED BY <2>2, <2>5, <2>6
<1>7. Pieces(S, n, t, A, w)
  <2>1. \A c \in 1 .. n : t[c] \in Seq(S) /\ A[c] = A[c - 1] + Len(t[c]) BY <1>6
  <2>2. ASSUME NEW c \in 1 .. n, NEW x \in 1 .. Len(t[c]) PROVE w[A[c - 1] + x] = t[c][x] BY <1>6
  <2>3. A[0] = 0 BY <1>4 DEF Partial
  <2>4. Len(w) = A[n] BY <1>4
  <2> QED BY <1>3, <2>1, <2>2, <2>3, <2>4 DEF Pieces
<1>8. FlattenSeq(t) = w BY <1>7, LaidOut
<1>9. t \in Seq(Seq(S))
  <2>1. t = [c \in 1 .. n |-> t[c]] BY <1>3
  <2> PICK T : T = Seq(S) OBVIOUS
  <2>2. \A c \in 1 .. n : t[c] \in T BY <1>6
  <2>3. n \in Nat OBVIOUS
  <2>4. t \in Seq(T) BY ONLY <2>1, <2>2, <2>3, IsSequence
  <2> QED BY <2>4
<1> QED BY <1>2, <1>3, <1>6, <1>8, <1>9 DEF CutInto

\* The place after j of so many runs of q.
LEMMA NextRun ==
    ASSUME NEW heads \in Nat \ {0}, NEW j \in 0 .. heads - 1, NEW q \in Nat, NEW f, f = j * q
    PROVE  /\ f \in Nat /\ (j + 1) * q = f + q /\ f + q <= heads * q
           /\ j + 1 \in Nat /\ j \in Nat
<1>1. (j + 1) * q = j * q + q /\ j * q \in Nat OBVIOUS
<1>2. PICK d \in Nat : heads = (j + 1) + d
  <2>1. heads - (j + 1) \in Nat /\ heads = (j + 1) + (heads - (j + 1)) OBVIOUS
  <2> QED BY <2>1
<1>3. ((j + 1) + d) * q = (j + 1) * q + d * q /\ d * q \in Nat OBVIOUS
<1> QED BY <1>1, <1>2, <1>3

\* s has so many heads of W rows each; a column is count of the rows of every head.
HasColumn(S, heads, W, s, first, count) ==
    /\ heads \in Nat \ {0} /\ W \in Nat /\ s \in Seq(S) /\ Len(s) = heads * W
    /\ first \in Nat \ {0} /\ count \in Nat \ {0} /\ first + count <= W + 1

IsColumn(S, heads, W, s, first, count, c) ==
    /\ c \in Seq(S) /\ Len(c) = heads * count
    /\ \A j \in 0 .. heads - 1 : \A y \in 1 .. count : c[j * count + y] = s[j * W + first + (y - 1)]

LEMMA ColumnIs ==
    ASSUME NEW S, NEW heads, NEW W, NEW s, NEW first, NEW count, HasColumn(S, heads, W, s, first, count),
           NEW c, c = Column(s, heads, first, count)
    PROVE  IsColumn(S, heads, W, s, first, count, c)
<1>0. /\ heads \in Nat \ {0} /\ W \in Nat /\ s \in Seq(S) /\ Len(s) = heads * W
      /\ first \in Nat \ {0} /\ count \in Nat \ {0} /\ first + count <= W + 1
      BY DEF HasColumn
<1> USE <1>0
<1>1. Len(s) \div heads = W
  <2>1. heads * W = W * heads OBVIOUS
  <2> QED BY <2>1, MultipleOf
<1> PICK l \in Nat : l = heads * count OBVIOUS
<1>2. c = [x \in 1 .. l |-> s[((x - 1) \div count) * W + first + ((x - 1) % count)]] BY <1>1 DEF Column
<1>3. ASSUME NEW j \in 0 .. heads - 1, NEW o \in 0 .. count - 1
      PROVE  /\ j * count + o + 1 \in 1 .. l
             /\ c[j * count + o + 1] = s[j * W + first + o] /\ j * W + first + o \in 1 .. Len(s)
  <2> PICK x : x = j * count + o + 1 OBVIOUS
  <2>1. j \in Nat /\ j < heads OBVIOUS
  <2>2. x \in 1 .. heads * count /\ (x - 1) \div count = j /\ (x - 1) % count = o
        BY ONLY <2>1, count \in Nat \ {0}, heads \in Nat \ {0}, o \in 0 .. count - 1, x = j * count + o + 1, HeadNumber
  <2>3. c[x] = s[j * W + first + o] BY <1>2, <2>2
  <2>4. j * W + first + o \in 1 .. Len(s)
    <3>1. W \in Nat \ {0} /\ first + o - 1 \in 0 .. W - 1
          BY ONLY W \in Nat, first \in Nat \ {0}, count \in Nat \ {0}, first + count <= W + 1, o \in 0 .. count - 1
    <3> PICK z \in 0 .. W - 1 : z = first + o - 1 BY <3>1
    <3> PICK y : y = j * W + z + 1 OBVIOUS
    <3>2. y \in 1 .. heads * W
          BY ONLY <2>1, <3>1, heads \in Nat \ {0}, z \in 0 .. W - 1, y = j * W + z + 1, HeadNumber
    <3> PICK a \in Nat : a = j * W OBVIOUS
    <3>3. y = j * W + first + o BY ONLY y = j * W + z + 1, a = j * W, a \in Nat, z = first + o - 1,
                                         first \in Nat \ {0}, o \in 0 .. count - 1, count \in Nat \ {0}
    <3> QED BY <3>2, <3>3
  <2> QED BY <2>2, <2>3, <2>4
<1>4. ASSUME NEW x \in 1 .. l PROVE c[x] \in S
  <2>1. InGroups(x, count, heads) BY DEF InGroups
  <2>2. PICK j \in 0 .. heads - 1 : \E o \in 0 .. count - 1 :
              x = j * count + o + 1 /\ (x - 1) \div count = j /\ (x - 1) % count = o
        BY ONLY <2>1, HeadOf
  <2>3. PICK o \in 0 .. count - 1 : x = j * count + o + 1 BY <2>2
  <2>4. c[x] = s[j * W + first + o] /\ j * W + first + o \in 1 .. Len(s) BY <1>3, <2>3
  <2> QED BY <2>4
<1>5. c = [x \in 1 .. l |-> c[x]] BY <1>2
<1>6. c \in Seq(S) /\ Len(c) = l BY ONLY <1>4, <1>5, l \in Nat
<1>7. ASSUME NEW j \in 0 .. heads - 1, NEW y \in 1 .. count
      PROVE  c[j * count + y] = s[j * W + first + (y - 1)]
  <2> PICK o \in 0 .. count - 1 : o = y - 1 OBVIOUS
  <2>1. c[j * count + o + 1] = s[j * W + first + o] BY <1>3
  <2>2. j * count + o + 1 = j * count + y
    <3> PICK a \in Nat : a = j * count OBVIOUS
    <3> QED BY ONLY a = j * count, a \in Nat, o = y - 1, y \in 1 .. count, count \in Nat \ {0}
  <2> QED BY <2>1, <2>2
<1> QED BY <1>6, <1>7 DEF IsColumn

\* w has, head by head, cnt[c] rows of part c after B[c - 1] rows of the parts before it.
BesideEach(S, heads, m, parts, cnt, B, w) ==
    /\ heads \in Nat \ {0} /\ m \in Nat \ {0} /\ Len(parts) = m
    /\ \A c \in 1 .. m : cnt[c] \in Nat /\ parts[c] \in Seq(S) /\ Len(parts[c]) = heads * cnt[c]
    /\ Partial(B, cnt, m)
    /\ w \in Seq(S) /\ Len(w) = heads * B[m]
    /\ \A h \in 0 .. heads - 1 : \A c \in 1 .. m : \A y \in 1 .. cnt[c] :
          w[h * B[m] + (B[c - 1] + y)] = parts[c][h * cnt[c] + y]

LEMMA BesideIs ==
    ASSUME NEW S, NEW heads, NEW m, NEW parts, NEW cnt, NEW B, NEW w,
           BesideEach(S, heads, m, parts, cnt, B, w)
    PROVE  Beside(parts, heads) = w
<1>0. /\ heads \in Nat \ {0} /\ m \in Nat \ {0} /\ Len(parts) = m
      /\ \A c \in 1 .. m : cnt[c] \in Nat /\ parts[c] \in Seq(S) /\ Len(parts[c]) = heads * cnt[c]
      /\ Partial(B, cnt, m) /\ w \in Seq(S) /\ Len(w) = heads * B[m]
      BY DEF BesideEach
<1> USE <1>0
<1>1. \A k \in 0 .. m : B[k] \in Nat BY PartialsAreNumbers
<1> PICK W \in Nat : W = B[m] BY <1>1
<1> PICK n \in Nat \ {0} : n = heads * m OBVIOUS
<1> DEFINE t == [x \in 1 .. n |->
                   LET part  == parts[((x - 1) % m) + 1]
                       h     == (x - 1) \div m
                       count == Len(part) \div heads
                   IN SubSeq(part, h * count + 1, (h + 1) * count)]
           A == [k \in 0 .. n |-> (k \div m) * W + B[k % m]]
<1>2. Beside(parts, heads) = FlattenSeq(t) BY DEF Beside
<1>3. ASSUME NEW j \in 0 .. heads - 1, NEW o \in 0 .. m - 1
      PROVE  /\ j * m + o + 1 \in 1 .. n /\ A[j * m + o] = j * W + B[o]
             /\ t[j * m + o + 1] = SubSeq(parts[o + 1], j * cnt[o + 1] + 1, (j + 1) * cnt[o + 1])
  <2> PICK x : x = j * m + o + 1 OBVIOUS
  <2>1. j \in Nat /\ j < heads OBVIOUS
  <2>2. x \in 1 .. heads * m /\ (x - 1) \div m = j /\ (x - 1) % m = o
        BY ONLY <2>1, m \in Nat \ {0}, heads \in Nat \ {0}, o \in 0 .. m - 1, x = j * m + o + 1, HeadNumber
  <2>3. o + 1 \in 1 .. m OBVIOUS
  <2> PICK part : part = parts[o + 1] OBVIOUS
  <2> PICK q \in Nat : q = cnt[o + 1] BY <2>3
  <2>4. Len(part) \div heads = q
    <3>1. Len(part) = heads * q BY <2>3
    <3>2. heads * q = q * heads OBVIOUS
    <3> QED BY <3>1, <3>2, MultipleOf
  <2>5. x \in 1 .. n BY <2>2
  <2>6. t[x] = SubSeq(part, j * q + 1, (j + 1) * q) BY <2>2, <2>4, <2>5
  <2>7. A[x - 1] = j * W + B[o]
    <3>1. x - 1 \in 0 .. n BY <2>5
    <3> QED BY <2>2, <3>1
  <2>8. x - 1 = j * m + o
    <3> PICK a \in Nat : a = j * m OBVIOUS
    <3> QED BY ONLY x = j * m + o + 1, a = j * m, a \in Nat, o \in 0 .. m - 1, m \in Nat \ {0}
  <2> HIDE DEF t, A
  <2> QED BY <2>5, <2>6, <2>7, <2>8
<1>4. A[0] = 0 /\ A[n] = heads * W
  <2>1. 0 \in 0 .. n /\ n \in 0 .. n OBVIOUS
  <2>2. 0 \div m = 0 /\ 0 % m = 0
    <3>1. 0 * m + 0 = 0 /\ 0 \in Nat /\ 0 \in 0 .. m - 1 OBVIOUS
    <3> QED BY <3>1, DivUnique
  <2>3. n \div m = heads /\ n % m = 0 BY MultipleOf
  <2>4. B[0] = 0 BY DEF Partial
  <2>5. A[0] = (0 \div m) * W + B[0 % m] /\ A[n] = (n \div m) * W + B[n % m] BY <2>1
  <2> HIDE DEF A
  <2>6. 0 * W + 0 = 0 /\ heads * W + 0 = heads * W OBVIOUS
  <2> QED BY <2>2, <2>3, <2>4, <2>5, <2>6
<1>5. DOMAIN t = 1 .. n /\ Len(t) = n
  <2>1. t = [x \in 1 .. n |-> t[x]] OBVIOUS
  <2> HIDE DEF t
  <2> QED BY ONLY <2>1, n \in Nat \ {0}
<1> HIDE DEF t, A
<1>6. ASSUME NEW x \in 1 .. n
      PROVE  /\ t[x] \in Seq(S) /\ A[x] = A[x - 1] + Len(t[x])
             /\ \A y \in 1 .. Len(t[x]) : w[A[x - 1] + y] = t[x][y]
  <2>1. InGroups(x, m, heads) BY DEF InGroups
  <2>2. PICK j \in 0 .. heads - 1 : \E o \in 0 .. m - 1 :
              x = j * m + o + 1 /\ (x - 1) \div m = j /\ (x - 1) % m = o
        BY ONLY <2>1, HeadOf
  <2>3. PICK o \in 0 .. m - 1 : x = j * m + o + 1 BY <2>2
  <2> PICK c \in 1 .. m : c = o + 1 OBVIOUS
  <2> PICK q \in Nat : q = cnt[c] OBVIOUS
  <2> PICK u : u = parts[c] OBVIOUS
  <2>4. u \in Seq(S) /\ Len(u) = heads * q OBVIOUS
  <2>5. x - 1 = j * m + o
    <3> PICK a \in Nat : a = j * m OBVIOUS
    <3> QED BY ONLY <2>3, a = j * m, a \in Nat, o \in 0 .. m - 1, m \in Nat \ {0}
  <2>6. A[x - 1] = j * W + B[o] /\ t[x] = SubSeq(u, j * q + 1, (j + 1) * q) BY <1>3, <2>3, <2>5
  <2>7. o = c - 1 /\ B[c] = B[o] + q
    <3>1. o = c - 1 BY ONLY c = o + 1, o \in 0 .. m - 1, m \in Nat \ {0}
    <3> QED BY <3>1 DEF Partial
  <2> PICK b \in Nat : b = B[o] BY <1>1
  <2> PICK f \in Nat : f = j * q BY ONLY j \in 0 .. heads - 1, heads \in Nat \ {0}, q \in Nat
  <2>8. (j + 1) * q = f + q /\ f + q <= Len(u)
    <3>1. (j + 1) * q = f + q /\ f + q <= heads * q
          BY ONLY heads \in Nat \ {0}, j \in 0 .. heads - 1, q \in Nat, f = j * q, NextRun
    <3> QED BY <2>4, <3>1
  <2>9. /\ SubSeq(u, f + 1, f + q) \in Seq(S) /\ Len(SubSeq(u, f + 1, f + q)) = q
        /\ \A y \in 1 .. q : SubSeq(u, f + 1, f + q)[y] = u[f + y]
        BY ONLY <2>4, <2>8, f \in Nat, q \in Nat, CutFacts
  <2>10. t[x] \in Seq(S) /\ Len(t[x]) = q /\ \A y \in 1 .. q : t[x][y] = u[f + y]
    <3>1. t[x] = SubSeq(u, f + 1, f + q) BY <2>6, <2>8
    <3> QED BY ONLY <2>9, <3>1
  <2>11. A[x] = A[x - 1] + q
    <3> PICK a : a = j * W OBVIOUS
    <3>0. a \in Nat /\ (j + 1) * W = a + W
          BY ONLY heads \in Nat \ {0}, j \in 0 .. heads - 1, W \in Nat, a = j * W, NextRun
    <3>1. CASE o + 1 < m
      <4> PICK e \in 0 .. m - 1 : e = o + 1 BY <3>1
      <4>1. A[j * m + e] = j * W + B[e] BY <1>3
      <4>2. j * m + e = x
        <5> PICK z \in Nat : z = j * m OBVIOUS
        <5> QED BY ONLY <2>3, z = j * m, z \in Nat, e = o + 1, o \in 0 .. m - 1, m \in Nat \ {0}
      <4>3. B[e] = b + q BY <2>7
      <4>4. A[x - 1] = a + b /\ A[x] = a + (b + q) BY <2>6, <4>1, <4>2, <4>3
      <4> QED BY ONLY <3>0, <4>4, b \in Nat, q \in Nat
    <3>2. CASE ~(o + 1 < m)
      <4>1. o + 1 = m /\ B[m] = b + q
        <5>1. o + 1 = m BY <3>2
        <5> QED BY <2>7, <5>1
      <4>2. W = b + q BY <4>1
      <4>3. x = (j + 1) * m
        <5> PICK z : z = j * m OBVIOUS
        <5>1. z \in Nat /\ (j + 1) * m = z + m
              BY ONLY heads \in Nat \ {0}, j \in 0 .. heads - 1, m \in Nat \ {0}, z = j * m, NextRun
        <5> QED BY ONLY <2>3, <4>1, <5>1, z = j * m, o \in 0 .. m - 1, m \in Nat \ {0}
      <4>4. A[x] = (j + 1) * W
        <5>1. CASE j + 1 < heads
          <6> PICK h \in 0 .. heads - 1 : h = j + 1 BY <5>1
          <6> PICK e \in 0 .. m - 1 : e = 0 OBVIOUS
          <6>1. A[h * m + e] = h * W + B[e] BY <1>3
          <6>2. h * m + e = h * m /\ h * W + 0 = h * W OBVIOUS
          <6>3. B[0] = 0 BY DEF Partial
          <6> QED BY <4>3, <6>1, <6>2, <6>3
        <5>2. CASE ~(j + 1 < heads)
          <6>1. j + 1 = heads BY <5>2
          <6> QED BY <1>4, <4>3, <6>1
        <5> QED BY <5>1, <5>2
      <4>5. A[x - 1] = a + b /\ A[x] = a + W BY <2>6, <3>0, <4>4
      <4> QED BY ONLY <3>0, <4>2, <4>5, b \in Nat, q \in Nat
    <3> QED BY <3>1, <3>2
  <2>12. ASSUME NEW y \in 1 .. Len(t[x]) PROVE w[A[x - 1] + y] = t[x][y]
    <3>1. y \in 1 .. q BY <2>10
    <3>2. w[j * B[m] + (B[c - 1] + y)] = parts[c][j * cnt[c] + y] BY <3>1 DEF BesideEach
    <3>3. w[j * W + (b + y)] = u[f + y] BY <2>7, <3>2
    <3>4. A[x - 1] + y = j * W + (b + y)
      <4> PICK a : a = j * W OBVIOUS
      <4>0. a \in Nat BY ONLY heads \in Nat \ {0}, j \in 0 .. heads - 1, W \in Nat, a = j * W, NextRun
      <4>1. A[x - 1] = a + b BY <2>6
      <4> QED BY ONLY <3>1, <4>0, <4>1, b \in Nat, q \in Nat, a = j * W
    <3> QED BY <2>10, <3>1, <3>3, <3>4
  <2> QED BY <2>10, <2>11, <2>12
<1>7. Pieces(S, n, t, A, w) BY <1>4, <1>5, <1>6 DEF Pieces
<1>8. FlattenSeq(t) = w BY ONLY <1>7, n \in Nat \ {0}, LaidOut
<1> QED BY <1>2, <1>8

\* The columns of a tensor, side by side, are the tensor.
Columned(S, heads, m, parts, cnt, B, s) ==
    /\ heads \in Nat \ {0} /\ m \in Nat \ {0} /\ Len(parts) = m
    /\ \A c \in 1 .. m : cnt[c] \in Nat \ {0} /\ parts[c] = Column(s, heads, B[c - 1] + 1, cnt[c])
    /\ Partial(B, cnt, m)
    /\ s \in Seq(S) /\ Len(s) = heads * B[m]

LEMMA ColumnsBeside ==
    ASSUME NEW S, NEW heads, NEW m, NEW parts, NEW cnt, NEW B, NEW s, Columned(S, heads, m, parts, cnt, B, s)
    PROVE  /\ Beside(parts, heads) = s
           /\ \A c \in 1 .. m : parts[c] \in Seq(S) /\ Len(parts[c]) = heads * cnt[c]
<1>0. /\ heads \in Nat \ {0} /\ m \in Nat \ {0} /\ Len(parts) = m
      /\ \A c \in 1 .. m : cnt[c] \in Nat \ {0} /\ parts[c] = Column(s, heads, B[c - 1] + 1, cnt[c])
      /\ Partial(B, cnt, m) /\ s \in Seq(S) /\ Len(s) = heads * B[m]
      BY DEF Columned
<1> USE <1>0
<1>1. \A k \in 0 .. m : B[k] \in Nat BY PartialsAreNumbers
<1> PICK W \in Nat : W = B[m] BY <1>1
<1>2. ASSUME NEW c \in 1 .. m
      PROVE  /\ parts[c] \in Seq(S) /\ Len(parts[c]) = heads * cnt[c]
             /\ \A h \in 0 .. heads - 1 : \A y \in 1 .. cnt[c] :
                   s[h * B[m] + (B[c - 1] + y)] = parts[c][h * cnt[c] + y]
  <2> PICK q \in Nat \ {0} : q = cnt[c] OBVIOUS
  <2>1. c - 1 \in 0 .. m /\ c \in 0 .. m /\ m \in c .. m OBVIOUS
  <2> PICK b \in Nat : b = B[c - 1] BY <1>1, <2>1
  <2>2. b + q <= W
    <3>1. B[c] = b + q BY DEF Partial
    <3>2. \A k \in c .. m : B[c] <= B[k] BY <2>1, PartialsGrow
    <3> QED BY <2>1, <3>1, <3>2
  <2> PICK u : u = parts[c] OBVIOUS
  <2> PICK first \in Nat \ {0} : first = b + 1 OBVIOUS
  <2>3. u = Column(s, heads, first, q) OBVIOUS
  <2>4. HasColumn(S, heads, W, s, first, q)
    <3>1. first + q <= W + 1 BY ONLY <2>2, first = b + 1, b \in Nat, q \in Nat \ {0}, W \in Nat
    <3> QED BY <3>1 DEF HasColumn
  <2>5. /\ u \in Seq(S) /\ Len(u) = heads * q
        /\ \A j \in 0 .. heads - 1 : \A y \in 1 .. q : u[j * q + y] = s[j * W + first + (y - 1)]
    <3>1. IsColumn(S, heads, W, s, first, q, u) BY ONLY <2>3, <2>4, ColumnIs
    <3> QED BY ONLY <3>1 DEF IsColumn
  <2>6. ASSUME NEW h \in 0 .. heads - 1, NEW y \in 1 .. q
        PROVE  s[h * W + (b + y)] = u[h * q + y]
    <3>1. h * W + first + (y - 1) = h * W + (b + y)
      <4> PICK a \in Nat : a = h * W BY ONLY h \in 0 .. heads - 1, heads \in Nat \ {0}, W \in Nat
      <4> QED BY ONLY a = h * W, a \in Nat, first = b + 1, b \in Nat, y \in 1 .. q, q \in Nat \ {0}
    <3>2. u[h * q + y] = s[h * W + first + (y - 1)] BY ONLY <2>5, h \in 0 .. heads - 1, y \in 1 .. q
    <3> QED BY <3>1, <3>2
  <2> QED BY <2>5, <2>6
<1>3. BesideEach(S, heads, m, parts, cnt, B, s) BY <1>2 DEF BesideEach
<1>4. Beside(parts, heads) = s BY ONLY <1>3, BesideIs
<1> QED BY <1>2, <1>4

\* The names of rows.
RowNames == {"weight", "q", "z", "k", "v", "gate", "up", "qkvz", "ba"} \X Int \X Int

LEMMA RowsNamed ==
    ASSUME NEW key, key \in {"weight", "q", "z", "k", "v", "gate", "up", "qkvz", "ba"},
           NEW g \in Int, NEW n \in Nat
    PROVE  Rows(key, g, n) \in Seq(RowNames) /\ Len(Rows(key, g, n)) = n
<1>1. \A i \in 1 .. n : <<key, g, i>> \in RowNames BY DEF RowNames
<1> QED BY <1>1 DEF Rows

\* The shapes a model gives its parameters: the heads make groups of one size,
\* with an output gate only in a tensor of its own, and there is something to cut.
WellShaped(p) ==
    /\ p.kind \in Kinds /\ p.n \in Seq(Nat) /\ p.n # <<>>
    /\ p.kind \in {"qkv", "concat"} => Grouped(p)
    /\ p.kind = "concat" => ~p.gate
    /\ p.kind = "kv" => p.n[2] \in Nat \ {0}
    /\ p.kind = "gdn" => p.n[1] \in Nat \ {0} /\ Ratio(p) \in Nat \ {0} /\ p.n[2] = p.n[1] * Ratio(p)

\* The parts have the sizes that are expected of them, and make hf again.
FitTogether(p, hf, parts, sizes) ==
    /\ sizes \in Seq(Nat) /\ sizes # <<>> /\ parts \in Seq(Seq(RowNames)) /\ Len(parts) = Len(sizes)
    /\ \A c \in 1 .. Len(sizes) : Len(parts[c]) = sizes[c]
    /\ Unparts(p, parts) = hf

LEMMA OnePart ==
    ASSUME NEW w \in Seq(RowNames), NEW l \in Nat, Len(w) = l, NEW p, NEW hf, Unparts(p, <<w>>) = hf
    PROVE  FitTogether(p, hf, <<w>>, <<l>>)
<1>1. <<w>> \in Seq(Seq(RowNames)) /\ Len(<<w>>) = 1 /\ <<w>>[1] = w OBVIOUS
<1>2. <<l>> \in Seq(Nat) /\ Len(<<l>>) = 1 /\ <<l>>[1] = l /\ <<l>> # <<>> OBVIOUS
<1> QED BY <1>1, <1>2 DEF FitTogether

LEMMA DirectFits ==
    ASSUME NEW p, WellShaped(p), p.kind \in {"column", "row"}, NEW g \in Int
    PROVE  FitTogether(p, HF(p, g), Parts(p, HF(p, g)), PartSizes(p))
<1> PICK l \in Nat : l = p.n[1] BY DEF WellShaped
<1> PICK w \in Seq(RowNames) : w = Rows("weight", g, l) /\ Len(w) = l BY RowsNamed
<1>1. HF(p, g) = [weight |-> w] BY DEF HF, Direct
<1>2. Parts(p, [weight |-> w]) = <<w>> BY DEF Parts, Fused
<1>3. PartSizes(p) = <<l>> BY DEF PartSizes
<1>4. Unparts(p, <<w>>) = [weight |-> FlattenSeq(<<w>>)] BY DEF Unparts
<1>5. Unparts(p, <<w>>) = [weight |-> w] BY <1>4, FlattenOne
<1>6. FitTogether(p, [weight |-> w], <<w>>, <<l>>) BY <1>5, OnePart
<1> QED BY <1>1, <1>2, <1>3, <1>6

LEMMA QKVFits ==
    ASSUME NEW p, WellShaped(p), p.kind = "qkv", NEW g \in Int
    PROVE  FitTogether(p, HF(p, g), Parts(p, HF(p, g)), PartSizes(p))
<1>0. Grouped(p) BY DEF WellShaped
<1> PICK n1 \in Nat \ {0} : n1 = p.n[1] BY <1>0 DEF Grouped
<1> PICK n2 \in Nat \ {0} : n2 = p.n[2] BY <1>0 DEF Grouped
<1> PICK k \in Seq(RowNames) : k = Rows("k", g, n2) /\ Len(k) = n2 BY RowsNamed
<1> PICK v \in Seq(RowNames) : v = Rows("v", g, n2) /\ Len(v) = n2 BY RowsNamed
<1> PICK q : q = IF p.gate
                 THEN [i \in 1 .. 2 * n1 |-> <<IF i % 2 = 1 THEN "q" ELSE "z", g, (i + 1) \div 2>>]
                 ELSE Rows("q", g, n1)
    OBVIOUS
<1>1. q \in Seq(RowNames) /\ Len(q) = (IF p.gate THEN 2 ELSE 1) * n1
  <2>1. CASE p.gate
    <3> PICK l \in Nat : l = 2 * n1 OBVIOUS
    <3>1. q = [i \in 1 .. l |-> <<IF i % 2 = 1 THEN "q" ELSE "z", g, (i + 1) \div 2>>] BY <2>1
    <3>2. \A i \in 1 .. l : <<IF i % 2 = 1 THEN "q" ELSE "z", g, (i + 1) \div 2>> \in RowNames
          BY DEF RowNames
    <3>3. q \in Seq(RowNames) /\ Len(q) = l BY ONLY <3>1, <3>2, l \in Nat
    <3> QED BY <2>1, <3>3
  <2>2. CASE ~p.gate
    <3>1. q = Rows("q", g, n1) BY <2>2
    <3>2. q \in Seq(RowNames) /\ Len(q) = n1 BY <3>1, RowsNamed
    <3> QED BY <2>2, <3>2
  <2> QED BY <2>1, <2>2
<1>2. HF(p, g) = [q |-> q, k |-> k, v |-> v] BY DEF HF, Direct
<1>3. QKV(RowNames, p, q, k, v) BY <1>1 DEF QKV
<1> PICK w : w = MergeQKV(p, q, k, v) OBVIOUS
<1>4. w \in Seq(RowNames) /\ Len(w) = Span(p) * n2 /\ Span(p) * n2 \in Nat BY <1>0, <1>3, MergedIs
<1>5. SplitQKV(p, w) = [q |-> q, k |-> k, v |-> v] 
  <2>1. SplitQKV(p, MergeQKV(p, q, k, v)) = [q |-> q, k |-> k, v |-> v] BY ONLY <1>0, <1>3, SplitMerged
  <2> QED BY <2>1
<1> PICK hf : hf = [q |-> q, k |-> k, v |-> v] OBVIOUS
<1>6. Parts(p, hf) = <<w>> BY DEF Parts, Fused
<1> PICK l \in Nat : l = Span(p) * n2 BY <1>4
<1>7. PartSizes(p) = <<l>> BY DEF PartSizes
<1>8. Unparts(p, <<w>>) = hf BY <1>5 DEF Unparts
<1>9. FitTogether(p, hf, <<w>>, <<l>>) BY <1>4, <1>8, OnePart
<1> QED BY <1>2, <1>6, <1>7, <1>9

LEMMA ConcatFits ==
    ASSUME NEW p, WellShaped(p), p.kind = "concat", NEW g \in Int
    PROVE  FitTogether(p, HF(p, g), Parts(p, HF(p, g)), PartSizes(p))
<1>0. Grouped(p) /\ ~p.gate BY DEF WellShaped
<1> PICK n1 \in Nat \ {0} : n1 = p.n[1] BY <1>0 DEF Grouped
<1> PICK n2 \in Nat \ {0} : n2 = p.n[2] BY <1>0 DEF Grouped
<1> PICK s \in Nat : s = n1 + 2 * n2 OBVIOUS
<1> PICK a \in Seq(RowNames) : a = Rows("weight", g, s) /\ Len(a) = s BY RowsNamed
<1>1. HF(p, g) = [weight |-> a] BY DEF HF, Direct
<1> PICK q : q = Queries(p, a) OBVIOUS
<1> PICK k : k = Keys(p, a) OBVIOUS
<1> PICK v : v = Values(p, a) OBVIOUS
<1>2. QKV(RowNames, p, q, k, v) /\ q \o k \o v = a 
  <2>1. Len(a) = p.n[1] + 2 * p.n[2] OBVIOUS
  <2>2. /\ QKV(RowNames, p, Queries(p, a), Keys(p, a), Values(p, a))
        /\ Queries(p, a) \o Keys(p, a) \o Values(p, a) = a
        BY ONLY <1>0, <2>1, a \in Seq(RowNames), ConcatenatedCut
  <2> QED BY <2>2
<1> PICK w : w = MergeQKV(p, q, k, v) OBVIOUS
<1>3. w \in Seq(RowNames) /\ Len(w) = Span(p) * n2 /\ Span(p) * n2 \in Nat
  <2>1. QKV(RowNames, p, q, k, v) BY <1>2
  <2>2. w \in Seq(RowNames) /\ Len(w) = Span(p) * p.n[2] /\ Span(p) * p.n[2] \in Nat
        BY ONLY <1>0, <2>1, w = MergeQKV(p, q, k, v), MergedIs
  <2> QED BY ONLY <2>2, n2 = p.n[2]
<1>4. SplitQKV(p, w) = [q |-> q, k |-> k, v |-> v]
  <2>1. SplitQKV(p, MergeQKV(p, q, k, v)) = [q |-> q, k |-> k, v |-> v] BY ONLY <1>0, <1>2, SplitMerged
  <2> QED BY <2>1
<1> PICK hf : hf = [weight |-> a] OBVIOUS
<1>5. Parts(p, hf) = <<w>> BY DEF Parts, Fused
<1> PICK l \in Nat : l = Span(p) * n2 BY <1>3
<1>6. PartSizes(p) = <<l>> BY DEF PartSizes
<1>7. Unparts(p, <<w>>) = [weight |-> Concatenated(SplitQKV(p, w))] BY DEF Unparts
<1>8. Concatenated(SplitQKV(p, w)) = a
  <2>1. SplitQKV(p, w).q = q /\ SplitQKV(p, w).k = k /\ SplitQKV(p, w).v = v BY <1>4
  <2> QED BY <1>2, <2>1 DEF Concatenated
<1>9. FitTogether(p, hf, <<w>>, <<l>>) BY <1>3, <1>7, <1>8, OnePart
<1> QED BY <1>1, <1>5, <1>6, <1>9

LEMMA KVFits ==
    ASSUME NEW p, WellShaped(p), p.kind = "kv", NEW g \in Int
    PROVE  FitTogether(p, HF(p, g), Parts(p, HF(p, g)), PartSizes(p))
<1> PICK n \in Nat \ {0} : n = p.n[2] BY DEF WellShaped
<1> PICK k \in Seq(RowNames) : k = Rows("k", g, n) /\ Len(k) = n BY RowsNamed
<1> PICK v \in Seq(RowNames) : v = Rows("v", g, n) /\ Len(v) = n BY RowsNamed
<1> PICK hf : hf = [k |-> k, v |-> v] OBVIOUS
<1>1. HF(p, g) = hf BY DEF HF, Direct
<1> PICK w : w = MergeKV(p, k, v) OBVIOUS
<1>2. w \in Seq(RowNames) /\ Len(w) = 2 * n /\ SplitKV(p, w) = hf
  <2>1. /\ MergeKV(p, k, v) \in Seq(RowNames) /\ Len(MergeKV(p, k, v)) = 2 * n
        /\ SplitKV(p, MergeKV(p, k, v)) = [k |-> k, v |-> v]
        BY ONLY n \in Nat \ {0}, p.n[2] = n, k \in Seq(RowNames), Len(k) = n, v \in Seq(RowNames), Len(v) = n,
                KVRoundTrip
  <2> QED BY <2>1
<1> PICK l \in Nat : l = 2 * n OBVIOUS
<1>3. Parts(p, hf) = <<w>> BY DEF Parts, Fused
<1>4. PartSizes(p) = <<l>> BY DEF PartSizes
<1>5. Unparts(p, <<w>>) = hf BY <1>2 DEF Unparts
<1>6. FitTogether(p, hf, <<w>>, <<l>>) BY <1>2, <1>5, OnePart
<1> QED BY <1>1, <1>3, <1>4, <1>6

LEMMA GatedFits ==
    ASSUME NEW p, WellShaped(p), p.kind = "gated", NEW g \in Int
    PROVE  FitTogether(p, HF(p, g), Parts(p, HF(p, g)), PartSizes(p))
<1> PICK n \in Nat : n = p.n[1] BY DEF WellShaped
<1> PICK a \in Seq(RowNames) : a = Rows("gate", g, n) /\ Len(a) = n BY RowsNamed
<1> PICK b \in Seq(RowNames) : b = Rows("up", g, n) /\ Len(b) = n BY RowsNamed
<1> PICK hf : hf = [gate |-> a, up |-> b] OBVIOUS
<1>1. HF(p, g) = hf BY DEF HF, Direct
<1>2. Parts(p, hf) = <<a, b>> BY DEF Parts
<1>3. PartSizes(p) = <<n, n>> BY DEF PartSizes
<1>4. Unparts(p, <<a, b>>) = hf BY DEF Unparts
<1>5. <<a, b>> \in Seq(Seq(RowNames)) /\ Len(<<a, b>>) = 2 /\ <<a, b>>[1] = a /\ <<a, b>>[2] = b OBVIOUS
<1>6. <<n, n>> \in Seq(Nat) /\ Len(<<n, n>>) = 2 /\ <<n, n>>[1] = n /\ <<n, n>>[2] = n /\ <<n, n>> # <<>> OBVIOUS
<1>7. FitTogether(p, hf, <<a, b>>, <<n, n>>) BY <1>4, <1>5, <1>6 DEF FitTogether
<1> QED BY <1>1, <1>2, <1>3, <1>7

LEMMA ChunkedFits ==
    ASSUME NEW p, WellShaped(p), p.kind = "chunked", NEW g \in Int
    PROVE  FitTogether(p, HF(p, g), Parts(p, HF(p, g)), PartSizes(p))
<1> PICK L \in Seq(Nat) : L = p.n /\ L # <<>> BY DEF WellShaped
<1>0. Total(L) \in Nat
  <2> DEFINE A == [k \in 0 .. Len(L) |-> Total(SubSeq(L, 1, k))]
  <2>1. \A k \in 0 .. Len(L) : A[k] = Total(SubSeq(L, 1, k)) OBVIOUS
  <2>2. Len(L) \in Nat OBVIOUS
  <2> HIDE DEF A
  <2> QED BY <2>1, <2>2, RunningTotals
<1> PICK l \in Nat : l = Total(L) BY <1>0
<1> PICK w \in Seq(RowNames) : w = Rows("weight", g, l) /\ Len(w) = l BY RowsNamed
<1> PICK hf : hf = [weight |-> w] OBVIOUS
<1>1. HF(p, g) = hf BY DEF HF, Direct
<1> PICK parts : parts = Components(p, w) OBVIOUS
<1>2. /\ parts \in Seq(Seq(RowNames)) /\ Len(parts) = Len(L) /\ FlattenSeq(parts) = w
      /\ \A c \in 1 .. Len(L) : parts[c] \in Seq(RowNames) /\ Len(parts[c]) = L[c]
  <2>1. CutInto(RowNames, w, L, Components(p, w))
        BY ONLY L \in Seq(Nat), p.n = L, L # <<>>, w \in Seq(RowNames), Len(w) = Total(L), ComponentsRoundTrip
  <2> QED BY <2>1 DEF CutInto
<1>3. Parts(p, hf) = parts BY DEF Parts, Fused
<1>4. PartSizes(p) = L BY DEF PartSizes
<1>5. Unparts(p, parts) = hf BY <1>2 DEF Unparts
<1>6. FitTogether(p, hf, parts, L) BY <1>2, <1>5 DEF FitTogether
<1> QED BY <1>1, <1>3, <1>4, <1>6

\* qkvz and ba of a gated delta net.
LEMMA GDNFits ==
    ASSUME NEW p, WellShaped(p), p.kind = "gdn", NEW g \in Int
    PROVE  FitTogether(p, HF(p, g), Parts(p, HF(p, g)), PartSizes(p))
<1> PICK h \in Nat \ {0} : h = p.n[1] BY DEF WellShaped
<1> PICK R \in Nat \ {0} : R = Ratio(p) BY DEF WellShaped
<1> PICK n2 \in Nat : n2 = p.n[2] /\ n2 = h * R
  <2>1. p.n[2] = h * R BY DEF WellShaped
  <2>2. h * R \in Nat OBVIOUS
  <2> QED BY <2>1, <2>2
<1> PICK b \in Nat : b = R + R OBVIOUS
<1> PICK e \in Nat : e = 2 + R OBVIOUS
<1> PICK w \in Nat : w = e + R OBVIOUS
<1>1. h * Stretch(p) = h * w /\ h * w \in Nat
  <2>1. Stretch(p) = 2 + 2 * R BY DEF Stretch
  <2>2. 2 + 2 * R = w OBVIOUS
  <2> QED BY <2>1, <2>2
<1>2. h * 2 * R = h * b /\ h * b \in Nat
  <2>1. h * 2 * R = h * R + h * R BY ONLY h \in Nat \ {0}, R \in Nat \ {0}
  <2>2. h * (R + R) = h * R + h * R BY ONLY h \in Nat \ {0}, R \in Nat \ {0}
  <2> QED BY <2>1, <2>2
<1> PICK l1 \in Nat : l1 = h * w BY <1>1
<1> PICK l2 \in Nat : l2 = h * b BY <1>2
<1>0. /\ Rows("qkvz", g, l1) \in Seq(RowNames) /\ Len(Rows("qkvz", g, l1)) = l1
      /\ Rows("ba", g, l2) \in Seq(RowNames) /\ Len(Rows("ba", g, l2)) = l2
      BY ONLY g \in Int, l1 \in Nat, l2 \in Nat, RowsNamed
<1> PICK s \in Seq(RowNames) : s = Rows("qkvz", g, l1) /\ Len(s) = l1 BY <1>0
<1> PICK a \in Seq(RowNames) : a = Rows("ba", g, l2) /\ Len(a) = l2 BY <1>0
<1> PICK hf : hf = [qkvz |-> s, ba |-> a] OBVIOUS
<1>3. HF(p, g) = hf
  <2>1. HF(p, g) = [qkvz |-> Rows("qkvz", g, h * Stretch(p)), ba |-> Rows("ba", g, h * 2 * R)] BY DEF HF, Direct
  <2> QED BY <1>1, <1>2, <2>1
<1> PICK c1 : c1 = Column(s, h, 1, 1) OBVIOUS
<1> PICK c2 : c2 = Column(s, h, 2, 1) OBVIOUS
<1> PICK c3 : c3 = Column(s, h, 3, R) OBVIOUS
<1> PICK c4 : c4 = Column(s, h, 3 + R, R) OBVIOUS
<1> PICK c5 : c5 = Column(a, h, 1, R) OBVIOUS
<1> PICK c6 : c6 = Column(a, h, 1 + R, R) OBVIOUS
<1> PICK parts : parts = <<c1, c2, c3, c4, c5, c6>> OBVIOUS
<1>4. Parts(p, hf) = parts BY DEF Parts, Fused
<1>5. PartSizes(p) = <<h, h, n2, n2, n2, n2>> BY DEF PartSizes
<1>6. /\ Beside(<<c1, c2, c3, c4>>, h) = s
      /\ c1 \in Seq(RowNames) /\ Len(c1) = h /\ c2 \in Seq(RowNames) /\ Len(c2) = h
      /\ c3 \in Seq(RowNames) /\ Len(c3) = n2 /\ c4 \in Seq(RowNames) /\ Len(c4) = n2
  <2> PICK m \in Nat \ {0} : m = 4 OBVIOUS
  <2> PICK B : B = [k \in 0 .. 4 |-> IF k = 0 THEN 0 ELSE IF k = 1 THEN 1 ELSE IF k = 2 THEN 2
                                     ELSE IF k = 3 THEN e ELSE w] OBVIOUS
  <2> PICK cnt : cnt = <<1, 1, R, R>> OBVIOUS
  <2> PICK q : q = <<c1, c2, c3, c4>> OBVIOUS
  <2>1. B[0] = 0 /\ B[1] = 1 /\ B[2] = 2 /\ B[3] = e /\ B[4] = w
        BY ONLY B = [k \in 0 .. 4 |-> IF k = 0 THEN 0 ELSE IF k = 1 THEN 1 ELSE IF k = 2 THEN 2
                                     ELSE IF k = 3 THEN e ELSE w]
  <2>2. cnt[1] = 1 /\ cnt[2] = 1 /\ cnt[3] = R /\ cnt[4] = R OBVIOUS
  <2>3. Len(q) = 4 /\ q[1] = c1 /\ q[2] = c2 /\ q[3] = c3 /\ q[4] = c4 OBVIOUS
  <2>4. \A k \in 1 .. m : k = 1 \/ k = 2 \/ k = 3 \/ k = 4 OBVIOUS
  <2>5. Partial(B, cnt, m)
    <3> SUFFICES ASSUME NEW k \in 1 .. m PROVE B[k] = B[k - 1] + cnt[k] BY <2>1 DEF Partial
    <3>1. 1 - 1 = 0 /\ 2 - 1 = 1 /\ 3 - 1 = 2 /\ 4 - 1 = 3 OBVIOUS
    <3>2. CASE k = 1 BY <2>1, <2>2, <3>1, <3>2
    <3>3. CASE k = 2 BY <2>1, <2>2, <3>1, <3>3
    <3>4. CASE k = 3
      <4>1. B[3 - 1] = 2 BY <2>1, <3>1
      <4> QED BY <2>1, <2>2, <3>4, <4>1
    <3>5. CASE k = 4
      <4>1. B[4 - 1] = e BY <2>1, <3>1
      <4> QED BY <2>1, <2>2, <3>5, <4>1
    <3> QED BY <2>4, <3>2, <3>3, <3>4, <3>5
  <2>6. ASSUME NEW k \in 1 .. m PROVE cnt[k] \in Nat \ {0} /\ q[k] = Column(s, h, B[k - 1] + 1, cnt[k])
    <3>1. 1 - 1 = 0 /\ 2 - 1 = 1 /\ 3 - 1 = 2 /\ 4 - 1 = 3 OBVIOUS
    <3>2. 0 + 1 = 1 /\ 1 + 1 = 2 /\ 2 + 1 = 3 /\ e + 1 = 3 + R OBVIOUS
    <3>3. B[1 - 1] + 1 = 1 /\ B[2 - 1] + 1 = 2 /\ B[3 - 1] + 1 = 3 /\ B[4 - 1] + 1 = 3 + R BY <2>1, <3>1, <3>2
    <3>4. CASE k = 1 BY <2>2, <2>3, <3>3, <3>4
    <3>5. CASE k = 2 BY <2>2, <2>3, <3>3, <3>5
    <3>6. CASE k = 3 BY <2>2, <2>3, <3>3, <3>6
    <3>7. CASE k = 4 BY <2>2, <2>3, <3>3, <3>7
    <3> QED BY <2>4, <3>4, <3>5, <3>6, <3>7
  <2>7. Columned(RowNames, h, m, q, cnt, B, s) BY <2>1, <2>3, <2>5, <2>6 DEF Columned
  <2>8. Beside(q, h) = s /\ \A k \in 1 .. m : q[k] \in Seq(RowNames) /\ Len(q[k]) = h * cnt[k]
        BY ONLY <2>7, ColumnsBeside
  <2>9. 1 \in 1 .. m /\ 2 \in 1 .. m /\ 3 \in 1 .. m /\ 4 \in 1 .. m OBVIOUS
  <2>10. h * 1 = h BY ONLY h \in Nat \ {0}
  <2>11. /\ q[1] \in Seq(RowNames) /\ Len(q[1]) = h * cnt[1] /\ q[2] \in Seq(RowNames) /\ Len(q[2]) = h * cnt[2]
         /\ q[3] \in Seq(RowNames) /\ Len(q[3]) = h * cnt[3] /\ q[4] \in Seq(RowNames) /\ Len(q[4]) = h * cnt[4]
         BY ONLY <2>8, <2>9
  <2>12. n2 = h * R OBVIOUS
  <2> QED BY ONLY <2>2, <2>3, <2>8, <2>10, <2>11, <2>12, q = <<c1, c2, c3, c4>>
<1>7. /\ Beside(<<c5, c6>>, h) = a
      /\ c5 \in Seq(RowNames) /\ Len(c5) = n2 /\ c6 \in Seq(RowNames) /\ Len(c6) = n2
  <2> PICK m \in Nat \ {0} : m = 2 OBVIOUS
  <2> PICK B : B = [k \in 0 .. 2 |-> IF k = 0 THEN 0 ELSE IF k = 1 THEN R ELSE b] OBVIOUS
  <2> PICK cnt : cnt = <<R, R>> OBVIOUS
  <2> PICK q : q = <<c5, c6>> OBVIOUS
  <2>1. B[0] = 0 /\ B[1] = R /\ B[2] = b BY ONLY B = [k \in 0 .. 2 |-> IF k = 0 THEN 0 ELSE IF k = 1 THEN R ELSE b]
  <2>2. cnt[1] = R /\ cnt[2] = R OBVIOUS
  <2>3. Len(q) = 2 /\ q[1] = c5 /\ q[2] = c6 OBVIOUS
  <2>4. \A k \in 1 .. m : k = 1 \/ k = 2 OBVIOUS
  <2>5. Partial(B, cnt, m)
    <3> SUFFICES ASSUME NEW k \in 1 .. m PROVE B[k] = B[k - 1] + cnt[k] BY <2>1 DEF Partial
    <3>1. 1 - 1 = 0 /\ 2 - 1 = 1 OBVIOUS
    <3>2. CASE k = 1 BY <2>1, <2>2, <3>1, <3>2
    <3>3. CASE k = 2 BY <2>1, <2>2, <3>1, <3>3
    <3> QED BY <2>4, <3>2, <3>3
  <2>6. ASSUME NEW k \in 1 .. m PROVE cnt[k] \in Nat \ {0} /\ q[k] = Column(a, h, B[k - 1] + 1, cnt[k])
    <3>1. 1 - 1 = 0 /\ 2 - 1 = 1 OBVIOUS
    <3>2. 0 + 1 = 1 /\ R + 1 = 1 + R OBVIOUS
    <3>3. B[1 - 1] + 1 = 1 /\ B[2 - 1] + 1 = 1 + R BY <2>1, <3>1, <3>2
    <3>4. CASE k = 1 BY <2>2, <2>3, <3>3, <3>4
    <3>5. CASE k = 2 BY <2>2, <2>3, <3>3, <3>5
    <3> QED BY <2>4, <3>4, <3>5
  <2>7. Columned(RowNames, h, m, q, cnt, B, a) BY <2>1, <2>3, <2>5, <2>6 DEF Columned
  <2>8. Beside(q, h) = a /\ \A k \in 1 .. m : q[k] \in Seq(RowNames) /\ Len(q[k]) = h * cnt[k]
        BY ONLY <2>7, ColumnsBeside
  <2>9. 1 \in 1 .. m /\ 2 \in 1 .. m OBVIOUS
  <2> QED BY <2>2, <2>3, <2>8, <2>9
<1> PICK T : T = Seq(RowNames) OBVIOUS
<1>8. c1 \in T /\ c2 \in T /\ c3 \in T /\ c4 \in T /\ c5 \in T /\ c6 \in T BY <1>6, <1>7
<1>9. SubSeq(parts, 1, 4) = <<c1, c2, c3, c4>> /\ SubSeq(parts, 5, 6) = <<c5, c6>>
  <2>0. /\ parts \in Seq(T) /\ Len(parts) = 6 /\ parts[1] = c1 /\ parts[2] = c2 /\ parts[3] = c3
        /\ parts[4] = c4 /\ parts[5] = c5 /\ parts[6] = c6
        BY ONLY <1>8, parts = <<c1, c2, c3, c4, c5, c6>>
  <2> PICK u : u = SubSeq(parts, 1, 4) OBVIOUS
  <2> PICK v : v = SubSeq(parts, 5, 6) OBVIOUS
  <2>1. u \in Seq(T) /\ Len(u) = 4 /\ \A x \in 1 .. 4 : u[x] = parts[x]
    <3> PICK y \in Nat : y = 0 OBVIOUS
    <3> PICK z \in Nat : z = 4 OBVIOUS
    <3>0. y + z <= Len(parts) /\ parts \in Seq(T) BY <2>0
    <3>1. /\ SubSeq(parts, y + 1, y + z) \in Seq(T) /\ Len(SubSeq(parts, y + 1, y + z)) = z
          /\ \A x \in 1 .. z : SubSeq(parts, y + 1, y + z)[x] = parts[y + x]
          BY ONLY <3>0, y \in Nat, z \in Nat, CutFacts
    <3>2. 0 + 1 = 1 /\ 0 + 4 = 4 /\ \A x \in 1 .. 4 : 0 + x = x OBVIOUS
    <3> QED BY ONLY <3>1, <3>2, u = SubSeq(parts, 1, 4), y = 0, z = 4
  <2>2. v \in Seq(T) /\ Len(v) = 2 /\ \A x \in 1 .. 2 : v[x] = parts[4 + x]
    <3> PICK y \in Nat : y = 4 OBVIOUS
    <3> PICK z \in Nat : z = 2 OBVIOUS
    <3>0. y + z <= Len(parts) /\ parts \in Seq(T) BY <2>0
    <3>1. /\ SubSeq(parts, y + 1, y + z) \in Seq(T) /\ Len(SubSeq(parts, y + 1, y + z)) = z
          /\ \A x \in 1 .. z : SubSeq(parts, y + 1, y + z)[x] = parts[y + x]
          BY ONLY <3>0, y \in Nat, z \in Nat, CutFacts
    <3>2. 4 + 1 = 5 /\ 4 + 2 = 6 OBVIOUS
    <3> QED BY ONLY <3>1, <3>2, v = SubSeq(parts, 5, 6), y = 4, z = 2
  <2>3. u[1] = c1 /\ u[2] = c2 /\ u[3] = c3 /\ u[4] = c4 BY ONLY <2>0, <2>1
  <2>4. v[1] = c5 /\ v[2] = c6
    <3>1. 1 \in 1 .. 2 /\ 2 \in 1 .. 2 /\ 4 + 1 = 5 /\ 4 + 2 = 6 OBVIOUS
    <3>2. v[1] = parts[4 + 1] /\ v[2] = parts[4 + 2] BY ONLY <2>2, <3>1
    <3> QED BY ONLY <2>0, <3>1, <3>2
  <2>5. u = <<u[1], u[2], u[3], u[4]>> BY ONLY <2>1
  <2>6. v = <<v[1], v[2]>> BY ONLY <2>2
  <2> QED BY ONLY <2>3, <2>4, <2>5, <2>6, u = SubSeq(parts, 1, 4), v = SubSeq(parts, 5, 6)
<1>10. Unparts(p, parts) = hf
  <2>1. Unparts(p, parts) = [qkvz |-> Beside(SubSeq(parts, 1, 4), h), ba |-> Beside(SubSeq(parts, 5, 6), h)]
        BY DEF Unparts
  <2>2. /\ Beside(SubSeq(parts, 1, 4), h) = s
        /\ Beside(SubSeq(parts, 5, 6), h) = a
        BY ONLY <1>6, <1>7, <1>9
  <2> QED BY <2>1, <2>2
<1>11. parts \in Seq(T) /\ Len(parts) = 6 BY ONLY <1>8, parts = <<c1, c2, c3, c4, c5, c6>>
<1> PICK sizes : sizes = <<h, h, n2, n2, n2, n2>> OBVIOUS
<1>12. sizes \in Seq(Nat) /\ Len(sizes) = 6 /\ sizes # <<>>
      BY ONLY sizes = <<h, h, n2, n2, n2, n2>>, h \in Nat \ {0}, n2 \in Nat
<1>13. \A c \in 1 .. 6 : Len(parts[c]) = sizes[c]
  <2>1. \A c \in 1 .. 6 : c = 1 \/ c = 2 \/ c = 3 \/ c = 4 \/ c = 5 \/ c = 6 OBVIOUS
  <2>2. parts[1] = c1 /\ parts[2] = c2 /\ parts[3] = c3 /\ parts[4] = c4 /\ parts[5] = c5 /\ parts[6] = c6
        BY ONLY parts = <<c1, c2, c3, c4, c5, c6>>
  <2>3. sizes[1] = h /\ sizes[2] = h /\ sizes[3] = n2 /\ sizes[4] = n2 /\ sizes[5] = n2 /\ sizes[6] = n2
        BY ONLY sizes = <<h, h, n2, n2, n2, n2>>
  <2>4. /\ Len(parts[1]) = sizes[1] /\ Len(parts[2]) = sizes[2] /\ Len(parts[3]) = sizes[3]
        /\ Len(parts[4]) = sizes[4] /\ Len(parts[5]) = sizes[5] /\ Len(parts[6]) = sizes[6]
        BY ONLY <1>6, <1>7, <2>2, <2>3
  <2> QED BY ONLY <2>1, <2>4
<1>14. FitTogether(p, hf, parts, sizes) BY <1>10, <1>11, <1>12, <1>13 DEF FitTogether
<1> QED BY <1>3, <1>4, <1>5, <1>14

LEMMA PartsFit ==
    ASSUME NEW p, WellShaped(p), ~Whole(p), NEW g \in Int
    PROVE  FitTogether(p, HF(p, g), Parts(p, HF(p, g)), PartSizes(p))
<1>1. p.kind \in {"column", "row", "qkv", "concat", "kv", "gated", "chunked", "gdn"}
      BY DEF WellShaped, Whole, Kinds, Direct
<1> QED BY <1>1, DirectFits, QKVFits, ConcatFits, KVFits, GatedFits, ChunkedFits, GDNFits

\* Every tensor parallel rank gets as much of every part.
SplitsEvenly(p, size) == Whole(p) \/ \A c \in DOMAIN PartSizes(p) : PartSizes(p)[c] % size = 0

\* The shards of a parameter, rank by rank.
Shards(p, hf, size) == [i \in 1 .. (IF Whole(p) THEN 1 ELSE size) |-> Shard(p, hf, size, i - 1)]

Locals(p, size) == [c \in DOMAIN PartSizes(p) |-> PartSizes(p)[c] \div size]

Regroup(L, shards) ==
    [c \in DOMAIN L |-> FlattenSeq(CutOut(shards, Len(shards), SumBefore(L, c), L[c]))]

LEMMA JoinedIs ==
    ASSUME NEW p, ~Whole(p), NEW shards
    PROVE  Joined(p, shards) = Unparts(p, Regroup(Locals(p, Len(shards)), shards))
BY DEF Joined, Regroup, Locals, SumBefore, CutOut

(***************************************************************************)
(* What megatron_to_hf joins of the shards hf_to_megatron cut is what was  *)
(* cut: for every mapping class, every shape and every number of ranks the *)
(* tensors divide by.                                                      *)
(***************************************************************************)
THEOREM LayoutsRoundTrip ==
    ASSUME NEW p, WellShaped(p), NEW g \in Int, NEW size \in Nat \ {0}, SplitsEvenly(p, size)
    PROVE  Joined(p, Shards(p, HF(p, g), size)) = HF(p, g)
<1> PICK hf : hf = HF(p, g) OBVIOUS
<1>1. CASE Whole(p)
  <2> PICK l \in Nat : l = p.n[1] BY DEF WellShaped
  <2>1. hf = [weight |-> Rows("weight", g, l)] BY <1>1 DEF HF, Direct, Whole
  <2>2. Shards(p, hf, size)[1] = hf.weight
    <3>1. 1 \in 1 .. 1 OBVIOUS
    <3> QED BY <1>1, <3>1 DEF Shards, Shard
  <2>3. Joined(p, Shards(p, hf, size)) = [weight |-> hf.weight] BY <1>1, <2>2 DEF Joined
  <2> QED BY <2>1, <2>3
<1>2. CASE ~Whole(p)
  <2> PICK parts : parts = Parts(p, hf) OBVIOUS
  <2> PICK sizes : sizes = PartSizes(p) OBVIOUS
  <2>1. /\ sizes \in Seq(Nat) /\ sizes # <<>> /\ parts \in Seq(Seq(RowNames)) /\ Len(parts) = Len(sizes)
        /\ \A c \in 1 .. Len(sizes) : Len(parts[c]) = sizes[c]
        /\ Unparts(p, parts) = hf
        BY <1>2, PartsFit DEF FitTogether
  <2> PICK n \in Nat \ {0} : n = Len(sizes) BY ONLY <2>1
  <2>2. DOMAIN sizes = 1 .. n /\ DOMAIN parts = 1 .. n /\ parts = [c \in 1 .. n |-> parts[c]]
        /\ \A c \in 1 .. n : sizes[c] \in Nat /\ parts[c] \in Seq(RowNames) /\ Len(parts[c]) = sizes[c]
    <3> PICK T : T = Seq(RowNames) OBVIOUS
    <3>1. parts \in Seq(T) /\ Len(parts) = n BY <2>1
    <3>2. DOMAIN parts = 1 .. n /\ parts = [c \in 1 .. n |-> parts[c]] /\ \A c \in 1 .. n : parts[c] \in T
          BY ONLY <3>1
    <3>3. DOMAIN sizes = 1 .. n /\ \A c \in 1 .. n : sizes[c] \in Nat BY ONLY <2>1, n = Len(sizes)
    <3> QED BY <2>1, <3>2, <3>3
  <2> PICK L : L = [c \in 1 .. n |-> sizes[c] \div size] OBVIOUS
  <2>3. \A c \in 1 .. n : L[c] = sizes[c] \div size /\ L[c] \in Nat
    <3> SUFFICES ASSUME NEW c \in 1 .. n PROVE L[c] = sizes[c] \div size /\ L[c] \in Nat OBVIOUS
    <3> PICK z \in Nat : z = sizes[c] BY <2>2
    <3>1. z \div size \in Nat BY DivMod
    <3> QED BY <3>1
  <2>4. L \in Seq(Nat) /\ Len(L) = n
    <3>1. L = [c \in 1 .. n |-> L[c]] OBVIOUS
    <3>2. n \in Nat OBVIOUS
    <3> QED BY ONLY <2>3, <3>1, <3>2, IsSequence
  <2>5. Divided(RowNames, n, parts, L, size)
    <3>1. \A c \in 1 .. n : sizes[c] % size = 0 BY <1>2, <2>2 DEF SplitsEvenly
    <3> QED BY <2>2, <2>3, <2>4, <3>1 DEF Divided
  <2> PICK shards : shards = ShardsOf(n, parts, size) OBVIOUS
  <2>6. Shards(p, hf, size) = shards
    <3>1. \A i : Shard(p, hf, size, i) = ChunkOfEach(n, parts, size, i) BY <1>2, <2>2 DEF Shard, ChunkOfEach
    <3> QED BY <1>2, <3>1 DEF Shards, ShardsOf
  <2>7. Len(shards) = size
    <3>1. shards = [i \in 1 .. size |-> shards[i]] BY DEF ShardsOf
    <3> QED BY ONLY <3>1, size \in Nat \ {0}
  <2> PICK again : again = Regroup(L, shards) OBVIOUS
  <2>8. again = parts
    <3>0. DOMAIN L = 1 .. n OBVIOUS
    <3>1. ASSUME NEW c \in 1 .. n PROVE again[c] = parts[c]
      <4>1. FlattenSeq(CutOut(shards, size, SumBefore(L, c), L[c])) = parts[c]
            BY ONLY <2>5, shards = ShardsOf(n, parts, size), c \in 1 .. n, Regrouped
      <4>2. again[c] = FlattenSeq(CutOut(shards, Len(shards), SumBefore(L, c), L[c])) BY <3>0 DEF Regroup
      <4> QED BY <2>7, <4>1, <4>2
    <3>2. again = [c \in 1 .. n |-> again[c]] BY <3>0 DEF Regroup
    <3> QED BY ONLY <2>2, <3>1, <3>2
  <2>9. Joined(p, shards) = Unparts(p, again)
    <3>1. L = Locals(p, Len(shards)) BY <2>2, <2>7 DEF Locals
    <3> QED BY <1>2, <3>1, JoinedIs
  <2> QED BY <2>1, <2>6, <2>8, <2>9
<1> QED BY <1>1, <1>2

=============================================================================
