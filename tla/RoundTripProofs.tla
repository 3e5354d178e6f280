-------------------------- MODULE RoundTripProofs ---------------------------
(***************************************************************************)
(* What an export gives back of what an import put in.  The ranks, kept in *)
(* step, carry the right shards through the collectives of both            *)
(* directions, so what each of them has exported at the end is the         *)
(* checkpoint, and what they hold once they have imported is all of it.    *)
(***************************************************************************)
EXTENDS WeightConversionProofs

-----------------------------------------------------------------------------
(* What the ranks carry: their shards, what they gather and what they have *)
(* exported so far.                                                        *)

\* The first call of the bridge fills the model.
ImportsFirst == \A j \in Jobs : j.plan[1].dir = "import"

\* The parameters of a model that can be built: experts have the mappings
\* GroupedMLP uses, embeddings and output layer one that is not fused.
BuiltParam(p) ==
    /\ WellShaped(p)
    /\ p.expert # "no" => p.kind \in Direct \cup {"gated"}
    /\ p.role # "other" => p.kind \in Direct /\ p.expert = "no"

\* Tied, there is one embedding, and the checkpoint has both it and the output
\* layer or neither.
TiedIn(j) ==
    j.tied => \E e \in DOMAIN j.params :
        /\ \A k \in DOMAIN j.params : j.params[k].role = "embed" <=> k = e
        /\ \A k \in DOMAIN j.params : j.params[k].role = "output" => (k \in j.missing <=> e \in j.missing)

ModelsAsBuilt == \A j \in Jobs : TiedIn(j) /\ \A i \in DOMAIN j.params : BuiltParam(j.params[i])

\* What is known of a conversion of such a model.
ModelFacts == job.plan[1].dir = "import" /\ TiedIn(job) /\ \A i \in DOMAIN job.params : BuiltParam(job.params[i])

Full(n)     == HF(Par(n), n.g)
Slice(r, n) == Shard(Par(n), Full(n), Tp(n), TpRank(r, n))

\* A rank has its shard of what it has imported, M, and only that.
HoldsAt(r, p, a, t, M) ==
    /\ \A n \in DOMAIN M : n \in Names(r) /\ ~Uneven(n) /\ M[n] = Slice(r, n)
    /\ \A x \in 1 .. Size : Owns(r, TaskList(r)[x]) =>
          /\ Gone(p, a, x, "import") => TaskList(r)[x] \in DOMAIN M
          /\ job.plan[p].dir = "import" /\ x = a /\ Tp(TaskList(r)[x]) > 1 =>
                TaskList(r)[x] \in DOMAIN M \/ t # <<>>

\* The shards it has gathered, w, are all there are once the calls for it are made.
RowsCall(n) == Call(TpGroup(n), "rows", "")
Gathered(n, t) == TensorCall \notin Range(t) /\ RowsCall(n) \notin Range(t)
GathersAt(r, p, a, t, w) ==
    job.plan[p].dir = "export" /\ a \in 1 .. Size /\ TaskList(r)[a].i \notin job.missing =>
        LET n == TaskList(r)[a]
        IN /\ w # <<>> => ~Uneven(n)
           /\ IF Gathered(n, t) THEN w = Shards(Par(n), Full(n), Tp(n)) ELSE w \in {<<>>, <<Slice(r, n)>>}

\* Tensor key of task n is in the exported ones o, under all of its names.
Written(n, key, o) ==
    IF Par(n).expert = "no" THEN \A i \in Aliases(n.i) : <<key, i, None>> \in DOMAIN o
    ELSE \A e \in 0 .. job.ep - 1 : <<key, n.i, (n.g % PerRank) + PerRank * e>> \in DOMAIN o

ToWrite(n) == n.i \notin job.missing /\ Par(n).expert # "sequential"
Correct(o) == o = [x \in DOMAIN o |-> o[x]] /\ \A x \in DOMAIN o : x \in DOMAIN Expected /\ o[x] = Expected[x]
ExportsAt(r, p, a, t, o) ==
    job.plan[p].dir = "export" =>
        /\ Correct(o)
        /\ \A x \in 1 .. Size : ToWrite(TaskList(r)[x]) => \A key \in DOMAIN Full(TaskList(r)[x]) :
              /\ x < a => Written(TaskList(r)[x], key, o)
              /\ x = a /\ Par(TaskList(r)[x]).expert # "no" =>
                    Written(TaskList(r)[x], key, o) \/ Call("ep", "expert", key) \in Range(t)

Carried ==
    \A r \in Ranks :
        /\ HoldsAt(r, phase[r], at[r], todo[r], mine[r])
        /\ GathersAt(r, phase[r], at[r], todo[r], work[r])
        /\ ExportsAt(r, phase[r], at[r], todo[r], out[r])
        /\ status[r] = "raised" => at[r] \in 1 .. Size

-----------------------------------------------------------------------------
(* The groups a parameter is spread over.                                  *)

LEMMA ModelsAreSuch == ASSUME ImportsFirst, ModelsAsBuilt, job \in Jobs PROVE ModelFacts
BY DEF ImportsFirst, ModelsAsBuilt, ModelFacts

\* The number at place x of the block of P numbers that l, below z, is in.
InBlock(P, z, l, x, q) ==
    q = l \div P /\ q * P + x \in 0 .. z - 1 /\ (q * P + x) \div P = q /\ (q * P + x) % P = x

LEMMA SameBlock ==
    ASSUME NEW P \in Nat \ {0}, NEW z \in Nat \ {0}, z % P = 0, NEW l \in 0 .. z - 1, NEW x \in 0 .. P - 1
    PROVE  \E q \in Nat : InBlock(P, z, l, x, q)
<1> PICK q \in Nat : q = l \div P BY DivMod
<1> PICK y \in 0 .. P - 1 : y = l % P BY DivMod
<1> PICK c \in Nat : c = z \div P BY DivMod
<1>1. l = q * P + y /\ z = c * P
  <2>1. z = (z \div P) * P + (z % P) BY DivMod
  <2>2. l = (l \div P) * P + (l % P) BY DivMod
  <2> QED BY <2>1, <2>2
<1>2. q < c
  <2> SUFFICES ASSUME c <= q PROVE FALSE OBVIOUS
  <2>1. PICK d \in Nat : q = c + d
    <3>1. q - c \in Nat /\ q = c + (q - c) OBVIOUS
    <3> QED BY <3>1
  <2>2. (c + d) * P = c * P + d * P /\ c * P \in Nat /\ d * P \in Nat OBVIOUS
  <2> QED BY <1>1, <2>1, <2>2
<1>3. PICK d \in Nat : c = (q + 1) + d
  <2>1. c - (q + 1) \in Nat /\ c = (q + 1) + (c - (q + 1)) BY <1>2
  <2> QED BY <2>1
<1>4. ((q + 1) + d) * P = q * P + P + d * P /\ q * P \in Nat /\ d * P \in Nat OBVIOUS
<1>5. q * P + x \in 0 .. z - 1 BY <1>1, <1>3, <1>4
<1>6. (q * P + x) \div P = q /\ (q * P + x) % P = x BY DivUnique
<1> QED BY <1>5, <1>6 DEF InBlock

LEMMA EtpDivides == ASSUME JobFacts PROVE job.stageSize % job.etp = 0
<1> PICK z \in Nat \ {0} : z = job.stageSize BY DEF JobFacts
<1> PICK a \in Nat \ {0} : a = job.ep BY DEF JobFacts
<1> PICK b \in Nat \ {0} : b = job.etp BY DEF JobFacts
<1>1. z % (a * b) = 0 BY DEF JobFacts
<1> PICK P \in Nat \ {0} : P = a * b OBVIOUS
<1> PICK c \in Nat : c = z \div P BY DivMod
<1>2. z = c * P
  <2>1. z = (z \div P) * P + (z % P) BY ONLY z \in Nat \ {0}, P \in Nat \ {0}, DivMod
  <2> QED BY <1>1, <2>1
<1> PICK d \in Nat : d = c * a OBVIOUS
<1>3. z = d * b + 0
  <2>1. c * (a * b) = (c * a) * b /\ d * b \in Nat OBVIOUS
  <2> QED BY <1>2, <2>1
<1>4. 0 \in 0 .. b - 1 OBVIOUS
<1>5. (d * b + 0) % b = 0 BY <1>4, DivUnique
<1> QED BY <1>3, <1>5

LEMMA TpDivides == ASSUME JobFacts, NEW n PROVE job.stageSize % Tp(n) = 0 /\ Tp(n) \in Nat \ {0}
BY EtpDivides, TpIsPositive DEF Tp, JobFacts

\* The ranks a parameter's shards are on, with the tensor parallel rank of each.
LEMMA Peers ==
    ASSUME JobFacts, NEW r \in Ranks, NEW n, NEW i \in 0 .. Tp(n) - 1
    PROVE  \E m \in Members(r, TpGroup(n)) : TpRank(m, n) = i
<1> PICK z \in Nat \ {0} : z = job.stageSize BY DEF JobFacts
<1> PICK P \in Nat \ {0} : P = Tp(n) BY TpIsPositive
<1> PICK l \in 0 .. z - 1 : l = Slot(r) BY RankParts
<1> PICK s \in 0 .. job.pp - 1 : s = Stage(r) BY RankParts
<1>1. z % P = 0 /\ i \in 0 .. P - 1 BY TpDivides
<1> PICK q \in Nat : InBlock(P, z, l, i, q) BY <1>1, SameBlock
<1>2. q = l \div P /\ q * P + i \in 0 .. z - 1 /\ (q * P + i) \div P = q /\ (q * P + i) % P = i
      BY DEF InBlock
<1> PICK k : k = q * P + i OBVIOUS
<1>3. PICK m \in Ranks : Stage(m) = s /\ Slot(m) = k BY <1>2, RankAt
<1>4. Slot(m) \div Tp(n) = Slot(r) \div Tp(n) /\ TpRank(m, n) = i BY <1>2, <1>3 DEF TpRank
<1>5. Stage(m) = Stage(r) BY <1>3
<1>6. m \in Members(r, TpGroup(n)) BY <1>3, <1>4, <1>5 DEF Members, TpGroup, Tp
<1> QED BY <1>4, <1>6

\* Every expert parallel rank is in the group.
LEMMA ExpertPeers ==
    ASSUME JobFacts, NEW r \in Ranks, NEW e \in 0 .. job.ep - 1
    PROVE  \E m \in Members(r, "ep") : Ep(m) = e
<1> PICK z \in Nat \ {0} : z = job.stageSize BY DEF JobFacts
<1> PICK a \in Nat \ {0} : a = job.ep BY DEF JobFacts
<1> PICK b \in Nat \ {0} : b = job.etp BY DEF JobFacts
<1> PICK l \in 0 .. z - 1 : l = Slot(r) BY RankParts
<1> PICK s \in 0 .. job.pp - 1 : s = Stage(r) BY RankParts
<1> PICK P \in Nat \ {0} : P = b * a OBVIOUS
<1>1. z % P = 0
  <2>1. a * b = b * a OBVIOUS
  <2>2. z % (a * b) = 0 BY DEF JobFacts
  <2> QED BY <2>1, <2>2
<1> PICK o \in 0 .. b - 1 : o = l % b
  <2>1. l \in Nat OBVIOUS
  <2> QED BY ONLY <2>1, b \in Nat \ {0}, DivMod
<1> PICK x : x = e * b + o OBVIOUS
<1>2. x \in 0 .. P - 1
  <2>1. PICK d \in Nat : a = (e + 1) + d
    <3>1. a - (e + 1) \in Nat /\ a = (e + 1) + (a - (e + 1)) BY ONLY e \in 0 .. job.ep - 1, a = job.ep, a \in Nat \ {0}
    <3> QED BY <3>1
  <2>2. e \in Nat OBVIOUS
  <2>3. b * ((e + 1) + d) = e * b + b + d * b /\ e * b \in Nat /\ d * b \in Nat BY <2>2
  <2>4. P = e * b + b + d * b BY ONLY <2>1, <2>3, P = b * a
  <2> QED BY ONLY <2>3, <2>4, o \in 0 .. b - 1, x = e * b + o, b \in Nat \ {0}
<1> PICK q \in Nat : InBlock(P, z, l, x, q) BY <1>1, <1>2, SameBlock
<1>3. q = l \div P /\ q * P + x \in 0 .. z - 1 /\ (q * P + x) \div P = q /\ (q * P + x) % P = x
      BY DEF InBlock
<1> PICK k : k = q * P + x OBVIOUS
<1>4. PICK m \in Ranks : Stage(m) = s /\ Slot(m) = k BY <1>3, RankAt
<1> PICK f \in Nat : f = q * a + e OBVIOUS
<1>5. k = f * b + o
  <2>1. e \in Nat OBVIOUS
  <2>2. q * (b * a) = (q * a) * b /\ (q * a + e) * b = (q * a) * b + e * b /\ e * b \in Nat /\ (q * a) * b \in Nat
        BY ONLY <2>1, q \in Nat, a \in Nat \ {0}, b \in Nat \ {0}
  <2> QED BY ONLY <2>2, k = q * P + x, P = b * a, x = e * b + o, f = q * a + e, o \in 0 .. b - 1
<1>6. k \div b = f /\ k % b = o
  <2>1. (f * b + o) \div b = f /\ (f * b + o) % b = o
        BY ONLY f \in Nat, b \in Nat \ {0}, o \in 0 .. b - 1, DivUnique
  <2> QED BY <1>5, <2>1
<1>7. f % a = e
  <2>1. e \in 0 .. a - 1 OBVIOUS
  <2> QED BY ONLY <2>1, f = q * a + e, q \in Nat, a \in Nat \ {0}, DivUnique
<1>8. Ep(m) = e BY <1>4, <1>6, <1>7 DEF Ep
<1>9. /\ Slot(m) % job.etp = Slot(r) % job.etp
      /\ Slot(m) \div (job.etp * job.ep) = Slot(r) \div (job.etp * job.ep)
      BY <1>3, <1>4, <1>6
<1>10. m \in Members(r, "ep") BY <1>4, <1>9 DEF Members
<1> QED BY <1>8, <1>10

\* The ranks a tensor is gathered over, or sent to, have it under one name.
LEMMA MatesTask ==
    ASSUME JobFacts, NEW r \in Ranks, NEW k \in 1 .. Size, NEW m \in Members(r, TpGroup(TaskList(r)[k]))
    PROVE  m \in Ranks /\ TaskList(m)[k] = TaskList(r)[k]
<1> PICK n : n = TaskList(r)[k] OBVIOUS
<1>1. n \in Names(r) BY SameTasks
<1>2. TpGroup(n) \in {"tp", "etp"} BY DEF TpGroup
<1>3. m \in Ranks BY <1>2 DEF Members
<1>4. CASE TpGroup(n) = "etp"
  <2>1. Ep(m) = Ep(r) BY <1>4, OneGroup
  <2> QED BY <1>3, <2>1, SameTasks
<1>5. CASE TpGroup(n) = "tp"
  <2>1. Par(n).expert = "no" BY <1>5 DEF TpGroup
  <2>2. TaskList(m)[k] = Shifted(r, m, n) BY <1>3, SameTasks
  <2>3. Shifted(r, m, n) = [i |-> n.i, g |-> n.g] BY <2>1 DEF Shifted
  <2>4. n = [i |-> n.i, g |-> n.g] BY <1>1, NamesAre
  <2> QED BY <1>3, <2>2, <2>3, <2>4
<1> QED BY <1>2, <1>4, <1>5

\* Ranks of one pipeline group have the same names, and the same shards.
LEMMA StagesTask ==
    ASSUME JobFacts, NEW r \in Ranks, NEW m \in Members(r, "pp")
    PROVE  m \in Ranks /\ TaskList(m) = TaskList(r) /\ \A n : Slice(m, n) = Slice(r, n)
<1>1. m \in Ranks /\ Slot(m) = Slot(r) BY DEF Members
<1>2. Ep(m) = Ep(r) BY <1>1 DEF Ep
<1>3. TaskList(m) = TaskList(r) BY <1>1, <1>2, SameTasks
<1> QED BY <1>1, <1>3 DEF Slice, TpRank

\* An expert's number, by its rank and its place there.
LEMMA ExpertNumber ==
    ASSUME JobFacts, NEW r \in Ranks, NEW m \in Ranks, NEW n \in Names(r), Par(n).expert = "grouped"
    PROVE  /\ PerRank \in Nat \ {0} /\ n.g % PerRank \in 0 .. PerRank - 1
           /\ Shifted(r, m, n) = [i |-> n.i, g |-> (n.g % PerRank) + PerRank * Ep(m)]
           /\ ((n.g % PerRank) + PerRank * Ep(m)) \div PerRank = Ep(m)
           /\ (n.g % PerRank) + PerRank * Ep(m) \in 0 .. job.experts - 1
<1> PICK e \in Nat : e = PerRank BY DEF JobFacts
<1> PICK x \in Nat : x = Ep(r) BY RankParts
<1> PICK y \in Nat : y = Ep(m) BY RankParts
<1> PICK b \in Nat \ {0} : b = job.ep BY DEF JobFacts
<1>1. n.i \in DOMAIN job.params /\ n.g \in Numbers(Par(n), r) BY NamesAre
<1>2. e > 0 BY <1>1 DEF JobFacts, Par
<1>3. PICK l \in 0 .. e - 1 : n.g = x * e + l BY <1>1 DEF Numbers
<1>4. (x * e + l) % e = l BY <1>2, DivUnique
<1>5. n.g % PerRank = l BY <1>3, <1>4
<1>6. e * y = y * e /\ y * e + l = l + e * y
  <2>1. e * y = y * e /\ y * e \in Nat OBVIOUS
  <2> QED BY <2>1
<1>7. (l + e * y) \div e = y
  <2>1. (y * e + l) \div e = y BY <1>2, DivUnique
  <2> QED BY <1>6, <2>1
<1>8. n.g + (y - x) * e = l + e * y
  <2>1. (y - x) * e = y * e - x * e /\ x * e \in Nat /\ y * e \in Nat OBVIOUS
  <2> QED BY <1>3, <1>6, <2>1
<1>9. Shifted(r, m, n) = [i |-> n.i, g |-> l + e * y] BY <1>8 DEF Shifted
<1>10. l + e * y \in 0 .. job.experts - 1
  <2>1. y < b BY RankParts
  <2>2. PICK d \in Nat : b = (y + 1) + d
    <3>1. b - (y + 1) \in Nat /\ b = (y + 1) + (b - (y + 1)) BY <2>1
    <3> QED BY <3>1
  <2>3. e * ((y + 1) + d) = e * y + e + e * d /\ e * y \in Nat /\ e * d \in Nat OBVIOUS
  <2>4. job.experts = e * b BY DEF JobFacts
  <2>5. job.experts = e * y + e + e * d BY ONLY <2>2, <2>3, <2>4
  <2> QED BY ONLY <2>3, <2>5, l \in 0 .. e - 1, e \in Nat
<1> QED BY <1>2, <1>5, <1>7, <1>9, <1>10

-----------------------------------------------------------------------------
(* The shards of a parameter.                                              *)

LEMMA ShapedAs ==
    ASSUME JobFacts, ModelFacts, NEW r \in Ranks, NEW n \in Names(r)
    PROVE  n.g \in Int /\ n.i \in DOMAIN job.params /\ BuiltParam(Par(n)) /\ Par(n).expert \in {"no", "grouped", "sequential"}
<1>1. n.i \in DOMAIN job.params /\ n.g \in Int /\ Par(n) \in Param BY NamesAre
<1> QED BY <1>1 DEF ModelFacts, Par, Param

\* They make the whole parameter again.
LEMMA SlicesJoin ==
    ASSUME JobFacts, ModelFacts, NEW r \in Ranks, NEW n \in Names(r), ~Uneven(n)
    PROVE  Joined(Par(n), Shards(Par(n), Full(n), Tp(n))) = Full(n)
<1> PICK p : p = Par(n) OBVIOUS
<1> PICK size \in Nat \ {0} : size = Tp(n) BY TpIsPositive
<1>1. WellShaped(p) /\ n.g \in Int BY ShapedAs DEF BuiltParam
<1>2. SplitsEvenly(p, size)
  <2> SUFFICES ASSUME ~Whole(p), NEW c \in DOMAIN PartSizes(p) PROVE PartSizes(p)[c] % size = 0
      BY DEF SplitsEvenly
  <2>1. CASE size > 1 BY <2>1 DEF Uneven
  <2>2. CASE ~(size > 1)
    <3>1. size = 1 BY <2>2
    <3>2. PartSizes(p) \in Seq(Nat) BY <1>1, PartsFit DEF FitTogether
    <3> PICK z \in Nat : z = PartSizes(p)[c] BY <3>2
    <3>3. z % 1 = 0 OBVIOUS
    <3> QED BY <3>1, <3>3
  <2> QED BY <2>1, <2>2
<1>3. Joined(p, Shards(p, HF(p, n.g), size)) = HF(p, n.g) BY <1>1, <1>2, LayoutsRoundTrip
<1> QED BY <1>3 DEF Full

\* The shards of a parameter that is not split.
LEMMA OneSlice ==
    ASSUME JobFacts, NEW r \in Ranks, NEW n, Tp(n) = 1 \/ Whole(Par(n))
    PROVE  Shards(Par(n), Full(n), Tp(n)) = <<Slice(r, n)>>
<1> PICK p : p = Par(n) OBVIOUS
<1> PICK hf : hf = Full(n) OBVIOUS
<1> PICK w : w = Slice(r, n) OBVIOUS
<1>1. CASE Whole(p)
  <2>1. \A size, i : Shard(p, hf, size, i) = hf.weight BY <1>1 DEF Shard
  <2>2. w = hf.weight BY <2>1 DEF Slice
  <2>3. Shards(p, hf, Tp(n)) = [i \in 1 .. 1 |-> w] BY <1>1, <2>1, <2>2 DEF Shards
  <2> QED BY <2>3
<1>2. CASE ~Whole(p)
  <2>1. Tp(n) = 1 BY <1>2
  <2> PICK l \in Nat : l = Slot(r) BY RankParts
  <2>2. TpRank(r, n) = 0
    <3>1. l % 1 = 0 OBVIOUS
    <3> QED BY <2>1, <3>1 DEF TpRank
  <2>3. w = Shard(p, hf, 1, 0) BY <2>1, <2>2 DEF Slice
  <2>4. \A i \in 1 .. 1 : i - 1 = 0 OBVIOUS
  <2>5. Shards(p, hf, Tp(n)) = [i \in 1 .. 1 |-> w] BY <1>2, <2>1, <2>3, <2>4 DEF Shards
  <2> QED BY <2>5
<1> QED BY <1>1, <1>2

-----------------------------------------------------------------------------
(* The order of a task's calls.                                            *)

\* The tensor comes over the pipeline stages, then the rows of the other
\* ranks, then the other experts'.
Turn(c) == IF c.op = "tensor" THEN 1 ELSE IF c.op = "rows" THEN 2 ELSE IF c.op = "expert" THEN 3 ELSE 0

\* A call that the export of task n may make.
MayCall(n, c) ==
    /\ c.op = "tensor" => c = TensorCall
    /\ c.op = "rows"   => c = RowsCall(n) /\ Tp(n) # 1 /\ ~Whole(Par(n))
    /\ c.op = "expert" => /\ Par(n).expert = "grouped" /\ Par(n).kind \in Direct \cup {"gated"}
                          /\ c = Call("ep", "expert", c.what) /\ c.what \in DOMAIN Full(n)

\* Calls of task n with turns from lo to hi, each in its turn.
InTurn(s, n, lo, hi) ==
    /\ s \in Seq(ExportCall) /\ \A x \in 1 .. Len(s) : MayCall(n, s[x])
    /\ \A x \in 1 .. Len(s) : Turn(s[x]) # 0 => lo <= Turn(s[x]) /\ Turn(s[x]) <= hi
    /\ \A x, y \in 1 .. Len(s) :
          x < y /\ Turn(s[x]) # 0 /\ Turn(s[y]) # 0 => Turn(s[x]) < Turn(s[y]) \/ Turn(s[y]) = 3

LEMMA TurnsAre == ASSUME NEW c PROVE Turn(c) \in 0 .. 3
BY DEF Turn

LEMMA OneAfterAnother ==
    ASSUME NEW S, NEW s \in Seq(S), NEW t \in Seq(S), NEW a \in Nat, a = Len(s), NEW b \in Nat, b = Len(t),
           NEW u, u = s \o t
    PROVE  /\ u \in Seq(S) /\ Len(u) = a + b
           /\ \A x \in 1 .. a + b : \/ x \in 1 .. a /\ u[x] = s[x]
                                    \/ \E y \in 1 .. b : x = a + y /\ u[x] = t[y]
<1>1. u \in Seq(S) /\ Len(u) = a + b BY ConcatProperties
<1>2. \A x \in 1 .. a + b : u[x] = IF x <= a THEN s[x] ELSE t[x - a] BY ConcatProperties
<1>3. ASSUME NEW x \in 1 .. a + b
      PROVE  (x \in 1 .. a /\ u[x] = s[x]) \/ \E y \in 1 .. b : x = a + y /\ u[x] = t[y]
  <2>1. CASE x <= a BY <1>2, <2>1
  <2>2. CASE ~(x <= a)
    <3>1. PICK y \in 1 .. b : y = x - a BY ONLY <2>2, x \in 1 .. a + b, a \in Nat, b \in Nat
    <3>2. x = a + y BY ONLY <3>1, x \in 1 .. a + b, a \in Nat, b \in Nat
    <3>3. u[x] = t[y] BY <1>2, <2>2, <3>1
    <3> QED BY <3>2, <3>3
  <2> QED BY <2>1, <2>2
<1> QED BY <1>1, <1>3

LEMMA TurnsOn ==
    ASSUME NEW n, NEW s, NEW t, NEW lo \in 0 .. 4, NEW hi \in 0 .. 4, NEW low \in 0 .. 4, NEW high \in 0 .. 4,
           InTurn(s, n, lo, hi), InTurn(t, n, low, high), hi < low, lo <= low, hi <= high
    PROVE  InTurn(s \o t, n, lo, high)
<1>0. /\ s \in Seq(ExportCall) /\ t \in Seq(ExportCall)
      /\ \A x \in 1 .. Len(s) : MayCall(n, s[x])
      /\ \A x \in 1 .. Len(t) : MayCall(n, t[x])
      BY DEF InTurn
<1> PICK a \in Nat : a = Len(s) BY <1>0
<1> PICK b \in Nat : b = Len(t) BY <1>0
<1> PICK u : u = s \o t OBVIOUS
<1>1. /\ u \in Seq(ExportCall) /\ Len(u) = a + b
      /\ \A x \in 1 .. a + b : \/ x \in 1 .. a /\ u[x] = s[x]
                               \/ \E y \in 1 .. b : x = a + y /\ u[x] = t[y]
      BY ONLY <1>0, a \in Nat, a = Len(s), b \in Nat, b = Len(t), u = s \o t, OneAfterAnother
<1> DEFINE S(x) == Turn(s[x])
           T(x) == Turn(t[x])
           U(x) == Turn(u[x])
<1>2. /\ \A x \in 1 .. a : S(x) \in 0 .. 3 /\ (S(x) # 0 => lo <= S(x) /\ S(x) <= hi)
      /\ \A x \in 1 .. b : T(x) \in 0 .. 3 /\ (T(x) # 0 => low <= T(x) /\ T(x) <= high)
      /\ \A x, y \in 1 .. a : x < y /\ S(x) # 0 /\ S(y) # 0 => S(x) < S(y) \/ S(y) = 3
      /\ \A x, y \in 1 .. b : x < y /\ T(x) # 0 /\ T(y) # 0 => T(x) < T(y) \/ T(y) = 3
      BY TurnsAre DEF InTurn
<1>3. \A x \in 1 .. a + b : \/ x \in 1 .. a /\ U(x) = S(x)
                            \/ \E y \in 1 .. b : x = a + y /\ U(x) = T(y)
      BY <1>1
<1> HIDE DEF S, T, U
<1>4. ASSUME NEW x \in 1 .. a + b, U(x) # 0 PROVE lo <= U(x) /\ U(x) <= high
  <2>1. CASE x \in 1 .. a /\ U(x) = S(x)
    <3>1. S(x) \in 0 .. 3 /\ lo <= S(x) /\ S(x) <= hi BY <1>2, <1>4, <2>1
    <3>2. S(x) <= high BY ONLY <3>1, hi <= high, hi \in 0 .. 4, high \in 0 .. 4
    <3> QED BY <2>1, <3>1, <3>2
  <2>2. CASE \E y \in 1 .. b : x = a + y /\ U(x) = T(y)
    <3> PICK y \in 1 .. b : U(x) = T(y) BY <2>2
    <3>1. T(y) \in 0 .. 3 /\ low <= T(y) /\ T(y) <= high BY <1>2, <1>4
    <3>2. lo <= T(y) BY ONLY <3>1, lo <= low, lo \in 0 .. 4, low \in 0 .. 4
    <3> QED BY <3>1, <3>2
  <2> QED BY <1>3, <2>1, <2>2
<1>5. ASSUME NEW x \in 1 .. a + b, NEW y \in 1 .. a + b, x < y, U(x) # 0, U(y) # 0
      PROVE  U(x) < U(y) \/ U(y) = 3
  <2>1. CASE x \in 1 .. a /\ U(x) = S(x) /\ y \in 1 .. a /\ U(y) = S(y) BY <1>2, <1>5, <2>1
  <2>2. CASE x \in 1 .. a /\ U(x) = S(x) /\ \E z \in 1 .. b : y = a + z /\ U(y) = T(z)
    <3> PICK z \in 1 .. b : U(y) = T(z) BY <2>2
    <3>1. S(x) \in 0 .. 3 /\ S(x) <= hi /\ T(z) \in 0 .. 3 /\ low <= T(z) BY <1>2, <1>5, <2>2
    <3>2. S(x) < T(z) BY ONLY <3>1, hi < low, hi \in 0 .. 4, low \in 0 .. 4
    <3> QED BY <2>2, <3>2
  <2>3. CASE (\E z \in 1 .. b : x = a + z /\ U(x) = T(z)) /\ y \in 1 .. a
    <3> PICK z \in 1 .. b : x = a + z BY <2>3
    <3> QED BY ONLY <1>5, <2>3, x = a + z, a \in Nat, b \in Nat
  <2>4. CASE (\E z \in 1 .. b : x = a + z /\ U(x) = T(z)) /\ (\E z \in 1 .. b : y = a + z /\ U(y) = T(z))
    <3> PICK z \in 1 .. b : x = a + z /\ U(x) = T(z) BY <2>4
    <3> PICK v \in 1 .. b : y = a + v /\ U(y) = T(v) BY <2>4
    <3>1. z < v BY ONLY <1>5, x = a + z, y = a + v, a \in Nat, z \in 1 .. b, v \in 1 .. b, b \in Nat
    <3> QED BY <1>2, <1>5, <3>1
  <2> QED BY <1>3, <2>1, <2>2, <2>3, <2>4
<1>6. ASSUME NEW x \in 1 .. a + b PROVE MayCall(n, u[x])
  <2>1. CASE x \in 1 .. a /\ u[x] = s[x] BY <1>0, <2>1
  <2>2. CASE \E y \in 1 .. b : x = a + y /\ u[x] = t[y] BY <1>0, <2>2
  <2> QED BY <1>1, <2>1, <2>2
<1>7. InTurn(u, n, lo, high)
  <2>1. /\ \A x \in 1 .. Len(u) : Turn(u[x]) # 0 => lo <= Turn(u[x]) /\ Turn(u[x]) <= high
        /\ \A x, y \in 1 .. Len(u) :
              x < y /\ Turn(u[x]) # 0 /\ Turn(u[y]) # 0 => Turn(u[x]) < Turn(u[y]) \/ Turn(u[y]) = 3
        BY <1>1, <1>4, <1>5 DEF U
  <2> QED BY <1>1, <1>6, <2>1 DEF InTurn
<1> QED BY <1>7

\* Calls of which none has a turn.
LEMMA NoTurns ==
    ASSUME NEW n, NEW s \in Seq(ExportCall), \A x \in 1 .. Len(s) : s[x].op \in {"flags", "object", "spec", "part"},
           NEW lo, NEW hi
    PROVE  InTurn(s, n, lo, hi)
<1>1. \A x \in 1 .. Len(s) : Turn(s[x]) = 0 /\ MayCall(n, s[x]) BY DEF Turn, MayCall
<1> QED BY <1>1 DEF InTurn

\* A single call.
LEMMA OneTurn ==
    ASSUME NEW n, NEW c \in ExportCall, MayCall(n, c), NEW k \in 1 .. 3, Turn(c) = k
    PROVE  InTurn(<<c>>, n, k, k)
<1>1. <<c>> \in Seq(ExportCall) /\ Len(<<c>>) = 1 /\ \A x \in 1 .. 1 : <<c>>[x] = c OBVIOUS
<1>2. \A x, y \in 1 .. 1 : ~(x < y) OBVIOUS
<1>3. \A x \in 1 .. Len(<<c>>) : Turn(<<c>>[x]) = k BY <1>1
<1> QED BY <1>1, <1>2, <1>3 DEF InTurn

LEMMA InquiryTurns ==
    ASSUME NEW n, NEW what \in Objects, NEW kept \in BOOLEAN, job.pp \in Nat \ {0}, NEW lo, NEW hi
    PROVE  InTurn(Inquiry(what, kept), n, lo, hi)
<1> PICK s : s = Inquiry(what, kept) OBVIOUS
<1>1. s \in Seq(ExportCall) BY InquiryFacts
<1> DEFINE f == Call("pp", "flags", what)
           o == Call("pp", "object", what)
<1>2. f.op = "flags" /\ o.op = "object" BY DEF Call
<1>3. s = <<>> \/ s = <<f, o>> BY DEF Inquiry
<1> HIDE DEF f, o
<1>4. \A x \in 1 .. Len(s) : s[x] = f \/ s[x] = o BY <1>3
<1> QED BY <1>1, <1>2, <1>4, NoTurns

LEMMA BroadcastTurns ==
    ASSUME NEW n, NEW kept \in BOOLEAN, job.pp \in Nat \ {0}
    PROVE  InTurn(Broadcast(kept), n, 1, 1)
<1> DEFINE a == Call("pp", "spec", "")
           b == TensorCall
<1>1. a.op = "spec" /\ b.op = "tensor" BY DEF Call, TensorCall
<1>2. CASE job.pp = 1
  <2>1. Broadcast(kept) = <<>> /\ <<>> \in Seq(ExportCall) BY <1>2 DEF Broadcast
  <2>2. \A x \in 1 .. Len(<<>>) : <<>>[x].op \in {"flags", "object", "spec", "part"} OBVIOUS
  <2>3. InTurn(<<>>, n, 1, 1) BY <2>1, <2>2, NoTurns
  <2> QED BY <2>1, <2>3
<1>3. CASE job.pp # 1
  <2>0. job.pp > 1 BY <1>3
  <2>1. a \in ExportCall /\ b \in ExportCall BY <2>0 DEF ExportCall, PipelineOps, Call, TensorCall
  <2>2. Turn(b) = 1 /\ MayCall(n, b) BY <1>1 DEF Turn, MayCall
  <2>3. Broadcast(kept) = (IF kept THEN <<>> ELSE <<a>>) \o <<b>> BY <1>3 DEF Broadcast, TensorCall
  <2> HIDE DEF a, b
  <2>4. InTurn(<<b>>, n, 1, 1) BY <2>1, <2>2, OneTurn
  <2> PICK s : s = IF kept THEN <<>> ELSE <<a>> OBVIOUS
  <2>5. s \in Seq(ExportCall) /\ \A x \in 1 .. Len(s) : s[x] = a BY <2>1
  <2>6. InTurn(s, n, 0, 0) BY <1>1, <2>5, NoTurns
  <2>7. InTurn(s, n, 1, 0) BY <1>1, <2>5, NoTurns
  <2>8. InTurn(s \o <<b>>, n, 1, 1) BY <2>4, <2>7, TurnsOn
  <2> QED BY <2>3, <2>8
<1> QED BY <1>2, <1>3

LEMMA GatherTurns ==
    ASSUME NEW n, Par(n) \in Param
    PROVE  /\ InTurn(Gather(n), n, 2, 2)
           /\ Tp(n) # 1 /\ ~Whole(Par(n)) => RowsCall(n) \in Range(Gather(n))
<1> DEFINE a == Call(TpGroup(n), "part", "")
           b == RowsCall(n)
<1>1. a.op = "part" /\ b.op = "rows" BY DEF Call, RowsCall
<1>2. CASE Tp(n) = 1 \/ Whole(Par(n))
  <2>1. Gather(n) = <<>> /\ <<>> \in Seq(ExportCall) BY <1>2 DEF Gather
  <2>2. \A x \in 1 .. Len(<<>>) : <<>>[x].op \in {"flags", "object", "spec", "part"} OBVIOUS
  <2>3. InTurn(<<>>, n, 2, 2) BY <2>1, <2>2, NoTurns
  <2> QED BY <1>2, <2>1, <2>3
<1>3. CASE ~(Tp(n) = 1 \/ Whole(Par(n)))
  <2>1. TpGroup(n) \in {"tp", "etp"} BY DEF TpGroup
  <2>2. a \in ExportCall /\ b \in ExportCall BY <2>1 DEF ExportCall, PipelineOps, Call, RowsCall
  <2>3. Turn(b) = 2 /\ MayCall(n, b) BY <1>1, <1>3 DEF Turn, MayCall
  <2> PICK k \in Nat : k = Len(Par(n).n) BY DEF Param
  <2> PICK s : s = IF Par(n).kind = "chunked" THEN [c \in 1 .. k - 1 |-> a] ELSE <<>> OBVIOUS
  <2>4. Gather(n) = s \o <<b>> BY <1>3 DEF Gather, RowsCall
  <2> HIDE DEF a, b
  <2>5. s \in Seq(ExportCall) /\ \A x \in 1 .. Len(s) : s[x] = a
    <3>1. CASE Par(n).kind = "chunked" /\ k > 0
      <4> PICK l \in Nat : l = k - 1
        <5>1. k > 0 BY <3>1
        <5>2. k - 1 \in Nat BY ONLY <5>1, k \in Nat
        <5> QED BY <5>2
      <4>1. s = [c \in 1 .. l |-> a] BY <3>1
      <4> QED BY ONLY <2>2, <4>1, l \in Nat
    <3>2. CASE ~(Par(n).kind = "chunked" /\ k > 0)
      <4>1. k = 0 => 1 .. k - 1 = {} OBVIOUS
      <4>2. [c \in {} |-> a] = <<>> OBVIOUS
      <4>3. s = <<>> BY <3>2, <4>1, <4>2
      <4>4. <<>> \in Seq(ExportCall) /\ \A x \in 1 .. Len(<<>>) : <<>>[x] = a OBVIOUS
      <4> QED BY ONLY <4>3, <4>4
    <3> QED BY ONLY <3>1, <3>2
  <2>6. InTurn(s, n, 2, 1) BY <1>1, <2>5, NoTurns
  <2>7. InTurn(<<b>>, n, 2, 2) BY <2>2, <2>3, OneTurn
  <2>8. InTurn(s \o <<b>>, n, 2, 2) BY <2>6, <2>7, TurnsOn
  <2>9. b \in Range(<<b>>)
    <3>1. 1 \in DOMAIN <<b>> /\ <<b>>[1] = b OBVIOUS
    <3> QED BY <3>1 DEF Range
  <2>10. <<b>> \in Seq(ExportCall) BY <2>2
  <2> PICK t : t = <<b>> OBVIOUS
  <2>11. b \in Range(s \o t)
    <3>1. s \in Seq(ExportCall) /\ t \in Seq(ExportCall) /\ b \in Range(t) BY <2>5, <2>9, <2>10
    <3>2. Range(s \o t) = Range(s) \cup Range(t) BY ONLY <3>1, EndToEndCalls
    <3> QED BY ONLY <3>1, <3>2
  <2> QED BY <2>4, <2>8, <2>11 DEF b
<1> QED BY <1>2, <1>3

TensorKeys == {"weight", "q", "k", "v", "gate", "up", "qkvz", "ba"}

\* The keys of a parameter's external tensors.
LEMMA KeysAre ==
    ASSUME NEW p, NEW g
    PROVE  /\ p.kind \in Direct => DOMAIN HF(p, g) = {"weight"}
           /\ p.kind = "gated" => DOMAIN HF(p, g) = {"gate", "up"}
           /\ p.kind \in Kinds => DOMAIN HF(p, g) \subseteq TensorKeys
<1>1. ASSUME p.kind \in Direct PROVE DOMAIN HF(p, g) = {"weight"}
  <2> PICK v : v = Rows("weight", g, p.n[1]) OBVIOUS
  <2>1. p.kind \in {"column", "row", "vector", "replicated"} BY <1>1 DEF Direct
  <2>2. HF(p, g) = [weight |-> v] BY <2>1 DEF HF, Direct
  <2> QED BY <2>2
<1>2. ASSUME p.kind = "gated" PROVE DOMAIN HF(p, g) = {"gate", "up"}
  <2> PICK v : v = Rows("gate", g, p.n[1]) OBVIOUS
  <2> PICK w : w = Rows("up", g, p.n[1]) OBVIOUS
  <2>1. HF(p, g) = [gate |-> v, up |-> w] BY <1>2 DEF HF, Direct
  <2> QED BY <2>1
<1>3. ASSUME p.kind = "qkv" PROVE DOMAIN HF(p, g) = {"q", "k", "v"}
  <2> PICK u : u = IF p.gate
                   THEN [i \in 1 .. 2 * p.n[1] |-> <<IF i % 2 = 1 THEN "q" ELSE "z", g, (i + 1) \div 2>>]
                   ELSE Rows("q", g, p.n[1]) OBVIOUS
  <2> PICK v : v = Rows("k", g, p.n[2]) OBVIOUS
  <2> PICK w : w = Rows("v", g, p.n[2]) OBVIOUS
  <2>1. HF(p, g) = [q |-> u, k |-> v, v |-> w] BY <1>3 DEF HF, Direct
  <2> QED BY <2>1
<1>4. ASSUME p.kind \in {"concat", "chunked"} PROVE DOMAIN HF(p, g) = {"weight"}
  <2>1. CASE p.kind = "concat"
    <3> PICK v : v = Rows("weight", g, p.n[1] + 2 * p.n[2]) OBVIOUS
    <3>1. HF(p, g) = [weight |-> v] BY <2>1 DEF HF, Direct
    <3> QED BY <3>1
  <2>2. CASE p.kind = "chunked"
    <3> PICK v : v = Rows("weight", g, Total(p.n)) OBVIOUS
    <3>1. HF(p, g) = [weight |-> v] BY <2>2 DEF HF, Direct
    <3> QED BY <3>1
  <2> QED BY <1>4, <2>1, <2>2
<1>5. ASSUME p.kind = "kv" PROVE DOMAIN HF(p, g) = {"k", "v"}
  <2> PICK v : v = Rows("k", g, p.n[2]) OBVIOUS
  <2> PICK w : w = Rows("v", g, p.n[2]) OBVIOUS
  <2>1. HF(p, g) = [k |-> v, v |-> w] BY <1>5 DEF HF, Direct
  <2> QED BY <2>1
<1>6. ASSUME p.kind = "gdn" PROVE DOMAIN HF(p, g) = {"qkvz", "ba"}
  <2> PICK v : v = Rows("qkvz", g, p.n[1] * Stretch(p)) OBVIOUS
  <2> PICK w : w = Rows("ba", g, p.n[1] * 2 * Ratio(p)) OBVIOUS
  <2>1. HF(p, g) = [qkvz |-> v, ba |-> w] BY <1>6 DEF HF, Direct
  <2> QED BY <2>1
<1>7. ASSUME p.kind \in Kinds PROVE DOMAIN HF(p, g) \subseteq TensorKeys
  <2>1. p.kind \in Direct \/ p.kind \in {"qkv", "concat", "kv", "gated", "chunked", "gdn"} BY <1>7 DEF Kinds
  <2>2. CASE p.kind \in Direct BY <1>1, <2>2 DEF TensorKeys
  <2>3. CASE p.kind = "gated" BY <1>2, <2>3 DEF TensorKeys
  <2>4. CASE p.kind = "qkv" BY <1>3, <2>4 DEF TensorKeys
  <2>5. CASE p.kind \in {"concat", "chunked"} BY <1>4, <2>5 DEF TensorKeys
  <2>6. CASE p.kind = "kv" BY <1>5, <2>6 DEF TensorKeys
  <2>7. CASE p.kind = "gdn" BY <1>6, <2>7 DEF TensorKeys
  <2> QED BY <2>1, <2>2, <2>3, <2>4, <2>5, <2>6, <2>7
<1> QED BY <1>1, <1>2, <1>7

LEMMA ExpertKeys ==
    ASSUME NEW n
    PROVE  /\ Par(n).kind \in Direct => DOMAIN Full(n) = {"weight"}
           /\ Par(n).kind = "gated" => DOMAIN Full(n) = {"gate", "up"}
BY KeysAre DEF Full

LEMMA ExpertCallsTurns ==
    ASSUME NEW n, NEW kept \in BOOLEAN, job.pp \in Nat \ {0}, Par(n).expert \in {"no", "grouped", "sequential"},
           Par(n).kind \in Direct \cup {"gated"}
    PROVE  /\ InTurn(ExpertCalls(n, kept), n, 3, 3)
           /\ Par(n).expert = "grouped" => \A key \in DOMAIN Full(n) : Call("ep", "expert", key) \in Range(ExpertCalls(n, kept))
<1> DEFINE g == Call("ep", "expert", "gate")
           u == Call("ep", "expert", "up")
           w == Call("ep", "expert", "weight")
<1>1. g \in ExportCall /\ u \in ExportCall /\ w \in ExportCall BY DEF ExportCall, PipelineOps, Call
<1>2. g.op = "expert" /\ u.op = "expert" /\ w.op = "expert" /\ g.what = "gate" /\ u.what = "up" /\ w.what = "weight"
      BY DEF Call
<1>3. Turn(g) = 3 /\ Turn(u) = 3 /\ Turn(w) = 3 BY <1>2 DEF Turn
<1> PICK t : t = IF Par(n).expert = "sequential" THEN <<>> ELSE IF Par(n).kind = "gated" THEN <<g, u>> ELSE <<w>>
    OBVIOUS
<1> PICK s : s = Inquiry("experts", kept) OBVIOUS
<1>4. ExpertCalls(n, kept) = IF Par(n).expert = "no" THEN <<>> ELSE s \o t BY DEF ExpertCalls
<1>5. Par(n).expert = "grouped" =>
        /\ Par(n).kind = "gated" => MayCall(n, g) /\ MayCall(n, u)
        /\ Par(n).kind # "gated" => MayCall(n, w)
      BY <1>2, ExpertKeys DEF MayCall
<1>6. "gated" \notin Direct BY DEF Direct
<1> HIDE DEF g, u, w
<1>7. <<>> \in Seq(ExportCall) /\ Len(<<>>) = 0 OBVIOUS
<1>8. \A x \in 1 .. Len(<<>>) : <<>>[x].op \in {"flags", "object", "spec", "part"} OBVIOUS
<1>9. InTurn(<<>>, n, 3, 3) BY <1>7, <1>8, NoTurns
<1>10. CASE Par(n).expert = "no" BY <1>4, <1>9, <1>10
<1>11. CASE Par(n).expert # "no"
  <2>1. t \in Seq(ExportCall) /\ \A x \in 1 .. Len(t) : t[x] \in {g, u, w} /\ Par(n).expert = "grouped" /\ MayCall(n, t[x])
    <3>1. CASE Par(n).expert = "sequential" BY <1>7, <3>1
    <3>2. CASE Par(n).expert = "grouped" /\ Par(n).kind = "gated"
      <4>1. t = <<g, u>> BY <3>2
      <4>2. <<g, u>> \in Seq(ExportCall) /\ \A x \in 1 .. Len(<<g, u>>) : <<g, u>>[x] \in {g, u} BY <1>1
      <4> QED BY <1>5, <3>2, <4>1, <4>2
    <3>3. CASE Par(n).expert = "grouped" /\ Par(n).kind # "gated"
      <4>1. t = <<w>> BY <3>3
      <4>2. <<w>> \in Seq(ExportCall) /\ \A x \in 1 .. Len(<<w>>) : <<w>>[x] \in {w} BY <1>1
      <4> QED BY <1>5, <3>3, <4>1, <4>2
    <3> QED BY <1>11, <3>1, <3>2, <3>3
  <2>2. InTurn(t, n, 3, 3)
    <3>1. \A x \in 1 .. Len(t) : Turn(t[x]) = 3 /\ MayCall(n, t[x]) BY <1>3, <2>1
    <3> QED BY <2>1, <3>1 DEF InTurn
  <2>3. InTurn(s, n, 3, 2)
    <3>1. "experts" \in Objects BY DEF Objects, Cached
    <3> QED BY <3>1, InquiryTurns
  <2>4. InTurn(s \o t, n, 3, 3) BY <2>2, <2>3, TurnsOn
  <2>5. ASSUME Par(n).expert = "grouped", NEW key \in DOMAIN Full(n) PROVE Call("ep", "expert", key) \in Range(s \o t)
    <3>1. s \in Seq(ExportCall) /\ t \in Seq(ExportCall) BY <2>1, <2>3 DEF InTurn
    <3>2. Range(s \o t) = Range(s) \cup Range(t) BY ONLY <3>1, EndToEndCalls
    <3>3. CASE Par(n).kind = "gated"
      <4>1. t = <<g, u>> BY <2>5, <3>3
      <4>2. g \in Range(<<g, u>>) /\ u \in Range(<<g, u>>)
        <5>1. 1 \in DOMAIN <<g, u>> /\ <<g, u>>[1] = g /\ 2 \in DOMAIN <<g, u>> /\ <<g, u>>[2] = u OBVIOUS
        <5> QED BY <5>1 DEF Range
      <4>3. Call("ep", "expert", key) \in {g, u} BY <3>3, ExpertKeys DEF g, u
      <4> QED BY <3>2, <4>1, <4>2, <4>3
    <3>4. CASE Par(n).kind # "gated"
      <4>1. t = <<w>> BY <2>5, <3>4
      <4>2. w \in Range(<<w>>)
        <5>1. 1 \in DOMAIN <<w>> /\ <<w>>[1] = w OBVIOUS
        <5> QED BY <5>1 DEF Range
      <4>3. Call("ep", "expert", key) = w BY <3>4, ExpertKeys DEF w
      <4> QED BY <3>2, <4>1, <4>2, <4>3
    <3> QED BY <3>3, <3>4
  <2> QED BY <1>4, <1>11, <2>4, <2>5
<1> QED BY <1>10, <1>11

\* The calls of a task, each in its turn.
LEMMA ExportingTurns ==
    ASSUME NEW n, Par(n) \in Param, BuiltParam(Par(n)), NEW kept \in BOOLEAN, job.pp \in Nat \ {0}
    PROVE  /\ InTurn(Exporting(n, kept), n, 1, 3)
           /\ ~(job.pp = 1 /\ n.i \in job.missing) =>
                /\ Tp(n) # 1 /\ ~Whole(Par(n)) => RowsCall(n) \in Range(Exporting(n, kept))
                /\ Par(n).expert = "grouped" =>
                     \A key \in DOMAIN Full(n) : Call("ep", "expert", key) \in Range(Exporting(n, kept))
<1> DEFINE kind == Par(n).kind
           B == Broadcast(kept)
           G == Gather(n)
           E == ExpertCalls(n, kept)
           C == Inquiry("config", kept)
           T == Inquiry("type", kept)
           L == Inquiry("layout", kept)
           X == Exporting(n, kept)
<1>1. Par(n).expert \in {"no", "grouped", "sequential"} /\ kind \in Kinds BY DEF Param
<1>2. Par(n).expert # "no" => kind \in Direct \cup {"gated"} BY DEF BuiltParam
<1>3. {"config", "type", "layout"} \subseteq Objects BY DEF Objects, Cached
<1>4. \A lo, hi : InTurn(C, n, lo, hi) /\ InTurn(T, n, lo, hi) /\ InTurn(L, n, lo, hi) BY <1>3, InquiryTurns
<1>5. InTurn(B, n, 1, 1) BY BroadcastTurns
<1>6. InTurn(G, n, 2, 2) /\ (Tp(n) # 1 /\ ~Whole(Par(n)) => RowsCall(n) \in Range(G)) BY GatherTurns
<1>7. kind \in Direct \cup {"gated"} =>
        /\ InTurn(E, n, 3, 3)
        /\ Par(n).expert = "grouped" => \A key \in DOMAIN Full(n) : Call("ep", "expert", key) \in Range(E)
      BY <1>1, ExpertCallsTurns
<1>8. /\ job.pp = 1 /\ n.i \in job.missing => X = <<>>
      /\ ~(job.pp = 1 /\ n.i \in job.missing) =>
           /\ kind \in Direct => X = T \o B \o G \o E
           /\ kind \in {"qkv", "concat", "kv"} => X = C \o T \o B \o G
           /\ kind = "gdn" => X = L \o T \o B \o G
           /\ kind = "gated" => X = B \o G \o E
           /\ kind = "chunked" => X = B \o L \o G
      BY DEF Exporting, Direct
<1>9. kind \in Direct \/ kind \in {"qkv", "concat", "kv"} \/ kind = "gdn" \/ kind = "gated" \/ kind = "chunked"
      BY <1>1 DEF Kinds
<1> HIDE DEF B, G, E, C, T, L, X
<1>10. \A lo, hi : InTurn(X, n, lo, hi) => InTurn(X, n, 1, 3)
  <2>1. \A x \in 1 .. Len(X) : Turn(X[x]) \in 0 .. 3 BY TurnsAre
  <2>2. \A x \in 1 .. Len(X) : Turn(X[x]) # 0 => 1 <= Turn(X[x]) /\ Turn(X[x]) <= 3 BY <2>1
  <2> QED BY <2>2 DEF InTurn
<1>11. CASE job.pp = 1 /\ n.i \in job.missing
  <2>1. <<>> \in Seq(ExportCall) OBVIOUS
  <2>2. \A x \in 1 .. Len(<<>>) : <<>>[x].op \in {"flags", "object", "spec", "part"} OBVIOUS
  <2>3. InTurn(<<>>, n, 1, 3) BY <2>1, <2>2, NoTurns
  <2> QED BY <1>8, <1>11, <2>3 DEF X
<1>12. CASE ~(job.pp = 1 /\ n.i \in job.missing)
  <2>1. B \in Seq(ExportCall) /\ G \in Seq(ExportCall) /\ C \in Seq(ExportCall) /\ T \in Seq(ExportCall)
        /\ L \in Seq(ExportCall) /\ <<>> \in Seq(ExportCall)
        BY <1>4, <1>5, <1>6 DEF InTurn
  <2>2. InTurn(T, n, 1, 0) /\ InTurn(C, n, 1, 0) /\ InTurn(L, n, 1, 0) /\ InTurn(C, n, 0, 0) /\ InTurn(L, n, 0, 0)
        /\ InTurn(L, n, 2, 1)
        BY <1>4
  <2>3. CASE kind \in Direct
    <3>1. X = T \o B \o G \o E /\ InTurn(E, n, 3, 3) BY <1>7, <1>8, <1>12, <2>3
    <3> PICK a : a = T \o B OBVIOUS
    <3> PICK b : b = a \o G OBVIOUS
    <3>2. InTurn(a, n, 1, 1) BY <1>5, <2>2, TurnsOn
    <3>3. InTurn(b, n, 1, 2) BY <1>6, <3>2, TurnsOn
    <3>4. InTurn(b \o E, n, 1, 3) BY <3>1, <3>3, TurnsOn
    <3>5. E \in Seq(ExportCall) BY <3>1 DEF InTurn
    <3>6. Range(X) = Range(T) \cup Range(B) \cup Range(G) \cup Range(E)
          BY <2>1, <3>1, <3>5, FourEndToEnd DEF AllSeqs
    <3> QED BY <1>6, <1>7, <2>3, <3>1, <3>4, <3>6 DEF X
  <2>4. CASE kind = "gated"
    <3>1. X = B \o G \o E /\ InTurn(E, n, 3, 3) BY <1>7, <1>8, <1>12, <2>4
    <3> PICK b : b = B \o G OBVIOUS
    <3>2. InTurn(b, n, 1, 2) BY <1>5, <1>6, TurnsOn
    <3>3. InTurn(b \o E, n, 1, 3) BY <3>1, <3>2, TurnsOn
    <3>4. E \in Seq(ExportCall) BY <3>1 DEF InTurn
    <3>5. Range(X) = Range(B) \cup Range(G) \cup Range(E)
      <4>1. AllSeqs(ExportCall, B, G, E, <<>>) BY <2>1, <3>4 DEF AllSeqs
      <4> QED BY <3>1, <4>1, FourEndToEnd
    <3> QED BY <1>6, <1>7, <2>4, <3>1, <3>3, <3>5 DEF X
  <2>5. CASE kind \in {"qkv", "concat", "kv"}
    <3>0. Par(n).expert = "no" BY <1>2, <2>5 DEF Direct
    <3>1. X = C \o T \o B \o G BY <1>8, <1>12, <2>5
    <3> PICK a : a = C \o T OBVIOUS
    <3> PICK b : b = a \o B OBVIOUS
    <3>2. InTurn(a, n, 0, 0) BY <2>2, TurnsOn
    <3>3. InTurn(b, n, 0, 1) BY <1>5, <3>2, TurnsOn
    <3>4. InTurn(b \o G, n, 0, 2) BY <1>6, <3>3, TurnsOn
    <3>5. InTurn(X, n, 0, 2) BY <3>1, <3>4
    <3>6. InTurn(X, n, 1, 3) BY <1>10, <3>5
    <3>7. Range(X) = Range(C) \cup Range(T) \cup Range(B) \cup Range(G)
          BY <2>1, <3>1, FourEndToEnd DEF AllSeqs
    <3> QED BY <1>6, <3>0, <3>6, <3>7 DEF X
  <2>6. CASE kind = "gdn"
    <3>0. Par(n).expert = "no" BY <1>2, <2>6 DEF Direct
    <3>1. X = L \o T \o B \o G BY <1>8, <1>12, <2>6
    <3> PICK a : a = L \o T OBVIOUS
    <3> PICK b : b = a \o B OBVIOUS
    <3>2. InTurn(a, n, 0, 0) BY <2>2, TurnsOn
    <3>3. InTurn(b, n, 0, 1) BY <1>5, <3>2, TurnsOn
    <3>4. InTurn(b \o G, n, 0, 2) BY <1>6, <3>3, TurnsOn
    <3>5. InTurn(X, n, 0, 2) BY <3>1, <3>4
    <3>6. InTurn(X, n, 1, 3) BY <1>10, <3>5
    <3>7. Range(X) = Range(L) \cup Range(T) \cup Range(B) \cup Range(G)
          BY <2>1, <3>1, FourEndToEnd DEF AllSeqs
    <3> QED BY <1>6, <3>0, <3>6, <3>7 DEF X
  <2>7. CASE kind = "chunked"
    <3>0. Par(n).expert = "no" BY <1>2, <2>7 DEF Direct
    <3>1. X = B \o L \o G BY <1>8, <1>12, <2>7
    <3> PICK a : a = B \o L OBVIOUS
    <3>2. InTurn(a, n, 1, 1) BY <1>5, <2>2, TurnsOn
    <3>3. InTurn(a \o G, n, 1, 2) BY <1>6, <3>2, TurnsOn
    <3>4. InTurn(X, n, 1, 3) BY <1>10, <3>1, <3>3
    <3>5. Range(X) = Range(B) \cup Range(L) \cup Range(G)
      <4>1. AllSeqs(ExportCall, B, L, G, <<>>) BY <2>1 DEF AllSeqs
      <4> QED BY <3>1, <4>1, FourEndToEnd
    <3> QED BY <1>6, <3>0, <3>4, <3>5 DEF X
  <2> QED BY <1>9, <2>3, <2>4, <2>5, <2>6, <2>7
<1> QED BY <1>11, <1>12

\* t is the end of s.
EndOf(t, s) ==
    /\ t \in Seq(Range(s)) /\ Len(t) \in 0 .. Len(s)
    /\ \A y \in 1 .. Len(t) : FromEnd(t, y) = FromEnd(s, y)

\* What is left of a task's calls is in turn too.
LEMMA EndInTurn ==
    ASSUME NEW n, NEW s, InTurn(s, n, 1, 3), NEW t, EndOf(t, s)
    PROVE  /\ InTurn(t, n, 1, 3)
           /\ t # <<>> /\ Head(t).op = "tensor" /\ RowsCall(n) \in Range(s) => RowsCall(n) \in Range(Tail(t))
<1>1. s \in Seq(ExportCall) BY DEF InTurn
<1>2. Range(s) \subseteq ExportCall BY <1>1 DEF Range
<1>3. t \in Seq(ExportCall) BY <1>2 DEF EndOf
<1> PICK a \in Nat : a = Len(s) BY <1>1
<1> PICK b \in 0 .. a : b = Len(t) BY DEF EndOf
<1> PICK k \in 0 .. a : k = a - b BY ONLY a \in Nat, b \in 0 .. a
<1>4. ASSUME NEW x \in 1 .. b PROVE k + x \in 1 .. a /\ t[x] = s[k + x]
  <2> PICK y \in 1 .. b : y = b - x + 1 BY ONLY x \in 1 .. b, b \in 0 .. a, a \in Nat
  <2>1. FromEnd(t, y) = FromEnd(s, y) BY DEF EndOf
  <2>2. b - y + 1 = x /\ a - y + 1 = k + x /\ k + x \in 1 .. a
        BY ONLY x \in 1 .. b, b \in 0 .. a, a \in Nat, y \in 1 .. b, y = b - x + 1, k = a - b
  <2>3. FromEnd(t, y) = t[b - y + 1] /\ FromEnd(s, y) = s[a - y + 1] BY DEF FromEnd
  <2> QED BY <2>1, <2>2, <2>3
<1>5. \A x, y \in 1 .. b : x < y => k + x < k + y BY ONLY a \in Nat, b \in 0 .. a, k \in 0 .. a
<1>6. \A x \in 1 .. a : MayCall(n, s[x]) /\ (Turn(s[x]) # 0 => 1 <= Turn(s[x]) /\ Turn(s[x]) <= 3) BY DEF InTurn
<1>7. \A x, y \in 1 .. a : x < y /\ Turn(s[x]) # 0 /\ Turn(s[y]) # 0 => Turn(s[x]) < Turn(s[y]) \/ Turn(s[y]) = 3
      BY DEF InTurn
<1>8. InTurn(t, n, 1, 3)
  <2>1. \A x \in 1 .. b : MayCall(n, t[x]) /\ (Turn(t[x]) # 0 => 1 <= Turn(t[x]) /\ Turn(t[x]) <= 3) BY <1>4, <1>6
  <2>2. ASSUME NEW x \in 1 .. b, NEW y \in 1 .. b, x < y, Turn(t[x]) # 0, Turn(t[y]) # 0
        PROVE  Turn(t[x]) < Turn(t[y]) \/ Turn(t[y]) = 3
    <3> PICK u \in 1 .. a : u = k + x /\ t[x] = s[u] BY <1>4
    <3> PICK v \in 1 .. a : v = k + y /\ t[y] = s[v] BY <1>4
    <3>1. u < v BY <1>5, <2>2
    <3>2. Turn(s[u]) # 0 /\ Turn(s[v]) # 0 BY <2>2
    <3>3. Turn(s[u]) < Turn(s[v]) \/ Turn(s[v]) = 3 BY <1>7, <3>1, <3>2
    <3> QED BY <3>3
  <2> QED BY <1>3, <2>1, <2>2 DEF InTurn
<1>9. ASSUME t # <<>>, Head(t).op = "tensor", RowsCall(n) \in Range(s) PROVE RowsCall(n) \in Range(Tail(t))
  <2>1. b \in 1 .. a
    <3>1. b # 0 BY <1>3, <1>9
    <3> QED BY ONLY <3>1, b \in 0 .. a, a \in Nat
  <2>2. 1 \in 1 .. b BY ONLY <2>1, a \in Nat
  <2> PICK h \in 1 .. a : h = k + 1 /\ t[1] = s[h] BY <1>4, <2>2
  <2>3. Head(t) = t[1] BY <1>3
  <2>4. Turn(s[h]) = 1 BY <1>9, <2>3 DEF Turn
  <2> PICK x \in 1 .. a : RowsCall(n) = s[x] BY <1>9 DEF Range
  <2>5. Turn(s[x]) = 2
    <3>1. RowsCall(n).op = "rows" BY DEF RowsCall, Call
    <3>2. Turn(RowsCall(n)) = 2 BY <3>1 DEF Turn
    <3> QED BY <3>2
  <2>6. ~(x < h) BY <1>7, <2>4, <2>5
  <2>7. x # h BY <2>4, <2>5
  <2> PICK y \in 1 .. b : y >= 2 /\ x = k + y
      BY ONLY <2>6, <2>7, h = k + 1, x \in 1 .. a, h \in 1 .. a, a \in Nat, b \in 0 .. a, k \in 0 .. a, k = a - b
  <2>8. t[y] = RowsCall(n) BY <1>4
  <2> PICK z \in 1 .. b - 1 : y = z + 1 BY ONLY y \in 1 .. b, y >= 2, b \in 0 .. a, a \in Nat
  <2>9. Len(Tail(t)) = b - 1 /\ Tail(t)[z] = t[z + 1] BY <1>3, <1>9
  <2>10. z \in DOMAIN Tail(t)
    <3>1. Tail(t) \in Seq(ExportCall) BY <1>3, <1>9
    <3> QED BY <2>9, <3>1
  <2>11. Tail(t)[z] = RowsCall(n) BY <2>8, <2>9
  <2> QED BY ONLY <2>10, <2>11 DEF Range
<1> QED BY <1>8, <1>9

\* The calls left before and after the next one is made.
LEMMA CallsLeft ==
    ASSUME NEW n, NEW t, InTurn(t, n, 1, 3), t # <<>>
    PROVE  /\ MayCall(n, Head(t)) /\ Head(t) \in ExportCall /\ Range(t) = {Head(t)} \cup Range(Tail(t))
           /\ Head(t).op = "tensor" => ~Gathered(n, t) /\ TensorCall \notin Range(Tail(t))
           /\ Head(t).op = "rows" => ~Gathered(n, t) /\ Gathered(n, Tail(t))
           /\ Head(t).op = "expert" => Gathered(n, t)
           /\ Head(t).op \notin {"tensor", "rows"} => (Gathered(n, Tail(t)) <=> Gathered(n, t))
<1>1. t \in Seq(ExportCall) BY DEF InTurn
<1> PICK b \in Nat \ {0} : b = Len(t)
  <2>1. Len(t) # 0 BY <1>1
  <2> QED BY <1>1, <2>1
<1>2. 1 \in 1 .. b BY ONLY b \in Nat \ {0}
<1>3. Head(t) = t[1] /\ Range(t) = {Head(t)} \cup Range(Tail(t)) BY <1>1, FromEndFacts
<1>4. MayCall(n, t[1]) /\ t[1] \in ExportCall BY <1>1, <1>2 DEF InTurn
<1>5. ASSUME NEW c \in Range(Tail(t)), Turn(c) # 0, Turn(t[1]) # 0 PROVE Turn(t[1]) < Turn(c) \/ Turn(c) = 3
  <2>1. Tail(t) \in Seq(ExportCall) /\ Len(Tail(t)) = b - 1 /\ \A z \in 1 .. b - 1 : Tail(t)[z] = t[z + 1] BY <1>1
  <2> PICK z \in 1 .. b - 1 : c = Tail(t)[z] BY <1>5, <2>1 DEF Range
  <2> PICK y \in 1 .. b : y = z + 1 /\ 1 < y BY ONLY z \in 1 .. b - 1, b \in Nat \ {0}
  <2>2. c = t[y] BY <2>1
  <2> QED BY <1>2, <1>5, <2>2 DEF InTurn
<1>6. TensorCall.op = "tensor" /\ RowsCall(n).op = "rows" /\ Turn(TensorCall) = 1 /\ Turn(RowsCall(n)) = 2
      BY DEF TensorCall, RowsCall, Call, Turn
<1>7. t[1].op = "tensor" => t[1] = TensorCall BY <1>4 DEF MayCall
<1>8. t[1].op = "rows" => t[1] = RowsCall(n) BY <1>4 DEF MayCall
<1>9. Turn(t[1]) = IF t[1].op = "tensor" THEN 1 ELSE IF t[1].op = "rows" THEN 2 ELSE IF t[1].op = "expert" THEN 3 ELSE 0
      BY DEF Turn
<1>10. ASSUME t[1].op = "tensor" PROVE ~Gathered(n, t) /\ TensorCall \notin Range(Tail(t))
  <2>1. TensorCall \notin Range(Tail(t)) BY <1>5, <1>6, <1>9, <1>10
  <2> QED BY <1>3, <1>7, <1>10, <2>1 DEF Gathered
<1>11. ASSUME t[1].op = "rows" PROVE ~Gathered(n, t) /\ Gathered(n, Tail(t))
  <2>1. TensorCall \notin Range(Tail(t)) /\ RowsCall(n) \notin Range(Tail(t)) BY <1>5, <1>6, <1>9, <1>11
  <2> QED BY <1>3, <1>8, <1>11, <2>1 DEF Gathered
<1>12. ASSUME t[1].op = "expert" PROVE Gathered(n, t)
  <2>1. TensorCall \notin Range(Tail(t)) /\ RowsCall(n) \notin Range(Tail(t)) BY <1>5, <1>6, <1>9, <1>12
  <2>2. t[1] # TensorCall /\ t[1] # RowsCall(n) BY <1>6, <1>12
  <2> QED BY <1>3, <2>1, <2>2 DEF Gathered
<1>13. ASSUME t[1].op \notin {"tensor", "rows"} PROVE Gathered(n, Tail(t)) <=> Gathered(n, t)
  <2>1. t[1] # TensorCall /\ t[1] # RowsCall(n) BY <1>6, <1>13
  <2> QED BY <1>3, <2>1 DEF Gathered
<1> QED BY <1>3, <1>4, <1>10, <1>11, <1>12, <1>13

\* What HoldsAt, GathersAt and ExportsAt say stays what it is.
LEMMA CarriedStays ==
    ASSUME job' = job
    PROVE  /\ \A r, p, a, t, M : HoldsAt(r, p, a, t, M)' <=> HoldsAt(r, p, a, t, M)
           /\ \A r, p, a, t, w : GathersAt(r, p, a, t, w)' <=> GathersAt(r, p, a, t, w)
           /\ \A r, p, a, t, o : ExportsAt(r, p, a, t, o)' <=> ExportsAt(r, p, a, t, o)
           /\ \A r, n : Slice(r, n)' = Slice(r, n) /\ Full(n)' = Full(n)
           /\ Expected' = Expected
<1>1. /\ PerRank' = PerRank
      /\ \A n : Par(n)' = Par(n) /\ Tp(n)' = Tp(n) /\ TpGroup(n)' = TpGroup(n) /\ (Uneven(n)' <=> Uneven(n))
      /\ \A r, n : (Owns(r, n)' <=> Owns(r, n)) /\ TpRank(r, n)' = TpRank(r, n)
      BY GridStays
<1>2. Size' = Size /\ \A r : Names(r)' = Names(r) /\ TaskList(r)' = TaskList(r) BY ListsStay
<1>3. \A n : Full(n)' = Full(n) BY <1>1 DEF Full
<1>4. \A r, n : Slice(r, n)' = Slice(r, n) BY <1>1, <1>3 DEF Slice
<1>5. \A p, a, x, dir : Gone(p, a, x, dir)' <=> Gone(p, a, x, dir) BY DEF Gone
<1>6. \A n, t : Gathered(n, t)' <=> Gathered(n, t) BY <1>1 DEF Gathered, RowsCall, TensorCall
<1>7. \A n : Shards(Par(n), Full(n), Tp(n))' = Shards(Par(n), Full(n), Tp(n)) BY <1>1, <1>3
<1>8. Expected' = Expected BY DEF Expected, AllNumbers
<1>9. \A i : Aliases(i)' = Aliases(i) BY DEF Aliases
<1>10. \A n, key, o : Written(n, key, o)' <=> Written(n, key, o) BY <1>1, <1>9 DEF Written
<1>11. \A n : ToWrite(n)' <=> ToWrite(n) BY <1>1 DEF ToWrite
<1>12. \A o : Correct(o)' <=> Correct(o) BY <1>8 DEF Correct
<1>13. \A r, p, a, t, M : HoldsAt(r, p, a, t, M)' <=> HoldsAt(r, p, a, t, M) BY <1>1, <1>2, <1>4, <1>5 DEF HoldsAt
<1>14. \A r, p, a, t, w : GathersAt(r, p, a, t, w)' <=> GathersAt(r, p, a, t, w) 
  <2> SUFFICES ASSUME NEW r, NEW p, NEW a, NEW t, NEW w PROVE GathersAt(r, p, a, t, w)' <=> GathersAt(r, p, a, t, w)
      OBVIOUS
  <2> PICK n : n = TaskList(r)[a] OBVIOUS
  <2>1. (TaskList(r)[a])' = n BY <1>2
  <2>2. (Uneven(n)' <=> Uneven(n)) /\ (Gathered(n, t)' <=> Gathered(n, t)) /\ Slice(r, n)' = Slice(r, n)
        /\ Shards(Par(n), Full(n), Tp(n))' = Shards(Par(n), Full(n), Tp(n))
        BY <1>1, <1>4, <1>6, <1>7
  <2>3. 1 .. Size' = 1 .. Size BY <1>2
  <2> QED BY <2>1, <2>2, <2>3 DEF GathersAt
<1>15. \A r, p, a, t, o : ExportsAt(r, p, a, t, o)' <=> ExportsAt(r, p, a, t, o)
       BY <1>1, <1>2, <1>3, <1>10, <1>11, <1>12 DEF ExportsAt
<1> QED BY <1>3, <1>4, <1>8, <1>13, <1>14, <1>15

-----------------------------------------------------------------------------
(* The steps.                                                              *)

LEMMA SizeIsNatural == ASSUME JobFacts PROVE Size \in Nat \ {0}
<1>1. 0 \in 0 .. job.pp - 1 /\ 0 \in 0 .. job.stageSize - 1 BY DEF JobFacts
<1>2. \E r \in Ranks : TRUE BY <1>1, RankAt
<1> QED BY <1>2, SameTasks

LEMMA InitCarried == ASSUME JobFacts, ModelFacts, Init PROVE Carried
<1>1. \A r \in Ranks : /\ phase[r] = 1 /\ at[r] = 0 /\ status[r] = "running"
                       /\ mine[r] = <<>> /\ work[r] = <<>> /\ out[r] = <<>>
      BY DEF Init
<1>2. job.plan[1].dir = "import" BY DEF ModelFacts
<1>3. DOMAIN <<>> = {} OBVIOUS
<1>4. DOMAIN job.plan = 1 .. Len(job.plan) /\ Len(job.plan) \in Nat BY PlanIsSequence
<1>5. Size \in Nat BY SizeIsNatural
<1>6. \A x \in 1 .. Size : ~Gone(1, 0, x, "import")
  <2> SUFFICES ASSUME NEW x \in 1 .. Size PROVE ~Gone(1, 0, x, "import") OBVIOUS
  <2>1. ~(x < 0) BY <1>5
  <2>2. \A q \in DOMAIN job.plan : ~(q < 1) BY <1>4
  <2> QED BY <2>1, <2>2 DEF Gone
<1>7. 0 \notin 1 .. Size BY <1>5
<1> SUFFICES ASSUME NEW r \in Ranks
             PROVE  /\ HoldsAt(r, 1, 0, todo[r], <<>>) /\ GathersAt(r, 1, 0, todo[r], <<>>)
                    /\ ExportsAt(r, 1, 0, todo[r], <<>>)
    BY <1>1 DEF Carried
<1>8. HoldsAt(r, 1, 0, todo[r], <<>>) BY <1>3, <1>6, <1>7 DEF HoldsAt
<1>9. GathersAt(r, 1, 0, todo[r], <<>>) BY <1>7 DEF GathersAt
<1>10. ExportsAt(r, 1, 0, todo[r], <<>>) BY <1>2 DEF ExportsAt
<1> QED BY <1>8, <1>9, <1>10

\* A rank at a time.
LEMMA CarriedOn ==
    ASSUME JobFacts, job' = job,
           \A m \in Ranks :
              /\ HoldsAt(m, phase'[m], at'[m], todo'[m], mine'[m])
              /\ GathersAt(m, phase'[m], at'[m], todo'[m], work'[m])
              /\ ExportsAt(m, phase'[m], at'[m], todo'[m], out'[m])
              /\ status'[m] = "raised" => at'[m] \in 1 .. Size
    PROVE  Carried'
<1>1. Ranks' = Ranks BY GridStays
<1>2. Size' = Size BY ListsStay
<1>3. /\ \A r, p, a, t, M : HoldsAt(r, p, a, t, M)' <=> HoldsAt(r, p, a, t, M)
      /\ \A r, p, a, t, w : GathersAt(r, p, a, t, w)' <=> GathersAt(r, p, a, t, w)
      /\ \A r, p, a, t, o : ExportsAt(r, p, a, t, o)' <=> ExportsAt(r, p, a, t, o)
      BY CarriedStays
<1> SUFFICES ASSUME NEW r \in Ranks
             PROVE  /\ HoldsAt(r, phase[r], at[r], todo[r], mine[r])'
                    /\ GathersAt(r, phase[r], at[r], todo[r], work[r])'
                    /\ ExportsAt(r, phase[r], at[r], todo[r], out[r])'
                    /\ status'[r] = "raised" => at'[r] \in 1 .. Size
    BY <1>1, <1>2 DEF Carried
<1> PICK p : p = phase'[r] OBVIOUS
<1>4. HoldsAt(r, phase[r], at[r], todo[r], mine[r])' <=> HoldsAt(r, phase'[r], at'[r], todo'[r], mine'[r]) BY <1>3
<1>5. GathersAt(r, phase[r], at[r], todo[r], work[r])' <=> GathersAt(r, phase'[r], at'[r], todo'[r], work'[r]) BY <1>3
<1>6. ExportsAt(r, phase[r], at[r], todo[r], out[r])' <=> ExportsAt(r, phase'[r], at'[r], todo'[r], out'[r]) BY <1>3
<1> QED BY <1>4, <1>5, <1>6

\* The calls left of a task that is exported.
LEMMA TurnsLeft ==
    ASSUME JobFacts, ModelFacts, IInv, NEW r \in Ranks, Dir(r) = "export", at[r] \in 1 .. Size,
           NEW n, n = TaskList(r)[at[r]]
    PROVE  /\ n \in Names(r) /\ n = Cur(r) /\ Par(n) \in Param /\ BuiltParam(Par(n))
           /\ EndOf(todo[r], Exporting(n, Kept(phase[r]))) /\ InTurn(todo[r], n, 1, 3)
<1>1. Shapes /\ Follows /\ Listing BY DEF IInv
<1>2. n \in Names(r) /\ n = Cur(r) BY <1>1, ListThere
<1>3. Par(n) \in Param /\ BuiltParam(Par(n)) BY <1>2, NamesAre, ShapedAs
<1>4. Size \in Nat \ {0} BY SameTasks
<1>5. at[r] # 0 BY <1>4
<1> PICK s : s = Exporting(n, Kept(phase[r])) OBVIOUS
<1>6. Program(r, phase[r], at[r]) = s BY <1>5 DEF Program, Dir
<1>7. EndOf(todo[r], s) BY <1>1, <1>6 DEF Follows, EndOf
<1>8. InTurn(s, n, 1, 3)
  <2>1. job.pp \in Nat \ {0} /\ Kept(phase[r]) \in BOOLEAN BY DEF JobFacts, Kept
  <2> QED BY <1>3, <2>1, ExportingTurns
<1>9. InTurn(todo[r], n, 1, 3) BY <1>7, <1>8, EndInTurn
<1> QED BY <1>2, <1>3, <1>7, <1>9

\* What a call leaves as it is.
LEMMA CarriedAfterCall ==
    ASSUME JobFacts, ModelFacts, IInv, Carried, NEW m \in Ranks, todo[m] # <<>>
    PROVE  /\ Head(todo[m]).op \notin {"scatter", "bcast"} =>
                HoldsAt(m, phase[m], at[m], Tail(todo[m]), mine[m])
           /\ Head(todo[m]).op \notin {"tensor", "rows"} =>
                GathersAt(m, phase[m], at[m], Tail(todo[m]), work[m])
           /\ Head(todo[m]).op # "expert" =>
                ExportsAt(m, phase[m], at[m], Tail(todo[m]), out[m])
<1> PICK p : p = phase[m] OBVIOUS
<1> PICK a : a = at[m] OBVIOUS
<1> PICK t : t = todo[m] OBVIOUS
<1>1. HoldsAt(m, p, a, t, mine[m]) /\ GathersAt(m, p, a, t, work[m]) /\ ExportsAt(m, p, a, t, out[m])
      BY DEF Carried
<1>2. Shapes /\ Follows BY DEF IInv
<1>3. /\ Head(t).op \in ExportOps => job.plan[p].dir = "export" /\ a \in 1 .. Size
      /\ Head(t).op = "names" => a = 0
      /\ Head(t).op = "embedding" => job.plan[p].dir = "import" /\ a = Size + 1
      /\ Head(t).op \in ExportOps \cup {"names", "scatter", "bcast", "embedding"}
      BY <1>2, CallKind DEF Dir
<1>4. Size \in Nat \ {0} BY SameTasks
<1>5. 0 \notin 1 .. Size /\ Size + 1 \notin 1 .. Size BY ONLY <1>4
<1>6. ASSUME Head(t).op \notin {"scatter", "bcast"} PROVE HoldsAt(m, p, a, Tail(t), mine[m])
  <2>1. ~(job.plan[p].dir = "import" /\ a \in 1 .. Size) BY <1>3, <1>5, <1>6
  <2>2. \A x \in 1 .. Size : ~(job.plan[p].dir = "import" /\ x = a) BY <2>1
  <2> QED BY <1>1, <2>2 DEF HoldsAt
<1>7. CASE job.plan[p].dir = "export" /\ a \in 1 .. Size
  <2> PICK n : n = TaskList(m)[a] OBVIOUS
  <2>1. InTurn(t, n, 1, 3) BY <1>7, TurnsLeft DEF Dir
  <2>2. /\ Range(t) = {Head(t)} \cup Range(Tail(t))
        /\ Head(t).op \notin {"tensor", "rows"} => (Gathered(n, Tail(t)) <=> Gathered(n, t))
        BY <2>1, CallsLeft
  <2>3. Head(t).op \notin {"tensor", "rows"} => GathersAt(m, p, a, Tail(t), work[m])
        BY <1>1, <2>2 DEF GathersAt
  <2>4. ASSUME Head(t).op # "expert" PROVE ExportsAt(m, p, a, Tail(t), out[m])
    <3>1. \A key : Call("ep", "expert", key) \in Range(t) => Call("ep", "expert", key) \in Range(Tail(t))
          BY <2>2, <2>4 DEF Call
    <3> QED BY <1>1, <3>1 DEF ExportsAt
  <2> QED BY <1>6, <2>3, <2>4
<1>8. CASE ~(job.plan[p].dir = "export" /\ a \in 1 .. Size)
  <2>1. GathersAt(m, p, a, Tail(t), work[m]) BY <1>8 DEF GathersAt
  <2>2. ExportsAt(m, p, a, Tail(t), out[m])
    <3>1. \A x \in 1 .. Size : ~(job.plan[p].dir = "export" /\ x = a) BY <1>8
    <3> QED BY <1>1, <3>1 DEF ExportsAt
  <2> QED BY <1>6, <2>1, <2>2
<1> QED BY <1>7, <1>8

\* What holds of a rank after the call it is in.
Carries(m) ==
    /\ HoldsAt(m, phase[m], at[m], Tail(todo[m]), mine'[m])
    /\ GathersAt(m, phase[m], at[m], Tail(todo[m]), work'[m])
    /\ ExportsAt(m, phase[m], at[m], Tail(todo[m]), out'[m])

LEMMA CarriedByCall ==
    ASSUME JobFacts, IInv, Carried, NEW r \in Ranks, NEW ops, Together(r, ops), Over(Group(r)),
           job' = job, phase' = phase, at' = at,
           \A m \in Ranks : status'[m] = "raised" => status[m] = "raised" \/ at[m] \in 1 .. Size,
           \A m \in Ranks : m \notin Group(r) => mine'[m] = mine[m] /\ work'[m] = work[m] /\ out'[m] = out[m],
           \A m \in Group(r) : Carries(m)
    PROVE  Carried'
<1>1. Shapes /\ Follows /\ Listing /\ InStep BY DEF IInv
<1>2. \A m \in Ranks : todo'[m] = IF m \in Group(r) THEN Tail(todo[m]) ELSE todo[m] BY <1>1, CallMade
<1>3. ASSUME NEW m \in Ranks
      PROVE  /\ HoldsAt(m, phase'[m], at'[m], todo'[m], mine'[m])
             /\ GathersAt(m, phase'[m], at'[m], todo'[m], work'[m])
             /\ ExportsAt(m, phase'[m], at'[m], todo'[m], out'[m])
             /\ status'[m] = "raised" => at'[m] \in 1 .. Size
  <2>1. HoldsAt(m, phase[m], at[m], todo[m], mine[m]) /\ GathersAt(m, phase[m], at[m], todo[m], work[m])
        /\ ExportsAt(m, phase[m], at[m], todo[m], out[m]) /\ (status[m] = "raised" => at[m] \in 1 .. Size)
        BY DEF Carried
  <2>2. status'[m] = "raised" => at'[m] \in 1 .. Size BY <2>1
  <2>3. CASE m \in Group(r)
    <3>1. todo'[m] = Tail(todo[m]) BY <1>2, <2>3
    <3>2. Carries(m) BY <2>3
    <3> QED BY <2>2, <3>1, <3>2 DEF Carries
  <2>4. CASE m \notin Group(r)
    <3>1. todo'[m] = todo[m] BY <1>2, <2>4
    <3>2. mine'[m] = mine[m] /\ work'[m] = work[m] /\ out'[m] = out[m] BY <2>4
    <3> QED BY <2>1, <2>2, <3>1, <3>2
  <2> QED BY <2>3, <2>4
<1> QED BY <1>3, CarriedOn

\* Calls that carry no tensor.
LEMMA InquiryCarried ==
    ASSUME JobFacts, ModelFacts, IInv, Carried, NEW r \in Ranks, NEW ops, Together(r, ops), Over(Group(r)),
           job' = job, phase' = phase, at' = at, mine' = mine, work' = work, out' = out,
           Head(todo[r]).op \notin {"scatter", "bcast", "tensor", "rows", "expert"},
           \A m \in Ranks : status'[m] = "raised" => status[m] = "raised" \/ at[m] \in 1 .. Size
    PROVE  Carried'
<1>1. Shapes /\ Follows /\ Listing /\ InStep BY DEF IInv
<1>2. ASSUME NEW m \in Group(r) PROVE Carries(m)
  <2>1. m \in Ranks /\ todo[m] # <<>> /\ Head(todo[m]) = Head(todo[r]) BY <1>1, Callers
  <2> QED BY <2>1, CarriedAfterCall DEF Carries
<1> QED BY <1>2, CarriedByCall

LEMMA SurveyCarried == ASSUME JobFacts, ModelFacts, IInv, Carried, NEW r \in Ranks, Survey(r) PROVE Carried'
<1> DEFINE op == Head(todo[r]).op
           raises == op # "names" /\ \A m \in Group(r) : ~Owns(m, Cur(m))
<1>1. Shapes /\ Follows /\ Listing /\ InStep BY DEF IInv
<1>2. /\ Together(r, {"names", "flags", "spec"}) /\ Over(Group(r)) /\ job' = job /\ phase' = phase /\ at' = at
      /\ mine' = mine /\ work' = work /\ out' = out
      /\ status' = IF raises THEN Merged([m \in Group(r) |-> "raised"], status) ELSE status
      BY DEF Survey
<1>3. todo[r] # <<>> /\ op \in {"names", "flags", "spec"} BY <1>2 DEF Together
<1>4. ASSUME NEW m \in Ranks, status'[m] = "raised" PROVE status[m] = "raised" \/ at[m] \in 1 .. Size
  <2>1. CASE ~raises BY <1>2, <1>4, <2>1
  <2>2. CASE raises
    <3>1. at[r] \in 1 .. Size BY <1>1, <1>3, <2>2, CallKind DEF ExportOps, PipelineOps
    <3>2. Group(r) \subseteq Ranks BY <1>1, <1>2, Callers
    <3>3. status = [k \in Ranks |-> status[k]] BY <1>1 DEF Shapes
    <3> PICK f : f = [k \in Group(r) |-> "raised"] OBVIOUS
    <3>4. DOMAIN f = Group(r) BY DEF Group
    <3>5. status'[m] = IF m \in DOMAIN f THEN f[m] ELSE status[m]
      <4>1. status' = Merged(f, status) BY <1>2, <2>2
      <4> QED BY <3>2, <3>3, <3>4, <4>1, MergedOn
    <3>6. CASE m \in Group(r) BY <1>1, <1>2, <3>1, <3>6, Callers
    <3>7. CASE m \notin Group(r) BY <1>4, <3>4, <3>5, <3>7
    <3> QED BY <3>6, <3>7
  <2> QED BY <2>1, <2>2
<1>5. op \notin {"scatter", "bcast", "tensor", "rows", "expert"} BY <1>3
<1> QED BY <1>2, <1>4, <1>5, InquiryCarried

LEMMA ObjectCarried == ASSUME JobFacts, ModelFacts, IInv, Carried, NEW r \in Ranks, Object(r) PROVE Carried'
<1>1. /\ Together(r, {"object"}) /\ Over(Group(r)) /\ job' = job /\ phase' = phase /\ at' = at
      /\ mine' = mine /\ work' = work /\ out' = out /\ status' = status
      BY DEF Object, where
<1>2. Head(todo[r]).op \notin {"scatter", "bcast", "tensor", "rows", "expert"} BY <1>1 DEF Together
<1> QED BY <1>1, <1>2, InquiryCarried

LEMMA EmbeddingCarried == ASSUME JobFacts, ModelFacts, IInv, Carried, NEW r \in Ranks, ShareEmbedding(r) PROVE Carried'
<1>1. /\ Together(r, {"embedding"}) /\ Over(Group(r)) /\ job' = job /\ phase' = phase /\ at' = at
      /\ mine' = mine /\ work' = work /\ out' = out /\ status' = status
      BY DEF ShareEmbedding, where
<1>2. Head(todo[r]).op \notin {"scatter", "bcast", "tensor", "rows", "expert"} BY <1>1 DEF Together
<1> QED BY <1>1, <1>2, InquiryCarried

\* The rows call is in a program if the tensor is spread over ranks.
LEMMA RowsThere ==
    ASSUME JobFacts, ModelFacts, IInv, NEW r \in Ranks, Dir(r) = "export", at[r] \in 1 .. Size,
           NEW n, n = TaskList(r)[at[r]], n.i \notin job.missing,
           RowsCall(n) \notin Range(Exporting(n, Kept(phase[r])))
    PROVE  Shards(Par(n), Full(n), Tp(n)) = <<Slice(r, n)>>
<1>1. Par(n) \in Param /\ BuiltParam(Par(n)) BY TurnsLeft
<1>2. job.pp \in Nat \ {0} /\ Kept(phase[r]) \in BOOLEAN BY DEF JobFacts, Kept
<1>3. Tp(n) = 1 \/ Whole(Par(n)) BY <1>1, <1>2, ExportingTurns
<1> QED BY <1>3, OneSlice

LEMMA TensorCarried == ASSUME JobFacts, ModelFacts, IInv, Carried, NEW r \in Ranks, Tensor(r) PROVE Carried'
<1> PICK src : src = CHOOSE m \in Group(r) : Owns(m, Cur(m)) OBVIOUS
<1>1. Shapes /\ Follows /\ Listing /\ InStep /\ Noticed /\ Working BY DEF IInv
<1>2. /\ Together(r, {"tensor"}) /\ Over(Group(r)) /\ job' = job /\ phase' = phase /\ at' = at /\ status' = status
      /\ mine' = mine /\ out' = out /\ work' = Merged([m \in Group(r) |-> work[src]], work)
      BY DEF Tensor, where
<1>3. todo[r] # <<>> /\ Head(todo[r]).op = "tensor" BY <1>2 DEF Together
<1>4. Group(r) \subseteq Ranks BY <1>1, <1>2, Callers
<1>5. Dir(r) = "export" /\ at[r] \in 1 .. Size /\ Head(todo[r]) \in ExportCall
      BY <1>1, <1>3, CallKind DEF ExportOps, PipelineOps
<1>6. Head(todo[r]).group = "pp" BY <1>3, <1>5 DEF ExportCall, PipelineOps
<1>7. Cur(r).i \notin job.missing
  <2>1. Head(todo[r]).op \in ExportOps \ {"flags", "spec"} BY <1>3 DEF ExportOps, PipelineOps
  <2> QED BY <1>1, <1>2, <2>1, NotMissing
<1>8. src \in Group(r) /\ Owns(src, Cur(src)) BY <1>1, <1>2, <1>5, <1>6, <1>7, OwnerAmong
<1>9. \A m \in Ranks : work'[m] = IF m \in Group(r) THEN work[src] ELSE work[m]
  <2>1. work = [m \in Ranks |-> work[m]] BY <1>1 DEF Shapes
  <2>2. PICK f : f = [m \in Group(r) |-> work[src]] OBVIOUS
  <2>3. DOMAIN f = Group(r) /\ \A m \in Group(r) : f[m] = work[src] BY <2>2
  <2>4. work' = Merged(f, work) BY <1>2, <2>2
  <2>5. \A m \in Ranks : Merged(f, work)[m] = IF m \in DOMAIN f THEN f[m] ELSE work[m]
        BY <1>4, <2>1, <2>3, MergedOn
  <2> QED BY <2>3, <2>4, <2>5
<1> PICK n : n = TaskList(r)[at[r]] OBVIOUS
<1>10. n = Cur(r) BY <1>5, TurnsLeft
\* Everyone of the group is at this task, with the same shard of it.
<1>11. ASSUME NEW m \in Group(r)
       PROVE  /\ m \in Ranks /\ todo[m] # <<>> /\ Head(todo[m]).op = "tensor" /\ Dir(m) = "export"
              /\ at[m] = at[r] /\ phase[m] = phase[r] /\ TaskList(m)[at[m]] = n /\ Cur(m) = n /\ Slice(m, n) = Slice(r, n)
  <2>1. /\ m \in Ranks /\ todo[m] # <<>> /\ Head(todo[m]) = Head(todo[r])
        /\ phase[m] = phase[r] /\ at[m] = at[r] /\ Cur(m) = TaskList(m)[at[m]]
        BY <1>1, <1>2, <1>5, Callers
  <2>2. m \in Members(r, "pp") BY <1>6 DEF Group
  <2>3. TaskList(m) = TaskList(r) /\ Slice(m, n) = Slice(r, n) BY <2>2, StagesTask
  <2>4. Dir(m) = "export" BY <1>5, <2>1 DEF Dir
  <2> QED BY <1>3, <2>1, <2>3, <2>4
<1>12. work[src] = <<Slice(r, n)>> /\ ~Uneven(n)
  <2>1. WorksAt(src, phase[src], at[src], todo[src], work[src]) BY <1>1, <1>8, <1>11 DEF Working
  <2>2. work[src] # <<>> BY <1>5, <1>7, <1>8, <1>10, <1>11, <2>1 DEF WorksAt, Dir
  <2>3. InTurn(todo[src], n, 1, 3) BY <1>5, <1>8, <1>11, TurnsLeft
  <2>4. ~Gathered(n, todo[src]) BY <1>8, <1>11, <2>3, CallsLeft
  <2>5. GathersAt(src, phase[src], at[src], todo[src], work[src]) BY <1>8, <1>11 DEF Carried
  <2>6. work[src] \in {<<>>, <<Slice(src, n)>>} /\ ~Uneven(n)
        BY <1>5, <1>7, <1>8, <1>10, <1>11, <2>2, <2>4, <2>5 DEF GathersAt, Dir
  <2> QED BY <1>8, <1>11, <2>2, <2>6
<1>13. ASSUME NEW m \in Group(r) PROVE Carries(m)
  <2>1. /\ m \in Ranks /\ todo[m] # <<>> /\ Head(todo[m]).op = "tensor" /\ Dir(m) = "export"
        /\ at[m] \in 1 .. Size /\ TaskList(m)[at[m]] = n /\ Slice(m, n) = Slice(r, n)
        BY <1>5, <1>11
  <2>2. HoldsAt(m, phase[m], at[m], Tail(todo[m]), mine'[m]) /\ ExportsAt(m, phase[m], at[m], Tail(todo[m]), out'[m])
        BY <1>2, <2>1, CarriedAfterCall
  <2>3. work'[m] = <<Slice(m, n)>> BY <1>9, <1>12, <2>1
  <2>4. EndOf(todo[m], Exporting(n, Kept(phase[m]))) /\ InTurn(todo[m], n, 1, 3) /\ Par(n) \in Param /\ BuiltParam(Par(n))
        BY <2>1, TurnsLeft
  <2>5. ASSUME Gathered(n, Tail(todo[m])) PROVE Shards(Par(n), Full(n), Tp(n)) = <<Slice(m, n)>>
    <3> PICK s : s = Exporting(n, Kept(phase[m])) OBVIOUS
    <3>1. InTurn(s, n, 1, 3)
      <4>1. job.pp \in Nat \ {0} /\ Kept(phase[m]) \in BOOLEAN BY DEF JobFacts, Kept
      <4> QED BY <2>4, <4>1, ExportingTurns
    <3>2. RowsCall(n) \notin Range(Tail(todo[m])) BY <2>5 DEF Gathered
    <3>3. RowsCall(n) \notin Range(s) BY <2>1, <2>4, <3>1, <3>2, EndInTurn
    <3> QED BY <1>7, <1>10, <2>1, <3>3, RowsThere
  <2>6. GathersAt(m, phase[m], at[m], Tail(todo[m]), work'[m])
        BY <1>12, <2>1, <2>3, <2>5 DEF GathersAt
  <2> QED BY <2>2, <2>6 DEF Carries
<1>14. \A m \in Ranks : m \notin Group(r) => work'[m] = work[m] BY <1>9
<1> QED BY <1>2, <1>13, <1>14, CarriedByCall

LEMMA TpGatherCarried == ASSUME JobFacts, ModelFacts, IInv, Carried, NEW r \in Ranks, TpGather(r) PROVE Carried'
<1> DEFINE peer(i) == CHOOSE m \in Group(r) : TpRank(m, Cur(r)) = i - 1
<1> PICK s : s = [i \in 1 .. Tp(Cur(r)) |-> work[peer(i)][1]] OBVIOUS
<1>1. Shapes /\ Follows /\ Listing /\ InStep /\ Noticed /\ Working BY DEF IInv
<1>2. /\ Together(r, {"part", "rows"}) /\ Over(Group(r)) /\ job' = job /\ phase' = phase /\ at' = at
      /\ status' = status /\ mine' = mine /\ out' = out
      /\ work' = IF Head(todo[r]).op = "part" THEN work ELSE Merged([m \in Group(r) |-> s], work)
      BY DEF TpGather, where
<1>3. todo[r] # <<>> /\ Head(todo[r]).op \in {"part", "rows"} BY <1>2 DEF Together
<1>4. CASE Head(todo[r]).op = "part"
  <2>1. work' = work BY <1>2, <1>4
  <2>2. Head(todo[r]).op \notin {"scatter", "bcast", "tensor", "rows", "expert"} BY <1>4
  <2> QED BY <1>2, <2>1, <2>2, InquiryCarried
<1>5. CASE Head(todo[r]).op = "rows"
  <2>1. Group(r) \subseteq Ranks BY <1>1, <1>2, Callers
  <2>2. Dir(r) = "export" /\ at[r] \in 1 .. Size BY <1>1, <1>3, <1>5, CallKind DEF ExportOps, PipelineOps
  <2> PICK n : n = TaskList(r)[at[r]] OBVIOUS
  <2>3. n = Cur(r) /\ InTurn(todo[r], n, 1, 3) BY <2>2, TurnsLeft
  <2>4. n.i \notin job.missing
    <3>1. Head(todo[r]).op \in ExportOps \ {"flags", "spec"} BY <1>5 DEF ExportOps, PipelineOps
    <3> QED BY <1>1, <1>2, <2>3, <3>1, NotMissing
  <2>5. Head(todo[r]) = RowsCall(n) /\ ~Whole(Par(n))
    <3>1. MayCall(n, Head(todo[r])) BY <1>3, <2>3, CallsLeft
    <3> QED BY <1>5, <3>1 DEF MayCall
  <2>6. Group(r) = Members(r, TpGroup(n))
    <3> PICK g : g = TpGroup(n) OBVIOUS
    <3>1. RowsCall(n).group = g BY DEF RowsCall, Call
    <3> QED BY <2>5, <3>1 DEF Group
  <2>7. \A m \in Ranks : work'[m] = IF m \in Group(r) THEN s ELSE work[m]
    <3>1. work = [m \in Ranks |-> work[m]] BY <1>1 DEF Shapes
    <3>2. PICK f : f = [m \in Group(r) |-> s] OBVIOUS
    <3>3. DOMAIN f = Group(r) /\ \A m \in Group(r) : f[m] = s BY <3>2
    <3>4. work' = Merged(f, work) BY <1>2, <1>5, <3>2
    <3>5. \A m \in Ranks : Merged(f, work)[m] = IF m \in DOMAIN f THEN f[m] ELSE work[m]
          BY <2>1, <3>1, <3>3, MergedOn
    <3> QED BY <3>3, <3>4, <3>5
\* Every rank of the group still has its own shard alone.
  <2>8. ASSUME NEW m \in Group(r)
        PROVE  /\ m \in Ranks /\ todo[m] # <<>> /\ Head(todo[m]).op = "rows" /\ Dir(m) = "export"
               /\ at[m] \in 1 .. Size /\ TaskList(m)[at[m]] = n /\ InTurn(todo[m], n, 1, 3)
               /\ work[m] = <<Slice(m, n)>> /\ ~Uneven(n)
    <3>1. /\ m \in Ranks /\ todo[m] # <<>> /\ Head(todo[m]) = Head(todo[r])
          /\ phase[m] = phase[r] /\ at[m] = at[r]
          BY <1>1, <1>2, <2>2, Callers
    <3>2. TaskList(m)[at[m]] = n BY <2>2, <2>6, <3>1, MatesTask
    <3>3. Dir(m) = "export" BY <2>2, <3>1 DEF Dir
    <3>4. InTurn(todo[m], n, 1, 3) BY <2>2, <3>1, <3>2, <3>3, TurnsLeft
    <3>5. ~Gathered(n, todo[m]) /\ Gathered(n, Tail(todo[m])) /\ Range(todo[m]) = {Head(todo[m])} \cup Range(Tail(todo[m]))
          BY <1>5, <3>1, <3>4, CallsLeft
    <3>6. TensorCall \notin Range(todo[m])
      <4>1. TensorCall.op = "tensor" BY DEF TensorCall, Call
      <4>2. Head(todo[m]) # TensorCall BY <1>5, <3>1, <4>1
      <4> QED BY <3>5, <4>2 DEF Gathered
    <3>7. WorksAt(m, phase[m], at[m], todo[m], work[m]) BY <1>1, <3>1 DEF Working
    <3>8. work[m] # <<>> BY <2>2, <2>4, <3>1, <3>2, <3>3, <3>6, <3>7 DEF WorksAt, Dir
    <3>9. GathersAt(m, phase[m], at[m], todo[m], work[m]) BY <3>1 DEF Carried
    <3>10. work[m] \in {<<>>, <<Slice(m, n)>>} /\ ~Uneven(n)
           BY <2>2, <2>4, <3>1, <3>2, <3>3, <3>5, <3>8, <3>9 DEF GathersAt, Dir
    <3> QED BY <1>5, <2>2, <3>1, <3>2, <3>3, <3>4, <3>8, <3>10
  <2>9. s = Shards(Par(n), Full(n), Tp(n))
    <3> PICK p : p = Par(n) OBVIOUS
    <3> PICK hf : hf = Full(n) OBVIOUS
    <3> PICK size \in Nat \ {0} : size = Tp(n) BY TpIsPositive
    <3>1. ASSUME NEW i \in 1 .. size PROVE work[peer(i)][1] = Shard(p, hf, size, i - 1)
      <4> PICK j \in 0 .. size - 1 : j = i - 1 BY ONLY i \in 1 .. size, size \in Nat \ {0}
      <4>1. \E m \in Group(r) : TpRank(m, n) = j BY <2>6, Peers
      <4> PICK m : m = peer(i) OBVIOUS
      <4>2. m \in Group(r) /\ TpRank(m, n) = j BY <2>3, <4>1
      <4>3. work[m] = <<Slice(m, n)>> BY <2>8, <4>2
      <4>4. Slice(m, n) = Shard(p, hf, size, j) BY <4>2 DEF Slice
      <4> QED BY <4>3, <4>4
    <3>2. s = [i \in 1 .. size |-> work[peer(i)][1]] BY <2>3
    <3> HIDE DEF peer
    <3>3. s = [i \in 1 .. size |-> Shard(p, hf, size, i - 1)] BY <3>1, <3>2
    <3>4. Shards(p, hf, size) = [i \in 1 .. size |-> Shard(p, hf, size, i - 1)] BY <2>5 DEF Shards
    <3> QED BY <3>3, <3>4
  <2>10. ASSUME NEW m \in Group(r) PROVE Carries(m)
    <3>1. HoldsAt(m, phase[m], at[m], Tail(todo[m]), mine'[m]) /\ ExportsAt(m, phase[m], at[m], Tail(todo[m]), out'[m])
          BY <1>2, <2>8, CarriedAfterCall
    <3>2. Gathered(n, Tail(todo[m])) BY <2>8, CallsLeft
    <3>3. work'[m] = Shards(Par(n), Full(n), Tp(n)) BY <2>7, <2>8, <2>9
    <3>4. GathersAt(m, phase[m], at[m], Tail(todo[m]), work'[m]) BY <2>8, <3>2, <3>3 DEF GathersAt
    <3> QED BY <3>1, <3>4 DEF Carries
  <2>11. \A m \in Ranks : m \notin Group(r) => work'[m] = work[m] BY <2>7
  <2> QED BY <1>2, <2>10, <2>11, CarriedByCall
<1> QED BY <1>3, <1>4, <1>5

\* A scatter or a broadcast is that of the tensor parallel group.
LEMMA ScatterGroup ==
    ASSUME JobFacts, IInv, NEW r \in Ranks, todo[r] # <<>>, Head(todo[r]).op \in {"scatter", "bcast"},
           NEW n, n = TaskList(r)[at[r]]
    PROVE  Group(r) = Members(r, TpGroup(n))
<1>1. Shapes /\ Follows BY DEF IInv
<1>2. Dir(r) = "import" /\ at[r] \in 1 .. Size BY <1>1, CallKind
<1>3. Size \in Nat \ {0} BY SameTasks
<1>4. at[r] # 0 BY <1>2, <1>3
<1>5. Program(r, phase[r], at[r]) = ImportCalls(r, n) BY <1>2, <1>4 DEF Program, Dir
<1>6. Head(todo[r]) \in Range(ImportCalls(r, n))
  <2>1. todo[r] \in Seq(Range(ImportCalls(r, n))) BY <1>1, <1>5 DEF Follows
  <2> QED BY <2>1
<1> PICK op : op = IF Par(n).kind = "replicated" THEN "bcast" ELSE "scatter" OBVIOUS
<1> PICK c : c = Call(TpGroup(n), op, "") OBVIOUS
<1>7. ImportCalls(r, n) = <<>> \/ ImportCalls(r, n) = <<c>> BY DEF ImportCalls
<1>8. Head(todo[r]) = c
  <2> PICK S : S = {c} OBVIOUS
  <2>1. c \in S OBVIOUS
  <2>2. <<>> \in Seq(S) BY ONLY <2>1
  <2>3. <<c>> \in Seq(S) BY ONLY <2>1
  <2>4. ImportCalls(r, n) \in Seq(S) BY <1>7, <2>2, <2>3
  <2>5. Range(ImportCalls(r, n)) \subseteq S BY ONLY <2>4 DEF Range
  <2> QED BY <1>6, <2>5
<1> PICK g : g = TpGroup(n) OBVIOUS
<1>9. c.group = g BY DEF Call
<1> QED BY <1>8, <1>9 DEF Group

LEMMA ScatterCarried == ASSUME JobFacts, ModelFacts, IInv, Carried, NEW r \in Ranks, TpScatter(r) PROVE Carried'
<1> PICK root : root = CHOOSE m \in Group(r) : TpRank(m, Cur(m)) = 0 OBVIOUS
<1> DEFINE n == Cur(root)
           shard(m) == Shard(Par(n), HF(Par(n), n.g), Tp(n), TpRank(m, n))
<1>1. Shapes /\ Follows /\ Listing /\ InStep /\ Passed BY DEF IInv
<1>2. /\ Together(r, {"scatter", "bcast"}) /\ Over(Group(r)) /\ job' = job /\ phase' = phase /\ at' = at
      /\ status' = status /\ work' = work /\ out' = out
      /\ mine' = Merged([m \in Group(r) |-> Merged([x \in {Cur(m)} |-> shard(m)], mine[m])], mine)
      BY DEF TpScatter, where
<1>3. todo[r] # <<>> /\ Head(todo[r]).op \in {"scatter", "bcast"} BY <1>2 DEF Together
<1>4. Group(r) \subseteq Ranks BY <1>1, <1>2, Callers
<1>5. Dir(r) = "import" /\ at[r] \in 1 .. Size BY <1>1, <1>3, CallKind
<1> PICK c : c = TaskList(r)[at[r]] OBVIOUS
<1>6. Group(r) = Members(r, TpGroup(c)) BY <1>3, ScatterGroup
\* Everyone of the group owns this task and is at it.
<1>7. ASSUME NEW m \in Group(r)
      PROVE  /\ m \in Ranks /\ todo[m] # <<>> /\ Head(todo[m]) = Head(todo[r]) /\ status[m] = "running"
             /\ Dir(m) = "import" /\ at[m] = at[r] /\ TaskList(m)[at[m]] = c /\ Cur(m) = c /\ Owns(m, c)
  <2>1. /\ m \in Ranks /\ todo[m] # <<>> /\ Head(todo[m]) = Head(todo[r]) /\ status[m] = "running"
        /\ phase[m] = phase[r] /\ at[m] = at[r] /\ Cur(m) = TaskList(m)[at[m]]
        BY <1>1, <1>2, <1>5, Callers
  <2>2. TaskList(m)[at[m]] = c BY <1>5, <1>6, <2>1, MatesTask
  <2>3. Owns(m, c) BY <1>1, <1>3, <2>1, <2>2, CallKind
  <2> QED BY <1>5, <2>1, <2>2, <2>3 DEF Dir
<1>8. root \in Group(r) /\ TpRank(root, c) = 0
  <2>1. Tp(c) \in Nat \ {0} BY TpIsPositive
  <2>2. 0 \in 0 .. Tp(c) - 1 BY ONLY <2>1
  <2>3. \E m \in Group(r) : TpRank(m, c) = 0 BY <1>6, <2>2, Peers
  <2>4. \E m \in Group(r) : TpRank(m, Cur(m)) = 0 BY <1>7, <2>3
  <2>5. root \in Group(r) /\ TpRank(root, Cur(root)) = 0 BY <2>4
  <2> QED BY <1>7, <2>5
<1>9. n = c BY <1>7, <1>8
<1>10. ~Uneven(c)
  <2>1. PassesAt(root, phase[root], at[root], todo[root], status[root]) BY <1>1, <1>7, <1>8 DEF Passed
  <2>2. /\ root \in Ranks /\ status[root] = "running" /\ at[root] \in 1 .. Size /\ TaskList(root)[at[root]] = c
        /\ Owns(root, c) /\ job.plan[phase[root]].dir = "import"
        BY <1>5, <1>7, <1>8 DEF Dir
  <2>3. Begun(phase[root], at[root], at[root], "import")
    <3>1. Size \in Nat \ {0} BY SameTasks
    <3>2. at[root] <= at[root] BY <2>2, <3>1
    <3> QED BY <2>2, <3>2 DEF Begun
  <2> QED BY <1>8, <2>1, <2>2, <2>3 DEF PassesAt
<1>11. \A m \in Ranks : mine'[m] = IF m \in Group(r) THEN Merged([x \in {c} |-> Slice(m, c)], mine[m]) ELSE mine[m]
  <2>1. mine = [m \in Ranks |-> mine[m]] BY <1>1 DEF Shapes
  <2>2. PICK f : f = [m \in Group(r) |-> Merged([x \in {Cur(m)} |-> shard(m)], mine[m])] OBVIOUS
  <2>3. DOMAIN f = Group(r) /\ \A m \in Group(r) : f[m] = Merged([x \in {Cur(m)} |-> shard(m)], mine[m]) BY <2>2
  <2>4. mine' = Merged(f, mine) BY <1>2, <2>2
  <2>5. \A m \in Ranks : Merged(f, mine)[m] = IF m \in DOMAIN f THEN f[m] ELSE mine[m]
        BY <1>4, <2>1, <2>3, MergedOn
  <2>6. \A m \in Group(r) : shard(m) = Slice(m, c) /\ Cur(m) = c BY <1>7, <1>9 DEF Slice, Full
  <2> HIDE DEF shard
  <2>7. \A m \in Group(r) : f[m] = Merged([x \in {c} |-> Slice(m, c)], mine[m])
    <3> SUFFICES ASSUME NEW m \in Group(r) PROVE f[m] = Merged([x \in {c} |-> Slice(m, c)], mine[m]) OBVIOUS
    <3>1. [x \in {Cur(m)} |-> shard(m)] = [x \in {c} |-> Slice(m, c)] BY <2>6
    <3> QED BY <2>3, <3>1
  <2> QED BY <2>3, <2>4, <2>5, <2>7
<1>12. ASSUME NEW m \in Group(r) PROVE Carries(m)
  <2>1. /\ m \in Ranks /\ todo[m] # <<>> /\ Head(todo[m]).op \in {"scatter", "bcast"} /\ at[m] \in 1 .. Size
        /\ TaskList(m)[at[m]] = c /\ job.plan[phase[m]].dir = "import"
        BY <1>3, <1>5, <1>7 DEF Dir
  <2>2. GathersAt(m, phase[m], at[m], Tail(todo[m]), work'[m]) /\ ExportsAt(m, phase[m], at[m], Tail(todo[m]), out'[m])
        BY <1>2, <2>1, CarriedAfterCall
  <2> PICK M : M = mine[m] OBVIOUS
  <2> PICK f : f = [x \in {c} |-> Slice(m, c)] OBVIOUS
  <2>3. DOMAIN f = {c} /\ f[c] = Slice(m, c) BY ONLY f = [x \in {c} |-> Slice(m, c)]
  <2>4. mine'[m] = Merged(f, M) BY <1>11, <2>1
  <2>5. DOMAIN Merged(f, M) = {c} \cup DOMAIN M /\ Merged(f, M)[c] = Slice(m, c)
        /\ \A x \in DOMAIN M : x # c => Merged(f, M)[x] = M[x]
        BY <2>3 DEF Merged
  <2>6. HoldsAt(m, phase[m], at[m], todo[m], M) BY <2>1 DEF Carried
  <2>7. c \in Names(m)
    <3> PICK k \in 1 .. Size : k = at[m] BY <2>1
    <3>1. TaskList(m)[k] \in Names(m) BY <2>1, SameTasks
    <3> QED BY <2>1, <3>1
  <2>8. HoldsAt(m, phase[m], at[m], Tail(todo[m]), Merged(f, M))
    <3>1. \A x \in DOMAIN Merged(f, M) : x \in Names(m) /\ ~Uneven(x) /\ Merged(f, M)[x] = Slice(m, x)
          BY <1>10, <2>5, <2>6, <2>7 DEF HoldsAt
    <3>2. \A x \in 1 .. Size : Owns(m, TaskList(m)[x]) =>
             /\ Gone(phase[m], at[m], x, "import") => TaskList(m)[x] \in DOMAIN Merged(f, M)
             /\ x = at[m] => TaskList(m)[x] \in DOMAIN Merged(f, M)
          BY <2>1, <2>5, <2>6 DEF HoldsAt
    <3> QED BY <3>1, <3>2 DEF HoldsAt
  <2> QED BY <2>2, <2>4, <2>8 DEF Carries
<1>13. \A m \in Ranks : m \notin Group(r) => mine'[m] = mine[m] BY <1>11
<1> QED BY <1>2, <1>12, <1>13, CarriedByCall

-----------------------------------------------------------------------------
(* The tensors the ranks export.                                           *)

\* Tensor key of parameter i and expert g is in the checkpoint.
InCheckpoint(key, i, g) ==
    i \in DOMAIN job.params \ job.missing /\ g \in AllNumbers(job.params[i]) /\ key \in DOMAIN HF(job.params[i], g)

\* The parameter its rows are those of.
Origin(i) ==
    IF job.tied /\ job.params[i].role = "output"
    THEN CHOOSE k \in DOMAIN job.params : job.params[k].role = "embed" ELSE i

LEMMA ExpectedIs ==
    ASSUME JobFacts
    PROVE  /\ \A x \in DOMAIN Expected : \E key, i, g : x = <<key, i, g>> /\ InCheckpoint(key, i, g)
           /\ \A key, i, g : InCheckpoint(key, i, g) =>
                 <<key, i, g>> \in DOMAIN Expected /\ Expected[<<key, i, g>>] = HF(job.params[Origin(i)], g)[key]
           /\ Expected = [x \in DOMAIN Expected |-> Expected[x]]
<1> PICK e \in Nat : e = job.experts BY DEF JobFacts
<1> DEFINE given == {ig \in (DOMAIN job.params \ job.missing) \X (None .. e - 1) : ig[2] \in AllNumbers(job.params[ig[1]])}
           D == {<<key, ig[1], ig[2]>> : key \in TensorKeys, ig \in given} \cap
                UNION {{<<key, ig[1], ig[2]>> : key \in DOMAIN HF(job.params[ig[1]], ig[2])} : ig \in given}
           F(x) == HF(job.params[Origin(x[2])], x[3])[x[1]]
<1>1. Expected = [x \in D |-> F(x)] BY DEF Expected, Origin, TensorKeys
<1>2. \A i, g : <<i, g>> \in given <=> i \in DOMAIN job.params \ job.missing /\ g \in AllNumbers(job.params[i])
  <2> SUFFICES ASSUME NEW i \in DOMAIN job.params, NEW g \in AllNumbers(job.params[i]) PROVE g \in None .. e - 1
      BY DEF given
  <2>1. g = None \/ g \in 0 .. e - 1 BY DEF AllNumbers
  <2> QED BY <2>1 DEF None
<1>3. \A ig \in given : ig = <<ig[1], ig[2]>> BY DEF given
<1>4. ASSUME NEW x \in D PROVE \E key, i, g : x = <<key, i, g>> /\ InCheckpoint(key, i, g)
  <2> PICK ig \in given : x \in {<<key, ig[1], ig[2]>> : key \in DOMAIN HF(job.params[ig[1]], ig[2])} BY <1>4
  <2> PICK key \in DOMAIN HF(job.params[ig[1]], ig[2]) : x = <<key, ig[1], ig[2]>> OBVIOUS
  <2>1. <<ig[1], ig[2]>> \in given BY <1>3
  <2>2. ig[1] \in DOMAIN job.params \ job.missing /\ ig[2] \in AllNumbers(job.params[ig[1]]) BY <1>2, <2>1
  <2>3. InCheckpoint(key, ig[1], ig[2]) BY <2>2 DEF InCheckpoint
  <2> QED BY <2>3
<1>5. ASSUME NEW key, NEW i, NEW g, InCheckpoint(key, i, g)
      PROVE  <<key, i, g>> \in D /\ F(<<key, i, g>>) = HF(job.params[Origin(i)], g)[key]
  <2> PICK ig : ig = <<i, g>> OBVIOUS
  <2>1. ig \in given /\ ig[1] = i /\ ig[2] = g BY <1>2, <1>5 DEF InCheckpoint
  <2>2. key \in DOMAIN HF(job.params[ig[1]], ig[2]) BY <1>5, <2>1 DEF InCheckpoint
  <2>3. key \in TensorKeys
    <3>1. job.params[i] \in Param BY <1>5 DEF InCheckpoint, JobFacts
    <3>2. job.params[i].kind \in Kinds BY <3>1 DEF Param
    <3> QED BY <2>1, <2>2, <3>2, KeysAre
  <2> HIDE DEF given
  <2>4. <<key, ig[1], ig[2]>> \in D BY <2>1, <2>2, <2>3
  <2> QED BY <2>1, <2>4
<1> HIDE DEF D, F
<1>6. DOMAIN Expected = D /\ \A x \in D : Expected[x] = F(x) BY <1>1
<1> QED BY <1>1, <1>4, <1>5, <1>6

\* A tied output layer is in the checkpoint with its embedding, of the same rows.
LEMMA AliasIs ==
    ASSUME JobFacts, ModelFacts, NEW i \in Listed, i \notin job.missing, job.params[i].expert = "no",
           NEW k \in Aliases(i), NEW key \in DOMAIN HF(job.params[i], None)
    PROVE  InCheckpoint(key, k, None) /\ Origin(k) = i
<1>1. i \in DOMAIN job.params /\ ~(job.tied /\ job.params[i].role = "output") BY DEF Listed
<1>2. None \in AllNumbers(job.params[i]) BY DEF AllNumbers
<1>3. CASE k = i BY <1>1, <1>2, <1>3 DEF InCheckpoint, Origin
<1>4. CASE k # i
  <2>1. job.tied /\ job.params[i].role = "embed" /\ k \in DOMAIN job.params /\ job.params[k].role = "output"
        BY <1>4 DEF Aliases
  <2>2. PICK e \in DOMAIN job.params :
          /\ \A x \in DOMAIN job.params : job.params[x].role = "embed" <=> x = e
          /\ \A x \in DOMAIN job.params : job.params[x].role = "output" => (x \in job.missing <=> e \in job.missing)
        BY <2>1 DEF ModelFacts, TiedIn
  <2>3. e = i BY <1>1, <2>1, <2>2
  <2>4. k \notin job.missing BY <2>1, <2>2, <2>3
  <2>5. BuiltParam(job.params[i]) /\ BuiltParam(job.params[k]) BY <1>1, <2>1 DEF ModelFacts
  <2>6. job.params[i].kind \in Direct /\ job.params[k].kind \in Direct /\ job.params[k].expert = "no"
        BY <2>1, <2>5 DEF BuiltParam
  <2>7. key \in DOMAIN HF(job.params[k], None) BY <2>6, KeysAre
  <2>8. None \in AllNumbers(job.params[k]) BY <2>6 DEF AllNumbers
  <2>9. Origin(k) = i BY <2>1, <2>2, <2>3 DEF Origin
  <2> QED BY <2>1, <2>4, <2>7, <2>8, <2>9 DEF InCheckpoint
<1> QED BY <1>3, <1>4

LEMMA StillCorrect ==
    ASSUME NEW o, Correct(o), NEW f, \A x \in DOMAIN f : x \in DOMAIN Expected /\ f[x] = Expected[x]
    PROVE  Correct(Merged(f, o)) /\ DOMAIN Merged(f, o) = DOMAIN f \cup DOMAIN o
<1> PICK u : u = Merged(f, o) OBVIOUS
<1>1. u = [x \in DOMAIN f \cup DOMAIN o |-> IF x \in DOMAIN f THEN f[x] ELSE o[x]] BY DEF Merged
<1>2. DOMAIN u = DOMAIN f \cup DOMAIN o /\ u = [x \in DOMAIN u |-> u[x]] BY ONLY <1>1
<1>3. \A x \in DOMAIN u : u[x] = IF x \in DOMAIN f THEN f[x] ELSE o[x] BY ONLY <1>1
<1>4. \A x \in DOMAIN u : x \in DOMAIN Expected /\ u[x] = Expected[x] BY <1>2, <1>3 DEF Correct
<1> QED BY <1>2, <1>4 DEF Correct

LEMMA StillWritten ==
    ASSUME NEW n, NEW key, NEW o, NEW u, Written(n, key, o), DOMAIN o \subseteq DOMAIN u
    PROVE  Written(n, key, u)
BY DEF Written

\* What an expert parallel rank of group G stores of the tensors t.
Collected(key, n, G, t) ==
    [x \in {<<key, n.i, (n.g % PerRank) + PerRank * Ep(k)>> : k \in G} |->
        LET k == CHOOSE k \in G : Ep(k) = x[3] \div PerRank IN t[k][key]]

LEMMA ExpertsGathered ==
    ASSUME JobFacts, ModelFacts, NEW m \in Ranks, NEW n \in Names(m), Par(n).expert = "grouped", n.i \notin job.missing,
           NEW key \in DOMAIN Full(n), NEW f, NEW t, NEW G, G = Members(m, "ep"),
           \A k \in G : t[k] = Full(Shifted(m, k, n)),
           f = Collected(key, n, G, t)
    PROVE  /\ \A x \in DOMAIN f : x \in DOMAIN Expected /\ f[x] = Expected[x]
           /\ Written(n, key, f)
<1> DEFINE num(k) == (n.g % PerRank) + PerRank * Ep(k)
           D == {<<key, n.i, num(k)>> : k \in G}
           who(x) == CHOOSE k \in G : Ep(k) = x[3] \div PerRank
<1>1. f = [x \in D |-> t[who(x)][key]] BY DEF Collected
<1>2. ASSUME NEW k \in G
      PROVE  /\ k \in Ranks /\ num(k) \div PerRank = Ep(k) /\ num(k) \in 0 .. job.experts - 1
             /\ Shifted(m, k, n) = [i |-> n.i, g |-> num(k)]
  <2>1. k \in Ranks BY DEF Members
  <2> QED BY <2>1, ExpertNumber
<1> HIDE DEF num, who
<1>3. ASSUME NEW k \in G PROVE f[<<key, n.i, num(k)>>] = HF(Par(n), num(k))[key]
  <2> PICK x : x = <<key, n.i, num(k)>> OBVIOUS
  <2>1. x \in D /\ x[3] = num(k) OBVIOUS
  <2>2. who(x) \in G /\ Ep(who(x)) = Ep(k)
    <3>1. Ep(k) = x[3] \div PerRank BY <1>2, <2>1
    <3> QED BY <3>1 DEF who
  <2>3. num(who(x)) = num(k) BY <2>2 DEF num
  <2> PICK s : s = Shifted(m, who(x), n) OBVIOUS
  <2>4. s = [i |-> n.i, g |-> num(k)] BY <1>2, <2>2, <2>3
  <2>5. s.i = n.i /\ s.g = num(k) BY ONLY <2>4
  <2>6. Full(s) = HF(Par(n), num(k)) BY <2>5 DEF Full, Par
  <2>7. t[who(x)] = Full(s) BY <2>2
  <2>8. f[x] = t[who(x)][key] BY <1>1, <2>1
  <2> QED BY <2>6, <2>7, <2>8
<1>4. /\ n.i \in DOMAIN job.params /\ BuiltParam(Par(n)) BY ShapedAs
<1>5. Origin(n.i) = n.i BY <1>4 DEF BuiltParam, Origin, Par
<1>6. Par(n).kind \in Direct \cup {"gated"} BY <1>4 DEF BuiltParam
<1>7. ASSUME NEW k \in G PROVE InCheckpoint(key, n.i, num(k))
  <2>1. key \in DOMAIN HF(Par(n), num(k)) BY <1>6, KeysAre DEF Full
  <2>2. num(k) \in AllNumbers(Par(n)) BY <1>2 DEF AllNumbers
  <2> QED BY <1>4, <2>1, <2>2 DEF InCheckpoint, Par
<1>8. ASSUME NEW x \in D PROVE x \in DOMAIN Expected /\ f[x] = Expected[x]
  <2> PICK k \in G : x = <<key, n.i, num(k)>> OBVIOUS
  <2>1. x \in DOMAIN Expected /\ Expected[x] = HF(job.params[Origin(n.i)], num(k))[key] BY <1>7, ExpectedIs
  <2>2. f[x] = HF(Par(n), num(k))[key] BY <1>3
  <2> QED BY <1>5, <2>1, <2>2 DEF Par
<1>9. DOMAIN f = D BY <1>1
<1>10. Written(n, key, f)
  <2> SUFFICES ASSUME NEW e \in 0 .. job.ep - 1 PROVE <<key, n.i, (n.g % PerRank) + PerRank * e>> \in D
      BY <1>9 DEF Written
  <2> PICK k \in G : Ep(k) = e BY ExpertPeers
  <2>1. num(k) = (n.g % PerRank) + PerRank * e BY DEF num
  <2> QED BY <2>1
<1> QED BY <1>8, <1>9, <1>10

LEMMA EpGatherCarried == ASSUME JobFacts, ModelFacts, IInv, Carried, NEW r \in Ranks, EpGather(r) PROVE Carried'
<1> DEFINE named(m) == [x \in {<<Head(todo[r]).what, Cur(m).i, (Cur(m).g % PerRank) + PerRank * Ep(k)>> : k \in Group(r)} |->
                          LET k == CHOOSE k \in Group(r) : Ep(k) = x[3] \div PerRank
                          IN Joined(Par(Cur(k)), work[k])[Head(todo[r]).what]]
<1>1. Shapes /\ Follows /\ Listing /\ InStep /\ Noticed /\ Working BY DEF IInv
<1>2. /\ Together(r, {"expert"}) /\ Over(Group(r)) /\ job' = job /\ phase' = phase /\ at' = at
      /\ status' = status /\ mine' = mine /\ work' = work
      /\ out' = Merged([m \in Group(r) |-> Merged(named(m), out[m])], out)
      BY DEF EpGather, where
<1>3. todo[r] # <<>> /\ Head(todo[r]).op = "expert" BY <1>2 DEF Together
<1>4. Group(r) \subseteq Ranks BY <1>1, <1>2, Callers
<1>5. Dir(r) = "export" /\ at[r] \in 1 .. Size BY <1>1, <1>3, CallKind DEF ExportOps
<1>6. Cur(r).i \notin job.missing
  <2>1. Head(todo[r]).op \in ExportOps \ {"flags", "spec"} BY <1>3 DEF ExportOps, PipelineOps
  <2> QED BY <1>1, <1>2, <2>1, NotMissing
<1> PICK key : key = Head(todo[r]).what OBVIOUS
<1>7. /\ Par(Cur(r)).expert = "grouped" /\ Head(todo[r]) = Call("ep", "expert", key) /\ Group(r) = Members(r, "ep")
  <2>1. InTurn(todo[r], Cur(r), 1, 3) BY <1>5, TurnsLeft
  <2>2. MayCall(Cur(r), Head(todo[r])) BY <1>3, <2>1, CallsLeft
  <2>3. Par(Cur(r)).expert = "grouped" /\ Head(todo[r]) = Call("ep", "expert", key) BY <1>3, <2>2 DEF MayCall
  <2>4. Head(todo[r]).group = "ep" BY <2>3 DEF Call
  <2> QED BY <2>3, <2>4 DEF Group
\* Every rank of the group has all of its own expert's tensor.
<1>8. ASSUME NEW m \in Group(r)
      PROVE  /\ m \in Ranks /\ todo[m] # <<>> /\ Head(todo[m]) = Head(todo[r]) /\ Dir(m) = "export"
             /\ at[m] = at[r] /\ at[m] \in 1 .. Size /\ Cur(m) = TaskList(m)[at[m]] /\ Cur(m) \in Names(m)
             /\ InTurn(todo[m], Cur(m), 1, 3) /\ Group(r) = Members(m, "ep")
             /\ Cur(m).i \notin job.missing /\ Par(Cur(m)).expert = "grouped" /\ key \in DOMAIN Full(Cur(m))
             /\ Joined(Par(Cur(m)), work[m]) = Full(Cur(m))
  <2>1. /\ m \in Ranks /\ todo[m] # <<>> /\ Head(todo[m]) = Head(todo[r]) /\ Group(m) = Group(r)
        /\ phase[m] = phase[r] /\ at[m] = at[r] /\ Cur(m) = TaskList(m)[at[m]] /\ Cur(m) \in Names(m) /\ Cur(m).i = Cur(r).i
        BY <1>1, <1>2, <1>5, Callers
  <2>2. Dir(m) = "export" BY <1>5, <2>1 DEF Dir
  <2>3. InTurn(todo[m], Cur(m), 1, 3) BY <1>5, <2>1, <2>2, TurnsLeft
  <2>4. MayCall(Cur(m), Head(todo[m])) /\ Gathered(Cur(m), todo[m]) BY <1>3, <2>1, <2>3, CallsLeft
  <2>5. Par(Cur(m)).expert = "grouped" /\ key \in DOMAIN Full(Cur(m)) BY <1>3, <2>1, <2>4 DEF MayCall
  <2>6. Group(r) = Members(m, "ep")
    <3>1. Head(todo[m]).group = "ep" BY <1>7, <2>1 DEF Call
    <3> QED BY <2>1, <3>1 DEF Group
  <2>7. GathersAt(m, phase[m], at[m], todo[m], work[m]) BY <2>1 DEF Carried
  <2>8. WorksAt(m, phase[m], at[m], todo[m], work[m]) BY <1>1, <2>1 DEF Working
  <2>9. work[m] # <<>> BY <1>5, <1>6, <2>1, <2>2, <2>4, <2>8 DEF WorksAt, Gathered, Dir
  <2>10. work[m] = Shards(Par(Cur(m)), Full(Cur(m)), Tp(Cur(m))) /\ ~Uneven(Cur(m))
         BY <1>5, <1>6, <2>1, <2>2, <2>4, <2>7, <2>9 DEF GathersAt, Dir
  <2>11. Joined(Par(Cur(m)), work[m]) = Full(Cur(m)) BY <2>1, <2>10, SlicesJoin
  <2> QED BY <1>5, <1>6, <2>1, <2>2, <2>3, <2>5, <2>6, <2>11
<1>9. ASSUME NEW m \in Group(r)
      PROVE  /\ \A x \in DOMAIN named(m) : x \in DOMAIN Expected /\ named(m)[x] = Expected[x]
             /\ Written(Cur(m), key, named(m))
  <2> PICK G : G = Group(r) OBVIOUS
  <2> PICK n : n = Cur(m) OBVIOUS
  <2> PICK f : f = named(m) OBVIOUS
  <2> PICK t : t = [k \in G |-> Joined(Par(Cur(k)), work[k])] OBVIOUS
  <2>1. \A k \in G : t[k] = Joined(Par(Cur(k)), work[k]) OBVIOUS
  <2>2. ASSUME NEW k \in G PROVE t[k] = Full(Shifted(m, k, n))
    <3>1. /\ k \in Ranks /\ m \in Ranks /\ at[k] = at[m] /\ at[m] \in 1 .. Size
          /\ Cur(k) = TaskList(k)[at[k]] /\ n = TaskList(m)[at[m]]
          BY <1>8
    <3>2. Cur(k) = Shifted(m, k, n)
      <4> PICK a \in 1 .. Size : a = at[m] BY <3>1
      <4>1. \A j \in 1 .. Size : TaskList(k)[j] = Shifted(m, k, TaskList(m)[j])
        <5>1. m \in Ranks /\ k \in Ranks BY <3>1
        <5> QED BY <5>1, SameTasks
      <4> QED BY <3>1, <4>1
    <3> QED BY <1>8, <2>1, <3>2
  <2>3. f = Collected(key, n, G, t)
    <3> DEFINE D == {<<key, n.i, (n.g % PerRank) + PerRank * Ep(k)>> : k \in G}
    <3>1. ASSUME NEW x \in D
          PROVE  Joined(Par(Cur(CHOOSE k \in G : Ep(k) = x[3] \div PerRank)), work[CHOOSE k \in G : Ep(k) = x[3] \div PerRank])
                    = t[CHOOSE k \in G : Ep(k) = x[3] \div PerRank]
      <4> PICK k \in G : x = <<key, n.i, (n.g % PerRank) + PerRank * Ep(k)>> OBVIOUS
      <4>1. ((n.g % PerRank) + PerRank * Ep(k)) \div PerRank = Ep(k)
        <5>1. m \in Ranks /\ k \in Ranks /\ n \in Names(m) /\ Par(n).expert = "grouped" BY <1>8
        <5> QED BY <5>1, ExpertNumber
      <4>2. Ep(k) = x[3] \div PerRank BY <4>1
      <4>3. (CHOOSE j \in G : Ep(j) = x[3] \div PerRank) \in G BY <4>2
      <4> QED BY <2>1, <4>3
    <3>2. f = [x \in D |-> LET k == CHOOSE k \in G : Ep(k) = x[3] \div PerRank IN Joined(Par(Cur(k)), work[k])[key]]
          OBVIOUS
    <3> HIDE DEF D, named
    <3>3. f = [x \in D |-> LET k == CHOOSE k \in G : Ep(k) = x[3] \div PerRank IN t[k][key]] BY <3>1, <3>2
    <3> QED BY <3>3 DEF D, Collected
  <2>4. /\ m \in Ranks /\ n \in Names(m) /\ Par(n).expert = "grouped" /\ n.i \notin job.missing
        /\ key \in DOMAIN Full(n) /\ G = Members(m, "ep")
        BY <1>8
  <2> HIDE DEF named
  <2>5. /\ \A x \in DOMAIN f : x \in DOMAIN Expected /\ f[x] = Expected[x]
        /\ Written(n, key, f)
        BY <2>2, <2>3, <2>4, ExpertsGathered
  <2> QED BY <2>5
<1> HIDE DEF named
<1>10. \A m \in Ranks : out'[m] = IF m \in Group(r) THEN Merged(named(m), out[m]) ELSE out[m]
  <2>1. out = [m \in Ranks |-> out[m]] BY <1>1 DEF Shapes
  <2>2. PICK f : f = [m \in Group(r) |-> Merged(named(m), out[m])] OBVIOUS
  <2>3. DOMAIN f = Group(r) /\ \A m \in Group(r) : f[m] = Merged(named(m), out[m]) BY <2>2
  <2>4. out' = Merged(f, out) BY <1>2, <2>2
  <2>5. \A m \in Ranks : Merged(f, out)[m] = IF m \in DOMAIN f THEN f[m] ELSE out[m]
        BY <1>4, <2>1, <2>3, MergedOn
  <2> QED BY <2>3, <2>4, <2>5
<1>11. ASSUME NEW m \in Group(r) PROVE Carries(m)
  <2>1. m \in Ranks /\ todo[m] # <<>> /\ Head(todo[m]).op = "expert" BY <1>3, <1>8
  <2>2. HoldsAt(m, phase[m], at[m], Tail(todo[m]), mine'[m]) /\ GathersAt(m, phase[m], at[m], Tail(todo[m]), work'[m])
        BY <1>2, <2>1, CarriedAfterCall
  <2> PICK t : t = todo[m] OBVIOUS
  <2> PICK o : o = out[m] OBVIOUS
  <2> PICK f : f = named(m) OBVIOUS
  <2>3. ExportsAt(m, phase[m], at[m], t, o) BY <2>1 DEF Carried
  <2>4. job.plan[phase[m]].dir = "export" /\ Cur(m) = TaskList(m)[at[m]] BY <1>8 DEF Dir
  <2>5. Correct(o) BY <2>3, <2>4 DEF ExportsAt
  <2>6. Correct(Merged(f, o)) /\ DOMAIN Merged(f, o) = DOMAIN f \cup DOMAIN o BY <1>9, <2>5, StillCorrect
  <2>7. Range(t) = {Head(t)} \cup Range(Tail(t)) BY <1>8, CallsLeft
  <2> PICK u : u = Merged(f, o) OBVIOUS
  <2>8. Written(Cur(m), key, u)
    <3>1. Written(Cur(m), key, f) BY <1>9
    <3> QED BY <2>6, <3>1, StillWritten
  <2>9. \A n, k : Written(n, k, o) => Written(n, k, u) BY <2>6, StillWritten
  <2>10. \A k : Call("ep", "expert", k) = Head(t) => k = key
    <3> SUFFICES ASSUME NEW k, Call("ep", "expert", k) = Head(t) PROVE k = key OBVIOUS
    <3>1. Call("ep", "expert", k).what = k BY DEF Call
    <3> QED BY <1>8, <3>1
  <2>11. ExportsAt(m, phase[m], at[m], Tail(t), u)
    <3> SUFFICES ASSUME NEW x \in 1 .. Size, ToWrite(TaskList(m)[x]), NEW k \in DOMAIN Full(TaskList(m)[x])
                 PROVE  /\ x < at[m] => Written(TaskList(m)[x], k, u)
                        /\ x = at[m] /\ Par(TaskList(m)[x]).expert # "no" =>
                             Written(TaskList(m)[x], k, u) \/ Call("ep", "expert", k) \in Range(Tail(t))
        BY <2>6 DEF ExportsAt
    <3>1. /\ x < at[m] => Written(TaskList(m)[x], k, o)
          /\ x = at[m] /\ Par(TaskList(m)[x]).expert # "no" =>
               Written(TaskList(m)[x], k, o) \/ Call("ep", "expert", k) \in Range(t)
          BY <2>3, <2>4 DEF ExportsAt
    <3> QED BY <2>4, <2>7, <2>8, <2>9, <2>10, <3>1
  <2>12. out'[m] = u BY <1>10, <2>1
  <2> QED BY <2>2, <2>11, <2>12 DEF Carries
<1>12. \A m \in Ranks : m \notin Group(r) => out'[m] = out[m] BY <1>10
<1> QED BY <1>2, <1>11, <1>12, CarriedByCall

-----------------------------------------------------------------------------
(* A rank alone, from task to task.                                        *)

LEMMA NextTaskFacts ==
    ASSUME JobFacts, IInv, NEW r \in Ranks, NextTask(r),
           NEW p, p = phase[r], NEW a, a = at[r], NEW n, n = TaskList(r)[a + 1]
    PROVE  /\ p \in DOMAIN job.plan /\ a \in 0 .. Size /\ todo[r] = <<>> /\ job' = job
           /\ mine'[r] = Merged(Loaded(r), mine[r]) /\ out'[r] = Merged(Yielded(r), out[r])
           /\ work'[r] = IF a # Size /\ job.plan[p].dir = "export" /\ Owns(r, n) THEN <<mine[r][n]>> ELSE <<>>
           /\ status'[r] = "raised" => a + 1 \in 1 .. Size
           /\ a + 1 \in 1 .. Size <=> a # Size
           /\ \A m \in Ranks : m # r => /\ mine'[m] = mine[m] /\ out'[m] = out[m] /\ work'[m] = work[m]
                                        /\ status'[m] = status[m]
<1>1. Shapes /\ Follows /\ Listing BY DEF IInv
<1> PICK z \in Nat \ {0} : z = Size BY SameTasks
<1>2. status[r] = "running" /\ todo[r] = <<>> /\ ~Ended(r) BY DEF NextTask, Idle
<1>3. p \in DOMAIN job.plan /\ a \in 0 .. z + 1 BY <1>1 DEF Shapes
<1>4. tasks[r] = TaskList(r) /\ a \in 0 .. z /\ Len(tasks[r]) = z
  <2>1. tasks[r] = TaskList(r) /\ a # z + 1 BY <1>1, <1>2, ListThere
  <2> QED BY <1>3, <2>1, SameTasks
<1>5. a + 1 \in 1 .. z <=> a # z BY ONLY <1>4, z \in Nat \ {0}
<1>6. DOMAIN mine = Ranks /\ DOMAIN out = Ranks /\ DOMAIN work = Ranks /\ DOMAIN status = Ranks
      BY <1>1 DEF Shapes
<1>7. (at[r] = Len(tasks[r])) <=> a = z BY <1>4
<1>8. tasks[r][at[r] + 1] = n BY <1>4
<1> PICK refused \in BOOLEAN : refused <=> a # z /\ Dir(r) = "import" /\ Owns(r, n) /\ Uneven(n) /\ TpRank(r, n) = 0
    OBVIOUS
<1>9. /\ job' = job
      /\ mine' = [mine EXCEPT ![r] = Merged(Loaded(r), @)]
      /\ out' = [out EXCEPT ![r] = Merged(Yielded(r), @)]
      /\ work' = [work EXCEPT ![r] = IF a # z /\ Dir(r) = "export" /\ Owns(r, n) THEN <<mine[r][n]>> ELSE <<>>]
      /\ status' = [status EXCEPT ![r] = IF refused THEN "raised" ELSE @]
      BY <1>7, <1>8 DEF NextTask
<1>10. status'[r] = "raised" => a # z BY <1>2, <1>6, <1>9
<1> QED BY <1>2, <1>3, <1>4, <1>5, <1>6, <1>9, <1>10 DEF Dir

LEMMA WholeSlice ==
    ASSUME JobFacts, NEW r \in Ranks, NEW n, Tp(n) = 1
    PROVE  Shard(Par(n), HF(Par(n), n.g), 1, 0) = Slice(r, n) /\ ~Uneven(n)
<1> PICK l \in Nat : l = Slot(r) BY RankParts
<1>1. l % 1 = 0 OBVIOUS
<1>2. TpRank(r, n) = 0 BY <1>1 DEF TpRank
<1> QED BY <1>2 DEF Slice, Full, Uneven

LEMMA NextHolds ==
    ASSUME JobFacts, IInv, Carried, NEW r \in Ranks, NextTask(r)
    PROVE  HoldsAt(r, phase[r], at[r] + 1, Program(r, phase[r], at[r] + 1), mine'[r])
<1> PICK p : p = phase[r] OBVIOUS
<1> PICK a : a = at[r] OBVIOUS
<1> PICK M : M = mine[r] OBVIOUS
<1> PICK f : f = Loaded(r) OBVIOUS
<1> PICK z \in Nat \ {0} : z = Size BY SameTasks
<1>1. Shapes /\ Listing BY DEF IInv
<1>2. p \in DOMAIN job.plan /\ a \in 0 .. z /\ todo[r] = <<>> /\ mine'[r] = Merged(f, M) BY NextTaskFacts
<1>3. HoldsAt(r, p, a, <<>>, M) BY <1>2 DEF Carried
<1>4. \A x \in DOMAIN f : x \in Names(r) /\ ~Uneven(x) /\ f[x] = Slice(r, x)
  <2>1. CASE InTask(r) /\ Dir(r) = "import" /\ Owns(r, Cur(r)) /\ Tp(Cur(r)) = 1
    <3> PICK n : n = Cur(r) OBVIOUS
    <3>1. n \in Names(r) BY <1>1, <2>1, ListThere
    <3>2. f = [x \in {n} |-> Shard(Par(x), HF(Par(x), x.g), 1, 0)] BY <2>1 DEF Loaded
    <3>3. DOMAIN f = {n} /\ f[n] = Shard(Par(n), HF(Par(n), n.g), 1, 0) BY ONLY <3>2
    <3> QED BY <2>1, <3>1, <3>3, WholeSlice
  <2>2. CASE ~(InTask(r) /\ Dir(r) = "import" /\ Owns(r, Cur(r)) /\ Tp(Cur(r)) = 1)
    <3>1. f = <<>> BY <2>2 DEF Loaded
    <3>2. DOMAIN <<>> = {} OBVIOUS
    <3> QED BY <3>1, <3>2
  <2> QED BY <2>1, <2>2
<1>5. DOMAIN Merged(f, M) = DOMAIN f \cup DOMAIN M
      /\ \A x \in DOMAIN Merged(f, M) : Merged(f, M)[x] = IF x \in DOMAIN f THEN f[x] ELSE M[x]
      BY DEF Merged
<1>6. \A x \in DOMAIN Merged(f, M) : x \in Names(r) /\ ~Uneven(x) /\ Merged(f, M)[x] = Slice(r, x)
      BY <1>3, <1>4, <1>5 DEF HoldsAt
<1>7. ASSUME NEW x \in 1 .. Size, Owns(r, TaskList(r)[x]), Gone(p, a + 1, x, "import")
      PROVE  TaskList(r)[x] \in DOMAIN Merged(f, M)
  <2>1. CASE Gone(p, a, x, "import") BY <1>3, <1>5, <1>7, <2>1 DEF HoldsAt
  <2>2. CASE ~Gone(p, a, x, "import")
    <3>1. job.plan[p].dir = "import" /\ x < a + 1 /\ ~(x < a) BY <1>7, <2>2 DEF Gone
    <3>2. x = a BY <1>2, <3>1
    <3>3. CASE Tp(TaskList(r)[x]) = 1
      <4>1. InTask(r) /\ Cur(r) = TaskList(r)[x] BY <1>1, <3>2, ListThere
      <4>2. f = [n \in {Cur(r)} |-> Shard(Par(n), HF(Par(n), n.g), 1, 0)] BY <1>7, <3>1, <3>3, <4>1 DEF Loaded, Dir
      <4>3. Cur(r) \in DOMAIN f BY <4>2
      <4> QED BY <1>5, <4>1, <4>3
    <3>4. CASE Tp(TaskList(r)[x]) # 1
      <4>1. Tp(TaskList(r)[x]) \in Nat \ {0} BY TpIsPositive
      <4>2. Tp(TaskList(r)[x]) > 1 BY <3>4, <4>1
      <4>3. TaskList(r)[x] \in DOMAIN M BY <1>3, <1>7, <3>1, <3>2, <4>2 DEF HoldsAt
      <4> QED BY <1>5, <4>3
    <3> QED BY <3>3, <3>4
  <2> QED BY <2>1, <2>2
<1>8. ASSUME NEW x \in 1 .. Size, Owns(r, TaskList(r)[x]), job.plan[p].dir = "import", x = a + 1, Tp(TaskList(r)[x]) > 1
      PROVE  Program(r, p, a + 1) # <<>>
  <2> PICK n : n = TaskList(r)[x] OBVIOUS
  <2>1. x # 0 OBVIOUS
  <2>2. Program(r, p, x) = ImportCalls(r, n) BY <1>8, <2>1 DEF Program
  <2>3. Tp(n) # 1 BY <1>8
  <2>4. ImportCalls(r, n) # <<>> BY <1>8, <2>3 DEF ImportCalls
  <2> QED BY <1>8, <2>2, <2>4
<1>9. HoldsAt(r, p, a + 1, Program(r, p, a + 1), Merged(f, M)) BY <1>6, <1>7, <1>8 DEF HoldsAt
<1> QED BY <1>2, <1>9

LEMMA NextGathers ==
    ASSUME JobFacts, ModelFacts, IInv, Carried, NEW r \in Ranks, NextTask(r)
    PROVE  GathersAt(r, phase[r], at[r] + 1, Program(r, phase[r], at[r] + 1), work'[r])
<1> PICK p : p = phase[r] OBVIOUS
<1> PICK a : a = at[r] OBVIOUS
<1> PICK n : n = TaskList(r)[a + 1] OBVIOUS
<1> PICK z \in Nat \ {0} : z = Size BY SameTasks
<1>1. p \in DOMAIN job.plan /\ a \in 0 .. z /\ todo[r] = <<>>
      /\ work'[r] = IF a # z /\ job.plan[p].dir = "export" /\ Owns(r, n) THEN <<mine[r][n]>> ELSE <<>>
      BY NextTaskFacts
<1> SUFFICES ASSUME job.plan[p].dir = "export", a + 1 \in 1 .. z, n.i \notin job.missing
             PROVE  /\ work'[r] # <<>> => ~Uneven(n)
                    /\ IF Gathered(n, Program(r, p, a + 1)) THEN work'[r] = Shards(Par(n), Full(n), Tp(n))
                       ELSE work'[r] \in {<<>>, <<Slice(r, n)>>}
    BY DEF GathersAt
<1>2. a # z BY <1>1
<1>3. n \in Names(r) BY SameTasks
<1>4. Par(n) \in Param /\ BuiltParam(Par(n)) /\ Par(n).stage \in 0 .. job.pp - 1 BY <1>3, NamesAre, ShapedAs
<1>5. job.pp \in Nat \ {0} /\ Kept(p) \in BOOLEAN BY DEF JobFacts, Kept
<1>6. Program(r, p, a + 1) = Exporting(n, Kept(p))
  <2>1. a + 1 # 0 BY <1>1
  <2> QED BY <2>1 DEF Program
<1>7. CASE Owns(r, n)
  <2>1. HoldsAt(r, p, a, <<>>, mine[r]) BY <1>1 DEF Carried
  <2>2. Gone(p, a, a + 1, "import")
    <3>1. job.plan[1].dir = "import" /\ 1 \in DOMAIN job.plan BY DEF ModelFacts, JobFacts
    <3>2. p # 1 BY <3>1
    <3>3. 1 < p BY <1>1, <3>2, PlanIsSequence
    <3> QED BY <3>1, <3>3 DEF Gone
  <2>3. n \in DOMAIN mine[r] BY <1>7, <2>1, <2>2 DEF HoldsAt
  <2>4. ~Uneven(n) /\ mine[r][n] = Slice(r, n) BY <2>1, <2>3 DEF HoldsAt
  <2>5. work'[r] = <<Slice(r, n)>> BY <1>1, <1>2, <1>7, <2>4
  <2>6. ASSUME Gathered(n, Exporting(n, Kept(p))) PROVE Shards(Par(n), Full(n), Tp(n)) = <<Slice(r, n)>>
    <3>1. RowsCall(n) \notin Range(Exporting(n, Kept(p))) BY <2>6 DEF Gathered
    <3>2. Tp(n) = 1 \/ Whole(Par(n)) BY <1>4, <1>5, <3>1, ExportingTurns
    <3> QED BY <3>2, OneSlice
  <2> QED BY <1>6, <2>4, <2>5, <2>6
<1>8. CASE ~Owns(r, n)
  <2>1. work'[r] = <<>> BY <1>1, <1>8
  <2>2. job.pp # 1
    <3>1. Stage(r) \in 0 .. job.pp - 1 BY RankParts
    <3>2. Stage(r) # Par(n).stage BY <1>8 DEF Owns
    <3> PICK s : s = Stage(r) OBVIOUS
    <3> PICK t : t = Par(n).stage OBVIOUS
    <3> PICK b \in Nat \ {0} : b = job.pp BY <1>5
    <3>3. s \in 0 .. b - 1 /\ t \in 0 .. b - 1 /\ s # t BY <1>4, <3>1, <3>2
    <3>4. b # 1 BY ONLY <3>3, b \in Nat \ {0}
    <3> QED BY <3>4
  <2>3. job.pp > 1 BY <1>5, <2>2
  <2>4. TensorCall \in Range(Exporting(n, Kept(p))) BY <1>4, <1>5, <2>3, ExportingFacts
  <2>5. ~Gathered(n, Exporting(n, Kept(p))) BY <2>4 DEF Gathered
  <2> QED BY <1>6, <2>1, <2>5
<1> QED BY <1>7, <1>8

\* An export yields the checkpoint's tensors of a parameter it has gathered,
\* all of them.
LEMMA YieldedIs ==
    ASSUME JobFacts, ModelFacts, IInv, Carried, NEW r \in Ranks, todo[r] = <<>>, Dir(r) = "export",
           NEW f, f = Yielded(r), NEW n, n = TaskList(r)[at[r]]
    PROVE  /\ \A x \in DOMAIN f : x \in DOMAIN Expected /\ f[x] = Expected[x]
           /\ at[r] \in 1 .. Size /\ n.i \notin job.missing /\ Par(n).expert = "no" =>
                \A key \in DOMAIN Full(n) : Written(n, key, f)
<1>1. Shapes /\ Listing /\ Working BY DEF IInv
<1> PICK p : p = phase[r] OBVIOUS
<1> PICK w : w = work[r] OBVIOUS
<1>2. WorksAt(r, p, at[r], <<>>, w) /\ GathersAt(r, p, at[r], <<>>, w) BY <1>1 DEF Working, Carried
<1>3. Range(<<>>) = {} BY DEF Range
<1>4. CASE at[r] \in 1 .. Size /\ n.i \notin job.missing /\ Par(n).expert = "no"
  <2>1. InTask(r) /\ Cur(r) = n /\ n \in Names(r) BY <1>1, <1>4, ListThere
  <2>2. w # <<>> BY <1>2, <1>3, <1>4 DEF WorksAt, Dir
  <2>3. Gathered(n, <<>>) BY <1>3 DEF Gathered
  <2>4. w = Shards(Par(n), Full(n), Tp(n)) /\ ~Uneven(n) BY <1>2, <1>4, <2>2, <2>3 DEF GathersAt, Dir
  <2>5. Joined(Par(n), w) = Full(n) BY <2>1, <2>4, SlicesJoin
  <2> PICK full : full = Full(n) OBVIOUS
  <2>6. f = [x \in {<<key, i, None>> : key \in DOMAIN full, i \in Aliases(n.i)} |-> full[x[1]]]
        BY <1>4, <2>1, <2>2, <2>5 DEF Yielded
  <2>7. /\ n.i \in Listed /\ n.g \in Numbers(Par(n), r) BY <2>1, NamesAre
  <2>8. n.g = None BY <1>4, <2>7 DEF Numbers
  <2>9. full = HF(job.params[n.i], None) BY <2>8 DEF Full, Par
  <2>10. ASSUME NEW key \in DOMAIN full, NEW i \in Aliases(n.i)
         PROVE  <<key, i, None>> \in DOMAIN f /\ <<key, i, None>> \in DOMAIN Expected
                /\ f[<<key, i, None>>] = Expected[<<key, i, None>>]
    <3>1. job.params[n.i].expert = "no" BY <1>4 DEF Par
    <3>2. InCheckpoint(key, i, None) /\ Origin(i) = n.i BY <1>4, <2>7, <2>9, <3>1, AliasIs
    <3>3. <<key, i, None>> \in DOMAIN Expected /\ Expected[<<key, i, None>>] = HF(job.params[Origin(i)], None)[key]
          BY <3>2, ExpectedIs
    <3>4. <<key, i, None>> \in DOMAIN f /\ f[<<key, i, None>>] = full[key] BY <2>6
    <3> QED BY <2>9, <3>2, <3>3, <3>4
  <2>11. \A x \in DOMAIN f : \E key \in DOMAIN full, i \in Aliases(n.i) : x = <<key, i, None>> BY <2>6
  <2>12. \A key \in DOMAIN Full(n) : Written(n, key, f) BY <1>4, <2>10 DEF Written
  <2> QED BY <2>10, <2>11, <2>12
<1>5. CASE ~(at[r] \in 1 .. Size /\ n.i \notin job.missing /\ Par(n).expert = "no")
  <2>1. InTask(r) => at[r] \in 1 .. Size /\ Cur(r) = n BY <1>1, ListThere
  <2>2. at[r] \in 1 .. Size /\ n.i \in job.missing => w = <<>> BY <1>2 DEF WorksAt, Dir
  <2>3. f = <<>> BY <1>5, <2>1, <2>2 DEF Yielded
  <2>4. DOMAIN <<>> = {} OBVIOUS
  <2> QED BY <1>5, <2>3, <2>4
<1> QED BY <1>4, <1>5

LEMMA NextExports ==
    ASSUME JobFacts, ModelFacts, IInv, Carried, NEW r \in Ranks, NextTask(r)
    PROVE  ExportsAt(r, phase[r], at[r] + 1, Program(r, phase[r], at[r] + 1), out'[r])
<1> PICK p : p = phase[r] OBVIOUS
<1> PICK a : a = at[r] OBVIOUS
<1> PICK o : o = out[r] OBVIOUS
<1> PICK f : f = Yielded(r) OBVIOUS
<1> PICK u : u = Merged(f, o) OBVIOUS
<1> PICK t : t = Program(r, p, a + 1) OBVIOUS
<1> PICK z \in Nat \ {0} : z = Size BY SameTasks
<1>1. a \in 0 .. z /\ todo[r] = <<>> /\ out'[r] = u BY NextTaskFacts
<1> SUFFICES ASSUME job.plan[p].dir = "export" PROVE ExportsAt(r, p, a + 1, t, u) BY <1>1 DEF ExportsAt
<1>2. ExportsAt(r, p, a, <<>>, o) BY <1>1 DEF Carried
<1>3. Correct(o) BY <1>2 DEF ExportsAt
<1>4. /\ \A x \in DOMAIN f : x \in DOMAIN Expected /\ f[x] = Expected[x]
      /\ a \in 1 .. Size /\ TaskList(r)[a].i \notin job.missing /\ Par(TaskList(r)[a]).expert = "no" =>
           \A key \in DOMAIN Full(TaskList(r)[a]) : Written(TaskList(r)[a], key, f)
      BY <1>1, YieldedIs DEF Dir
<1>5. Correct(u) /\ DOMAIN u = DOMAIN f \cup DOMAIN o BY <1>3, <1>4, StillCorrect
<1>6. \A n, key : Written(n, key, o) \/ Written(n, key, f) => Written(n, key, u) BY <1>5, StillWritten
<1>7. Range(<<>>) = {} BY DEF Range
<1>8. ASSUME NEW x \in 1 .. Size, ToWrite(TaskList(r)[x]), NEW key \in DOMAIN Full(TaskList(r)[x])
      PROVE  /\ x < a + 1 => Written(TaskList(r)[x], key, u)
             /\ x = a + 1 /\ Par(TaskList(r)[x]).expert # "no" =>
                  Written(TaskList(r)[x], key, u) \/ Call("ep", "expert", key) \in Range(t)
  <2> PICK n : n = TaskList(r)[x] OBVIOUS
  <2>1. /\ x < a => Written(n, key, o)
        /\ x = a /\ Par(n).expert # "no" => Written(n, key, o) \/ Call("ep", "expert", key) \in Range(<<>>)
        BY <1>2, <1>8 DEF ExportsAt
  <2>2. x < a + 1 => x < a \/ x = a BY ONLY <1>1, x \in 1 .. Size, z = Size, z \in Nat \ {0}
  <2>3. x = a /\ Par(n).expert = "no" => Written(n, key, f) BY <1>4, <1>8 DEF ToWrite
  <2>4. x < a + 1 => Written(n, key, u) BY <1>6, <1>7, <2>1, <2>2, <2>3
  <2>5. ASSUME x = a + 1, Par(n).expert # "no" PROVE Call("ep", "expert", key) \in Range(t)
    <3>1. n \in Names(r) BY SameTasks
    <3>2. Par(n) \in Param /\ BuiltParam(Par(n)) /\ Par(n).expert \in {"no", "grouped", "sequential"}
          BY <3>1, NamesAre, ShapedAs
    <3>3. n.i \notin job.missing /\ Par(n).expert = "grouped" BY <1>8, <2>5, <3>2 DEF ToWrite
    <3>4. job.pp \in Nat \ {0} /\ Kept(p) \in BOOLEAN BY DEF JobFacts, Kept
    <3>5. Call("ep", "expert", key) \in Range(Exporting(n, Kept(p))) BY <3>2, <3>3, <3>4, ExportingTurns
    <3>6. x # 0 OBVIOUS
    <3>7. Program(r, p, x) = Exporting(n, Kept(p)) BY <3>6 DEF Program
    <3> QED BY <2>5, <3>5, <3>7
  <2> QED BY <2>4, <2>5
<1> QED BY <1>5, <1>8 DEF ExportsAt

LEMMA NextTaskCarried == ASSUME JobFacts, ModelFacts, IInv, Carried, NEW r \in Ranks, NextTask(r) PROVE Carried'
<1>1. Shapes /\ Follows /\ InStep BY DEF IInv
<1> PICK p : p = phase[r] OBVIOUS
<1> PICK a : a = at[r] OBVIOUS
<1>2. /\ job' = job
      /\ status'[r] = "raised" => a + 1 \in 1 .. Size
      /\ \A m \in Ranks : m # r => /\ mine'[m] = mine[m] /\ out'[m] = out[m] /\ work'[m] = work[m]
                                   /\ status'[m] = status[m]
      BY NextTaskFacts
<1>3. Onward(r, p, a + 1) BY NextTaskOnward
<1>4. /\ \A m \in Ranks : m # r => phase'[m] = phase[m] /\ at'[m] = at[m] /\ todo'[m] = todo[m]
      /\ phase'[r] = p /\ at'[r] = a + 1 /\ todo'[r] = Program(r, p, a + 1)
      BY <1>1, <1>2, <1>3, OwnStep
<1>5. ASSUME NEW m \in Ranks
      PROVE  /\ HoldsAt(m, phase'[m], at'[m], todo'[m], mine'[m])
             /\ GathersAt(m, phase'[m], at'[m], todo'[m], work'[m])
             /\ ExportsAt(m, phase'[m], at'[m], todo'[m], out'[m])
             /\ status'[m] = "raised" => at'[m] \in 1 .. Size
  <2>1. CASE m = r BY <1>2, <1>4, <2>1, NextHolds, NextGathers, NextExports
  <2>2. CASE m # r
    <3>1. /\ phase'[m] = phase[m] /\ at'[m] = at[m] /\ todo'[m] = todo[m] /\ mine'[m] = mine[m]
          /\ work'[m] = work[m] /\ out'[m] = out[m] /\ status'[m] = status[m]
          BY <1>2, <1>4, <2>2
    <3> QED BY <3>1 DEF Carried
  <2> QED BY <2>1, <2>2
<1> QED BY <1>2, <1>5, CarriedOn

\* Only its status tells a rank from what it was before.
LEMMA CarriedByStatus ==
    ASSUME JobFacts, Carried, UNCHANGED <<job, phase, at, todo, mine, work, out>>,
           \A m \in Ranks : status'[m] = "raised" => at[m] \in 1 .. Size
    PROVE  Carried'
<1>1. job' = job /\ phase' = phase /\ at' = at /\ todo' = todo /\ mine' = mine /\ work' = work /\ out' = out
      OBVIOUS
<1> QED BY <1>1, CarriedOn DEF Carried

LEMMA RaiseCarried == ASSUME JobFacts, IInv, Carried, NEW r \in Ranks, Raise(r) PROVE Carried'
<1>1. Shapes /\ Listing BY DEF IInv
<1>2. /\ UNCHANGED <<job, phase, at, todo, mine, work, out>> /\ status' = [status EXCEPT ![r] = "raised"]
      /\ at[r] \in 1 .. Size
      BY <1>1, ListThere DEF Raise, Unnamed
<1>3. \A m \in Ranks : status'[m] = "raised" => at[m] \in 1 .. Size BY <1>1, <1>2 DEF Carried, Shapes
<1> QED BY <1>2, <1>3, CarriedByStatus

LEMMA ReturnCarried == ASSUME JobFacts, IInv, Carried, NEW r \in Ranks, Return(r) PROVE Carried'
<1>1. Shapes /\ Follows /\ Listing /\ InStep BY DEF IInv
<1> PICK p : p = phase[r] OBVIOUS
<1> PICK z \in Nat \ {0} : z = Size BY SameTasks
<1>2. status[r] = "running" /\ todo[r] = <<>> /\ Ended(r) BY DEF Return, Idle
<1>3. at[r] = z + 1 BY <1>1, <1>2, ListThere
<1>4. p \in DOMAIN job.plan /\ DOMAIN job.plan = 1 .. Len(job.plan) /\ Len(job.plan) \in Nat
      BY <1>1, PlanIsSequence DEF Shapes
<1>5. CASE p = Len(job.plan)
  <2>1. UNCHANGED <<job, phase, at, todo, mine, work, out>> /\ status' = [status EXCEPT ![r] = "done"]
        BY <1>5 DEF Return
  <2>2. \A m \in Ranks : status'[m] = "raised" => at[m] \in 1 .. Size BY <1>1, <2>1 DEF Carried, Shapes
  <2> QED BY <2>1, <2>2, CarriedByStatus
<1>6. CASE p # Len(job.plan)
  <2>1. /\ phase' = [phase EXCEPT ![r] = p + 1] /\ at' = [at EXCEPT ![r] = 0]
        /\ todo' = [todo EXCEPT ![r] = Opening(p + 1)]
        /\ out' = [out EXCEPT ![r] = <<>>] /\ status' = status
        /\ job' = job /\ mine' = mine /\ work' = work
        BY <1>6 DEF Return
  <2>2. p \in Nat /\ p + 1 \in DOMAIN job.plan BY <1>4, <1>6
  <2>3. Program(r, p + 1, 0) = Opening(p + 1) BY DEF Program
  <2>4. Onward(r, p + 1, 0)
    <3>1. 0 \in 0 .. Size + 1 OBVIOUS
    <3> QED BY <1>2, <1>3, <2>1, <2>2, <2>3, <3>1 DEF Onward
  <2>5. /\ \A m \in Ranks : m # r => phase'[m] = phase[m] /\ at'[m] = at[m] /\ todo'[m] = todo[m]
        /\ phase'[r] = p + 1 /\ at'[r] = 0
        BY <1>1, <2>1, <2>4, OwnStep
  <2>6. out'[r] = <<>> /\ \A m \in Ranks : m # r => out'[m] = out[m] BY <1>1, <2>1 DEF Shapes
  <2>7. \A t, w : GathersAt(r, p + 1, 0, t, w)
    <3>1. 0 \notin 1 .. Size OBVIOUS
    <3> QED BY <3>1 DEF GathersAt
  <2>8. \A t : HoldsAt(r, p + 1, 0, t, mine[r])
    <3>1. HoldsAt(r, p, z + 1, <<>>, mine[r]) BY <1>2, <1>3 DEF Carried
    <3>2. ASSUME NEW x \in 1 .. Size, Gone(p + 1, 0, x, "import") PROVE Gone(p, z + 1, x, "import")
      <4>1. x < z + 1 /\ ~(x < 0) OBVIOUS
      <4>2. \A q \in DOMAIN job.plan : q < p + 1 => q < p \/ q = p BY <1>4
      <4> QED BY <3>2, <4>1, <4>2 DEF Gone
    <3>3. \A x \in 1 .. Size : x # 0 OBVIOUS
    <3> QED BY <3>1, <3>2, <3>3 DEF HoldsAt
  <2>9. \A t : ExportsAt(r, p + 1, 0, t, <<>>)
    <3>1. DOMAIN <<>> = {} OBVIOUS
    <3> PICK o : o = <<>> OBVIOUS
    <3>2. o = [x \in {} |-> o[x]] /\ DOMAIN o = {} OBVIOUS
    <3>3. Correct(o) BY <3>2 DEF Correct
    <3>4. \A x \in 1 .. Size : ~(x < 0) /\ x # 0 OBVIOUS
    <3> QED BY <3>3, <3>4 DEF ExportsAt
  <2>10. ASSUME NEW m \in Ranks
         PROVE  /\ HoldsAt(m, phase'[m], at'[m], todo'[m], mine'[m])
                /\ GathersAt(m, phase'[m], at'[m], todo'[m], work'[m])
                /\ ExportsAt(m, phase'[m], at'[m], todo'[m], out'[m])
                /\ status'[m] = "raised" => at'[m] \in 1 .. Size
    <3>1. CASE m = r BY <1>2, <2>1, <2>5, <2>6, <2>7, <2>8, <2>9, <3>1
    <3>2. CASE m # r
      <4>1. /\ phase'[m] = phase[m] /\ at'[m] = at[m] /\ todo'[m] = todo[m] /\ mine'[m] = mine[m]
            /\ work'[m] = work[m] /\ out'[m] = out[m] /\ status'[m] = status[m]
            BY <2>1, <2>5, <2>6, <3>2
      <4> QED BY <4>1 DEF Carried
    <3> QED BY <3>1, <3>2
  <2> QED BY <2>1, <2>10, CarriedOn
<1> QED BY <1>5, <1>6

LEMMA StepCarried == ASSUME JobFacts, ModelFacts, IInv, Carried, [Next]_vars PROVE Carried'
<1>1. CASE Next
  <2>1. PICK r \in Ranks :
           \/ NextTask(r) \/ Raise(r) \/ Return(r) \/ Survey(r) \/ Object(r) \/ Tensor(r) \/ TpGather(r)
           \/ EpGather(r) \/ TpScatter(r) \/ ShareEmbedding(r)
        BY <1>1 DEF Next
  <2>2. CASE NextTask(r) \/ Raise(r) \/ Return(r) BY <2>2, NextTaskCarried, RaiseCarried, ReturnCarried
  <2>3. CASE Survey(r) \/ Object(r) \/ ShareEmbedding(r) BY <2>3, SurveyCarried, ObjectCarried, EmbeddingCarried
  <2>4. CASE Tensor(r) \/ TpGather(r) BY <2>4, TensorCarried, TpGatherCarried
  <2>5. CASE EpGather(r) \/ TpScatter(r) BY <2>5, EpGatherCarried, ScatterCarried
  <2> QED BY <2>1, <2>2, <2>3, <2>4, <2>5
<1>2. CASE UNCHANGED vars
  <2>1. UNCHANGED <<job, phase, at, todo, mine, work, out>> /\ status' = status BY <1>2 DEF vars, where
  <2>2. \A m \in Ranks : status'[m] = "raised" => at[m] \in 1 .. Size BY <2>1 DEF Carried
  <2> QED BY <2>1, <2>2, CarriedByStatus
<1> QED BY <1>1, <1>2

-----------------------------------------------------------------------------
(* What has been exported at the end.                                      *)

\* Rank r has been through the export of all of its tasks, and o is what it has.
Through(r, o) ==
    \A x \in 1 .. Size :
        /\ Par(TaskList(r)[x]).expert # "sequential"
        /\ ToWrite(TaskList(r)[x]) => \A key \in DOMAIN Full(TaskList(r)[x]) : Written(TaskList(r)[x], key, o)

LEMMA ThroughName ==
    ASSUME JobFacts, NEW r \in Ranks, NEW o, Through(r, o), NEW i \in Listed, NEW h \in Numbers(job.params[i], r)
    PROVE  /\ job.params[i].expert # "sequential"
           /\ i \notin job.missing => \A key \in DOMAIN HF(job.params[i], h) : Written([i |-> i, g |-> h], key, o)
<1> PICK n : n = [i |-> i, g |-> h] OBVIOUS
<1>1. n.i = i /\ n.g = h OBVIOUS
<1>2. n \in Names(r) BY NamesAre
<1> PICK x \in 1 .. Size : TaskList(r)[x] = n BY <1>2, SameTasks
<1>3. Par(n) = job.params[i] /\ Full(n) = HF(job.params[i], h) BY <1>1 DEF Par, Full
<1>4. Par(n).expert # "sequential" /\ (ToWrite(n) => \A key \in DOMAIN Full(n) : Written(n, key, o))
      BY DEF Through
<1> QED BY <1>1, <1>3, <1>4 DEF ToWrite

\* A parameter that is not an expert's is there under all of its names.
LEMMA ThroughAliases ==
    ASSUME JobFacts, NEW r \in Ranks, NEW o, Through(r, o), NEW i \in Listed, i \notin job.missing,
           job.params[i].expert = "no", NEW key \in DOMAIN HF(job.params[i], None), NEW k \in Aliases(i)
    PROVE  <<key, k, None>> \in DOMAIN o
<1> PICK n : n = [i |-> i, g |-> None] OBVIOUS
<1>1. None \in Numbers(job.params[i], r) BY DEF Numbers
<1>2. Written(n, key, o) BY <1>1, ThroughName
<1>3. n.i = i OBVIOUS
<1> QED BY <1>2, <1>3 DEF Written, Par

\* So is every expert of a parameter of the experts.
LEMMA ThroughExperts ==
    ASSUME JobFacts, ModelFacts, NEW r \in Ranks, NEW o, Through(r, o), NEW i \in Listed, i \notin job.missing,
           job.params[i].expert = "grouped", NEW g \in 0 .. job.experts - 1, NEW key \in DOMAIN HF(job.params[i], g)
    PROVE  <<key, i, g>> \in DOMAIN o
<1>1. i \in DOMAIN job.params /\ BuiltParam(job.params[i]) BY DEF ModelFacts, Listed
<1> PICK d \in Nat \ {0} : d = PerRank
  <2>1. PerRank \in Nat /\ PerRank > 0 BY <1>1 DEF JobFacts
  <2> QED BY <2>1
<1> PICK b \in Nat \ {0} : b = job.ep BY DEF JobFacts
<1> PICK c \in Nat : c = d * b OBVIOUS
<1>2. job.experts = c BY DEF JobFacts
<1>3. g \in Nat /\ g < c BY <1>2
<1> PICK e : e = g \div d OBVIOUS
<1> PICK l : l = g % d OBVIOUS
<1>4. e \in Nat /\ l \in 0 .. d - 1 /\ g = e * d + l BY <1>3, DivMod
<1>5. e \in 0 .. b - 1
  <2> SUFFICES ASSUME e >= b PROVE FALSE BY <1>4
  <2>1. e * d >= b * d BY <1>4
  <2>2. e * d \in Nat /\ b * d = d * b BY <1>4
  <2> QED BY <1>3, <1>4, <2>1, <2>2
<1> PICK x \in Nat : x = Ep(r) BY RankParts
<1> PICK h : h = x * d + l OBVIOUS
<1>6. h % d = l BY <1>4, DivUnique
<1>7. h \in Numbers(job.params[i], r) BY <1>4 DEF Numbers
<1>8. key \in DOMAIN HF(job.params[i], h) BY <1>1, KeysAre DEF BuiltParam
<1> PICK n : n = [i |-> i, g |-> h] OBVIOUS
<1>9. n.i = i /\ n.g = h OBVIOUS
<1>10. Written(n, key, o) BY <1>7, <1>8, ThroughName
<1>11. <<key, n.i, (n.g % PerRank) + PerRank * e>> \in DOMAIN o BY <1>5, <1>9, <1>10 DEF Written, Par
<1>12. (n.g % PerRank) + PerRank * e = g
  <2>1. d * e = e * d /\ e * d \in Nat BY <1>4
  <2>2. n.g % PerRank = l BY <1>6, <1>9
  <2> QED BY <1>4, <2>1, <2>2
<1> QED BY <1>9, <1>11, <1>12

LEMMA ThroughAll ==
    ASSUME JobFacts, ModelFacts, NEW r \in Ranks, NEW o, Through(r, o), NEW key, NEW i, NEW g, InCheckpoint(key, i, g)
    PROVE  <<key, i, g>> \in DOMAIN o
<1>1. /\ i \in DOMAIN job.params /\ i \notin job.missing /\ g \in AllNumbers(job.params[i])
      /\ key \in DOMAIN HF(job.params[i], g) /\ job.params[i] \in Param /\ BuiltParam(job.params[i])
      BY DEF InCheckpoint, ModelFacts, JobFacts
<1>2. CASE i \in Listed
  <2>1. job.params[i].expert # "sequential"
    <3> PICK h \in Numbers(job.params[i], r) : TRUE BY <1>2, NamesAre
    <3> QED BY <1>2, ThroughName
  <2>2. CASE job.params[i].expert = "no"
    <3>1. g = None BY <1>1, <2>2 DEF AllNumbers
    <3>2. i \in Aliases(i) BY DEF Aliases
    <3> QED BY <1>1, <1>2, <2>2, <3>1, <3>2, ThroughAliases
  <2>3. CASE job.params[i].expert = "grouped"
    <3>1. g \in 0 .. job.experts - 1 BY <1>1, <2>3 DEF AllNumbers
    <3> QED BY <1>1, <1>2, <2>3, <3>1, ThroughExperts
  <2>4. job.params[i].expert \in {"no", "grouped", "sequential"} BY <1>1 DEF Param
  <2> QED BY <2>1, <2>2, <2>3, <2>4
<1>3. CASE i \notin Listed
  <2>1. job.tied /\ job.params[i].role = "output" BY <1>1, <1>3 DEF Listed
  <2>2. PICK e \in DOMAIN job.params :
          /\ \A k \in DOMAIN job.params : job.params[k].role = "embed" <=> k = e
          /\ \A k \in DOMAIN job.params : job.params[k].role = "output" => (k \in job.missing <=> e \in job.missing)
        BY <2>1 DEF ModelFacts, TiedIn
  <2>3. job.params[e].role = "embed" /\ e \notin job.missing BY <1>1, <2>1, <2>2
  <2>4. e \in Listed BY <2>3 DEF Listed
  <2>5. BuiltParam(job.params[e]) BY DEF ModelFacts
  <2>6. /\ job.params[e].kind \in Direct /\ job.params[e].expert = "no"
        /\ job.params[i].kind \in Direct /\ job.params[i].expert = "no"
        BY <1>1, <2>1, <2>3, <2>5 DEF BuiltParam
  <2>7. g = None BY <1>1, <2>6 DEF AllNumbers
  <2>8. key \in DOMAIN HF(job.params[e], None) BY <1>1, <2>6, KeysAre
  <2>9. i \in Aliases(e) BY <1>1, <2>1, <2>3 DEF Aliases
  <2> QED BY <2>3, <2>4, <2>6, <2>7, <2>8, <2>9, ThroughAliases
<1> QED BY <1>2, <1>3

LEMMA CarriedRoundTrip == ASSUME JobFacts, ModelFacts, IInv, Carried PROVE RoundTrip
<1> SUFFICES ASSUME NEW r \in Ranks, Dir(r) = "export", Ended(r) PROVE out[r] = Expected BY DEF RoundTrip
<1>1. Shapes /\ Listing /\ Passed BY DEF IInv
<1> PICK p : p = phase[r] OBVIOUS
<1> PICK o : o = out[r] OBVIOUS
<1> PICK z \in Nat \ {0} : z = Size BY SameTasks
<1>2. at[r] = z + 1 BY <1>1, ListThere
<1>3. job.plan[p].dir = "export" BY DEF Dir
<1>4. status[r] # "raised"
  <2>1. z + 1 \notin 1 .. z OBVIOUS
  <2> QED BY <1>2, <2>1 DEF Carried
<1>5. \A x \in 1 .. Size : x < z + 1 OBVIOUS
<1>6. ExportsAt(r, p, z + 1, todo[r], o) BY <1>2 DEF Carried
<1>7. \A x \in 1 .. Size : Par(TaskList(r)[x]).expert # "sequential"
  <2>1. PassesAt(r, p, z + 1, todo[r], status[r]) BY <1>1, <1>2 DEF Passed
  <2>2. \A x \in 1 .. Size : Gone(p, z + 1, x, "export") BY <1>3, <1>5 DEF Gone
  <2> QED BY <1>4, <2>1, <2>2 DEF PassesAt
<1>8. Through(r, o) BY <1>3, <1>5, <1>6, <1>7 DEF ExportsAt, Through
<1>9. Correct(o) BY <1>3, <1>6 DEF ExportsAt
<1>10. DOMAIN Expected \subseteq DOMAIN o
  <2> SUFFICES ASSUME NEW y \in DOMAIN Expected PROVE y \in DOMAIN o OBVIOUS
  <2>1. \E key, i, g : y = <<key, i, g>> /\ InCheckpoint(key, i, g) BY ExpectedIs
  <2> QED BY <1>8, <2>1, ThroughAll
<1> PICK E : E = Expected OBVIOUS
<1>11. /\ o = [x \in DOMAIN o |-> o[x]] /\ \A x \in DOMAIN o : x \in DOMAIN E /\ o[x] = E[x]
       BY <1>9 DEF Correct
<1>12. E = [x \in DOMAIN E |-> E[x]] BY ExpectedIs
<1>13. DOMAIN o = DOMAIN E BY <1>10, <1>11
<1>14. o = E BY ONLY <1>11, <1>12, <1>13
<1> QED BY <1>14

(***************************************************************************)
(* A checkpoint comes back from the model as it went in: at the end of an  *)
(* export every rank has every tensor of it, under its own name and row    *)
(* for row, whatever the grid, the numbers of experts and layers and the   *)
(* calls of the plan; an exception may keep an export from ending, and     *)
(* nothing may change what it writes.                                      *)
(***************************************************************************)
THEOREM RoundTripAlways ==
    ASSUME ExportsAfterExports, ImportsFirst, ModelsAsBuilt
    PROVE  Spec => []RoundTrip
<1>1. IInv => JobFacts /\ ModelFacts BY JobsAreSuch, ModelsAreSuch DEF IInv, Shapes
<1>2. Init => IInv /\ Carried
  <2> SUFFICES ASSUME Init PROVE IInv /\ Carried OBVIOUS
  <2>1. IInv BY InitInv
  <2> QED BY <1>1, <2>1, InitCarried
<1>3. (IInv /\ Carried) /\ [Next]_vars => (IInv /\ Carried)'
  <2> SUFFICES ASSUME IInv, Carried, [Next]_vars PROVE IInv' /\ Carried' OBVIOUS
  <2>1. IInv' BY StepInv
  <2>2. Carried' BY <1>1, StepCarried
  <2> QED BY <2>1, <2>2
<1>4. IInv /\ Carried => RoundTrip BY <1>1, CarriedRoundTrip
<1> QED BY <1>2, <1>3, <1>4, PTL DEF Spec

-----------------------------------------------------------------------------
(* Shares: what the cut of a tensor into shards gives each rank.           *)

\* The same numbers, each so many times as large: so are the running sums.
TimesLarger(M, L, n, k) == \A c \in 1 .. n : L[c] \in Nat /\ M[c] = L[c] * k

\* Running sums scale with their sequence.
LEMMA PartialsScale ==
    ASSUME NEW n \in Nat, NEW L, NEW M, NEW k \in Nat, TimesLarger(M, L, n, k),
           NEW A, Partial(A, L, n), NEW B, Partial(B, M, n)
    PROVE  \A c \in 0 .. n : B[c] = A[c] * k
<1>1. \A c \in 0 .. n : A[c] \in Nat BY PartialsAreNumbers DEF TimesLarger
<1> DEFINE G == {c \in Nat : c <= n => B[c] = A[c] * k}
<1>2. 0 \in G
  <2>1. 0 * k = 0 OBVIOUS
  <2> QED BY <2>1 DEF Partial
<1>3. ASSUME NEW c \in Nat, c \in G PROVE c + 1 \in G
  <2> SUFFICES ASSUME c + 1 <= n PROVE B[c + 1] = A[c + 1] * k OBVIOUS
  <2>1. B[c] = A[c] * k BY <1>3
  <2>2. c + 1 \in 1 .. n /\ (c + 1) - 1 = c OBVIOUS
  <2>3. A[c + 1] = A[c] + L[c + 1] /\ B[c + 1] = B[c] + M[c + 1] BY <2>2 DEF Partial
  <2>4. A[c] \in Nat /\ L[c + 1] \in Nat /\ M[c + 1] = L[c + 1] * k BY <1>1, <2>2 DEF TimesLarger
  <2> PICK a \in Nat : a = A[c] BY <2>4
  <2> PICK l \in Nat : l = L[c + 1] BY <2>4
  <2>5. (a + l) * k = a * k + l * k BY ONLY a \in Nat, l \in Nat, k \in Nat
  <2> QED BY <2>1, <2>3, <2>4, <2>5
<1>4. \A c \in Nat : c \in G
  <2> HIDE DEF G
  <2> QED BY <1>2, <1>3, CountingUp
<1> QED BY <1>4

\* The total of a sequence is its last running sum.
LEMMA TotalIs ==
    ASSUME NEW n \in Nat, NEW L \in Seq(Nat), Len(L) = n, NEW B, Partial(B, L, n)
    PROVE  Total(L) = B[n] /\ Total(L) \in Nat
<1> DEFINE A == [k \in 0 .. n |-> Total(SubSeq(L, 1, k))]
<1>1. \A k \in 0 .. n : A[k] = Total(SubSeq(L, 1, k)) OBVIOUS
<1> HIDE DEF A
<1>2. Partial(A, L, n) /\ (\A k \in 0 .. n : A[k] \in Nat) /\ Total(L) = A[n] BY <1>1, RunningTotals
<1> PICK o \in Nat : o = 1 OBVIOUS
<1>3. TimesLarger(L, L, n, o)
  <2>1. \A c \in 1 .. n : L[c] \in Nat OBVIOUS
  <2>2. \A x \in Nat : x * o = x OBVIOUS
  <2> QED BY <2>1, <2>2 DEF TimesLarger
<1>4. \A c \in 0 .. n : B[c] = A[c] * o BY <1>2, <1>3, PartialsScale
<1>5. n \in 0 .. n OBVIOUS
<1>6. A[n] \in Nat /\ A[n] * o = A[n] BY <1>2, <1>5
<1> QED BY <1>2, <1>4, <1>5, <1>6

-----------------------------------------------------------------------------
(* The rows of a shard.                                                    *)

RowsOf(s) == {s[x] : x \in DOMAIN s}

\* s has of every part the l rows after i * l others, l being its entry in L.
IsShard(s, n, parts, L, i) ==
    /\ \A z \in DOMAIN s : \E c \in 1 .. n : \E x \in 1 .. L[c] : s[z] = parts[c][i * L[c] + x]
    /\ \A c \in 1 .. n : \A x \in 1 .. L[c] : parts[c][i * L[c] + x] \in RowsOf(s)

\* A chunk of each part, end to end, has the rows of those chunks.
LEMMA ShardRows ==
    ASSUME NEW S, NEW n, NEW parts, NEW L, NEW size, Divided(S, n, parts, L, size),
           NEW i, i \in 0 .. size - 1, NEW s, s = ChunkOfEach(n, parts, size, i)
    PROVE  IsShard(s, n, parts, L, i) /\ Len(s) = Total(L) /\ Total(L) \in Nat
<1>0. /\ n \in Nat \ {0} /\ L \in Seq(Nat) /\ Len(L) = n /\ size \in Nat \ {0}
      /\ \A k \in 1 .. n : parts[k] \in Seq(S) /\ Len(parts[k]) % size = 0 /\ L[k] = Len(parts[k]) \div size
      BY DEF Divided
<1> USE <1>0
<1> DEFINE A == [k \in 0 .. n |-> Total(SubSeq(L, 1, k))]
           t == [k \in 1 .. n |-> Chunk(parts[k], size, i)]
<1>1. \A k \in 0 .. n : A[k] = Total(SubSeq(L, 1, k)) OBVIOUS
<1>2. DOMAIN t = 1 .. n /\ Len(t) = n /\ \A k \in 1 .. n : t[k] = Chunk(parts[k], size, i) OBVIOUS
<1>3. s = FlattenSeq(t) BY DEF ChunkOfEach
<1> HIDE DEF A, t
<1>4. Partial(A, L, n) /\ (\A k \in 0 .. n : A[k] \in Nat) /\ Total(L) = A[n] BY <1>1, RunningTotals
<1>5. \A k \in 1 .. n : L[k] \in Nat OBVIOUS
<1>6. ASSUME NEW k \in 1 .. n
      PROVE  t[k] \in Seq(S) /\ Len(t[k]) = L[k] /\ \A x \in 1 .. L[k] : t[k][x] = parts[k][i * L[k] + x]
  <2> PICK m \in Nat : m = L[k] BY <1>5
  <2> PICK u : u = parts[k] OBVIOUS
  <2>1. u \in Seq(S) /\ Len(u) % size = 0 /\ m = Len(u) \div size
        BY ONLY <1>0, k \in 1 .. n, u = parts[k], m = L[k]
  <2>2. IsChunk(S, u, size, i, m, Chunk(u, size, i))
      BY ONLY <2>1, m \in Nat, size \in Nat \ {0}, i \in 0 .. size - 1, ChunkHas
  <2>3. /\ Chunk(u, size, i) \in Seq(S) /\ Len(Chunk(u, size, i)) = m
        /\ \A x \in 1 .. m : Chunk(u, size, i)[x] = u[i * m + x]
        BY ONLY <2>2 DEF IsChunk, Within
  <2>4. t[k] = Chunk(u, size, i) BY <1>2
  <2> QED BY ONLY <2>3, <2>4, u = parts[k], m = L[k]
<1>7. s \in Seq(S) /\ EndToEnd(s, t, A, n)
  <2>1. \A k \in 1 .. n : t[k] \in Seq(S) BY <1>6
  <2>2. \A k \in 1 .. n : L[k] = Len(t[k]) BY <1>6
  <2>3. DOMAIN t = 1 .. n /\ Len(t) = n BY <1>2
  <2>4. FlattenSeq(t) \in Seq(S) /\ EndToEnd(FlattenSeq(t), t, A, n)
        BY ONLY <1>4, <2>1, <2>2, <2>3, n \in Nat \ {0}, FlattenPlaces
  <2> QED BY <1>3, <2>4
<1>8. DOMAIN s = 1 .. A[n] /\ Len(s) = A[n] BY <1>7 DEF EndToEnd
<1>9. ASSUME NEW z \in DOMAIN s PROVE \E c \in 1 .. n : \E x \in 1 .. L[c] : s[z] = parts[c][i * L[c] + x]
  <2>1. \E c \in 1 .. n : \E x \in 1 .. Len(t[c]) : z = A[c - 1] + x BY <1>7, <1>8 DEF EndToEnd
  <2> PICK c \in 1 .. n : \E x \in 1 .. Len(t[c]) : z = A[c - 1] + x BY <2>1
  <2> PICK x \in 1 .. Len(t[c]) : z = A[c - 1] + x OBVIOUS
  <2>2. x \in 1 .. L[c] BY <1>6
  <2>3. s[A[c - 1] + x] = t[c][x] BY <1>7 DEF EndToEnd
  <2>4. t[c][x] = parts[c][i * L[c] + x] BY <1>6, <2>2
  <2> QED BY <2>2, <2>3, <2>4
<1>10. ASSUME NEW c \in 1 .. n, NEW x \in 1 .. L[c] PROVE parts[c][i * L[c] + x] \in RowsOf(s)
  <2>1. x \in 1 .. Len(t[c]) BY <1>6
  <2>2. A[c - 1] + x \in 1 .. A[n] /\ s[A[c - 1] + x] = t[c][x] BY <1>7, <2>1 DEF EndToEnd
  <2>3. t[c][x] = parts[c][i * L[c] + x] BY <1>6
  <2> QED BY <1>8, <2>2, <2>3 DEF RowsOf
<1>11. n \in 0 .. n OBVIOUS
<1> QED BY <1>4, <1>8, <1>9, <1>10, <1>11 DEF IsShard

-----------------------------------------------------------------------------
(* Units: the rows a layer computes with together.                         *)

\* The place y, of unit u, is among the k units after i * k others if it is
\* among the l places after i * l others, l being those of k units.
LEMMA UnitPlace ==
    ASSUME NEW d \in Nat \ {0}, NEW k \in Nat, NEW i \in Nat, NEW l \in Nat, l = k * d,
           NEW y \in Nat \ {0}, NEW u, u = (y - 1) \div d
    PROVE  (\E x \in 1 .. l : y = i * l + x) <=> (i * k <= u /\ u < i * k + k)
<1> PICK w \in Nat : w = y - 1 OBVIOUS
<1>1. i * l = (i * k) * d BY ONLY l = k * d, i \in Nat, k \in Nat, d \in Nat \ {0}
<1> PICK f \in Nat : f = i * k
  <2>1. i * k \in Nat OBVIOUS
  <2> QED BY <2>1
<1> PICK h \in Nat : h = f * d
  <2>1. f * d \in Nat OBVIOUS
  <2> QED BY <2>1
<1>2. i * l = h BY <1>1
<1>3. ASSUME NEW x \in 1 .. l, y = h + x PROVE f <= u /\ u < f + k
  <2> PICK v \in Nat : v = x - 1 OBVIOUS
  <2> PICK a \in Nat : a = v \div d BY DivMod
  <2> PICK b \in 0 .. d - 1 : b = v % d BY DivMod
  <2>1. v = a * d + b BY DivMod
  <2>2. a < k
    <3> SUFFICES ASSUME k <= a PROVE FALSE OBVIOUS
    <3> PICK e \in Nat : a = k + e
      <4>1. a - k \in Nat /\ a = k + (a - k) OBVIOUS
      <4> QED BY <4>1
    <3>1. a * d = k * d + e * d /\ e * d \in Nat BY ONLY a = k + e, k \in Nat, e \in Nat, d \in Nat \ {0}
    <3> PICK ed \in Nat : ed = e * d BY <3>1
    <3>2. v = l + ed + b BY <2>1, <3>1
    <3> QED BY ONLY <3>2, v = x - 1, x \in 1 .. l, l \in Nat, ed \in Nat, b \in 0 .. d - 1, d \in Nat \ {0}
  <2>3. w = (f + a) * d + b
    <3>1. (f + a) * d = f * d + a * d BY ONLY f \in Nat, a \in Nat, d \in Nat \ {0}
    <3> PICK ad \in Nat : ad = a * d
      <4>1. a * d \in Nat OBVIOUS
      <4> QED BY <4>1
    <3>2. w = h + v BY ONLY w = y - 1, y = h + x, v = x - 1, h \in Nat, x \in 1 .. l, l \in Nat
    <3>3. w = h + (ad + b) BY <2>1, <3>2
    <3>4. h + (ad + b) = (h + ad) + b BY ONLY h \in Nat, ad \in Nat, b \in 0 .. d - 1, d \in Nat \ {0}
    <3> QED BY <3>1, <3>3, <3>4
  <2> PICK c \in Nat : c = f + a OBVIOUS
  <2>4. (c * d + b) \div d = c BY ONLY c \in Nat, d \in Nat \ {0}, b \in 0 .. d - 1, DivUnique
  <2>5. u = c BY <2>3, <2>4
  <2> QED BY <2>2, <2>5
<1>4. ASSUME f <= u, u < f + k PROVE \E x \in 1 .. l : y = h + x
  <2>1. u \in Nat BY DivMod
  <2> PICK a \in Nat : u = f + a
    <3>1. u - f \in Nat /\ u = f + (u - f) BY <1>4, <2>1
    <3> QED BY <3>1
  <2>2. a < k BY <1>4
  <2> PICK b \in 0 .. d - 1 : b = w % d BY DivMod
  <2>3. w = u * d + b BY DivMod
  <2> PICK ad \in Nat : ad = a * d
    <3>1. a * d \in Nat OBVIOUS
    <3> QED BY <3>1
  <2>4. u * d = h + ad
    <3>1. (f + a) * d = f * d + a * d BY ONLY f \in Nat, a \in Nat, d \in Nat \ {0}
    <3> QED BY <3>1
  <2>5. ad + d <= l
    <3> PICK e \in Nat : k = a + 1 + e
      <4>1. k - (a + 1) \in Nat /\ k = a + 1 + (k - (a + 1)) BY <2>2
      <4> QED BY <4>1
    <3>1. k * d = a * d + d + e * d /\ e * d \in Nat BY ONLY k = a + 1 + e, a \in Nat, e \in Nat, d \in Nat \ {0}
    <3> QED BY <3>1
  <2> PICK x : x = ad + b + 1 OBVIOUS
  <2>6. x \in 1 .. l BY ONLY <2>5, x = ad + b + 1, ad \in Nat, b \in 0 .. d - 1, d \in Nat \ {0}, l \in Nat
  <2>7. y = h + x
    <3>1. w = h + ad + b BY <2>3, <2>4
    <3> QED BY ONLY <3>1, w = y - 1, x = ad + b + 1, y \in Nat \ {0}, h \in Nat, ad \in Nat, b \in 0 .. d - 1, d \in Nat \ {0}
  <2> QED BY <2>6, <2>7
<1> QED BY <1>2, <1>3, <1>4

\* A part holds d rows of each of the K units, unit by unit.
PartLaid(p, size, g, part, K, d) ==
    /\ d \in Nat /\ part \in Seq(RowNames) /\ Len(part) = K * d
    /\ \A y \in 1 .. K * d : part[y][2] = g /\ Unit(p, size, part[y]) = (y - 1) \div d

Laid(p, size, g, n, parts, K, d) ==
    /\ K \in Nat /\ K % size = 0
    /\ \A c \in 1 .. n : PartLaid(p, size, g, parts[c], K, d[c])
    /\ \A row \in AllRows(p, g) : \E c \in 1 .. n : row \in RowsOf(parts[c])

\* A share s has of a unit all rows or none.
OfWholeUnits(p, size, g, s) ==
    \A row \in RowsOf(s) : row[2] = g /\ \A other \in AllRows(p, g) :
        Unit(p, size, other) = Unit(p, size, row) => other \in RowsOf(s)

\* The chunk of a part holds the rows of size-th of its units.
ChunkUnits(size, K, k, d) ==
    /\ K = size * k /\ k * d \in Nat /\ K * d = size * (k * d)
    /\ (K * d) % size = 0 /\ (K * d) \div size = k * d

\* A chunk of K units has a size-th of them, and of their rows.
LEMMA ChunkLength ==
    ASSUME NEW size \in Nat \ {0}, NEW K \in Nat, K % size = 0, NEW k \in Nat, k = K \div size, NEW d \in Nat
    PROVE  ChunkUnits(size, K, k, d)
<1>1. K = k * size BY MultipleOf
<1>2. k * size = size * k BY ONLY k \in Nat, size \in Nat \ {0}
<1>3. (k * size) * d = (k * d) * size /\ (k * size) * d = size * (k * d) /\ k * d \in Nat
      BY ONLY k \in Nat, size \in Nat \ {0}, d \in Nat
<1> PICK e \in Nat : e = k * d BY <1>3
<1>4. (e * size) % size = 0 /\ (e * size) \div size = e BY ONLY e \in Nat, size \in Nat \ {0}, MultipleOf
<1> QED BY <1>1, <1>2, <1>3, <1>4 DEF ChunkUnits

\* Rank i's chunks of the parts are of whole units.
LEMMA ShardOfUnits ==
    ASSUME NEW p, NEW size, NEW g, NEW n, NEW parts, NEW K, NEW d, Laid(p, size, g, n, parts, K, d),
           NEW L, Divided(RowNames, n, parts, L, size),
           NEW i, i \in 0 .. size - 1, NEW s, s = ChunkOfEach(n, parts, size, i)
    PROVE  OfWholeUnits(p, size, g, s)
<1>0. /\ size \in Nat \ {0} /\ K \in Nat /\ K % size = 0 /\ i \in Nat
      /\ \A c \in 1 .. n : PartLaid(p, size, g, parts[c], K, d[c]) /\ L[c] = Len(parts[c]) \div size
  <2>1. size \in Nat \ {0} /\ \A c \in 1 .. n : L[c] = Len(parts[c]) \div size
        BY ONLY Divided(RowNames, n, parts, L, size) DEF Divided
  <2>2. K \in Nat /\ K % size = 0 /\ \A c \in 1 .. n : PartLaid(p, size, g, parts[c], K, d[c])
        BY ONLY Laid(p, size, g, n, parts, K, d) DEF Laid
  <2>3. i \in Nat BY ONLY <2>1, i \in 0 .. size - 1
  <2> QED BY <2>1, <2>2, <2>3
<1> PICK a \in Nat : a = K BY <1>0
<1> PICK b \in Nat \ {0} : b = size BY <1>0
<1> PICK k \in Nat : k = a \div b BY ONLY a \in Nat, b \in Nat \ {0}, DivMod
<1>a. size \in Nat \ {0} /\ K \in Nat /\ K % size = 0 BY <1>0
<1>b. k = K \div size BY ONLY k = a \div b, a = K, b = size
<1>1. IsShard(s, n, parts, L, i) BY ShardRows
<1>2. ASSUME NEW c \in 1 .. n
      PROVE  /\ d[c] \in Nat /\ L[c] \in Nat /\ L[c] = k * d[c] /\ K * d[c] = size * L[c]
             /\ Len(parts[c]) = K * d[c] /\ DOMAIN parts[c] = 1 .. K * d[c]
             /\ \A y \in 1 .. K * d[c] : parts[c][y][2] = g /\ Unit(p, size, parts[c][y]) = (y - 1) \div d[c]
  <2> PICK e \in Nat : e = d[c] BY <1>0 DEF PartLaid
  <2>1. /\ parts[c] \in Seq(RowNames) /\ Len(parts[c]) = K * e
        /\ \A y \in 1 .. K * e : parts[c][y][2] = g /\ Unit(p, size, parts[c][y]) = (y - 1) \div e
        BY <1>0 DEF PartLaid
  <2> PICK w \in Nat : w = Len(parts[c]) BY <2>1
  <2> PICK v \in Nat : v = K * e BY <2>1
  <2>5. L[c] = Len(parts[c]) \div size BY ONLY <1>0, c \in 1 .. n
  <2>2. L[c] = v \div size BY ONLY <2>1, <2>5, v = K * e, w = Len(parts[c])
  <2>6. ChunkUnits(size, K, k, e) BY ONLY <1>a, <1>b, k \in Nat, e \in Nat, ChunkLength
  <2>3. K = size * k /\ k * e \in Nat /\ K * e = size * (k * e) /\ (K * e) \div size = k * e
        BY ONLY <2>6 DEF ChunkUnits
  <2>4. DOMAIN parts[c] = 1 .. Len(parts[c]) BY ONLY <2>1
  <2> QED BY <2>1, <2>2, <2>3, <2>4
<1>3. ASSUME NEW row \in RowsOf(s) PROVE row[2] = g /\ i * k <= Unit(p, size, row) /\ Unit(p, size, row) < i * k + k
  <2> PICK z \in DOMAIN s : row = s[z] BY DEF RowsOf
  <2>1. \E c \in 1 .. n : \E x \in 1 .. L[c] : s[z] = parts[c][i * L[c] + x] BY <1>1 DEF IsShard
  <2> PICK c \in 1 .. n : \E x \in 1 .. L[c] : s[z] = parts[c][i * L[c] + x] BY <2>1
  <2> PICK e \in Nat : e = d[c] BY <1>2
  <2> PICK l \in Nat : l = L[c] BY <1>2
  <2> PICK x \in 1 .. l : s[z] = parts[c][i * l + x] OBVIOUS
  <2>2. l = k * e /\ K * e = size * l BY <1>2
  <2>3. e # 0
    <3>1. k * 0 = 0 BY ONLY k \in Nat
    <3>2. l # 0 BY ONLY x \in 1 .. l, l \in Nat
    <3> QED BY <2>2, <3>1, <3>2
  <2> PICK f \in Nat : f = i * l
    <3>1. i * l \in Nat BY ONLY i \in 0 .. size - 1, l \in Nat, <1>0
    <3> QED BY <3>1
  <2> PICK y \in Nat \ {0} : y = f + x OBVIOUS
  <2>4. y \in 1 .. K * e
    <3>1. /\ i + 1 \in Nat /\ f + l <= size * l BY ONLY <1>0, f = i * l, l \in Nat, i \in 0 .. size - 1, NextRun
    <3>2. size * l \in Nat BY ONLY <1>0, l \in Nat
    <3> QED BY ONLY <2>2, <3>1, <3>2, y = f + x, x \in 1 .. l, f \in Nat, l \in Nat
  <2> PICK u : u = (y - 1) \div e OBVIOUS
  <2>5. row = parts[c][y] OBVIOUS
  <2>6. row[2] = g /\ Unit(p, size, row) = u
    <3>1. \A v \in 1 .. K * e : parts[c][v][2] = g /\ Unit(p, size, parts[c][v]) = (v - 1) \div e
          BY ONLY <1>2, e = d[c], c \in 1 .. n
    <3> QED BY ONLY <3>1, <2>4, <2>5, u = (y - 1) \div e
  <2>7. \E v \in 1 .. l : y = i * l + v OBVIOUS
  <2>8. i * k <= u /\ u < i * k + k
        BY ONLY <1>0, <2>2, <2>3, <2>7, e \in Nat, k \in Nat, l \in Nat, y \in Nat \ {0}, u = (y - 1) \div e, UnitPlace
  <2> QED BY <2>6, <2>8
<1>4. ASSUME NEW row \in AllRows(p, g), i * k <= Unit(p, size, row), Unit(p, size, row) < i * k + k
      PROVE  row \in RowsOf(s)
  <2> PICK c \in 1 .. n : row \in RowsOf(parts[c]) BY DEF Laid
  <2> PICK e \in Nat : e = d[c] BY <1>2
  <2> PICK l \in Nat : l = L[c] BY <1>2
  <2>1. DOMAIN parts[c] = 1 .. K * e BY <1>2
  <2> PICK y \in 1 .. K * e : row = parts[c][y] BY <2>1 DEF RowsOf
  <2>2. l = k * e BY <1>2
  <2>3. e # 0
    <3>1. K * 0 = 0 BY ONLY <1>0
    <3>2. 1 .. 0 = {} OBVIOUS
    <3> QED BY <3>1, <3>2
  <2> PICK u : u = (y - 1) \div e OBVIOUS
  <2>4. Unit(p, size, row) = u BY <1>2
  <2>5. i * k <= u /\ u < i * k + k BY <1>4, <2>4
  <2>6. y \in Nat \ {0}
    <3>1. K * e \in Nat BY ONLY <1>0, e \in Nat
    <3> QED BY ONLY <3>1, y \in 1 .. K * e
  <2>7. \E x \in 1 .. l : y = i * l + x
        BY ONLY <1>0, <2>2, <2>3, <2>5, <2>6, e \in Nat, k \in Nat, l \in Nat, u = (y - 1) \div e, UnitPlace
  <2> PICK x \in 1 .. l : y = i * l + x BY <2>7
  <2>8. parts[c][i * L[c] + x] \in RowsOf(s) BY <1>1 DEF IsShard
  <2> QED BY <2>8
<1> QED BY <1>3, <1>4 DEF OfWholeUnits

\* Every row is in some rank's chunks.
LEMMA ShardsCover ==
    ASSUME NEW p, NEW size, NEW g, NEW n, NEW parts, NEW K, NEW d, Laid(p, size, g, n, parts, K, d),
           NEW L, Divided(RowNames, n, parts, L, size), NEW row, row \in AllRows(p, g)
    PROVE  \E i \in 0 .. size - 1 : row \in RowsOf(ChunkOfEach(n, parts, size, i))
<1>0. /\ size \in Nat \ {0} /\ n \in Nat \ {0}
      /\ \A c \in 1 .. n : parts[c] \in Seq(RowNames) /\ Len(parts[c]) % size = 0 /\ L[c] = Len(parts[c]) \div size
      BY DEF Divided
<1> PICK c \in 1 .. n : row \in RowsOf(parts[c]) BY DEF Laid
<1> PICK w : w = parts[c] OBVIOUS
<1>1. w \in Seq(RowNames) /\ Len(w) % size = 0 /\ L[c] = Len(w) \div size BY <1>0
<1> PICK m \in Nat : m = Len(w) BY <1>1
<1> PICK l \in Nat : l = m \div size /\ l = L[c] BY <1>0, <1>1, DivMod
<1>2. m = l * size /\ l * size = size * l
  <2>1. m % size = 0 BY <1>1
  <2> QED BY ONLY <1>0, <2>1, m \in Nat, l \in Nat, l = m \div size, MultipleOf
<1>3. DOMAIN w = 1 .. m BY ONLY <1>1, m = Len(w)
<1> PICK y \in 1 .. m : row = w[y] BY <1>3 DEF RowsOf
<1>4. l # 0
  <2>1. 0 * size = 0 BY ONLY <1>0
  <2>2. m # 0 BY ONLY y \in 1 .. m, m \in Nat
  <2> QED BY <1>2, <2>1, <2>2
<1>5. InGroups(y, l, size) BY <1>0, <1>2, <1>4 DEF InGroups
<1> PICK i \in 0 .. size - 1 : \E o \in 0 .. l - 1 : y = i * l + o + 1 BY <1>5, HeadOf
<1> PICK o \in 0 .. l - 1 : y = i * l + o + 1 OBVIOUS
<1> PICK s : s = ChunkOfEach(n, parts, size, i) OBVIOUS
<1>6. IsShard(s, n, parts, L, i) BY ShardRows
<1> PICK x \in 1 .. l : x = o + 1 BY ONLY o \in 0 .. l - 1, l \in Nat
<1>7. y = i * l + x
  <2>1. i * l \in Nat BY ONLY <1>0, i \in 0 .. size - 1, l \in Nat
  <2> QED BY ONLY <2>1, y = i * l + o + 1, x = o + 1, o \in 0 .. l - 1, l \in Nat
<1>8. parts[c][i * L[c] + x] \in RowsOf(s) BY <1>6 DEF IsShard
<1> QED BY <1>7, <1>8

\* The parts have so many rows each.
HaveSizes(parts, sizes, n) == sizes \in Seq(Nat) /\ Len(sizes) = n /\ \A c \in 1 .. n : Len(parts[c]) = sizes[c]

\* s is a share of all the rows of the parts, one of size equal ones.
EqualShare(s, size, sizes) == Len(s) * size = Total(sizes)

\* Equal chunks of each part make equal shards.
LEMMA ShardLength ==
    ASSUME NEW n, NEW parts, NEW L, NEW size, Divided(RowNames, n, parts, L, size),
           NEW i, i \in 0 .. size - 1, NEW s, s = ChunkOfEach(n, parts, size, i),
           NEW sizes, HaveSizes(parts, sizes, n)
    PROVE  EqualShare(s, size, sizes)
<1> USE DEF HaveSizes
<1>0. /\ n \in Nat \ {0} /\ L \in Seq(Nat) /\ Len(L) = n /\ size \in Nat \ {0}
      /\ \A c \in 1 .. n : Len(parts[c]) % size = 0 /\ L[c] = Len(parts[c]) \div size
      BY DEF Divided
<1> DEFINE A == [k \in 0 .. n |-> Total(SubSeq(L, 1, k))]
           B == [k \in 0 .. n |-> Total(SubSeq(sizes, 1, k))]
<1>1. \A k \in 0 .. n : A[k] = Total(SubSeq(L, 1, k)) OBVIOUS
<1>2. \A k \in 0 .. n : B[k] = Total(SubSeq(sizes, 1, k)) OBVIOUS
<1> HIDE DEF A, B
<1>3. n \in Nat BY <1>0
<1>4. Partial(A, L, n) /\ Total(L) = A[n] BY ONLY <1>0, <1>1, <1>3, RunningTotals
<1>5. Partial(B, sizes, n) /\ Total(sizes) = B[n]
      BY ONLY <1>2, <1>3, sizes \in Seq(Nat), Len(sizes) = n, RunningTotals
<1>6. TimesLarger(sizes, L, n, size)
  <2> SUFFICES ASSUME NEW c \in 1 .. n PROVE L[c] \in Nat /\ sizes[c] = L[c] * size BY DEF TimesLarger
  <2> PICK a \in Nat : a = sizes[c] OBVIOUS
  <2> PICK l \in Nat : l = L[c] BY <1>0
  <2>1. a % size = 0 /\ l = a \div size BY <1>0
  <2>2. a = (a \div size) * size BY ONLY <1>0, <2>1, a \in Nat, MultipleOf
  <2> QED BY <2>1, <2>2
<1>7. size \in Nat /\ n \in 0 .. n BY <1>0
<1>8. \A c \in 0 .. n : B[c] = A[c] * size BY ONLY <1>3, <1>4, <1>5, <1>6, <1>7, PartialsScale
<1>9. B[n] = A[n] * size BY <1>7, <1>8
<1>10. Len(s) = Total(L) BY ShardRows
<1> QED BY <1>4, <1>5, <1>9, <1>10 DEF EqualShare

-----------------------------------------------------------------------------
(* The rows of each mapping class, and their units.                        *)

\* A tensor of distinct rows has as many as its length.
LEMMA DistinctRows ==
    ASSUME NEW S, NEW s \in Seq(S), \A x, y \in DOMAIN s : s[x] = s[y] => x = y
    PROVE  IsFiniteSet(RowsOf(s)) /\ Cardinality(RowsOf(s)) = Len(s)
<1> PICK n \in Nat : n = Len(s) OBVIOUS
<1>1. DOMAIN s = 1 .. n OBVIOUS
<1> PICK f : f = [i \in 0 .. n - 1 |-> s[i + 1]] OBVIOUS
<1>2. \A i \in 0 .. n - 1 : f[i] = s[i + 1] /\ i + 1 \in 1 .. n OBVIOUS
<1>3. \A i, j \in 0 .. n - 1 : f[i] = f[j] => i = j
  <2> SUFFICES ASSUME NEW i \in 0 .. n - 1, NEW j \in 0 .. n - 1, f[i] = f[j] PROVE i = j OBVIOUS
  <2>1. i + 1 = j + 1 BY <1>1, <1>2
  <2> QED BY ONLY <2>1, i \in 0 .. n - 1, j \in 0 .. n - 1, n \in Nat
<1> PICK W : W = RowsOf(s) OBVIOUS
<1>4. \A x : x \in W <=> \E i \in 0 .. n - 1 : x = f[i]
  <2>1. ASSUME NEW x \in W PROVE \E i \in 0 .. n - 1 : x = f[i]
    <3> PICK y \in 1 .. n : x = s[y] BY <1>1 DEF RowsOf
    <3> PICK i \in 0 .. n - 1 : y = i + 1
      <4>1. y - 1 \in 0 .. n - 1 /\ y = (y - 1) + 1 BY ONLY y \in 1 .. n, n \in Nat
      <4> QED BY <4>1
    <3> QED BY <1>2
  <2>2. ASSUME NEW i \in 0 .. n - 1 PROVE f[i] \in W BY <1>1, <1>2 DEF RowsOf
  <2> QED BY <2>1, <2>2
<1>5. IsFiniteSet(W) /\ Cardinality(W) = n BY ONLY <1>3, <1>4, n \in Nat, InjectiveImage
<1> QED BY <1>5

Keyed(s, key, g, n) ==
    /\ s \in Seq(RowNames) /\ Len(s) = n /\ DOMAIN s = 1 .. n /\ \A x \in 1 .. n : s[x] = <<key, g, x>>
    /\ IsFiniteSet(RowsOf(s)) /\ Cardinality(RowsOf(s)) = n
    /\ \A row \in RowsOf(s) : row[1] = key

\* The rows of one tensor, each under its own index.
LEMMA RowsAre ==
    ASSUME NEW key, key \in {"weight", "q", "z", "k", "v", "gate", "up", "qkvz", "ba"},
           NEW g \in Int, NEW n \in Nat, NEW s, s = Rows(key, g, n)
    PROVE  Keyed(s, key, g, n)
<1>1. s \in Seq(RowNames) /\ Len(s) = n BY RowsNamed
<1>2. DOMAIN s = 1 .. n /\ \A x \in 1 .. n : s[x] = <<key, g, x>> BY DEF Rows
<1>3. \A x, y \in DOMAIN s : s[x] = s[y] => x = y
  <2> SUFFICES ASSUME NEW x \in 1 .. n, NEW y \in 1 .. n, s[x] = s[y] PROVE x = y BY <1>2
  <2>1. <<key, g, x>> = <<key, g, y>> BY <1>2
  <2> QED BY <2>1
<1>4. IsFiniteSet(RowsOf(s)) /\ Cardinality(RowsOf(s)) = Len(s) BY ONLY <1>1, <1>3, DistinctRows
<1>5. \A row \in RowsOf(s) : row[1] = key BY <1>2 DEF RowsOf
<1> QED BY <1>1, <1>2, <1>4, <1>5 DEF Keyed

OfSize(A, n) == IsFiniteSet(A) /\ Cardinality(A) = n

\* Two tensors without a row in common.
LEMMA BothSizes ==
    ASSUME NEW A, NEW m \in Nat, OfSize(A, m), NEW B, NEW n \in Nat, OfSize(B, n), A \cap B = {}, NEW l, l = m + n
    PROVE  OfSize(A \cup B, l)
<1>0. IsFiniteSet(A) /\ IsFiniteSet(B) /\ Cardinality(A) = m /\ Cardinality(B) = n BY DEF OfSize
<1> USE <1>0
<1>1. IsFiniteSet(A \cup B) /\ Cardinality(A \cup B) = Cardinality(A) + Cardinality(B) - Cardinality(A \cap B)
      BY FS_Union
<1>2. Cardinality(A \cap B) = 0 BY FS_EmptySet
<1> QED BY <1>1, <1>2 DEF OfSize

\* The rows of a parameter are those of its external tensors.
LEMMA AllRowsAre ==
    ASSUME NEW p, NEW g, NEW hf, hf = HF(p, g)
    PROVE  \A row : row \in AllRows(p, g) <=> \E key \in DOMAIN hf : row \in RowsOf(hf[key])
BY DEF AllRows, RowsOf

\* The parts hold the rows by units, and there are as many as PartSizes says.
Spread(p, size, g) ==
    /\ \E K, d : Laid(p, size, g, Len(PartSizes(p)), Parts(p, HF(p, g)), K, d)
    /\ Cardinality(AllRows(p, g)) = Total(PartSizes(p))

\* A parameter of one part, each unit of which is a run of its rows.
LEMMA SpreadInOne ==
    ASSUME NEW p, NEW size, NEW g, NEW w, NEW K \in Nat, NEW d \in Nat, PartLaid(p, size, g, w, K, d), K % size = 0,
           Parts(p, HF(p, g)) = <<w>>, NEW l \in Nat, PartSizes(p) = <<l>>,
           \A row \in AllRows(p, g) : row \in RowsOf(w), Cardinality(AllRows(p, g)) = l
    PROVE  Spread(p, size, g)
<1> PICK n \in Nat : n = 1 OBVIOUS
<1> PICK parts : parts = <<w>> OBVIOUS
<1> PICK D : D = <<d>> OBVIOUS
<1>1. parts[1] = w /\ D[1] = d /\ Len(<<l>>) = n /\ <<l>> \in Seq(Nat) /\ <<l>>[1] = l OBVIOUS
<1>2. \A c \in 1 .. n : c = 1 OBVIOUS
<1>3. 1 \in 1 .. n OBVIOUS
<1>4. Laid(p, size, g, n, parts, K, D) BY <1>1, <1>2, <1>3 DEF Laid
<1> PICK B : B = [k \in 0 .. 1 |-> IF k = 0 THEN 0 ELSE l] OBVIOUS
<1> PICK s : s = <<l>> OBVIOUS
<1>5. Partial(B, s, n)
  <2>1. B[0] = 0 /\ B[1] = l OBVIOUS
  <2>2. 1 - 1 = 0 /\ 0 + l = l OBVIOUS
  <2> QED BY <1>1, <1>2, <2>1, <2>2 DEF Partial
<1>6. B[n] = l OBVIOUS
<1>7. Total(s) = B[n] BY <1>1, <1>5, TotalIs
<1> QED BY <1>1, <1>4, <1>6, <1>7 DEF Spread

\* Rows that are units of their own.
LEMMA UnitsAlone ==
    ASSUME NEW p, p.kind \in {"column", "row", "gated"}, NEW size,
           NEW key, key \in {"weight", "q", "z", "k", "v", "gate", "up", "qkvz", "ba"},
           NEW g \in Int, NEW n \in Nat, NEW w, w = Rows(key, g, n)
    PROVE  PartLaid(p, size, g, w, n, 1) /\ Keyed(w, key, g, n)
<1>1. Keyed(w, key, g, n) BY RowsAre
<1>2. n * 1 = n OBVIOUS
<1>3. ASSUME NEW y \in 1 .. n PROVE w[y][2] = g /\ Unit(p, size, w[y]) = (y - 1) \div 1
  <2>1. w[y] = <<key, g, y>> BY <1>1 DEF Keyed
  <2>2. Unit(p, size, w[y]) = w[y][3] - 1 BY DEF Unit
  <2> PICK q \in Nat : q = y - 1 OBVIOUS
  <2>3. (q * 1 + 0) \div 1 = q /\ q * 1 + 0 = q
    <3>1. 0 \in 0 .. 1 - 1 /\ 1 \in Nat \ {0} OBVIOUS
    <3> QED BY ONLY <3>1, q \in Nat, DivUnique
  <2> QED BY <2>1, <2>2, <2>3
<1> QED BY <1>1, <1>2, <1>3 DEF PartLaid, Keyed

\* AutoMapping: a row is a unit of its own.
LEMMA DirectSpread ==
    ASSUME NEW p, WellShaped(p), p.kind \in {"column", "row"}, NEW g \in Int, NEW size \in Nat \ {0},
           SplitsEvenly(p, size)
    PROVE  Spread(p, size, g)
<1> PICK n \in Nat : n = p.n[1] BY DEF WellShaped
<1> PICK w : w = Rows("weight", g, n) OBVIOUS
<1> PICK hf : hf = HF(p, g) OBVIOUS
<1>1. hf = [weight |-> w] BY DEF HF, Direct
<1>2. Parts(p, hf) = <<w>> /\ PartSizes(p) = <<n>> BY <1>1 DEF Parts, Fused, PartSizes
<1>3. n % size = 0
  <2>1. ~Whole(p) BY DEF Whole
  <2>2. 1 \in DOMAIN <<n>> /\ <<n>>[1] = n OBVIOUS
  <2> QED BY <1>2, <2>1, <2>2 DEF SplitsEvenly
<1>4. PartLaid(p, size, g, w, n, 1) /\ Keyed(w, "weight", g, n) BY UnitsAlone
<1>5. AllRows(p, g) = RowsOf(w)
  <2>1. \A row : row \in AllRows(p, g) <=> \E key \in DOMAIN hf : row \in RowsOf(hf[key]) BY AllRowsAre
  <2>2. DOMAIN hf = {"weight"} /\ hf["weight"] = w BY <1>1
  <2> QED BY <2>1, <2>2
<1>6. Cardinality(RowsOf(w)) = n BY <1>4 DEF Keyed
<1> PICK d \in Nat : d = 1 OBVIOUS
<1> QED BY <1>2, <1>3, <1>4, <1>5, <1>6, SpreadInOne

\* GatedMLPMapping: a row of the gate, with that of the up projection.
LEMMA GatedSpread ==
    ASSUME NEW p, WellShaped(p), p.kind = "gated", NEW g \in Int, NEW size \in Nat \ {0}, SplitsEvenly(p, size)
    PROVE  Spread(p, size, g)
<1> PICK n \in Nat : n = p.n[1] BY DEF WellShaped
<1> PICK a : a = Rows("gate", g, n) OBVIOUS
<1> PICK b : b = Rows("up", g, n) OBVIOUS
<1> PICK hf : hf = HF(p, g) OBVIOUS
<1>1. hf = [gate |-> a, up |-> b] BY DEF HF, Direct
<1> PICK parts : parts = <<a, b>> OBVIOUS
<1> PICK s : s = <<n, n>> OBVIOUS
<1>2. Parts(p, hf) = parts /\ PartSizes(p) = s BY <1>1 DEF Parts, PartSizes
<1>3. n % size = 0
  <2>1. ~Whole(p) BY DEF Whole
  <2>2. 1 \in DOMAIN <<n, n>> /\ <<n, n>>[1] = n OBVIOUS
  <2> QED BY <1>2, <2>1, <2>2 DEF SplitsEvenly
<1>4. PartLaid(p, size, g, a, n, 1) /\ Keyed(a, "gate", g, n) BY UnitsAlone
<1>5. PartLaid(p, size, g, b, n, 1) /\ Keyed(b, "up", g, n) BY UnitsAlone
<1>6. AllRows(p, g) = RowsOf(a) \cup RowsOf(b)
  <2>1. \A row : row \in AllRows(p, g) <=> \E key \in DOMAIN hf : row \in RowsOf(hf[key]) BY AllRowsAre
  <2>2. DOMAIN hf = {"gate", "up"} /\ hf["gate"] = a /\ hf["up"] = b BY <1>1
  <2> QED BY <2>1, <2>2
<1>7. Cardinality(AllRows(p, g)) = n + n
  <2>1. RowsOf(a) \cap RowsOf(b) = {}
    <3>1. \A row \in RowsOf(a) : row[1] = "gate" BY <1>4 DEF Keyed
    <3>2. \A row \in RowsOf(b) : row[1] = "up" BY <1>5 DEF Keyed
    <3> QED BY <3>1, <3>2
  <2>2. OfSize(RowsOf(a), n) /\ OfSize(RowsOf(b), n) BY <1>4, <1>5 DEF Keyed, OfSize
  <2> PICK l \in Nat : l = n + n OBVIOUS
  <2>3. OfSize(RowsOf(a) \cup RowsOf(b), l) BY ONLY <2>1, <2>2, n \in Nat, l = n + n, BothSizes
  <2>4. Cardinality(RowsOf(a) \cup RowsOf(b)) = l BY ONLY <2>3 DEF OfSize
  <2> QED BY <1>6, <2>4
<1> PICK z \in Nat : z = 2 OBVIOUS
<1>8. s \in Seq(Nat) /\ Len(s) = z /\ s[1] = n /\ s[2] = n OBVIOUS
<1>9. Total(s) = n + n
  <2> PICK B : B = [k \in 0 .. 2 |-> IF k = 0 THEN 0 ELSE IF k = 1 THEN n ELSE n + n] OBVIOUS
  <2>1. B[0] = 0 /\ B[1] = n /\ B[2] = n + n OBVIOUS
  <2>2. \A k \in 1 .. z : k = 1 \/ k = 2 OBVIOUS
  <2>3. 1 - 1 = 0 /\ 2 - 1 = 1 /\ 0 + n = n OBVIOUS
  <2>4. Partial(B, s, z) BY <1>8, <2>1, <2>2, <2>3 DEF Partial
  <2>5. Total(s) = B[z] BY <1>8, <2>4, TotalIs
  <2> QED BY <2>1, <2>5
<1> PICK D : D = <<1, 1>> OBVIOUS
<1>10. Laid(p, size, g, z, parts, n, D)
  <2>1. parts[1] = a /\ parts[2] = b /\ D[1] = 1 /\ D[2] = 1 OBVIOUS
  <2>2. \A c \in 1 .. z : c = 1 \/ c = 2 OBVIOUS
  <2>3. 1 \in 1 .. z /\ 2 \in 1 .. z OBVIOUS
  <2>4. \A c \in 1 .. z : PartLaid(p, size, g, parts[c], n, D[c]) BY <1>4, <1>5, <2>1, <2>2
  <2>5. \A row \in AllRows(p, g) : \E c \in 1 .. z : row \in RowsOf(parts[c]) BY <1>6, <2>1, <2>3
  <2> QED BY <1>3, <2>4, <2>5 DEF Laid
<1> QED BY <1>2, <1>7, <1>8, <1>9, <1>10 DEF Spread

\* Keys and values: one of each.
LEMMA KVSpread ==
    ASSUME NEW p, WellShaped(p), p.kind = "kv", NEW g \in Int, NEW size \in Nat \ {0}, p.n[2] % size = 0
    PROVE  Spread(p, size, g)
<1> PICK n \in Nat \ {0} : n = p.n[2] BY DEF WellShaped
<1> PICK k : k = Rows("k", g, n) OBVIOUS
<1> PICK v : v = Rows("v", g, n) OBVIOUS
<1> PICK hf : hf = HF(p, g) OBVIOUS
<1>1. hf = [k |-> k, v |-> v] BY DEF HF, Direct
<1> PICK w : w = MergeKV(p, k, v) OBVIOUS
<1> PICK l \in Nat : l = 2 * n OBVIOUS
<1>2. Parts(p, hf) = <<w>> /\ PartSizes(p) = <<l>> BY <1>1 DEF Parts, Fused, PartSizes
<1>3. Keyed(k, "k", g, n) /\ Keyed(v, "v", g, n)
  <2>1. Keyed(k, "k", g, n) BY RowsAre
  <2>2. Keyed(v, "v", g, n) BY RowsAre
  <2> QED BY <2>1, <2>2
<1>4. w \in Seq(RowNames) /\ Len(w) = l /\ SplitKV(p, w) = [k |-> k, v |-> v]
  <2>1. k \in Seq(RowNames) /\ Len(k) = n /\ v \in Seq(RowNames) /\ Len(v) = n BY <1>3 DEF Keyed
  <2>2. /\ MergeKV(p, k, v) \in Seq(RowNames) /\ Len(MergeKV(p, k, v)) = 2 * n
        /\ SplitKV(p, MergeKV(p, k, v)) = [k |-> k, v |-> v]
        BY ONLY <2>1, n \in Nat \ {0}, p.n[2] = n, KVRoundTrip
  <2> QED BY <2>2
<1>5. \A j \in 1 .. n : w[2 * j - 1] = k[j] /\ w[2 * j] = v[j]
  <2>1. SplitKV(p, w).k = [j \in 1 .. n |-> w[2 * j - 1]] /\ SplitKV(p, w).v = [j \in 1 .. n |-> w[2 * j]] BY DEF SplitKV
  <2>2. SplitKV(p, w).k = k /\ SplitKV(p, w).v = v BY <1>4
  <2> QED BY <2>1, <2>2
<1>6. DOMAIN w = 1 .. l BY ONLY <1>4, l \in Nat
<1>7. \A row : row \in AllRows(p, g) <=> row \in RowsOf(k) \cup RowsOf(v)
  <2>1. \A row : row \in AllRows(p, g) <=> \E key \in DOMAIN hf : row \in RowsOf(hf[key]) BY AllRowsAre
  <2>2. DOMAIN hf = {"k", "v"} /\ hf["k"] = k /\ hf["v"] = v BY <1>1
  <2> QED BY <2>1, <2>2
<1>8. ASSUME NEW row \in AllRows(p, g) PROVE row \in RowsOf(w)
  <2>1. DOMAIN k = 1 .. n /\ DOMAIN v = 1 .. n BY <1>3 DEF Keyed
  <2>2. \E j \in 1 .. n : row = k[j] \/ row = v[j] BY <1>7, <2>1 DEF RowsOf
  <2> PICK j \in 1 .. n : row = k[j] \/ row = v[j] BY <2>2
  <2>3. 2 * j - 1 \in 1 .. l /\ 2 * j \in 1 .. l OBVIOUS
  <2>4. w[2 * j - 1] = k[j] /\ w[2 * j] = v[j] BY <1>5
  <2>5. w[2 * j - 1] \in RowsOf(w) /\ w[2 * j] \in RowsOf(w) BY ONLY <1>6, <2>3 DEF RowsOf
  <2> QED BY ONLY <2>4, <2>5, row = k[j] \/ row = v[j]
<1>9. Cardinality(AllRows(p, g)) = l
  <2>1. RowsOf(k) \cap RowsOf(v) = {}
    <3>1. \A row \in RowsOf(k) : row[1] = "k" BY <1>3 DEF Keyed
    <3>2. \A row \in RowsOf(v) : row[1] = "v" BY <1>3 DEF Keyed
    <3> QED BY <3>1, <3>2
  <2>2. OfSize(RowsOf(k), n) /\ OfSize(RowsOf(v), n) BY <1>3 DEF Keyed, OfSize
  <2>3. AllRows(p, g) = RowsOf(k) \cup RowsOf(v) BY <1>7
  <2>4. l = n + n OBVIOUS
  <2>5. OfSize(RowsOf(k) \cup RowsOf(v), l) BY ONLY <2>1, <2>2, <2>4, n \in Nat \ {0}, BothSizes
  <2> QED BY ONLY <2>3, <2>5 DEF OfSize
<1> PICK d \in Nat \ {0} : d = 2 OBVIOUS
<1>10. n * d = l OBVIOUS
<1>11. ASSUME NEW y \in 1 .. l PROVE w[y][2] = g /\ Unit(p, size, w[y]) = (y - 1) \div d
  <2>1. InGroups(y, d, n) BY <1>10 DEF InGroups
  <2> PICK j \in 0 .. n - 1 : \E o \in 0 .. d - 1 : y = j * d + o + 1 /\ (y - 1) \div d = j BY ONLY <2>1, HeadOf
  <2> PICK o \in 0 .. d - 1 : y = j * d + o + 1 /\ (y - 1) \div d = j OBVIOUS
  <2> PICK h \in 1 .. n : h = j + 1 OBVIOUS
  <2>2. y = 2 * h - 1 \/ y = 2 * h OBVIOUS
  <2>3. w[y] = k[h] \/ w[y] = v[h] BY <1>5, <2>2
  <2>4. k[h] = <<"k", g, h>> /\ v[h] = <<"v", g, h>> BY <1>3 DEF Keyed
  <2>5. w[y][2] = g /\ w[y][3] = h BY <2>3, <2>4
  <2>6. Unit(p, size, w[y]) = w[y][3] - 1 BY DEF Unit
  <2> QED BY <2>5, <2>6
<1>12. PartLaid(p, size, g, w, n, d) BY <1>4, <1>10, <1>11 DEF PartLaid
<1> QED BY <1>2, <1>8, <1>9, <1>12, SpreadInOne

\* The query rows of head h: one, or with a gate two.
HeadRows(p, q, h) == IF p.gate THEN {q[2 * h - 1], q[2 * h]} ELSE {q[h]}

\* The group a row of the merged tensor is in, and what it is there.
LEMMA MergedRow ==
    ASSUME NEW p, Grouped(p), NEW q, NEW k, NEW v, NEW M, M = MergeQKV(p, q, k, v),
           NEW P, P = PerGroup(p), NEW W, W = Span(p), NEW y \in 1 .. p.n[2] * W
    PROVE  \E j \in 0 .. p.n[2] - 1 :
              /\ (y - 1) \div W = j
              /\ \/ M[y] = k[j + 1] \/ M[y] = v[j + 1]
                 \/ \E h \in 1 .. p.n[1] : (h - 1) \div P = j /\ M[y] \in HeadRows(p, q, h)
<1> PICK n1 \in Nat \ {0} : n1 = p.n[1] BY DEF Grouped
<1> PICK n2 \in Nat \ {0} : n2 = p.n[2] BY DEF Grouped
<1>0. P \in Nat \ {0} /\ n1 = n2 * P /\ p.gate \in BOOLEAN BY DEF Grouped
<1>1. W \in Nat \ {0} /\ W = IF p.gate THEN 2 * P + 2 ELSE P + 2 BY GroupSize
<1>2. InGroups(y, W, n2) BY <1>1 DEF InGroups
<1> PICK j \in 0 .. n2 - 1 : \E o \in 0 .. W - 1 : y = j * W + o + 1 /\ (y - 1) \div W = j BY ONLY <1>2, HeadOf
<1> PICK o \in 0 .. W - 1 : y = j * W + o + 1 /\ (y - 1) \div W = j OBVIOUS
<1>3. j \in Nat /\ j < n2 BY ONLY j \in 0 .. n2 - 1, n2 \in Nat \ {0}
<1>4. /\ o = W - 2 => M[j * W + o + 1] = k[j + 1]
      /\ o = W - 1 => M[j * W + o + 1] = v[j + 1]
      /\ o < W - 2 => M[j * W + o + 1] =
           LET h == j * P + (o % P) + 1
           IN IF ~p.gate THEN q[h] ELSE IF o < P THEN q[2 * h - 1] ELSE q[2 * h]
      BY <1>3, MergedAt
<1>5. ASSUME o < W - 2
      PROVE  \E h \in 1 .. n1 : (h - 1) \div P = j /\ M[y] \in HeadRows(p, q, h)
  <2> PICK u \in Nat : u = o BY ONLY <1>1, o \in 0 .. W - 1
  <2> PICK e \in 0 .. P - 1 : e = u % P BY ONLY <1>0, u \in Nat, DivMod
  <2> PICK h : h = j * P + e + 1 OBVIOUS
  <2>1. h \in 1 .. n2 * P /\ (h - 1) \div P = j
        BY ONLY <1>0, <1>3, n2 \in Nat \ {0}, e \in 0 .. P - 1, h = j * P + e + 1, HeadNumber
  <2>2. M[y] = IF ~p.gate THEN q[h] ELSE IF o < P THEN q[2 * h - 1] ELSE q[2 * h] BY <1>4, <1>5
  <2>3. M[y] \in HeadRows(p, q, h) BY <1>0, <2>2 DEF HeadRows
  <2> QED BY <1>0, <2>1, <2>3
<1>6. o = W - 2 \/ o = W - 1 \/ o < W - 2 BY ONLY <1>1, o \in 0 .. W - 1
<1> QED BY <1>4, <1>5, <1>6

\* The merged tensor has every row of the three.
HasAll(p, q, k, v, M) ==
    /\ DOMAIN M = 1 .. p.n[2] * Span(p)
    /\ \A j \in 1 .. p.n[2] : k[j] \in RowsOf(M) /\ v[j] \in RowsOf(M)
    /\ \A h \in 1 .. p.n[1] : HeadRows(p, q, h) \subseteq RowsOf(M)

\* Every head is somewhere in the merged tensor.
LEMMA MergedHas ==
    ASSUME NEW p, Grouped(p), NEW q, NEW k, NEW v, NEW M, M = MergeQKV(p, q, k, v)
    PROVE  HasAll(p, q, k, v, M)
<1> PICK n1 \in Nat \ {0} : n1 = p.n[1] BY DEF Grouped
<1> PICK n2 \in Nat \ {0} : n2 = p.n[2] BY DEF Grouped
<1> PICK P \in Nat \ {0} : P = PerGroup(p) BY DEF Grouped
<1> PICK W : W = Span(p) OBVIOUS
<1>0. n1 = n2 * P /\ p.gate \in BOOLEAN BY DEF Grouped
<1>1. W \in Nat \ {0} /\ W = IF p.gate THEN 2 * P + 2 ELSE P + 2 BY GroupSize
<1>2. W * n2 = n2 * W BY ONLY <1>1, n2 \in Nat \ {0}
<1>3. DOMAIN M = 1 .. W * n2 BY DEF MergeQKV
<1>4. ASSUME NEW j \in 0 .. n2 - 1, NEW o \in 0 .. W - 1
      PROVE  /\ M[j * W + o + 1] \in RowsOf(M)
             /\ o = W - 2 => M[j * W + o + 1] = k[j + 1]
             /\ o = W - 1 => M[j * W + o + 1] = v[j + 1]
             /\ o < W - 2 => M[j * W + o + 1] =
                  LET h == j * P + (o % P) + 1
                  IN IF ~p.gate THEN q[h] ELSE IF o < P THEN q[2 * h - 1] ELSE q[2 * h]
  <2>1. j \in Nat /\ j < n2 BY ONLY j \in 0 .. n2 - 1, n2 \in Nat \ {0}
  <2>2. /\ j * W + o + 1 \in 1 .. W * n2
        /\ o = W - 2 => M[j * W + o + 1] = k[j + 1]
        /\ o = W - 1 => M[j * W + o + 1] = v[j + 1]
        /\ o < W - 2 => M[j * W + o + 1] =
             LET h == j * P + (o % P) + 1
             IN IF ~p.gate THEN q[h] ELSE IF o < P THEN q[2 * h - 1] ELSE q[2 * h]
        BY <2>1, MergedAt
  <2> QED BY <1>3, <2>2 DEF RowsOf
<1>5. ASSUME NEW j \in 1 .. n2 PROVE k[j] \in RowsOf(M) /\ v[j] \in RowsOf(M)
  <2> PICK i \in 0 .. n2 - 1 : j = i + 1
    <3>1. j - 1 \in 0 .. n2 - 1 /\ j = (j - 1) + 1 BY ONLY j \in 1 .. n2, n2 \in Nat \ {0}
    <3> QED BY <3>1
  <2>1. W - 2 \in 0 .. W - 1 /\ W - 1 \in 0 .. W - 1 BY ONLY <1>1, P \in Nat \ {0}
  <2>2. M[i * W + (W - 2) + 1] \in RowsOf(M) /\ M[i * W + (W - 2) + 1] = k[i + 1] BY ONLY <1>4, <2>1, i \in 0 .. n2 - 1
  <2>3. M[i * W + (W - 1) + 1] \in RowsOf(M) /\ M[i * W + (W - 1) + 1] = v[i + 1] BY ONLY <1>4, <2>1, i \in 0 .. n2 - 1
  <2> QED BY <2>2, <2>3
<1>6. ASSUME NEW h \in 1 .. n1 PROVE HeadRows(p, q, h) \subseteq RowsOf(M)
  <2>1. InGroups(h, P, n2) BY <1>0 DEF InGroups
  <2> PICK j \in 0 .. n2 - 1 : \E o \in 0 .. P - 1 : h = j * P + o + 1 /\ (h - 1) \div P = j BY ONLY <2>1, HeadOf
  <2> PICK o \in 0 .. P - 1 : h = j * P + o + 1 /\ (h - 1) \div P = j OBVIOUS
  <2>2. o % P = o
    <3>1. (0 * P + o) % P = o /\ 0 * P + o = o
      <4>1. 0 \in Nat OBVIOUS
      <4> QED BY ONLY <4>1, P \in Nat \ {0}, o \in 0 .. P - 1, DivUnique
    <3> QED BY <3>1
  <2>3. o \in 0 .. W - 1 /\ o < W - 2 /\ o < P BY ONLY <1>0, <1>1, P \in Nat \ {0}, o \in 0 .. P - 1
  <2>4. M[j * W + o + 1] \in RowsOf(M) /\ M[j * W + o + 1] = IF ~p.gate THEN q[h] ELSE q[2 * h - 1]
        BY <1>4, <2>2, <2>3
  <2>5. CASE ~p.gate BY <2>4, <2>5 DEF HeadRows
  <2>6. CASE p.gate
    <3> PICK u \in Nat : u = o + P OBVIOUS
    <3>1. u % P = o
      <4>1. (1 * P + o) % P = o
        <5>1. 1 \in Nat OBVIOUS
        <5> QED BY ONLY <5>1, P \in Nat \ {0}, o \in 0 .. P - 1, DivUnique
      <4>2. 1 * P + o = u OBVIOUS
      <4> QED BY <4>1, <4>2
    <3>2. W = 2 * P + 2 BY <1>1, <2>6
    <3>3. u \in 0 .. W - 1 /\ u < W - 2 /\ ~(u < P) BY ONLY <3>2, u = o + P, P \in Nat \ {0}, o \in 0 .. P - 1
    <3>4. M[j * W + u + 1] \in RowsOf(M) /\ M[j * W + u + 1] = q[2 * h] BY <1>4, <2>6, <3>1, <3>3
    <3> QED BY <2>4, <2>6, <3>4 DEF HeadRows
  <2> QED BY <1>0, <2>5, <2>6
<1> QED BY <1>2, <1>3, <1>5, <1>6 DEF HasAll

\* The query rows of a tensor of their own: head by head, with a gate or not.
QueryRows(p, g) ==
    IF p.gate THEN [i \in 1 .. 2 * p.n[1] |-> <<IF i % 2 = 1 THEN "q" ELSE "z", g, (i + 1) \div 2>>]
    ELSE Rows("q", g, p.n[1])

\* The query rows are those of the heads, with a gate or without.
LEMMA QueryRowsAre ==
    ASSUME NEW p, Grouped(p), NEW g \in Int, NEW q, q = QueryRows(p, g)
    PROVE  /\ q \in Seq(RowNames) /\ Len(q) = (IF p.gate THEN 2 ELSE 1) * p.n[1]
           /\ IsFiniteSet(RowsOf(q)) /\ Cardinality(RowsOf(q)) = (IF p.gate THEN 2 ELSE 1) * p.n[1]
           /\ \A h \in 1 .. p.n[1] : \A row \in HeadRows(p, q, h) : row[1] \in {"q", "z"} /\ row[2] = g /\ row[3] = h
           /\ \A row \in RowsOf(q) : row[1] \in {"q", "z"} /\ \E h \in 1 .. p.n[1] : row \in HeadRows(p, q, h)
<1> PICK n \in Nat \ {0} : n = p.n[1] BY DEF Grouped
<1>1. CASE ~p.gate
  <2>1. q = Rows("q", g, n) BY <1>1 DEF QueryRows
  <2>2. Keyed(q, "q", g, n) BY <2>1, RowsAre
  <2>3. \A h \in 1 .. n : HeadRows(p, q, h) = {<<"q", g, h>>} BY <1>1, <2>2 DEF HeadRows, Keyed
  <2>4. \A row \in RowsOf(q) : \E h \in 1 .. n : row \in HeadRows(p, q, h) BY <2>2, <2>3 DEF RowsOf, Keyed
  <2>5. 1 * n = n OBVIOUS
  <2> QED BY <1>1, <2>2, <2>3, <2>4, <2>5 DEF Keyed
<1>2. CASE p.gate
  <2> PICK m \in Nat : m = 2 * n OBVIOUS
  <2>1. q = [i \in 1 .. m |-> <<IF i % 2 = 1 THEN "q" ELSE "z", g, (i + 1) \div 2>>] BY <1>2 DEF QueryRows
  <2>2. \A i \in 1 .. m : i % 2 \in 0 .. 1 /\ (i + 1) \div 2 \in Int /\ q[i] \in RowNames
    <3> SUFFICES ASSUME NEW i \in 1 .. m PROVE i % 2 \in 0 .. 1 /\ (i + 1) \div 2 \in Int /\ q[i] \in RowNames OBVIOUS
    <3>1. i % 2 \in 0 .. 1 /\ (i + 1) \div 2 \in Int OBVIOUS
    <3>2. q[i] = <<IF i % 2 = 1 THEN "q" ELSE "z", g, (i + 1) \div 2>> BY <2>1
    <3> QED BY <3>1, <3>2 DEF RowNames
  <2>3. q \in Seq(RowNames) /\ Len(q) = m /\ DOMAIN q = 1 .. m
    <3>1. q = [i \in 1 .. m |-> q[i]] BY <2>1
    <3>2. q \in Seq(RowNames) /\ Len(q) = m BY ONLY <2>2, <3>1, m \in Nat, IsSequence
    <3> QED BY <2>1, <3>2
  <2>4. ASSUME NEW h \in 1 .. n
        PROVE  /\ 2 * h - 1 \in 1 .. m /\ 2 * h \in 1 .. m
               /\ q[2 * h - 1] = <<"q", g, h>> /\ q[2 * h] = <<"z", g, h>>
               /\ HeadRows(p, q, h) = {<<"q", g, h>>, <<"z", g, h>>}
    <3> PICK a : a = 2 * h - 1 OBVIOUS
    <3> PICK b : b = 2 * h OBVIOUS
    <3>1. /\ a \in 1 .. m /\ b \in 1 .. m /\ a % 2 = 1 /\ b % 2 = 0
          /\ (a + 1) \div 2 = h /\ (b + 1) \div 2 = h
          BY ONLY a = 2 * h - 1, b = 2 * h, h \in 1 .. n, n \in Nat \ {0}, m = 2 * n
    <3>2. q[a] = <<"q", g, h>> /\ q[b] = <<"z", g, h>> BY <2>1, <3>1
    <3> QED BY <1>2, <3>1, <3>2 DEF HeadRows
  <2>5. ASSUME NEW i \in 1 .. m PROVE \E h \in 1 .. n : i = 2 * h - 1 \/ i = 2 * h
    <3> PICK h : h = (i + 1) \div 2 OBVIOUS
    <3>1. h \in 1 .. n /\ (i = 2 * h - 1 \/ i = 2 * h)
          BY ONLY h = (i + 1) \div 2, i \in 1 .. m, m = 2 * n, n \in Nat \ {0}
    <3> QED BY <3>1
  <2>6. \A x, y \in DOMAIN q : q[x] = q[y] => x = y
    <3> SUFFICES ASSUME NEW x \in 1 .. m, NEW y \in 1 .. m, q[x] = q[y] PROVE x = y BY <2>3
    <3> PICK h \in 1 .. n : x = 2 * h - 1 \/ x = 2 * h BY <2>5
    <3> PICK e \in 1 .. n : y = 2 * e - 1 \/ y = 2 * e BY <2>5
    <3>1. /\ q[2 * h - 1] = <<"q", g, h>> /\ q[2 * h] = <<"z", g, h>>
          /\ q[2 * e - 1] = <<"q", g, e>> /\ q[2 * e] = <<"z", g, e>>
          BY <2>4
    <3>2. CASE x = 2 * h - 1
      <4>1. q[y] = <<"q", g, h>> BY <3>1, <3>2
      <4>2. y # 2 * e
        <5> SUFFICES ASSUME y = 2 * e PROVE FALSE OBVIOUS
        <5>1. <<"q", g, h>> = <<"z", g, e>> BY <3>1, <4>1
        <5> QED BY ONLY <5>1
      <4>3. y = 2 * e - 1 BY <4>2
      <4>4. <<"q", g, h>> = <<"q", g, e>> BY <3>1, <4>1, <4>3
      <4>5. h = e BY ONLY <4>4
      <4> QED BY <3>2, <4>3, <4>5
    <3>3. CASE x = 2 * h
      <4>1. q[y] = <<"z", g, h>> BY <3>1, <3>3
      <4>2. y # 2 * e - 1
        <5> SUFFICES ASSUME y = 2 * e - 1 PROVE FALSE OBVIOUS
        <5>1. <<"z", g, h>> = <<"q", g, e>> BY <3>1, <4>1
        <5> QED BY ONLY <5>1
      <4>3. y = 2 * e BY <4>2
      <4>4. <<"z", g, h>> = <<"z", g, e>> BY <3>1, <4>1, <4>3
      <4>5. h = e BY ONLY <4>4
      <4> QED BY <3>3, <4>3, <4>5
    <3> QED BY <3>2, <3>3
  <2>7. IsFiniteSet(RowsOf(q)) /\ Cardinality(RowsOf(q)) = m
    <3>1. IsFiniteSet(RowsOf(q)) /\ Cardinality(RowsOf(q)) = Len(q) BY ONLY <2>3, <2>6, DistinctRows
    <3> QED BY <2>3, <3>1
  <2>8. \A row \in RowsOf(q) : \E h \in 1 .. n : row \in HeadRows(p, q, h)
    <3> SUFFICES ASSUME NEW row \in RowsOf(q) PROVE \E h \in 1 .. n : row \in HeadRows(p, q, h) OBVIOUS
    <3> PICK x \in 1 .. m : row = q[x] BY <2>3 DEF RowsOf
    <3> PICK h \in 1 .. n : x = 2 * h - 1 \/ x = 2 * h BY <2>5
    <3> QED BY <2>4
  <2> QED BY <1>2, <2>3, <2>4, <2>7, <2>8
<1>3. p.gate \in BOOLEAN BY DEF Grouped
<1> QED BY <1>1, <1>2, <1>3

\* QKVMapping: a query group with its key and value.
LEMMA QKVSpread ==
    ASSUME NEW p, WellShaped(p), p.kind = "qkv", NEW g \in Int, NEW size \in Nat \ {0}, p.n[2] % size = 0
    PROVE  Spread(p, size, g)
<1>0. Grouped(p) BY DEF WellShaped
<1> PICK n1 \in Nat \ {0} : n1 = p.n[1] BY <1>0 DEF Grouped
<1> PICK n2 \in Nat \ {0} : n2 = p.n[2] BY <1>0 DEF Grouped
<1> PICK P \in Nat \ {0} : P = PerGroup(p) BY <1>0 DEF Grouped
<1> PICK W \in Nat \ {0} : W = Span(p) BY <1>0, GroupSize
<1> PICK q : q = QueryRows(p, g) OBVIOUS
<1> PICK k : k = Rows("k", g, n2) OBVIOUS
<1> PICK v : v = Rows("v", g, n2) OBVIOUS
<1> PICK hf : hf = HF(p, g) OBVIOUS
<1>1. hf = [q |-> q, k |-> k, v |-> v] BY DEF HF, Direct, QueryRows
<1> PICK w : w = MergeQKV(p, q, k, v) OBVIOUS
<1> PICK l \in Nat : l = n2 * W
  <2>1. n2 * W \in Nat BY ONLY n2 \in Nat \ {0}, W \in Nat \ {0}
  <2> QED BY <2>1
<1>2. Parts(p, hf) = <<w>> /\ PartSizes(p) = <<l>>
  <2>1. W * n2 = n2 * W BY ONLY n2 \in Nat \ {0}, W \in Nat \ {0}
  <2>2. Parts(p, hf) = <<w>> BY <1>1 DEF Parts, Fused
  <2>3. PartSizes(p) = <<W * n2>> BY DEF PartSizes
  <2> QED BY <2>1, <2>2, <2>3
<1>3. Keyed(k, "k", g, n2) /\ Keyed(v, "v", g, n2)
  <2>1. Keyed(k, "k", g, n2) BY RowsAre
  <2>2. Keyed(v, "v", g, n2) BY RowsAre
  <2> QED BY <2>1, <2>2
<1>4. /\ q \in Seq(RowNames) /\ Len(q) = (IF p.gate THEN 2 ELSE 1) * n1
      /\ IsFiniteSet(RowsOf(q)) /\ Cardinality(RowsOf(q)) = (IF p.gate THEN 2 ELSE 1) * n1
      /\ \A h \in 1 .. n1 : \A row \in HeadRows(p, q, h) : row[1] \in {"q", "z"} /\ row[2] = g /\ row[3] = h
      /\ \A row \in RowsOf(q) : row[1] \in {"q", "z"} /\ \E h \in 1 .. n1 : row \in HeadRows(p, q, h)
      BY <1>0, QueryRowsAre
<1>5. /\ DOMAIN w = 1 .. l
      /\ \A j \in 1 .. n2 : k[j] \in RowsOf(w) /\ v[j] \in RowsOf(w)
      /\ \A h \in 1 .. n1 : HeadRows(p, q, h) \subseteq RowsOf(w)
  <2>1. HasAll(p, q, k, v, w) BY <1>0, MergedHas
  <2> QED BY ONLY <2>1, n1 = p.n[1], n2 = p.n[2], W = Span(p), l = n2 * W DEF HasAll
<1>6. w \in Seq(RowNames) /\ Len(w) = l
  <2>1. QKV(RowNames, p, q, k, v) BY <1>3, <1>4 DEF QKV, Keyed
  <2>2. w \in Seq(RowNames) BY ONLY <1>0, <2>1, w = MergeQKV(p, q, k, v), MergedIs
  <2>3. Len(w) = l BY ONLY <1>5, <2>2, l \in Nat
  <2> QED BY <2>2, <2>3
<1>7. AllRows(p, g) = (RowsOf(q) \cup RowsOf(k)) \cup RowsOf(v)
  <2>1. \A row : row \in AllRows(p, g) <=> \E key \in DOMAIN hf : row \in RowsOf(hf[key]) BY AllRowsAre
  <2>2. DOMAIN hf = {"q", "k", "v"} /\ hf["q"] = q /\ hf["k"] = k /\ hf["v"] = v BY <1>1
  <2> QED BY <2>1, <2>2
<1>8. ASSUME NEW row \in AllRows(p, g) PROVE row \in RowsOf(w)
  <2>1. CASE row \in RowsOf(q) BY <1>4, <1>5, <2>1
  <2>4. DOMAIN k = 1 .. n2 /\ DOMAIN v = 1 .. n2 BY <1>3 DEF Keyed
  <2>2. CASE row \in RowsOf(k)
    <3> PICK x \in 1 .. n2 : row = k[x] BY ONLY <2>2, <2>4 DEF RowsOf
    <3> QED BY ONLY <1>5, row = k[x], x \in 1 .. n2
  <2>3. CASE row \in RowsOf(v)
    <3> PICK x \in 1 .. n2 : row = v[x] BY ONLY <2>3, <2>4 DEF RowsOf
    <3> QED BY ONLY <1>5, row = v[x], x \in 1 .. n2
  <2> QED BY <1>7, <2>1, <2>2, <2>3
<1>9. Cardinality(AllRows(p, g)) = l
  <2>1. RowsOf(q) \cap RowsOf(k) = {} /\ (RowsOf(q) \cup RowsOf(k)) \cap RowsOf(v) = {}
    <3>1. \A row \in RowsOf(k) : row[1] = "k" BY <1>3 DEF Keyed
    <3>2. \A row \in RowsOf(v) : row[1] = "v" BY <1>3 DEF Keyed
    <3>3. \A row \in RowsOf(q) : row[1] = "q" \/ row[1] = "z" BY <1>4
    <3> QED BY <3>1, <3>2, <3>3
  <2>2. OfSize(RowsOf(k), n2) /\ OfSize(RowsOf(v), n2) BY <1>3 DEF Keyed, OfSize
  <2>3. n1 = n2 * P /\ p.gate \in BOOLEAN /\ W = IF p.gate THEN 2 * P + 2 ELSE P + 2
        BY <1>0, GroupSize DEF Grouped
  <2> PICK m \in Nat : m = n2 * P
    <3>1. n2 * P \in Nat BY ONLY n2 \in Nat \ {0}, P \in Nat \ {0}
    <3> QED BY <3>1
  <2> PICK a \in Nat : a = IF p.gate THEN 2 * m ELSE m OBVIOUS
  <2>4. OfSize(RowsOf(q), a)
    <3>1. CASE p.gate BY <1>4, <2>3, <3>1 DEF OfSize
    <3>2. CASE ~p.gate
      <4>1. 1 * n1 = n1 OBVIOUS
      <4> QED BY <1>4, <2>3, <3>2, <4>1 DEF OfSize
    <3> QED BY <3>1, <3>2
  <2> PICK b \in Nat : b = a + n2 OBVIOUS
  <2> PICK c \in Nat : c = b + n2 OBVIOUS
  <2>5. OfSize(RowsOf(q) \cup RowsOf(k), b)
        BY ONLY <2>1, <2>2, <2>4, a \in Nat, n2 \in Nat \ {0}, b = a + n2, BothSizes
  <2>6. OfSize((RowsOf(q) \cup RowsOf(k)) \cup RowsOf(v), c)
        BY ONLY <2>1, <2>2, <2>5, b \in Nat, n2 \in Nat \ {0}, c = b + n2, BothSizes
  <2>7. c = l
    <3>1. n2 * (2 * P + 2) = 2 * m + n2 + n2 /\ n2 * (P + 2) = m + n2 + n2
          BY ONLY m = n2 * P, n2 \in Nat \ {0}, P \in Nat \ {0}
    <3> QED BY <2>3, <3>1
  <2> QED BY ONLY <1>7, <2>6, <2>7 DEF OfSize
<1>10. ASSUME NEW y \in 1 .. n2 * W PROVE w[y][2] = g /\ Unit(p, size, w[y]) = (y - 1) \div W
  <2>1. \E j \in 0 .. n2 - 1 :
              /\ (y - 1) \div W = j
              /\ \/ w[y] = k[j + 1] \/ w[y] = v[j + 1]
                 \/ \E h \in 1 .. n1 : (h - 1) \div P = j /\ w[y] \in HeadRows(p, q, h)
        BY <1>0, MergedRow
  <2> PICK j \in 0 .. n2 - 1 :
              /\ (y - 1) \div W = j
              /\ \/ w[y] = k[j + 1] \/ w[y] = v[j + 1]
                 \/ \E h \in 1 .. n1 : (h - 1) \div P = j /\ w[y] \in HeadRows(p, q, h)
        BY <2>1
  <2> PICK row : row = w[y] OBVIOUS
  <2>2. Unit(p, size, row) = IF row[1] \in {"q", "z"} THEN (row[3] - 1) \div P ELSE row[3] - 1 BY DEF Unit
  <2>3. ASSUME row = k[j + 1] \/ row = v[j + 1] PROVE row[2] = g /\ Unit(p, size, row) = j
    <3> PICK e \in 1 .. n2 : e = j + 1 OBVIOUS
    <3>1. k[e] = <<"k", g, e>> /\ v[e] = <<"v", g, e>> BY <1>3 DEF Keyed
    <3>2. row[2] = g /\ row[3] = e /\ row[1] \notin {"q", "z"} BY <2>3, <3>1
    <3>3. e - 1 = j OBVIOUS
    <3> QED BY <2>2, <3>2, <3>3
  <2>4. ASSUME NEW h \in 1 .. n1, (h - 1) \div P = j, row \in HeadRows(p, q, h)
        PROVE  row[2] = g /\ Unit(p, size, row) = j
    <3>1. row[1] \in {"q", "z"} /\ row[2] = g /\ row[3] = h BY <1>4, <2>4
    <3> QED BY <2>2, <2>4, <3>1
  <2> QED BY <2>3, <2>4
<1>11. PartLaid(p, size, g, w, n2, W) BY <1>6, <1>10 DEF PartLaid
<1> QED BY <1>2, <1>8, <1>9, <1>11, SpreadInOne

\* Remainders of numbers below twice the divisor.
LEMMA SmallRemainder ==
    ASSUME NEW d \in Nat \ {0}, NEW a \in 0 .. d - 1
    PROVE  a % d = a /\ (d + a) % d = a
<1>1. 0 \in Nat /\ 1 \in Nat OBVIOUS
<1>2. (0 * d + a) % d = a /\ (1 * d + a) % d = a BY ONLY <1>1, d \in Nat \ {0}, a \in 0 .. d - 1, DivUnique
<1>3. 0 * d + a = a /\ 1 * d + a = d + a OBVIOUS
<1> QED BY <1>2, <1>3

\* The three pieces ConcatenatedQKVMapping cuts out, row by row.
CutFrom(n1, n2, q, k, v, w) ==
    Within(w, 0, q, n1) /\ Within(w, n1, k, n2) /\ Within(w, n1 + n2, v, n2)

\* The three tensors cut from one have its rows.
LEMMA ConcatenatedRows ==
    ASSUME NEW S, NEW p, Grouped(p), NEW w \in Seq(S), Len(w) = p.n[1] + 2 * p.n[2]
    PROVE  CutFrom(p.n[1], p.n[2], Queries(p, w), Keys(p, w), Values(p, w), w)
<1> PICK n1 \in Nat \ {0} : n1 = p.n[1] BY DEF Grouped
<1> PICK n2 \in Nat \ {0} : n2 = p.n[2] BY DEF Grouped
<1> PICK b \in Nat : b = n1 + n2 OBVIOUS
<1> PICK z \in Nat : z = 0 OBVIOUS
<1> PICK l \in Nat : l = Len(w) OBVIOUS
<1>0. l = n1 + 2 * n2 OBVIOUS
<1>a. z + n1 <= l /\ n1 + n2 <= l /\ b + n2 <= l
      BY ONLY <1>0, z = 0, b = n1 + n2, n1 \in Nat \ {0}, n2 \in Nat \ {0}
<1>1. z + n1 <= Len(w) /\ n1 + n2 <= Len(w) /\ b + n2 <= Len(w) BY ONLY <1>a, l = Len(w)
<1>2. \A x \in 1 .. n1 : SubSeq(w, z + 1, z + n1)[x] = w[z + x]
      BY ONLY <1>1, z \in Nat, n1 \in Nat \ {0}, w \in Seq(S), CutFacts
<1>3. \A x \in 1 .. n2 : SubSeq(w, n1 + 1, n1 + n2)[x] = w[n1 + x]
      BY ONLY <1>1, n1 \in Nat \ {0}, n2 \in Nat \ {0}, w \in Seq(S), CutFacts
<1>4. \A x \in 1 .. n2 : SubSeq(w, b + 1, b + n2)[x] = w[b + x]
      BY ONLY <1>1, b \in Nat, n2 \in Nat \ {0}, w \in Seq(S), CutFacts
<1>5. z + 1 = 1 /\ z + n1 = n1 /\ \A x \in 1 .. n1 : z + x = x BY ONLY z = 0, n1 \in Nat \ {0}
<1>6. n1 + 2 * n2 = b + n2 BY ONLY b = n1 + n2, n1 \in Nat \ {0}, n2 \in Nat \ {0}
<1>7. Queries(p, w) = SubSeq(w, 1, n1) BY DEF Queries
<1>8. Keys(p, w) = SubSeq(w, n1 + 1, n1 + n2) BY DEF Keys
<1>9. Values(p, w) = SubSeq(w, b + 1, b + n2) BY <1>6 DEF Values
<1>10. Within(w, 0, Queries(p, w), n1)
  <2>1. 0 + 1 = 1 /\ 0 + n1 = n1 BY <1>5
  <2> QED BY ONLY <1>2, <1>7, <2>1, z = 0 DEF Within
<1>11. Within(w, n1, Keys(p, w), n2) BY ONLY <1>3, <1>8 DEF Within
<1>12. Within(w, n1 + n2, Values(p, w), n2) BY ONLY <1>4, <1>9, b = n1 + n2 DEF Within
<1> QED BY ONLY <1>10, <1>11, <1>12, n1 = p.n[1], n2 = p.n[2] DEF CutFrom

\* ConcatenatedQKVMapping: a query group, as in QKVMapping.
LEMMA ConcatSpread ==
    ASSUME NEW p, WellShaped(p), p.kind = "concat", NEW g \in Int, NEW size \in Nat \ {0}, p.n[2] % size = 0
    PROVE  Spread(p, size, g)
<1>0. Grouped(p) /\ ~p.gate BY DEF WellShaped
<1> PICK n1 \in Nat \ {0} : n1 = p.n[1] BY <1>0 DEF Grouped
<1> PICK n2 \in Nat \ {0} : n2 = p.n[2] BY <1>0 DEF Grouped
<1> PICK P \in Nat \ {0} : P = PerGroup(p) BY <1>0 DEF Grouped
<1> PICK W \in Nat \ {0} : W = Span(p) BY <1>0, GroupSize
<1> PICK m \in Nat : m = n1 + 2 * n2 OBVIOUS
<1> PICK t : t = Rows("weight", g, m) OBVIOUS
<1>1. Keyed(t, "weight", g, m) BY RowsAre
<1> PICK hf : hf = HF(p, g) OBVIOUS
<1>2. hf = [weight |-> t] BY DEF HF, Direct
<1> PICK q : q = Queries(p, t) OBVIOUS
<1> PICK k : k = Keys(p, t) OBVIOUS
<1> PICK v : v = Values(p, t) OBVIOUS
<1> PICK w : w = MergeQKV(p, q, k, v) OBVIOUS
<1> PICK l \in Nat : l = n2 * W
  <2>1. n2 * W \in Nat BY ONLY n2 \in Nat \ {0}, W \in Nat \ {0}
  <2> QED BY <2>1
<1>3. Parts(p, hf) = <<w>> /\ PartSizes(p) = <<l>>
  <2>1. W * n2 = n2 * W BY ONLY n2 \in Nat \ {0}, W \in Nat \ {0}
  <2>2. Parts(p, hf) = <<w>> BY <1>2 DEF Parts, Fused
  <2>3. PartSizes(p) = <<W * n2>> BY DEF PartSizes
  <2> QED BY <2>1, <2>2, <2>3
<1>4. t \in Seq(RowNames) /\ Len(t) = n1 + 2 * n2 BY <1>1 DEF Keyed
<1>5. /\ \A x \in 1 .. n1 : q[x] = <<"weight", g, x>>
      /\ \A x \in 1 .. n2 : k[x] = <<"weight", g, n1 + x>> /\ v[x] = <<"weight", g, n1 + n2 + x>>
  <2>0. Len(t) = p.n[1] + 2 * p.n[2] BY <1>4
  <2>1. CutFrom(p.n[1], p.n[2], Queries(p, t), Keys(p, t), Values(p, t), t)
        BY ONLY <1>0, <1>4, <2>0, ConcatenatedRows
  <2>2. Within(t, 0, q, n1) /\ Within(t, n1, k, n2) /\ Within(t, n1 + n2, v, n2) BY <2>1 DEF CutFrom
  <2>3. \A x \in 1 .. m : t[x] = <<"weight", g, x>> BY <1>1 DEF Keyed
  <2>4. ASSUME NEW x \in 1 .. n1 PROVE q[x] = <<"weight", g, x>>
    <3>1. x \in 1 .. m /\ 0 + x = x OBVIOUS
    <3>2. q[x] = t[0 + x] BY ONLY <2>2, x \in 1 .. n1 DEF Within
    <3> QED BY <2>3, <3>1, <3>2
  <2>5. ASSUME NEW x \in 1 .. n2 PROVE k[x] = <<"weight", g, n1 + x>> /\ v[x] = <<"weight", g, n1 + n2 + x>>
    <3>1. n1 + x \in 1 .. m /\ n1 + n2 + x \in 1 .. m OBVIOUS
    <3>2. k[x] = t[n1 + x] /\ v[x] = t[n1 + n2 + x] BY ONLY <2>2, x \in 1 .. n2 DEF Within
    <3> QED BY ONLY <2>3, <3>1, <3>2
  <2> QED BY ONLY <2>4, <2>5
<1>6. /\ DOMAIN w = 1 .. l
      /\ \A j \in 1 .. n2 : k[j] \in RowsOf(w) /\ v[j] \in RowsOf(w)
      /\ \A h \in 1 .. n1 : q[h] \in RowsOf(w)
  <2>1. /\ DOMAIN w = 1 .. l
        /\ \A j \in 1 .. n2 : k[j] \in RowsOf(w) /\ v[j] \in RowsOf(w)
        /\ \A h \in 1 .. n1 : HeadRows(p, q, h) \subseteq RowsOf(w)
    <3>1. HasAll(p, q, k, v, w) BY <1>0, MergedHas
    <3> QED BY ONLY <3>1, n1 = p.n[1], n2 = p.n[2], W = Span(p), l = n2 * W DEF HasAll
  <2>2. \A h \in 1 .. n1 : q[h] \in HeadRows(p, q, h) BY <1>0 DEF HeadRows
  <2> QED BY <2>1, <2>2
<1>7. w \in Seq(RowNames) /\ Len(w) = l
  <2>1. QKV(RowNames, p, q, k, v) BY <1>0, <1>4, ConcatenatedCut
  <2>2. w \in Seq(RowNames) BY ONLY <1>0, <2>1, w = MergeQKV(p, q, k, v), MergedIs
  <2>3. Len(w) = l BY ONLY <1>6, <2>2, l \in Nat
  <2> QED BY <2>2, <2>3
<1>8. AllRows(p, g) = RowsOf(t)
  <2>1. \A row : row \in AllRows(p, g) <=> \E key \in DOMAIN hf : row \in RowsOf(hf[key]) BY AllRowsAre
  <2>2. DOMAIN hf = {"weight"} /\ hf["weight"] = t BY <1>2
  <2> QED BY <2>1, <2>2
<1>9. ASSUME NEW row \in AllRows(p, g) PROVE row \in RowsOf(w)
  <2>0. DOMAIN t = 1 .. m /\ \A x \in 1 .. m : t[x] = <<"weight", g, x>> BY ONLY <1>1 DEF Keyed
  <2> PICK x \in 1 .. m : row = t[x] BY ONLY <1>8, <2>0, row \in AllRows(p, g) DEF RowsOf
  <2>4. row = <<"weight", g, x>> BY ONLY <2>0, row = t[x], x \in 1 .. m
  <2>1. CASE x <= n1
    <3>1. x \in 1 .. n1 BY <2>1
    <3>2. row = q[x] BY ONLY <1>5, <2>4, <3>1
    <3> QED BY ONLY <1>6, <3>1, <3>2
  <2>2. CASE n1 < x /\ x <= n1 + n2
    <3> PICK y \in 1 .. n2 : x = n1 + y
      <4>1. x - n1 \in 1 .. n2 /\ x = n1 + (x - n1) BY ONLY <2>2, x \in 1 .. m, m \in Nat, n1 \in Nat \ {0}, n2 \in Nat \ {0}
      <4> QED BY <4>1
    <3>1. row = k[y] BY ONLY <1>5, <2>4, x = n1 + y, y \in 1 .. n2
    <3> QED BY ONLY <1>6, <3>1, y \in 1 .. n2
  <2>3. CASE n1 + n2 < x
    <3> PICK y \in 1 .. n2 : x = n1 + n2 + y
      <4>1. x - (n1 + n2) \in 1 .. n2 /\ x = n1 + n2 + (x - (n1 + n2))
            BY ONLY <2>3, x \in 1 .. m, m \in Nat, m = n1 + 2 * n2, n1 \in Nat \ {0}, n2 \in Nat \ {0}
      <4> QED BY <4>1
    <3>1. row = v[y] BY ONLY <1>5, <2>4, x = n1 + n2 + y, y \in 1 .. n2
    <3> QED BY ONLY <1>6, <3>1, y \in 1 .. n2
  <2> QED BY ONLY <2>1, <2>2, <2>3, x \in 1 .. m, m \in Nat, n1 \in Nat \ {0}, n2 \in Nat \ {0}
<1>10. Cardinality(AllRows(p, g)) = l
  <2>1. Cardinality(AllRows(p, g)) = n1 + 2 * n2 BY <1>1, <1>8 DEF Keyed
  <2>2. n1 = n2 * P /\ W = P + 2
    <3>1. W = P + 2 BY <1>0, GroupSize
    <3> QED BY <1>0, <3>1 DEF Grouped
  <2>3. n1 + 2 * n2 = n2 * W BY ONLY <2>2, n2 \in Nat \ {0}, P \in Nat \ {0}
  <2> QED BY <2>1, <2>3
<1>11. ASSUME NEW y \in 1 .. n2 * W PROVE w[y][2] = g /\ Unit(p, size, w[y]) = (y - 1) \div W
  <2>1. \E j \in 0 .. n2 - 1 :
              /\ (y - 1) \div W = j
              /\ \/ w[y] = k[j + 1] \/ w[y] = v[j + 1]
                 \/ \E h \in 1 .. n1 : (h - 1) \div P = j /\ w[y] \in HeadRows(p, q, h)
        BY <1>0, MergedRow
  <2> PICK j \in 0 .. n2 - 1 :
              /\ (y - 1) \div W = j
              /\ \/ w[y] = k[j + 1] \/ w[y] = v[j + 1]
                 \/ \E h \in 1 .. n1 : (h - 1) \div P = j /\ w[y] \in HeadRows(p, q, h)
        BY <2>1
  <2> PICK row : row = w[y] OBVIOUS
  <2>2. Unit(p, size, row) = IF row[3] <= n1 THEN (row[3] - 1) \div P ELSE (row[3] - n1 - 1) % n2 BY DEF Unit
  <2> PICK e \in 1 .. n2 : e = j + 1 OBVIOUS
  <2>3. ASSUME row = k[e] PROVE row[2] = g /\ Unit(p, size, row) = j
    <3> PICK x : x = n1 + e OBVIOUS
    <3>1. row[2] = g /\ row[3] = x BY <1>5, <2>3
    <3>2. ~(x <= n1) /\ x - n1 - 1 = j
          BY ONLY x = n1 + e, e = j + 1, j \in 0 .. n2 - 1, n1 \in Nat \ {0}, n2 \in Nat \ {0}
    <3>3. j % n2 = j BY ONLY j \in 0 .. n2 - 1, n2 \in Nat \ {0}, SmallRemainder
    <3> QED BY <2>2, <3>1, <3>2, <3>3
  <2>4. ASSUME row = v[e] PROVE row[2] = g /\ Unit(p, size, row) = j
    <3> PICK x : x = n1 + n2 + e OBVIOUS
    <3>1. row[2] = g /\ row[3] = x BY <1>5, <2>4
    <3>2. ~(x <= n1) /\ x - n1 - 1 = n2 + j
          BY ONLY x = n1 + n2 + e, e = j + 1, j \in 0 .. n2 - 1, n1 \in Nat \ {0}, n2 \in Nat \ {0}
    <3>3. (n2 + j) % n2 = j BY ONLY j \in 0 .. n2 - 1, n2 \in Nat \ {0}, SmallRemainder
    <3> QED BY <2>2, <3>1, <3>2, <3>3
  <2>5. ASSUME NEW h \in 1 .. n1, (h - 1) \div P = j, row \in HeadRows(p, q, h)
        PROVE  row[2] = g /\ Unit(p, size, row) = j
    <3>1. row = q[h] BY <1>0, <2>5 DEF HeadRows
    <3>2. row[2] = g /\ row[3] = h /\ h <= n1 BY <1>5, <3>1
    <3> QED BY <2>2, <2>5, <3>2
  <2> QED BY <2>3, <2>4, <2>5
<1>12. PartLaid(p, size, g, w, n2, W) BY <1>7, <1>11 DEF PartLaid
<1> QED BY <1>3, <1>9, <1>10, <1>12, SpreadInOne

\* A column of the rows of key, and its units: the key heads of W rows each.
UnitColumn(key, g, h, W, first, count, c) ==
    /\ c \in Seq(RowNames) /\ Len(c) = h * count
    /\ \A y \in 1 .. h * count : c[y][1] = key /\ c[y][2] = g /\ (c[y][3] - 1) \div W = (y - 1) \div count
    /\ \A j \in 0 .. h - 1 : \A o \in first - 1 .. first + count - 2 : <<key, g, j * W + o + 1>> \in RowsOf(c)

\* A column of the grouped tensors takes the key heads in turn.
LEMMA ColumnUnits ==
    ASSUME NEW key, key \in {"weight", "q", "z", "k", "v", "gate", "up", "qkvz", "ba"}, NEW g \in Int,
           NEW h \in Nat \ {0}, NEW W \in Nat \ {0}, NEW l \in Nat, l = h * W, NEW s, s = Rows(key, g, l),
           NEW first \in Nat \ {0}, NEW count \in Nat \ {0}, first + count <= W + 1,
           NEW c, c = Column(s, h, first, count)
    PROVE  UnitColumn(key, g, h, W, first, count, c)
<1>0. Keyed(s, key, g, l) BY RowsAre
<1>1. HasColumn(RowNames, h, W, s, first, count) BY <1>0 DEF HasColumn, Keyed
<1>2. IsColumn(RowNames, h, W, s, first, count, c) BY <1>1, ColumnIs
<1>3. c \in Seq(RowNames) /\ Len(c) = h * count BY <1>2 DEF IsColumn
<1> PICK z \in Nat : z = h * count
  <2>1. h * count \in Nat BY ONLY h \in Nat \ {0}, count \in Nat \ {0}
  <2> QED BY <2>1
<1>4. ASSUME NEW j \in 0 .. h - 1, NEW y \in 1 .. count, NEW o, o = first + (y - 1) - 1
      PROVE  c[j * count + y] = <<key, g, j * W + o + 1>> /\ o \in 0 .. W - 1
  <2>1. c[j * count + y] = s[j * W + first + (y - 1)] BY <1>2 DEF IsColumn
  <2>2. o \in 0 .. W - 1
        BY ONLY o = first + (y - 1) - 1, y \in 1 .. count, first + count <= W + 1, first \in Nat \ {0}, count \in Nat \ {0}, W \in Nat \ {0}
  <2> PICK f \in Nat : f = j * W
    <3>1. j * W \in Nat BY ONLY j \in 0 .. h - 1, h \in Nat \ {0}, W \in Nat \ {0}
    <3> QED BY <3>1
  <2>3. j * W + first + (y - 1) = j * W + o + 1
    <3>1. f + first + (y - 1) = f + o + 1
          BY ONLY f \in Nat, first \in Nat \ {0}, y \in 1 .. count, count \in Nat \ {0}, o = first + (y - 1) - 1
    <3> QED BY <3>1
  <2>4. j \in Nat /\ j < h BY ONLY j \in 0 .. h - 1, h \in Nat \ {0}
  <2> PICK x : x = j * W + o + 1 OBVIOUS
  <2>5. x \in 1 .. h * W
        BY ONLY <2>2, <2>4, x = j * W + o + 1, W \in Nat \ {0}, h \in Nat \ {0}, HeadNumber
  <2>6. s[x] = <<key, g, x>> BY <1>0, <2>5 DEF Keyed
  <2> QED BY <2>1, <2>2, <2>3, <2>6
<1>5. ASSUME NEW y \in 1 .. z
      PROVE  c[y][1] = key /\ c[y][2] = g /\ (c[y][3] - 1) \div W = (y - 1) \div count
  <2>1. InGroups(y, count, h) BY DEF InGroups
  <2> PICK j \in 0 .. h - 1 : \E i \in 0 .. count - 1 : y = j * count + i + 1 /\ (y - 1) \div count = j BY ONLY <2>1, HeadOf
  <2> PICK i \in 0 .. count - 1 : y = j * count + i + 1 /\ (y - 1) \div count = j OBVIOUS
  <2> PICK e \in 1 .. count : e = i + 1 BY ONLY i \in 0 .. count - 1, count \in Nat \ {0}
  <2>2. j * count + e = y
    <3>1. j * count \in Nat BY ONLY j \in 0 .. h - 1, h \in Nat \ {0}, count \in Nat \ {0}
    <3> QED BY ONLY <3>1, y = j * count + i + 1, e = i + 1, i \in 0 .. count - 1, count \in Nat \ {0}
  <2> PICK o : o = first + (e - 1) - 1 OBVIOUS
  <2>3. c[j * count + e] = <<key, g, j * W + o + 1>> /\ o \in 0 .. W - 1 BY <1>4
  <2> PICK x : x = j * W + o + 1 OBVIOUS
  <2>4. c[y] = <<key, g, x>> BY <2>2, <2>3
  <2>5. j \in Nat /\ j < h BY ONLY j \in 0 .. h - 1, h \in Nat \ {0}
  <2>6. (x - 1) \div W = j
        BY ONLY <2>3, <2>5, x = j * W + o + 1, W \in Nat \ {0}, h \in Nat \ {0}, HeadNumber
  <2> QED BY <2>4, <2>6
<1>6. ASSUME NEW j \in 0 .. h - 1, NEW o \in first - 1 .. first + count - 2 PROVE <<key, g, j * W + o + 1>> \in RowsOf(c)
  <2> PICK y \in 1 .. count : y = o - first + 2 BY ONLY o \in first - 1 .. first + count - 2, first \in Nat \ {0}, count \in Nat \ {0}
  <2>1. o = first + (y - 1) - 1 BY ONLY o \in first - 1 .. first + count - 2, y = o - first + 2, first \in Nat \ {0}, count \in Nat \ {0}
  <2>2. c[j * count + y] = <<key, g, j * W + o + 1>> BY <1>4, <2>1
  <2> PICK i \in 0 .. count - 1 : i = y - 1 BY ONLY y \in 1 .. count, count \in Nat \ {0}
  <2>3. j \in Nat /\ j < h BY ONLY j \in 0 .. h - 1, h \in Nat \ {0}
  <2> PICK x : x = j * count + i + 1 OBVIOUS
  <2>4. x \in 1 .. h * count
        BY ONLY <2>3, i \in 0 .. count - 1, x = j * count + i + 1, count \in Nat \ {0}, h \in Nat \ {0}, HeadNumber
  <2>5. x = j * count + y
    <3>1. j * count \in Nat BY ONLY <2>3, count \in Nat \ {0}
    <3> QED BY ONLY <3>1, x = j * count + i + 1, i = y - 1, y \in 1 .. count, count \in Nat \ {0}
  <2>6. DOMAIN c = 1 .. h * count BY ONLY <1>3
  <2> QED BY <2>2, <2>4, <2>5, <2>6 DEF RowsOf
<1> QED BY <1>3, <1>5, <1>6 DEF UnitColumn

\* A row of a tensor of h key heads of W rows, by its place in its head.
HeadRow(key, g, h, W, row) == \E j \in 0 .. h - 1 : \E o \in 0 .. W - 1 : row = <<key, g, j * W + o + 1>>

\* The place of a row in its key head.
LEMMA HeadPlace ==
    ASSUME NEW key, NEW g, NEW h \in Nat \ {0}, NEW W \in Nat \ {0}, NEW l \in Nat, l = h * W,
           NEW s, Keyed(s, key, g, l), NEW row \in RowsOf(s)
    PROVE  HeadRow(key, g, h, W, row)
<1>1. DOMAIN s = 1 .. l /\ \A x \in 1 .. l : s[x] = <<key, g, x>> BY DEF Keyed
<1> PICK x \in 1 .. l : row = s[x] BY ONLY <1>1, row \in RowsOf(s) DEF RowsOf
<1>2. InGroups(x, W, h) BY DEF InGroups
<1> PICK j \in 0 .. h - 1 : \E o \in 0 .. W - 1 : x = j * W + o + 1 /\ (x - 1) \div W = j BY ONLY <1>2, HeadOf
<1> PICK o \in 0 .. W - 1 : x = j * W + o + 1 OBVIOUS
<1>3. row = <<key, g, x>> BY ONLY <1>1, row = s[x], x \in 1 .. l
<1> QED BY <1>3 DEF HeadRow

\* GDNLinearMapping: a key head's projections.
LEMMA GDNSpread ==
    ASSUME NEW p, WellShaped(p), p.kind = "gdn", NEW g \in Int, NEW size \in Nat \ {0}, SplitsEvenly(p, size)
    PROVE  Spread(p, size, g)
<1> PICK h \in Nat \ {0} : h = p.n[1] BY DEF WellShaped
<1> PICK R \in Nat \ {0} : R = Ratio(p) BY DEF WellShaped
<1> PICK n2 \in Nat : n2 = p.n[2] /\ n2 = h * R
  <2>1. p.n[2] = h * R BY DEF WellShaped
  <2>2. h * R \in Nat OBVIOUS
  <2> QED BY <2>1, <2>2
<1> PICK b \in Nat \ {0} : b = R + R OBVIOUS
<1> PICK w \in Nat \ {0} : w = 2 + R + R OBVIOUS
<1>0. Stretch(p) = w /\ 2 * Ratio(p) = b
  <2>1. Stretch(p) = 2 + 2 * R BY DEF Stretch
  <2>2. 2 + 2 * R = w /\ 2 * R = b OBVIOUS
  <2> QED BY <2>1, <2>2
<1>1. h * Stretch(p) = h * w /\ h * w \in Nat BY <1>0
<1>2. h * 2 * R = h * b /\ h * b \in Nat
  <2>1. h * 2 * R = h * R + h * R BY ONLY h \in Nat \ {0}, R \in Nat \ {0}
  <2>2. h * (R + R) = h * R + h * R BY ONLY h \in Nat \ {0}, R \in Nat \ {0}
  <2> QED BY <2>1, <2>2
<1> PICK l1 \in Nat : l1 = h * w BY <1>1
<1> PICK l2 \in Nat : l2 = h * b BY <1>2
<1> PICK s : s = Rows("qkvz", g, l1) OBVIOUS
<1> PICK a : a = Rows("ba", g, l2) OBVIOUS
<1> PICK hf : hf = HF(p, g) OBVIOUS
<1>3. hf = [qkvz |-> s, ba |-> a]
  <2>1. HF(p, g) = [qkvz |-> Rows("qkvz", g, h * Stretch(p)), ba |-> Rows("ba", g, h * 2 * R)] BY DEF HF, Direct
  <2> QED BY <1>1, <1>2, <2>1
<1> PICK c1 : c1 = Column(s, h, 1, 1) OBVIOUS
<1> PICK c2 : c2 = Column(s, h, 2, 1) OBVIOUS
<1> PICK c3 : c3 = Column(s, h, 3, R) OBVIOUS
<1> PICK c4 : c4 = Column(s, h, 3 + R, R) OBVIOUS
<1> PICK c5 : c5 = Column(a, h, 1, R) OBVIOUS
<1> PICK c6 : c6 = Column(a, h, 1 + R, R) OBVIOUS
<1> PICK parts : parts = <<c1, c2, c3, c4, c5, c6>> OBVIOUS
<1> PICK sizes : sizes = <<h, h, n2, n2, n2, n2>> OBVIOUS
<1> PICK D : D = <<1, 1, R, R, R, R>> OBVIOUS
<1>4. Parts(p, hf) = parts /\ PartSizes(p) = sizes BY <1>3 DEF Parts, Fused, PartSizes
<1>5. h % size = 0
  <2>1. ~Whole(p) BY DEF Whole
  <2>2. 1 \in DOMAIN sizes /\ sizes[1] = h OBVIOUS
  <2> QED BY <1>4, <2>1, <2>2 DEF SplitsEvenly
<1>6. \A row : Unit(p, size, row) = IF row[1] = "qkvz" THEN (row[3] - 1) \div w ELSE (row[3] - 1) \div b
      BY <1>0 DEF Unit
<1>7. ASSUME NEW first \in Nat \ {0}, NEW count \in Nat \ {0}, first + count <= w + 1, NEW c, c = Column(s, h, first, count)
      PROVE  /\ PartLaid(p, size, g, c, h, count)
             /\ \A j \in 0 .. h - 1 : \A o \in first - 1 .. first + count - 2 : <<"qkvz", g, j * w + o + 1>> \in RowsOf(c)
  <2> PICK key : key = "qkvz" OBVIOUS
  <2>1. /\ c \in Seq(RowNames) /\ Len(c) = h * count
        /\ \A y \in 1 .. h * count :
             c[y][1] = key /\ c[y][2] = g /\ (c[y][3] - 1) \div w = (y - 1) \div count
        /\ \A j \in 0 .. h - 1 : \A o \in first - 1 .. first + count - 2 : <<key, g, j * w + o + 1>> \in RowsOf(c)
    <3>1. UnitColumn(key, g, h, w, first, count, c) BY <1>7, ColumnUnits
    <3> QED BY ONLY <3>1 DEF UnitColumn
  <2>2. \A y \in 1 .. h * count : c[y][2] = g /\ Unit(p, size, c[y]) = (y - 1) \div count BY <1>6, <2>1
  <2> QED BY <2>1, <2>2 DEF PartLaid
<1>8. ASSUME NEW first \in Nat \ {0}, NEW count \in Nat \ {0}, first + count <= b + 1, NEW c, c = Column(a, h, first, count)
      PROVE  /\ PartLaid(p, size, g, c, h, count)
             /\ \A j \in 0 .. h - 1 : \A o \in first - 1 .. first + count - 2 : <<"ba", g, j * b + o + 1>> \in RowsOf(c)
  <2> PICK key : key = "ba" OBVIOUS
  <2>1. /\ c \in Seq(RowNames) /\ Len(c) = h * count
        /\ \A y \in 1 .. h * count :
             c[y][1] = key /\ c[y][2] = g /\ (c[y][3] - 1) \div b = (y - 1) \div count
        /\ \A j \in 0 .. h - 1 : \A o \in first - 1 .. first + count - 2 : <<key, g, j * b + o + 1>> \in RowsOf(c)
    <3>1. UnitColumn(key, g, h, b, first, count, c) BY <1>8, ColumnUnits
    <3> QED BY ONLY <3>1 DEF UnitColumn
  <2>2. \A y \in 1 .. h * count : c[y][2] = g /\ Unit(p, size, c[y]) = (y - 1) \div count BY <1>6, <2>1
  <2> QED BY <2>1, <2>2 DEF PartLaid
<1>9. /\ PartLaid(p, size, g, c1, h, 1) /\ \A j \in 0 .. h - 1 : \A o \in 0 .. 0 : <<"qkvz", g, j * w + o + 1>> \in RowsOf(c1)
      /\ PartLaid(p, size, g, c2, h, 1) /\ \A j \in 0 .. h - 1 : \A o \in 1 .. 1 : <<"qkvz", g, j * w + o + 1>> \in RowsOf(c2)
  <2> PICK first \in Nat \ {0} : first = 1 OBVIOUS
  <2> PICK next \in Nat \ {0} : next = 2 OBVIOUS
  <2>1. first + first <= w + 1 /\ next + first <= w + 1 OBVIOUS
  <2>2. /\ PartLaid(p, size, g, c1, h, first)
        /\ \A j \in 0 .. h - 1 : \A o \in first - 1 .. first + first - 2 : <<"qkvz", g, j * w + o + 1>> \in RowsOf(c1)
        BY <1>7, <2>1
  <2>3. /\ PartLaid(p, size, g, c2, h, first)
        /\ \A j \in 0 .. h - 1 : \A o \in next - 1 .. next + first - 2 : <<"qkvz", g, j * w + o + 1>> \in RowsOf(c2)
        BY <1>7, <2>1
  <2>4. first - 1 = 0 /\ first + first - 2 = 0 /\ next - 1 = 1 /\ next + first - 2 = 1 OBVIOUS
  <2> QED BY <2>2, <2>3, <2>4
<1>10. /\ PartLaid(p, size, g, c3, h, R) /\ \A j \in 0 .. h - 1 : \A o \in 2 .. R + 1 : <<"qkvz", g, j * w + o + 1>> \in RowsOf(c3)
       /\ PartLaid(p, size, g, c4, h, R)
       /\ \A j \in 0 .. h - 1 : \A o \in R + 2 .. R + R + 1 : <<"qkvz", g, j * w + o + 1>> \in RowsOf(c4)
  <2> PICK first \in Nat \ {0} : first = 3 OBVIOUS
  <2> PICK next \in Nat \ {0} : next = 3 + R OBVIOUS
  <2>1. first + R <= w + 1 /\ next + R <= w + 1 OBVIOUS
  <2>2. /\ PartLaid(p, size, g, c3, h, R)
        /\ \A j \in 0 .. h - 1 : \A o \in first - 1 .. first + R - 2 : <<"qkvz", g, j * w + o + 1>> \in RowsOf(c3)
        BY <1>7, <2>1
  <2>3. /\ PartLaid(p, size, g, c4, h, R)
        /\ \A j \in 0 .. h - 1 : \A o \in next - 1 .. next + R - 2 : <<"qkvz", g, j * w + o + 1>> \in RowsOf(c4)
        BY <1>7, <2>1
  <2>4. first - 1 = 2 /\ first + R - 2 = R + 1 /\ next - 1 = R + 2 /\ next + R - 2 = R + R + 1 OBVIOUS
  <2> QED BY <2>2, <2>3, <2>4
<1>11. /\ PartLaid(p, size, g, c5, h, R) /\ \A j \in 0 .. h - 1 : \A o \in 0 .. R - 1 : <<"ba", g, j * b + o + 1>> \in RowsOf(c5)
       /\ PartLaid(p, size, g, c6, h, R)
       /\ \A j \in 0 .. h - 1 : \A o \in R .. R + R - 1 : <<"ba", g, j * b + o + 1>> \in RowsOf(c6)
  <2> PICK first \in Nat \ {0} : first = 1 OBVIOUS
  <2> PICK next \in Nat \ {0} : next = 1 + R OBVIOUS
  <2>1. first + R <= b + 1 /\ next + R <= b + 1 OBVIOUS
  <2>2. /\ PartLaid(p, size, g, c5, h, R)
        /\ \A j \in 0 .. h - 1 : \A o \in first - 1 .. first + R - 2 : <<"ba", g, j * b + o + 1>> \in RowsOf(c5)
        BY <1>8, <2>1
  <2>3. /\ PartLaid(p, size, g, c6, h, R)
        /\ \A j \in 0 .. h - 1 : \A o \in next - 1 .. next + R - 2 : <<"ba", g, j * b + o + 1>> \in RowsOf(c6)
        BY <1>8, <2>1
  <2>4. first - 1 = 0 /\ first + R - 2 = R - 1 /\ next - 1 = R /\ next + R - 2 = R + R - 1 OBVIOUS
  <2> QED BY <2>2, <2>3, <2>4
<1>12. Keyed(s, "qkvz", g, l1) /\ Keyed(a, "ba", g, l2)
  <2>1. Keyed(s, "qkvz", g, l1) BY RowsAre
  <2>2. Keyed(a, "ba", g, l2) BY RowsAre
  <2> QED BY <2>1, <2>2
<1>13. AllRows(p, g) = RowsOf(s) \cup RowsOf(a)
  <2>1. \A row : row \in AllRows(p, g) <=> \E key \in DOMAIN hf : row \in RowsOf(hf[key]) BY AllRowsAre
  <2>2. DOMAIN hf = {"qkvz", "ba"} /\ hf["qkvz"] = s /\ hf["ba"] = a BY <1>3
  <2> QED BY <2>1, <2>2
<1> PICK z \in Nat : z = 6 OBVIOUS
<1>14. /\ parts[1] = c1 /\ parts[2] = c2 /\ parts[3] = c3 /\ parts[4] = c4 /\ parts[5] = c5 /\ parts[6] = c6
       /\ 1 \in 1 .. z /\ 2 \in 1 .. z /\ 3 \in 1 .. z /\ 4 \in 1 .. z /\ 5 \in 1 .. z /\ 6 \in 1 .. z
       /\ \A c \in 1 .. z : c = 1 \/ c = 2 \/ c = 3 \/ c = 4 \/ c = 5 \/ c = 6
       OBVIOUS
<1>15. ASSUME NEW row \in AllRows(p, g) PROVE \E c \in 1 .. z : row \in RowsOf(parts[c])
  <2>1. CASE row \in RowsOf(s)
    <3>1. HeadRow("qkvz", g, h, w, row) BY <1>12, <2>1, HeadPlace
    <3> PICK j \in 0 .. h - 1 : \E o \in 0 .. w - 1 : row = <<"qkvz", g, j * w + o + 1>> BY ONLY <3>1 DEF HeadRow
    <3> PICK o \in 0 .. w - 1 : row = <<"qkvz", g, j * w + o + 1>> OBVIOUS
    <3>2. o \in 0 .. 0 \/ o \in 1 .. 1 \/ o \in 2 .. R + 1 \/ o \in R + 2 .. R + R + 1
          BY ONLY o \in 0 .. w - 1, w = 2 + R + R, R \in Nat \ {0}
    <3>3. row \in RowsOf(c1) \/ row \in RowsOf(c2) \/ row \in RowsOf(c3) \/ row \in RowsOf(c4)
          BY <1>9, <1>10, <3>2
    <3> QED BY <1>14, <3>3
  <2>2. CASE row \in RowsOf(a)
    <3>1. HeadRow("ba", g, h, b, row) BY <1>12, <2>2, HeadPlace
    <3> PICK j \in 0 .. h - 1 : \E o \in 0 .. b - 1 : row = <<"ba", g, j * b + o + 1>> BY ONLY <3>1 DEF HeadRow
    <3> PICK o \in 0 .. b - 1 : row = <<"ba", g, j * b + o + 1>> OBVIOUS
    <3>2. o \in 0 .. R - 1 \/ o \in R .. R + R - 1
          BY ONLY o \in 0 .. b - 1, b = R + R, R \in Nat \ {0}
    <3>3. row \in RowsOf(c5) \/ row \in RowsOf(c6) BY <1>11, <3>2
    <3> QED BY <1>14, <3>3
  <2> QED BY <1>13, <2>1, <2>2
<1>16. Laid(p, size, g, z, parts, h, D)
  <2>1. D[1] = 1 /\ D[2] = 1 /\ D[3] = R /\ D[4] = R /\ D[5] = R /\ D[6] = R OBVIOUS
  <2>2. ASSUME NEW c \in 1 .. z PROVE PartLaid(p, size, g, parts[c], h, D[c])
    <3>1. CASE c = 1 BY <1>9, <1>14, <2>1, <3>1
    <3>2. CASE c = 2 BY <1>9, <1>14, <2>1, <3>2
    <3>3. CASE c = 3 BY <1>10, <1>14, <2>1, <3>3
    <3>4. CASE c = 4 BY <1>10, <1>14, <2>1, <3>4
    <3>5. CASE c = 5 BY <1>11, <1>14, <2>1, <3>5
    <3>6. CASE c = 6 BY <1>11, <1>14, <2>1, <3>6
    <3> QED BY <1>14, <3>1, <3>2, <3>3, <3>4, <3>5, <3>6
  <2> QED BY <1>5, <1>15, <2>2 DEF Laid
<1>17. sizes \in Seq(Nat) /\ Len(sizes) = z
  <2>1. h \in Nat OBVIOUS
  <2> QED BY ONLY <2>1, n2 \in Nat, sizes = <<h, h, n2, n2, n2, n2>>, z = 6
<1>18. Total(sizes) = h + h + n2 + n2 + n2 + n2
  <2> PICK B : B = [k \in 0 .. 6 |-> IF k = 0 THEN 0 ELSE IF k = 1 THEN h ELSE IF k = 2 THEN h + h
                                    ELSE IF k = 3 THEN h + h + n2 ELSE IF k = 4 THEN h + h + n2 + n2
                                    ELSE IF k = 5 THEN h + h + n2 + n2 + n2 ELSE h + h + n2 + n2 + n2 + n2] OBVIOUS
  <2>1. /\ B[0] = 0 /\ B[1] = h /\ B[2] = h + h /\ B[3] = h + h + n2 /\ B[4] = h + h + n2 + n2
        /\ B[5] = h + h + n2 + n2 + n2 /\ B[6] = h + h + n2 + n2 + n2 + n2
        OBVIOUS
  <2>2. sizes[1] = h /\ sizes[2] = h /\ sizes[3] = n2 /\ sizes[4] = n2 /\ sizes[5] = n2 /\ sizes[6] = n2 OBVIOUS
  <2>3. 1 - 1 = 0 /\ 2 - 1 = 1 /\ 3 - 1 = 2 /\ 4 - 1 = 3 /\ 5 - 1 = 4 /\ 6 - 1 = 5 OBVIOUS
  <2>4. ASSUME NEW k \in 1 .. z PROVE B[k] = B[k - 1] + sizes[k]
    <3>1. CASE k = 1 BY <2>1, <2>2, <2>3, <3>1
    <3>2. CASE k = 2 BY <2>1, <2>2, <2>3, <3>2
    <3>3. CASE k = 3 BY <2>1, <2>2, <2>3, <3>3
    <3>4. CASE k = 4 BY <2>1, <2>2, <2>3, <3>4
    <3>5. CASE k = 5 BY <2>1, <2>2, <2>3, <3>5
    <3>6. CASE k = 6 BY <2>1, <2>2, <2>3, <3>6
    <3> QED BY <1>14, <3>1, <3>2, <3>3, <3>4, <3>5, <3>6
  <2>5. Partial(B, sizes, z) BY <2>1, <2>4 DEF Partial
  <2>6. Total(sizes) = B[z] BY ONLY <1>17, <2>5, z \in Nat, TotalIs
  <2>7. B[z] = h + h + n2 + n2 + n2 + n2 BY <2>1
  <2> QED BY <2>6, <2>7
<1>19. Cardinality(AllRows(p, g)) = Total(sizes)
  <2>1. RowsOf(s) \cap RowsOf(a) = {}
    <3>1. \A row \in RowsOf(s) : row[1] = "qkvz" BY <1>12 DEF Keyed
    <3>2. \A row \in RowsOf(a) : row[1] = "ba" BY <1>12 DEF Keyed
    <3> QED BY <3>1, <3>2
  <2>2. OfSize(RowsOf(s), l1) /\ OfSize(RowsOf(a), l2) BY <1>12 DEF Keyed, OfSize
  <2> PICK m \in Nat : m = l1 + l2 OBVIOUS
  <2>3. OfSize(RowsOf(s) \cup RowsOf(a), m)
        BY ONLY <2>1, <2>2, l1 \in Nat, l2 \in Nat, m = l1 + l2, BothSizes
  <2>4. l1 = h + h + h * R + h * R /\ l2 = h * R + h * R
        BY ONLY l1 = h * w, l2 = h * b, w = 2 + R + R, b = R + R, h \in Nat \ {0}, R \in Nat \ {0}
  <2>5. m = h + h + n2 + n2 + n2 + n2 BY <2>4
  <2>6. Cardinality(AllRows(p, g)) = m BY ONLY <1>13, <2>3 DEF OfSize
  <2> QED BY <1>18, <2>5, <2>6
<1> QED BY <1>4, <1>16, <1>17, <1>19 DEF Spread

\* A quotient is that of size times as much by size times as many.
LEMMA ScaledDiv ==
    ASSUME NEW size \in Nat \ {0}, NEW d \in Nat \ {0}, NEW a \in Nat, NEW l, l = d * size
    PROVE  (a * size) \div l = a \div d
<1> PICK q \in Nat : q = a \div d BY DivMod
<1> PICK m \in 0 .. d - 1 : a = q * d + m BY DivMod
<1> PICK b \in Nat : b = m * size
  <2>1. m \in Nat BY ONLY m \in 0 .. d - 1, d \in Nat \ {0}
  <2>2. m * size \in Nat BY ONLY <2>1, size \in Nat \ {0}
  <2> QED BY <2>2
<1>1. l \in Nat \ {0}
  <2>1. d * size \in Nat \ {0} BY ONLY d \in Nat \ {0}, size \in Nat \ {0}
  <2> QED BY <2>1
<1>2. b \in 0 .. l - 1
  <2> PICK e \in Nat \ {0} : m + e = d
    <3>1. d - m \in Nat \ {0} /\ m + (d - m) = d BY ONLY m \in 0 .. d - 1, d \in Nat \ {0}
    <3> QED BY <3>1
  <2>1. (m + e) * size = m * size + e * size /\ e * size \in Nat \ {0}
        BY ONLY m \in 0 .. d - 1, d \in Nat \ {0}, e \in Nat \ {0}, size \in Nat \ {0}
  <2> PICK f \in Nat \ {0} : f = e * size BY <2>1
  <2>2. l = b + f BY ONLY <2>1, m + e = d, l = d * size, b = m * size, f = e * size
  <2> QED BY ONLY <2>2, b \in Nat, f \in Nat \ {0}
<1>3. a * size = q * l + b
  <2>1. (q * d + m) * size = (q * d) * size + m * size /\ (q * d) * size = q * (d * size)
        BY ONLY q \in Nat, d \in Nat \ {0}, m \in 0 .. d - 1, size \in Nat \ {0}
  <2> QED BY ONLY <2>1, a = q * d + m, l = d * size, b = m * size
<1>4. (q * l + b) \div l = q BY ONLY <1>1, <1>2, q \in Nat, DivUnique
<1> QED BY <1>3, <1>4

\* The component a row is of, by the running totals of the components.
InComponent(A, x, c) == A[c - 1] < x /\ x <= A[c]

\* A row is in one component only.
LEMMA OneComponent ==
    ASSUME NEW n \in Nat, NEW L, \A k \in 1 .. n : L[k] \in Nat, NEW A, Partial(A, L, n), NEW x \in Int,
           NEW c \in 1 .. n, InComponent(A, x, c), NEW e \in 1 .. n, InComponent(A, x, e)
    PROVE  c = e
<1>1. ASSUME NEW a \in 1 .. n, NEW b \in 1 .. n, a < b, InComponent(A, x, a), InComponent(A, x, b) PROVE FALSE
  <2>1. a \in 0 .. n /\ b - 1 \in a .. n /\ b - 1 \in 0 .. n BY <1>1
  <2>2. \A k \in a .. n : A[a] <= A[k] BY <2>1, PartialsGrow
  <2>3. A[a] <= A[b - 1] BY <2>1, <2>2
  <2>4. x <= A[a] /\ A[b - 1] < x BY <1>1 DEF InComponent
  <2>5. A[a] \in Nat /\ A[b - 1] \in Nat BY <2>1, PartialsAreNumbers
  <2> QED BY ONLY <2>3, <2>4, <2>5, x \in Int
<1>2. c < e \/ e < c \/ c = e OBVIOUS
<1> QED BY <1>1, <1>2

\* ChunkedMapping and MambaInProjMapping: the same slice of every component.
LEMMA ChunkedSpread ==
    ASSUME NEW p, WellShaped(p), p.kind = "chunked", NEW g \in Int, NEW size \in Nat \ {0}, SplitsEvenly(p, size)
    PROVE  Spread(p, size, g)
<1> PICK L \in Seq(Nat) : L = p.n /\ L # <<>> BY DEF WellShaped
<1> PICK n \in Nat \ {0} : n = Len(L) /\ DOMAIN L = 1 .. n BY ONLY L \in Seq(Nat), L # <<>>
<1> DEFINE A == [k \in 0 .. n |-> Total(SubSeq(L, 1, k))]
<1>1. \A k \in 0 .. n : A[k] = Total(SubSeq(L, 1, k)) OBVIOUS
<1> HIDE DEF A
<1>2. Partial(A, L, n) /\ (\A k \in 0 .. n : A[k] \in Nat) /\ Total(L) = A[n] BY <1>1, RunningTotals
<1>3. \A k \in 1 .. n : L[k] \in Nat BY ONLY L \in Seq(Nat), DOMAIN L = 1 .. n
<1>4. n \in 0 .. n OBVIOUS
<1> PICK l \in Nat : l = Total(L) BY <1>2, <1>4
<1> PICK w \in Seq(RowNames) : w = Rows("weight", g, l) /\ Len(w) = l BY RowsNamed
<1> PICK hf : hf = [weight |-> w] OBVIOUS
<1>5. HF(p, g) = hf BY DEF HF, Direct
<1> PICK parts : parts = Components(p, w) OBVIOUS
<1>6. /\ parts \in Seq(Seq(RowNames)) /\ Len(parts) = n /\ FlattenSeq(parts) = w
      /\ \A c \in 1 .. n : parts[c] \in Seq(RowNames) /\ Len(parts[c]) = L[c]
  <2>1. CutInto(RowNames, w, L, Components(p, w))
        BY ONLY L \in Seq(Nat), p.n = L, L # <<>>, w \in Seq(RowNames), Len(w) = Total(L), l = Total(L), Len(w) = l,
                L = p.n, ComponentsRoundTrip
  <2> QED BY <2>1 DEF CutInto
<1>7. Parts(p, hf) = parts /\ PartSizes(p) = L BY DEF Parts, Fused, PartSizes
<1>8. Keyed(w, "weight", g, l) BY RowsAre
<1>9. EndToEnd(w, parts, A, n)
  <2> PICK T : T = Seq(RowNames) OBVIOUS
  <2>1. parts \in Seq(T) BY <1>6
  <2>2. DOMAIN parts = 1 .. n BY ONLY <1>6, <2>1, n \in Nat \ {0}
  <2>3. \A c \in 1 .. n : parts[c] \in Seq(RowNames) /\ L[c] = Len(parts[c]) BY <1>6
  <2>4. FlattenSeq(parts) \in Seq(RowNames) /\ EndToEnd(FlattenSeq(parts), parts, A, n)
        BY ONLY <1>2, <1>6, <2>2, <2>3, n \in Nat \ {0}, FlattenPlaces
  <2> QED BY <1>6, <2>4
<1>10. \A c \in 1 .. n : L[c] % size = 0
  <2>1. ~Whole(p) BY DEF Whole
  <2> QED BY <1>7, <2>1 DEF SplitsEvenly
<1> PICK d : d = [c \in 1 .. n |-> L[c] \div size] OBVIOUS
<1>11. ASSUME NEW c \in 1 .. n PROVE d[c] \in Nat /\ L[c] = d[c] * size /\ size * d[c] = L[c]
  <2> PICK m \in Nat : m = L[c] BY <1>3
  <2>1. m % size = 0 BY <1>10
  <2> PICK q \in Nat : q = m \div size BY DivMod
  <2>2. m = q * size BY ONLY <2>1, m \in Nat, size \in Nat \ {0}, q = m \div size, MultipleOf
  <2>3. q * size = size * q BY ONLY q \in Nat, size \in Nat \ {0}
  <2>4. d[c] = q OBVIOUS
  <2> QED BY ONLY <2>2, <2>3, <2>4, m = L[c], q \in Nat
<1>12. ASSUME NEW c \in 1 .. n, NEW y \in 1 .. L[c] PROVE parts[c][y] = <<"weight", g, A[c - 1] + y>> /\ A[c - 1] + y \in 1 .. l
  <2>1. y \in 1 .. Len(parts[c]) BY <1>6
  <2>2. A[c - 1] + y \in 1 .. A[n] /\ w[A[c - 1] + y] = parts[c][y] BY <1>9, <2>1 DEF EndToEnd
  <2>3. A[n] = l BY <1>2
  <2> QED BY <1>8, <2>2, <2>3 DEF Keyed
<1>13. ASSUME NEW c \in 1 .. n, NEW y \in 1 .. L[c], NEW row, row = parts[c][y]
       PROVE  row[2] = g /\ Unit(p, size, row) = (y - 1) \div d[c]
  <2> PICK m \in Nat : m = L[c] BY <1>3
  <2>1. c - 1 \in 0 .. n /\ c \in 0 .. n OBVIOUS
  <2> PICK b \in Nat : b = A[c - 1] BY <1>2, <2>1
  <2>2. A[c] = b + m BY <1>2 DEF Partial
  <2> PICK x \in Int : x = b + y OBVIOUS
  <2>3. row = <<"weight", g, x>>
    <3>1. parts[c][y] = <<"weight", g, A[c - 1] + y>> BY <1>12
    <3> QED BY ONLY <3>1, row = parts[c][y], x = b + y, b = A[c - 1]
  <2>4. InComponent(A, x, c)
    <3>1. y \in Nat /\ 0 < y /\ y <= m BY ONLY y \in 1 .. L[c], m = L[c], m \in Nat
    <3> QED BY ONLY <2>2, <3>1, x = b + y, b = A[c - 1], b \in Nat, m \in Nat DEF InComponent
  <2>5. ASSUME NEW e \in 1 .. n PROVE (Total(SubSeq(L, 1, e - 1)) < x /\ x <= Total(SubSeq(L, 1, e))) <=> InComponent(A, x, e)
    <3>1. e - 1 \in 0 .. n /\ e \in 0 .. n BY ONLY e \in 1 .. n, n \in Nat \ {0}
    <3>2. A[e - 1] = Total(SubSeq(L, 1, e - 1)) /\ A[e] = Total(SubSeq(L, 1, e)) BY <1>1, <3>1
    <3> QED BY <3>2 DEF InComponent
  <2>6. \A e \in 1 .. n : InComponent(A, x, e) => e = c
    <3> SUFFICES ASSUME NEW e \in 1 .. n, InComponent(A, x, e) PROVE e = c OBVIOUS
    <3>1. Partial(A, L, n) BY <1>2
    <3> QED BY ONLY <1>3, <2>4, <3>1, n \in Nat \ {0}, x \in Int, c \in 1 .. n, e \in 1 .. n, InComponent(A, x, e), OneComponent
  <2>7. (CHOOSE e \in DOMAIN L : Total(SubSeq(L, 1, e - 1)) < x /\ x <= Total(SubSeq(L, 1, e))) = c
        BY <2>4, <2>5, <2>6
  <2>8. Unit(p, size, row) = ((x - b - 1) * size) \div m
    <3>1. Total(SubSeq(L, 1, c - 1)) = b BY <1>1, <2>1
    <3>2. row[3] = x BY <2>3
    <3>3. Unit(p, size, row) =
            LET e == CHOOSE e \in DOMAIN p.n : Total(SubSeq(p.n, 1, e - 1)) < row[3] /\ row[3] <= Total(SubSeq(p.n, 1, e))
            IN ((row[3] - Total(SubSeq(p.n, 1, e - 1)) - 1) * size) \div p.n[e]
          BY DEF Unit
    <3> QED BY <2>7, <3>1, <3>2, <3>3
  <2> PICK a \in Nat : a = y - 1 OBVIOUS
  <2> PICK q \in Nat : q = d[c] BY <1>11
  <2>9. m = q * size BY <1>11
  <2>10. q \in Nat \ {0}
    <3>1. q = 0 => q * size = 0 BY ONLY q \in Nat, size \in Nat \ {0}
    <3>2. m # 0 OBVIOUS
    <3> QED BY ONLY <2>9, <3>1, <3>2, q \in Nat
  <2>11. (a * size) \div m = a \div q BY ONLY <2>9, <2>10, size \in Nat \ {0}, a \in Nat, ScaledDiv
  <2>12. x - b - 1 = a BY ONLY x = b + y, a = y - 1, a \in Nat, b \in Nat, y \in 1 .. L[c], m = L[c], m \in Nat
  <2>13. row[2] = g BY <2>3
  <2> QED BY <2>8, <2>11, <2>12, <2>13
<1>14. ASSUME NEW c \in 1 .. n PROVE PartLaid(p, size, g, parts[c], size, d[c])
  <2>1. size * d[c] = L[c] /\ d[c] \in Nat BY <1>11
  <2>2. ASSUME NEW y \in 1 .. L[c] PROVE parts[c][y][2] = g /\ Unit(p, size, parts[c][y]) = (y - 1) \div d[c]
    <3>1. \A row : row = parts[c][y] => row[2] = g /\ Unit(p, size, row) = (y - 1) \div d[c]
          BY ONLY <1>13, c \in 1 .. n, y \in 1 .. L[c]
    <3> QED BY ONLY <3>1
  <2> QED BY <1>6, <2>1, <2>2 DEF PartLaid
<1>15. AllRows(p, g) = RowsOf(w)
  <2>1. \A row : row \in AllRows(p, g) <=> \E key \in DOMAIN hf : row \in RowsOf(hf[key]) BY <1>5, AllRowsAre
  <2>2. DOMAIN hf = {"weight"} /\ hf["weight"] = w OBVIOUS
  <2> QED BY <2>1, <2>2
<1>16. ASSUME NEW row \in AllRows(p, g) PROVE \E c \in 1 .. n : row \in RowsOf(parts[c])
  <2>1. DOMAIN w = 1 .. A[n] BY <1>2, <1>8 DEF Keyed
  <2> PICK x \in 1 .. A[n] : row = w[x] BY <1>15, <2>1 DEF RowsOf
  <2>2. \E c \in 1 .. n : \E y \in 1 .. Len(parts[c]) : x = A[c - 1] + y BY <1>9 DEF EndToEnd
  <2> PICK c \in 1 .. n : \E y \in 1 .. Len(parts[c]) : x = A[c - 1] + y BY <2>2
  <2> PICK y \in 1 .. Len(parts[c]) : x = A[c - 1] + y OBVIOUS
  <2>3. row = parts[c][y]
    <3>1. \A k \in 1 .. n : \A z \in 1 .. Len(parts[k]) : w[A[k - 1] + z] = parts[k][z] BY ONLY <1>9 DEF EndToEnd
    <3>2. w[A[c - 1] + y] = parts[c][y] BY ONLY <3>1, c \in 1 .. n, y \in 1 .. Len(parts[c])
    <3> QED BY ONLY <3>2, row = w[x], x = A[c - 1] + y
  <2> PICK part \in Seq(RowNames) : part = parts[c] BY <1>6
  <2>4. y \in DOMAIN part BY ONLY y \in 1 .. Len(parts[c]), part = parts[c], part \in Seq(RowNames)
  <2> QED BY <2>3, <2>4 DEF RowsOf
<1>17. size % size = 0
  <2>1. (1 * size) % size = 0 /\ 1 * size = size
    <3>1. 1 \in Nat OBVIOUS
    <3>2. 0 \in Nat /\ size \in Nat \ {0} OBVIOUS
    <3> QED BY ONLY <3>1, <3>2, MultipleOf
  <2> QED BY <2>1
<1>18. Laid(p, size, g, n, parts, size, d) BY <1>14, <1>16, <1>17 DEF Laid
<1>19. Cardinality(AllRows(p, g)) = Total(L) BY <1>8, <1>15 DEF Keyed
<1> QED BY <1>5, <1>7, <1>18, <1>19 DEF Spread

\* Query groups, and the groups of keys and values, go whole to one rank.
GroupsDivide(p, size) == p.kind \in {"qkv", "concat", "kv"} => p.n[2] % size = 0

\* In every mapping class the units are spread evenly.
LEMMA SpreadIs ==
    ASSUME NEW p, WellShaped(p), ~Whole(p), NEW g \in Int, NEW size \in Nat \ {0}, SplitsEvenly(p, size), GroupsDivide(p, size)
    PROVE  Spread(p, size, g)
<1>1. p.kind \in Kinds /\ p.kind \notin {"vector", "replicated"} BY DEF WellShaped, Whole
<1>2. p.kind \in {"column", "row"} \/ p.kind = "qkv" \/ p.kind = "concat" \/ p.kind = "kv" \/ p.kind = "gated"
      \/ p.kind = "chunked" \/ p.kind = "gdn"
      BY <1>1 DEF Kinds, Direct
<1>3. CASE p.kind \in {"column", "row"} BY <1>3, DirectSpread
<1>4. CASE p.kind = "qkv" BY <1>4, QKVSpread DEF GroupsDivide
<1>5. CASE p.kind = "concat" BY <1>5, ConcatSpread DEF GroupsDivide
<1>6. CASE p.kind = "kv" BY <1>6, KVSpread DEF GroupsDivide
<1>7. CASE p.kind = "gated" BY <1>7, GatedSpread
<1>8. CASE p.kind = "chunked" BY <1>8, ChunkedSpread
<1>9. CASE p.kind = "gdn" BY <1>9, GDNSpread
<1> QED BY <1>2, <1>3, <1>4, <1>5, <1>6, <1>7, <1>8, <1>9

\* What the shards of a parameter are to be: of whole units, equal and complete.
Share(p, size) == IF Whole(p) THEN 1 ELSE size
FairShare(p, g, size, s) ==
    /\ Len(s) * Share(p, size) = Cardinality(AllRows(p, g))
    /\ OfWholeUnits(p, Share(p, size), g, s)
FairShares(p, g, size) ==
    /\ \A i \in 0 .. size - 1 : FairShare(p, g, size, Shard(p, HF(p, g), size, i))
    /\ \A row \in AllRows(p, g) : \E i \in 0 .. size - 1 : row \in RowsOf(Shard(p, HF(p, g), size, i))

(***************************************************************************)
(* hf_to_megatron hands out every row of a parameter: whatever the mapping *)
(* class, every tensor parallel rank gets as many, and what a layer        *)
(* computes with together - a query group with its key and value, a gate   *)
(* with its up projection - is on one of them.                             *)
(***************************************************************************)
THEOREM SharesAreFair ==
    ASSUME NEW p, WellShaped(p), NEW g \in Int, NEW size \in Nat \ {0}, SplitsEvenly(p, size), GroupsDivide(p, size)
    PROVE  FairShares(p, g, size)
<1> PICK hf : hf = HF(p, g) OBVIOUS
<1>0. 0 \in 0 .. size - 1 OBVIOUS
<1>1. CASE Whole(p)
  <2> PICK l \in Nat : l = p.n[1] BY DEF WellShaped
  <2> PICK w : w = Rows("weight", g, l) OBVIOUS
  <2>1. hf = [weight |-> w] BY <1>1 DEF HF, Direct, Whole
  <2>2. Keyed(w, "weight", g, l) BY RowsAre
  <2>3. AllRows(p, g) = RowsOf(w)
    <3>1. \A row : row \in AllRows(p, g) <=> \E key \in DOMAIN hf : row \in RowsOf(hf[key]) BY AllRowsAre
    <3>2. DOMAIN hf = {"weight"} /\ hf["weight"] = w BY <2>1
    <3> QED BY <3>1, <3>2
  <2>4. \A i : Shard(p, hf, size, i) = w BY <1>1, <2>1 DEF Shard
  <2>5. FairShare(p, g, size, w)
    <3>1. l * 1 = l OBVIOUS
    <3>2. Len(w) * 1 = Cardinality(AllRows(p, g)) BY <2>2, <2>3, <3>1 DEF Keyed
    <3>3. \A row \in RowsOf(w) : row[2] = g BY <2>2 DEF Keyed, RowsOf
    <3> QED BY <1>1, <2>3, <3>2, <3>3 DEF FairShare, Share, OfWholeUnits
  <2> QED BY <1>0, <2>3, <2>4, <2>5 DEF FairShares
<1>2. CASE ~Whole(p)
  <2> PICK parts : parts = Parts(p, hf) OBVIOUS
  <2> PICK sizes : sizes = PartSizes(p) OBVIOUS
  <2>1. /\ sizes \in Seq(Nat) /\ sizes # <<>> /\ parts \in Seq(Seq(RowNames)) /\ Len(parts) = Len(sizes)
        /\ \A c \in 1 .. Len(sizes) : Len(parts[c]) = sizes[c]
        BY <1>2, PartsFit DEF FitTogether
  <2> PICK n \in Nat \ {0} : n = Len(sizes) BY ONLY <2>1
  <2>2. DOMAIN sizes = 1 .. n /\ DOMAIN parts = 1 .. n
        /\ \A c \in 1 .. n : sizes[c] \in Nat /\ parts[c] \in Seq(RowNames) /\ Len(parts[c]) = sizes[c]
    <3> PICK T : T = Seq(RowNames) OBVIOUS
    <3>1. parts \in Seq(T) /\ Len(parts) = n BY <2>1
    <3>2. DOMAIN parts = 1 .. n /\ \A c \in 1 .. n : parts[c] \in T BY ONLY <3>1
    <3>3. DOMAIN sizes = 1 .. n /\ \A c \in 1 .. n : sizes[c] \in Nat BY ONLY <2>1, n = Len(sizes)
    <3> QED BY <2>1, <3>2, <3>3
  <2> PICK L : L = [c \in 1 .. n |-> sizes[c] \div size] OBVIOUS
  <2>3. \A c \in 1 .. n : L[c] = sizes[c] \div size /\ L[c] \in Nat
    <3> SUFFICES ASSUME NEW c \in 1 .. n PROVE L[c] = sizes[c] \div size /\ L[c] \in Nat OBVIOUS
    <3> PICK z \in Nat : z = sizes[c] BY <2>2
    <3>1. z \div size \in Nat BY DivMod
    <3> QED BY <3>1
  <2>4. L \in Seq(Nat) /\ Len(L) = n
    <3>1. L = [c \in 1 .. n |-> L[c]] OBVIOUS
    <3>2. n \in Nat OBVIOUS
    <3> QED BY ONLY <2>3, <3>1, <3>2, IsSequence
  <2>5. Divided(RowNames, n, parts, L, size)
    <3>1. \A c \in 1 .. n : sizes[c] % size = 0 BY <1>2, <2>2 DEF SplitsEvenly
    <3> QED BY <2>2, <2>3, <2>4, <3>1 DEF Divided
  <2>6. \A i : Shard(p, hf, size, i) = ChunkOfEach(n, parts, size, i) BY <1>2, <2>2 DEF Shard, ChunkOfEach
  <2>7. Spread(p, size, g) BY <1>2, SpreadIs
  <2> PICK K, d : Laid(p, size, g, n, parts, K, d) BY <2>7 DEF Spread
  <2>8. Cardinality(AllRows(p, g)) = Total(sizes) BY <2>7 DEF Spread
  <2>9. ASSUME NEW i \in 0 .. size - 1, NEW s, s = ChunkOfEach(n, parts, size, i) PROVE FairShare(p, g, size, s)
    <3>1. OfWholeUnits(p, size, g, s) BY <2>5, <2>9, ShardOfUnits
    <3>2. Len(s) * size = Total(sizes)
      <4>1. \A c \in 1 .. n : Len(parts[c]) = sizes[c] BY <2>2
      <4>2. sizes \in Seq(Nat) /\ Len(sizes) = n BY <2>1
      <4>3. HaveSizes(parts, sizes, n) BY ONLY <4>1, <4>2 DEF HaveSizes
      <4>4. EqualShare(s, size, sizes) BY <2>5, <2>9, <4>3, ShardLength
      <4> QED BY ONLY <4>4 DEF EqualShare
    <3> QED BY <1>2, <2>8, <3>1, <3>2 DEF FairShare, Share
  <2>10. ASSUME NEW row \in AllRows(p, g) PROVE \E i \in 0 .. size - 1 : row \in RowsOf(ChunkOfEach(n, parts, size, i))
         BY <2>5, ShardsCover
  <2> QED BY <2>6, <2>9, <2>10 DEF FairShares
<1> QED BY <1>1, <1>2

-----------------------------------------------------------------------------
(* What the ranks hold once they have imported.                            *)

\* Attention is spread by query groups, tied embeddings are on the first stage
\* and in the checkpoint, and a sequential MLP is on one expert parallel rank.
SpreadOut(j) ==
    /\ \A i \in DOMAIN j.params :
          /\ GroupsDivide(j.params[i], j.tp)
          /\ j.params[i].expert = "sequential" => j.ep = 1
          /\ j.tied /\ j.params[i].role = "embed" => j.params[i].stage = 0 /\ i \notin j.missing
ModelsSpreadOut == \A j \in Jobs : SpreadOut(j)

\* h is the shard of the embedding that a rank of the group has.
IsShared(r, h, M) ==
    h # <<>> => \E m \in Members(r, "embd") : \E n \in DOMAIN M[m] : Par(n).role = "embed" /\ M[m][n] = h

Shared == \A r \in Ranks : IsShared(r, head[r], mine)

\* What IsShared says stays what it is.
LEMMA SharedStays ==
    ASSUME job' = job
    PROVE  \A r, h, M : IsShared(r, h, M)' <=> IsShared(r, h, M)
<1>1. Ranks' = Ranks /\ (\A n : Par(n)' = Par(n)) /\ \A r : Slot(r)' = Slot(r) /\ Stage(r)' = Stage(r)
      BY DEF Ranks, Par, Slot, Stage
<1>2. \A r : Members(r, "embd")' = Members(r, "embd")
  <2> SUFFICES ASSUME NEW r PROVE Members(r, "embd")' = Members(r, "embd") OBVIOUS
  <2>1. Members(r, "embd") = {m \in Ranks : Slot(m) = Slot(r) /\ Stage(m) \in {0, job.pp - 1}} BY DEF Members
  <2>2. Members(r, "embd")' = {m \in Ranks' : Slot(m)' = Slot(r)' /\ Stage(m)' \in {0, job'.pp - 1}} BY DEF Members
  <2> QED BY <1>1, <2>1, <2>2
<1> QED BY <1>1, <1>2 DEF IsShared

\* A rank keeps what it has loaded.
Keeps(M, N) == \A r \in Ranks : \A n \in DOMAIN M[r] : n \in DOMAIN N[r] /\ N[r][n] = M[r][n]

\* No step takes a loaded shard away or changes it.
LEMMA LoadedStays ==
    ASSUME JobFacts, IInv, Carried, Carried', [Next]_vars
    PROVE  Keeps(mine, mine')
<1>1. job' = job /\ \A m \in Ranks : \A n \in DOMAIN mine[m] : n \in DOMAIN mine'[m]
  <2>1. CASE \E r \in Ranks : NextTask(r)
    <3> PICK r \in Ranks : NextTask(r) BY <2>1
    <3>1. /\ job' = job /\ mine'[r] = Merged(Loaded(r), mine[r])
          /\ \A m \in Ranks : m # r => mine'[m] = mine[m]
          BY NextTaskFacts
    <3>2. \A f, M : DOMAIN M \subseteq DOMAIN Merged(f, M) BY DEF Merged
    <3> QED BY <3>1, <3>2
  <2>2. CASE \E r \in Ranks : TpScatter(r)
    <3> PICK r \in Ranks : TpScatter(r) BY <2>2
    <3> PICK root : root = CHOOSE m \in Group(r) : TpRank(m, Cur(m)) = 0 OBVIOUS
    <3> PICK c : c = Cur(root) OBVIOUS
    <3> PICK G : G = Group(r) OBVIOUS
    <3> PICK f : f = [m \in G |-> [x \in {Cur(m)} |-> Shard(Par(c), HF(Par(c), c.g), Tp(c), TpRank(m, c))]] OBVIOUS
    <3>a. /\ job' = job /\ Together(r, {"scatter", "bcast"})
          /\ mine' = Merged([m \in G |-> Merged([x \in {Cur(m)} |->
                        Shard(Par(c), HF(Par(c), c.g), Tp(c), TpRank(m, c))], mine[m])], mine)
          BY DEF TpScatter
    <3>b. G \subseteq Ranks BY <3>a, Callers DEF IInv
    <3> PICK h : h = [m \in G |-> Merged(f[m], mine[m])] OBVIOUS
    <3>1. DOMAIN h = G /\ \A m \in G : h[m] = Merged(f[m], mine[m]) OBVIOUS
    <3>2. mine = [m \in Ranks |-> mine[m]] BY DEF IInv, Shapes
    <3>3. mine' = Merged(h, mine)
      <4>1. h = [m \in G |-> Merged([x \in {Cur(m)} |->
                   Shard(Par(c), HF(Par(c), c.g), Tp(c), TpRank(m, c))], mine[m])] OBVIOUS
      <4> QED BY <3>a, <4>1
    <3>4. \A m \in Ranks : mine'[m] = IF m \in G THEN h[m] ELSE mine[m]
      <4> PICK H : H = mine OBVIOUS
      <4>1. H = [k \in Ranks |-> H[k]] BY <3>2
      <4>2. \A k \in Ranks : Merged(h, H)[k] = IF k \in DOMAIN h THEN h[k] ELSE H[k]
        <5>1. DOMAIN h \subseteq Ranks BY <3>b, <3>1
        <5> QED BY ONLY <4>1, <5>1, MergedOn
      <4> QED BY <3>1, <3>3, <4>2
    <3>5. \A g, M : DOMAIN M \subseteq DOMAIN Merged(g, M) BY DEF Merged
    <3>6. ASSUME NEW m \in Ranks, NEW n \in DOMAIN mine[m] PROVE n \in DOMAIN mine'[m]
      <4>1. CASE m \in G
        <5>1. mine'[m] = Merged(f[m], mine[m]) BY <3>1, <3>4, <4>1
        <5>2. DOMAIN mine[m] \subseteq DOMAIN Merged(f[m], mine[m]) BY ONLY <3>5
        <5> QED BY ONLY <3>6, <5>1, <5>2
      <4>2. CASE m \notin G BY <3>4, <4>2
      <4> QED BY <4>1, <4>2
    <3> QED BY <3>a, <3>6
  <2>3. CASE ~(\E r \in Ranks : NextTask(r) \/ TpScatter(r))
    <3>1. job' = job /\ mine' = mine
      <4>1. CASE UNCHANGED vars BY <4>1 DEF vars
      <4>2. CASE Next
        <5> PICK r \in Ranks :
               \/ Raise(r) \/ Return(r) \/ Survey(r) \/ Object(r) \/ Tensor(r) \/ TpGather(r)
               \/ EpGather(r) \/ ShareEmbedding(r)
            BY <2>3, <4>2 DEF Next
        <5> QED BY DEF Raise, Return, Survey, Object, Tensor, TpGather, EpGather, ShareEmbedding
      <4> QED BY <4>1, <4>2
    <3> QED BY <3>1
  <2> QED BY <2>1, <2>2, <2>3
<1>2. Ranks' = Ranks BY <1>1, GridStays
<1> SUFFICES ASSUME NEW m \in Ranks, NEW n \in DOMAIN mine[m] PROVE n \in DOMAIN mine'[m] /\ mine'[m][n] = mine[m][n]
    BY DEF Keeps
<1>3. mine[m][n] = Slice(m, n) BY DEF Carried, HoldsAt
<1>4. n \in DOMAIN mine'[m] BY <1>1
<1>5. mine'[m][n] = Slice(m, n)
  <2>1. HoldsAt(m, phase[m], at[m], todo[m], mine[m])' BY <1>2 DEF Carried
  <2> PICK p, a, t, M : p = phase'[m] /\ a = at'[m] /\ t = todo'[m] /\ M = mine'[m] OBVIOUS
  <2>2. HoldsAt(m, phase[m], at[m], todo[m], mine[m])' <=> HoldsAt(m, p, a, t, M) BY <1>1, CarriedStays
  <2>3. HoldsAt(m, p, a, t, M) BY <2>1, <2>2
  <2> QED BY <1>4, <2>3 DEF HoldsAt
<1> QED BY <1>3, <1>4, <1>5

\* A rank of a stage past the import has its shards of the stage's parameters.
LEMMA StageHolds ==
    ASSUME JobFacts, ModelFacts, IInv, Carried, NEW r \in Ranks,
           phase[r] > 1 \/ (at[r] = Size + 1 /\ Dir(r) = "import"),
           NEW n \in Names(r), Owns(r, n)
    PROVE  n \in DOMAIN mine[r] /\ mine[r][n] = Slice(r, n) /\ ~Uneven(n)
<1> PICK z \in Nat \ {0} : z = Size BY SameTasks
<1> PICK x \in 1 .. z : TaskList(r)[x] = n BY SameTasks
<1>1. phase[r] \in DOMAIN job.plan /\ DOMAIN job.plan = 1 .. Len(job.plan) /\ Len(job.plan) \in Nat
      BY PlanIsSequence DEF IInv, Shapes
<1> PICK a : a = at[r] OBVIOUS
<1>2. Gone(phase[r], a, x, "import")
  <2>1. CASE phase[r] > 1
    <3>1. 1 \in DOMAIN job.plan /\ 1 < phase[r] BY <1>1, <2>1
    <3>2. job.plan[1].dir = "import" BY DEF ModelFacts
    <3> QED BY <3>1, <3>2 DEF Gone
  <2>2. CASE at[r] = Size + 1 /\ Dir(r) = "import"
    <3>1. x < a BY <2>2
    <3> QED BY <2>2, <3>1 DEF Gone, Dir
  <2> QED BY <2>1, <2>2
<1>3. HoldsAt(r, phase[r], a, todo[r], mine[r]) BY DEF Carried
<1>4. n \in DOMAIN mine[r] BY <1>2, <1>3 DEF HoldsAt
<1> QED BY <1>3, <1>4 DEF HoldsAt

\* The embedding goes from the first stage to the last.
LEMMA EmbeddingShared ==
    ASSUME JobFacts, ModelFacts, SpreadOut(job), IInv, Carried, Shared, NEW r \in Ranks, ShareEmbedding(r)
    PROVE  Shared'
<1>1. Shapes /\ Follows /\ Listing /\ InStep BY DEF IInv
<1>2. Together(r, {"embedding"}) /\ job' = job /\ mine' = mine BY DEF ShareEmbedding
<1>3. todo[r] # <<>> /\ Head(todo[r]).op = "embedding" BY <1>2 DEF Together
<1>4. Dir(r) = "import" /\ at[r] = Size + 1 /\ Head(todo[r]).group = "embd" /\ Stage(r) \in {0, job.pp - 1}
      BY <1>1, <1>3, CallKind
<1>5. Group(r) = Members(r, "embd") BY <1>4 DEF Group
<1> PICK z \in Nat \ {0} : z = Size BY SameTasks
<1>6. job.tied
  <2>1. at[r] # 0 /\ at[r] \notin 1 .. Size BY <1>4
  <2>2. Program(r, phase[r], at[r]) = ClosingCalls(r) BY <1>4, <2>1 DEF Program, Dir
  <2>3. Len(todo[r]) \in 0 .. Len(ClosingCalls(r)) /\ todo[r] \in Seq(Range(ClosingCalls(r))) BY <1>1, <2>2 DEF Follows
  <2>4. ~job.tied => ClosingCalls(r) = <<>> BY DEF ClosingCalls
  <2>5. ClosingCalls(r) = <<>> => todo[r] = <<>>
    <3>1. Len(<<>>) = 0 OBVIOUS
    <3> QED BY <2>3, <3>1
  <2> QED BY <1>3, <2>4, <2>5
<1> PICK first : first = CHOOSE m \in Group(r) : Stage(m) = 0 OBVIOUS
<1> PICK n : n = CHOOSE x \in DOMAIN mine[first] : Par(x).role = "embed" OBVIOUS
<1>7. first \in Group(r) /\ Stage(first) = 0
  <2> PICK l \in 0 .. job.stageSize - 1 : l = Slot(r) BY RankParts
  <2> PICK P \in Nat \ {0} : P = job.pp BY DEF JobFacts
  <2>1. 0 \in 0 .. job.pp - 1 BY ONLY P = job.pp, P \in Nat \ {0}
  <2> PICK m \in Ranks : Stage(m) = 0 /\ Slot(m) = l BY <2>1, RankAt
  <2>2. m \in Members(r, "embd") BY DEF Members
  <2> QED BY <1>5, <2>2
<1>8. first \in Ranks /\ phase[first] = phase[r] /\ at[first] = at[r] BY <1>1, <1>2, <1>7, Callers
<1>9. \E x \in DOMAIN mine[first] : Par(x).role = "embed"
  <2> PICK e \in DOMAIN job.params : \A k \in DOMAIN job.params : job.params[k].role = "embed" <=> k = e
      BY <1>6 DEF ModelFacts, TiedIn
  <2>1. job.params[e].role = "embed" OBVIOUS
  <2>2. BuiltParam(job.params[e]) BY DEF ModelFacts
  <2>3. job.params[e].expert = "no" BY <2>1, <2>2 DEF BuiltParam
  <2>4. job.params[e].stage = 0 /\ e \notin job.missing BY <1>6, <2>1 DEF SpreadOut
  <2>5. e \in Listed BY <2>1 DEF Listed
  <2> PICK x : x = [i |-> e, g |-> None] OBVIOUS
  <2>6. x.i = e /\ x.g = None OBVIOUS
  <2>7. None \in Numbers(job.params[e], first) BY <2>3 DEF Numbers
  <2>8. x \in Names(first) BY <1>8, <2>5, <2>7, NamesAre
  <2>9. Par(x) = job.params[e] BY <2>6 DEF Par
  <2>10. Owns(first, x) BY <1>7, <2>4, <2>6, <2>9 DEF Owns
  <2>11. at[first] = Size + 1 /\ Dir(first) = "import" BY <1>4, <1>8 DEF Dir
  <2>12. x \in DOMAIN mine[first] BY <1>8, <2>8, <2>10, <2>11, StageHolds
  <2> QED BY <2>1, <2>9, <2>12
<1>10. n \in DOMAIN mine[first] /\ Par(n).role = "embed" BY <1>9
<1> PICK G : G = {m \in Group(r) : Stage(m) = job.pp - 1} OBVIOUS
<1>11. head' = Merged([m \in G |-> mine[first][n]], head)
       BY DEF ShareEmbedding
<1>12. ASSUME NEW m \in Ranks PROVE IsShared(m, head'[m], mine)
  <2>1. head = [k \in Ranks |-> head[k]] BY <1>1 DEF Shapes
  <2> PICK f : f = [k \in G |-> mine[first][n]] OBVIOUS
  <2>2. DOMAIN f = G /\ \A k \in G : f[k] = mine[first][n] OBVIOUS
  <2>3. \A k \in G : k \in Members(r, "embd") BY <1>5
  <2>4. G \subseteq Ranks
    <3>1. \A k : k \in Members(r, "embd") => k \in Ranks BY DEF Members
    <3> QED BY ONLY <2>3, <3>1
  <2>5. head'[m] = IF m \in G THEN f[m] ELSE head[m]
    <3> PICK H : H = head OBVIOUS
    <3>1. head' = Merged(f, H) BY <1>11
    <3>2. H = [k \in Ranks |-> H[k]] BY <2>1
    <3>3. \A k \in Ranks : Merged(f, H)[k] = IF k \in DOMAIN f THEN f[k] ELSE H[k]
      <4>1. DOMAIN f \subseteq Ranks BY <2>2, <2>4
      <4> QED BY ONLY <3>2, <4>1, MergedOn
    <3> QED BY <2>2, <3>1, <3>3
  <2>6. CASE m \in G
    <3>1. m \in Members(r, "embd") BY <2>3, <2>6
    <3>2. r \in Members(r, "embd") BY <1>4, InOwnGroup
    <3>3. Members(m, "embd") = Members(r, "embd") BY <3>1, <3>2, OneGroup
    <3>4. first \in Members(m, "embd") BY <1>5, <1>7, <3>3
    <3>5. head'[m] = mine[first][n] BY <2>2, <2>5, <2>6
    <3> QED BY <1>10, <3>4, <3>5 DEF IsShared
  <2>7. CASE m \notin G BY <2>5, <2>7 DEF Shared
  <2> QED BY <2>6, <2>7
<1>13. Ranks' = Ranks BY <1>2, GridStays
<1> SUFFICES ASSUME NEW m \in Ranks PROVE IsShared(m, head[m], mine)' BY <1>13 DEF Shared
<1> PICK h, M : h = head'[m] /\ M = mine' OBVIOUS
<1>14. IsShared(m, head[m], mine)' <=> IsShared(m, h, M) BY <1>2, SharedStays
<1>15. IsShared(m, h, M) BY <1>2, <1>12
<1> QED BY <1>14, <1>15

\* No step breaks Shared.
LEMMA StepShared ==
    ASSUME JobFacts, ModelFacts, SpreadOut(job), IInv, Carried, Carried', Shared, [Next]_vars
    PROVE  Shared'
<1>1. CASE \E r \in Ranks : ShareEmbedding(r) BY <1>1, EmbeddingShared
<1>2. CASE ~(\E r \in Ranks : ShareEmbedding(r))
  <2>1. job' = job /\ head' = head
    <3>1. CASE UNCHANGED vars BY <3>1 DEF vars
    <3>2. CASE Next
      <4> PICK r \in Ranks :
             \/ NextTask(r) \/ Raise(r) \/ Return(r) \/ Survey(r) \/ Object(r) \/ Tensor(r) \/ TpGather(r)
             \/ EpGather(r) \/ TpScatter(r)
          BY <1>2, <3>2 DEF Next
      <4> QED BY DEF NextTask, Raise, Return, Survey, Object, Tensor, TpGather, EpGather, TpScatter
    <3> QED BY <3>1, <3>2
  <2>2. Keeps(mine, mine') BY LoadedStays
  <2>3. Ranks' = Ranks BY <2>1, GridStays
  <2> SUFFICES ASSUME NEW m \in Ranks PROVE IsShared(m, head[m], mine)' BY <2>3 DEF Shared
  <2> PICK h, M, N : h = head'[m] /\ M = mine /\ N = mine' OBVIOUS
  <2>4. IsShared(m, head[m], mine)' <=> IsShared(m, h, N) BY <2>1, SharedStays
  <2>5. IsShared(m, h, M) BY <2>1 DEF Shared
  <2>6. IsShared(m, h, N)
    <3> SUFFICES ASSUME h # <<>> PROVE \E k \in Members(m, "embd") : \E n \in DOMAIN N[k] : Par(n).role = "embed" /\ N[k][n] = h
        BY DEF IsShared
    <3> PICK k \in Members(m, "embd") : \E n \in DOMAIN M[k] : Par(n).role = "embed" /\ M[k][n] = h BY <2>5 DEF IsShared
    <3> PICK n \in DOMAIN M[k] : Par(n).role = "embed" /\ M[k][n] = h OBVIOUS
    <3>1. k \in Ranks BY DEF Members
    <3>2. n \in DOMAIN N[k] /\ N[k][n] = M[k][n] BY <2>2, <3>1 DEF Keeps
    <3> QED BY <3>2
  <2> QED BY <2>4, <2>6
<1> QED BY <1>1, <1>2

\* The shards of a parameter that a rank has are fair.
LEMMA SlicesFair ==
    ASSUME JobFacts, ModelFacts, SpreadOut(job), NEW r \in Ranks, NEW n \in Names(r), ~Uneven(n)
    PROVE  FairShares(Par(n), n.g, Tp(n))
<1> PICK p : p = Par(n) OBVIOUS
<1> PICK size \in Nat \ {0} : size = Tp(n) BY TpIsPositive
<1>1. WellShaped(p) /\ n.g \in Int /\ n.i \in DOMAIN job.params /\ BuiltParam(p) BY ShapedAs DEF BuiltParam
<1>2. SplitsEvenly(p, size)
  <2> SUFFICES ASSUME ~Whole(p), NEW c \in DOMAIN PartSizes(p) PROVE PartSizes(p)[c] % size = 0
      BY DEF SplitsEvenly
  <2>1. CASE size > 1 BY <2>1 DEF Uneven
  <2>2. CASE ~(size > 1)
    <3>1. size = 1 BY <2>2
    <3>2. PartSizes(p) \in Seq(Nat) BY <1>1, PartsFit DEF FitTogether
    <3> PICK z \in Nat : z = PartSizes(p)[c] BY <3>2
    <3>3. z % 1 = 0 OBVIOUS
    <3> QED BY <3>1, <3>3
  <2> QED BY <2>1, <2>2
<1>3. GroupsDivide(p, size)
  <2>1. CASE p.kind \in {"qkv", "concat", "kv"}
    <3>1. p.expert = "no" BY <1>1, <2>1 DEF BuiltParam, Direct
    <3>2. size = job.tp BY <3>1 DEF Tp
    <3>3. GroupsDivide(p, job.tp) BY <1>1 DEF SpreadOut, Par
    <3> QED BY <3>2, <3>3
  <2>2. CASE p.kind \notin {"qkv", "concat", "kv"} BY <2>2 DEF GroupsDivide
  <2> QED BY <2>1, <2>2
<1>4. FairShares(p, n.g, size) BY <1>1, <1>2, <1>3, SharesAreFair
<1> QED BY <1>4

\* A rank of the stage lists an expert that is there at all.
LEMMA NumberListed ==
    ASSUME JobFacts, ModelFacts, SpreadOut(job), NEW r \in Ranks, NEW i \in Listed, NEW g \in AllNumbers(job.params[i])
    PROVE  \E m \in Ranks : Stage(m) = Stage(r) /\ g \in Numbers(job.params[i], m)
<1>1. i \in DOMAIN job.params BY DEF Listed
<1>2. job.params[i] \in Param BY <1>1 DEF JobFacts
<1> PICK p : p = job.params[i] OBVIOUS
<1>3. CASE p.expert = "no" BY <1>3 DEF AllNumbers, Numbers
<1>4. CASE p.expert = "sequential"
  <2>1. job.ep = 1 BY <1>1, <1>4 DEF SpreadOut
  <2> PICK d \in Nat : d = PerRank BY DEF JobFacts
  <2>2. d * 1 = d OBVIOUS
  <2>3. job.experts = PerRank BY <2>1, <2>2 DEF JobFacts
  <2>4. g \in 0 .. PerRank - 1 BY <1>4, <2>3 DEF AllNumbers
  <2> QED BY <1>4, <2>4 DEF Numbers
<1>5. CASE p.expert = "grouped"
  <2> PICK d \in Nat \ {0} : d = PerRank
    <3>1. PerRank \in Nat /\ PerRank > 0 BY <1>1, <1>5 DEF JobFacts
    <3> QED BY <3>1
  <2> PICK b \in Nat \ {0} : b = job.ep BY DEF JobFacts
  <2> PICK c \in Nat : c = d * b OBVIOUS
  <2>1. job.experts = c BY DEF JobFacts
  <2>2. g \in Nat /\ g < c
    <3>1. g \in 0 .. job.experts - 1 BY <1>5 DEF AllNumbers
    <3> QED BY ONLY <2>1, <3>1, c \in Nat
  <2> PICK e : e = g \div d OBVIOUS
  <2> PICK l : l = g % d OBVIOUS
  <2>3. e \in Nat /\ l \in 0 .. d - 1 /\ g = e * d + l BY <2>2, DivMod
  <2>4. e \in 0 .. b - 1
    <3> SUFFICES ASSUME e >= b PROVE FALSE BY <2>3
    <3>1. e * d >= b * d BY <2>3
    <3>2. e * d \in Nat /\ b * d = d * b BY <2>3
    <3> QED BY <2>2, <2>3, <3>1, <3>2
  <2> PICK m \in Members(r, "ep") : Ep(m) = e BY <2>4, ExpertPeers
  <2>5. m \in Ranks /\ Stage(m) = Stage(r) BY OneGroup
  <2>6. g = Ep(m) * PerRank + l /\ l \in 0 .. PerRank - 1 BY <2>3
  <2>7. g \in Numbers(p, m) BY <1>5, <2>6 DEF Numbers
  <2> QED BY <2>5, <2>7
<1> QED BY <1>2, <1>3, <1>4, <1>5 DEF Param

\* A rank is past the import.
Imported(r) == phase[r] > 1 \/ (at[r] = Size + 1 /\ Dir(r) = "import")

\* Each row of the checkpoint is on a rank of its stage.
LEMMA RowSomewhere ==
    ASSUME JobFacts, ModelFacts, SpreadOut(job), IInv, Carried, \A r \in Ranks : Imported(r),
           NEW i \in Listed, i \notin job.missing, NEW g \in AllNumbers(job.params[i]), NEW row \in AllRows(job.params[i], g)
    PROVE  \E m \in Ranks : \E n \in DOMAIN mine[m] : n.i = i /\ row \in RowsOf(mine[m][n])
<1>1. i \in DOMAIN job.params BY DEF Listed
<1> PICK st \in 0 .. job.pp - 1 : st = job.params[i].stage
  <2> PICK P \in Nat \ {0} : P = job.pp BY DEF JobFacts
  <2>1. job.params[i] \in Param /\ job.params[i].stage < P BY <1>1 DEF JobFacts
  <2>2. job.params[i].stage \in Nat BY <2>1 DEF Param
  <2> QED BY <2>1, <2>2
<1>2. 0 \in 0 .. job.stageSize - 1
  <2> PICK z \in Nat \ {0} : z = job.stageSize BY DEF JobFacts
  <2>1. 0 \in 0 .. z - 1 OBVIOUS
  <2> QED BY <2>1
<1> PICK q \in Ranks : Stage(q) = st BY <1>2, RankAt
<1> PICK r \in Ranks : Stage(r) = Stage(q) /\ g \in Numbers(job.params[i], r) BY NumberListed
<1> PICK n : n = [i |-> i, g |-> g] OBVIOUS
<1>3. n.i = i /\ n.g = g OBVIOUS
<1>4. n \in Names(r) BY NamesAre
<1>5. Par(n) = job.params[i] BY <1>3 DEF Par
<1>6. Owns(r, n) BY <1>3, <1>5 DEF Owns
<1>7. ~Uneven(n) BY <1>4, <1>6, StageHolds DEF Imported
<1>8. FairShares(Par(n), n.g, Tp(n)) BY <1>4, <1>7, SlicesFair
<1> PICK t \in 0 .. Tp(n) - 1 : row \in RowsOf(Shard(Par(n), HF(Par(n), n.g), Tp(n), t))
    BY <1>3, <1>5, <1>8 DEF FairShares
<1> PICK m \in Members(r, TpGroup(n)) : TpRank(m, n) = t BY Peers
<1> PICK k \in 1 .. Size : TaskList(r)[k] = n BY <1>4, SameTasks
<1>9. m \in Ranks /\ TaskList(m)[k] = n BY MatesTask
<1>10. n \in Names(m)
  <2>1. \A x \in 1 .. Size : TaskList(m)[x] \in Names(m) BY <1>9, SameTasks
  <2>2. TaskList(m)[k] \in Names(m) BY ONLY <2>1, k \in 1 .. Size
  <2> QED BY ONLY <1>9, <2>2
<1>11. Stage(m) = Stage(r)
  <2>1. TpGroup(n) \in {"tp", "etp"} BY DEF TpGroup
  <2> QED BY <2>1, OneGroup
<1>12. Owns(m, n) BY <1>6, <1>11 DEF Owns
<1>13. n \in DOMAIN mine[m] /\ mine[m][n] = Slice(m, n) BY <1>9, <1>10, <1>12, StageHolds DEF Imported
<1>14. row \in RowsOf(mine[m][n]) BY <1>13 DEF Slice, Full
<1> QED BY <1>3, <1>9, <1>13, <1>14

\* What a rank has loaded is a fair share.
LEMMA LoadedFair ==
    ASSUME JobFacts, ModelFacts, SpreadOut(job), IInv, Carried, NEW r \in Ranks, NEW n \in DOMAIN mine[r]
    PROVE  FairShare(Par(n), n.g, Tp(n), mine[r][n])
<1>1. n \in Names(r) /\ ~Uneven(n) /\ mine[r][n] = Slice(r, n) BY DEF Carried, HoldsAt
<1>2. FairShares(Par(n), n.g, Tp(n)) BY <1>1, SlicesFair
<1>3. TpRank(r, n) \in 0 .. Tp(n) - 1
  <2> PICK P \in Nat \ {0} : P = Tp(n) BY TpIsPositive
  <2> PICK l \in Nat : l = Slot(r) BY RankParts
  <2>1. l % P \in 0 .. P - 1 BY ONLY P \in Nat \ {0}, l \in Nat, DivMod
  <2> QED BY <2>1 DEF TpRank
<1> QED BY <1>1, <1>2, <1>3 DEF FairShares, Slice, Full

\* Shards carried right are complete once every rank has them.
LEMMA CarriedShards ==
    ASSUME JobFacts, ModelFacts, SpreadOut(job), IInv, Carried, Shared
    PROVE  ShardsComplete
<1> SUFFICES ASSUME \A r \in Ranks : status[r] # "raised" /\ (phase[r] > 1 \/ (Ended(r) /\ todo[r] = <<>>))
             PROVE  /\ \A i \in Listed \ job.missing : \A g \in AllNumbers(job.params[i]) :
                         AllRows(job.params[i], g) \subseteq
                            UNION {UNION {{mine[r][n][x] : x \in DOMAIN mine[r][n]} :
                                           n \in {n \in DOMAIN mine[r] : n.i = i}} : r \in Ranks}
                    /\ \A r \in Ranks : \A n \in DOMAIN mine[r] :
                         LET p    == Par(n)
                             held == {mine[r][n][x] : x \in DOMAIN mine[r][n]}
                             size == IF Whole(p) THEN 1 ELSE Tp(n)
                             unit(row) == Unit(p, size, row)
                         IN /\ Len(mine[r][n]) * size = Cardinality(AllRows(p, n.g))
                            /\ \A row \in held : \A other \in AllRows(p, row[2]) :
                                 unit(other) = unit(row) => other \in held
                    /\ \A r \in Ranks : head[r] # <<>> =>
                         \E m \in Members(r, "embd") : \E n \in DOMAIN mine[m] :
                            Par(n).role = "embed" /\ mine[m][n] = head[r]
    BY DEF ShardsComplete
<1>1. Shapes /\ Listing BY DEF IInv
<1>2. ASSUME NEW r \in Ranks PROVE Imported(r)
  <2>1. CASE phase[r] > 1 BY <2>1 DEF Imported
  <2>2. CASE ~(phase[r] > 1)
    <3>1. phase[r] \in DOMAIN job.plan /\ DOMAIN job.plan = 1 .. Len(job.plan) /\ Len(job.plan) \in Nat
          BY <1>1, PlanIsSequence DEF Shapes
    <3>2. phase[r] = 1 BY <2>2, <3>1
    <3>3. Dir(r) = "import" BY <3>2 DEF Dir, ModelFacts
    <3>4. at[r] = Size + 1 BY <1>1, <2>2, ListThere
    <3> QED BY <3>3, <3>4 DEF Imported
  <2> QED BY <2>1, <2>2
<1>3. ASSUME NEW i \in Listed \ job.missing, NEW g \in AllNumbers(job.params[i]), NEW row \in AllRows(job.params[i], g)
      PROVE  row \in UNION {UNION {{mine[r][n][x] : x \in DOMAIN mine[r][n]} :
                                    n \in {n \in DOMAIN mine[r] : n.i = i}} : r \in Ranks}
  <2> PICK m \in Ranks : \E n \in DOMAIN mine[m] : n.i = i /\ row \in RowsOf(mine[m][n]) BY <1>2, RowSomewhere
  <2> PICK n \in DOMAIN mine[m] : n.i = i /\ row \in RowsOf(mine[m][n]) OBVIOUS
  <2>1. row \in {mine[m][n][x] : x \in DOMAIN mine[m][n]} BY DEF RowsOf
  <2>2. row \in UNION {{mine[m][k][x] : x \in DOMAIN mine[m][k]} : k \in {k \in DOMAIN mine[m] : k.i = i}} BY <2>1
  <2> QED BY <2>2
<1>5. ASSUME NEW r \in Ranks, head[r] # <<>>
      PROVE  \E m \in Members(r, "embd") : \E n \in DOMAIN mine[m] : Par(n).role = "embed" /\ mine[m][n] = head[r]
      BY <1>5 DEF Shared, IsShared
<1>6. \A i \in Listed \ job.missing : \A g \in AllNumbers(job.params[i]) :
         AllRows(job.params[i], g) \subseteq
            UNION {UNION {{mine[r][n][x] : x \in DOMAIN mine[r][n]} :
                           n \in {n \in DOMAIN mine[r] : n.i = i}} : r \in Ranks}
      BY ONLY <1>3
<1>7. \A r \in Ranks : \A n \in DOMAIN mine[r] :
         LET p    == Par(n)
             held == {mine[r][n][x] : x \in DOMAIN mine[r][n]}
             size == IF Whole(p) THEN 1 ELSE Tp(n)
             unit(row) == Unit(p, size, row)
         IN /\ Len(mine[r][n]) * size = Cardinality(AllRows(p, n.g))
            /\ \A row \in held : \A other \in AllRows(p, row[2]) :
                 unit(other) = unit(row) => other \in held
  <2> SUFFICES ASSUME NEW r \in Ranks, NEW n \in DOMAIN mine[r]
               PROVE  /\ Len(mine[r][n]) * (IF Whole(Par(n)) THEN 1 ELSE Tp(n)) = Cardinality(AllRows(Par(n), n.g))
                      /\ \A row \in {mine[r][n][x] : x \in DOMAIN mine[r][n]} : \A other \in AllRows(Par(n), row[2]) :
                           Unit(Par(n), IF Whole(Par(n)) THEN 1 ELSE Tp(n), other)
                             = Unit(Par(n), IF Whole(Par(n)) THEN 1 ELSE Tp(n), row) =>
                           other \in {mine[r][n][x] : x \in DOMAIN mine[r][n]}
      OBVIOUS
  <2> PICK p : p = Par(n) OBVIOUS
  <2> PICK size : size = IF Whole(p) THEN 1 ELSE Tp(n) OBVIOUS
  <2> PICK held : held = {mine[r][n][x] : x \in DOMAIN mine[r][n]} OBVIOUS
  <2>1. FairShare(p, n.g, Tp(n), mine[r][n]) BY LoadedFair
  <2>2. Share(p, Tp(n)) = size BY DEF Share
  <2>3. held = RowsOf(mine[r][n]) BY DEF RowsOf
  <2>4. Len(mine[r][n]) * size = Cardinality(AllRows(p, n.g)) BY <2>1, <2>2 DEF FairShare
  <2>5. OfWholeUnits(p, size, n.g, mine[r][n]) BY <2>1, <2>2 DEF FairShare
  <2>6. \A row \in held : row[2] = n.g /\ \A other \in AllRows(p, n.g) :
           Unit(p, size, other) = Unit(p, size, row) => other \in held
        BY ONLY <2>3, <2>5 DEF OfWholeUnits
  <2>7. \A row \in held : \A other \in AllRows(p, row[2]) : Unit(p, size, other) = Unit(p, size, row) => other \in held
        BY ONLY <2>6
  <2> QED BY ONLY <2>4, <2>7, p = Par(n), size = IF Whole(p) THEN 1 ELSE Tp(n),
             held = {mine[r][n][x] : x \in DOMAIN mine[r][n]}
<1> QED BY ONLY <1>5, <1>6, <1>7

LEMMA InitShared == ASSUME Init PROVE Shared
<1>1. \A r \in Ranks : head[r] = <<>> BY DEF Init
<1> QED BY <1>1 DEF Shared, IsShared

(***************************************************************************)
(* An import loses and misplaces nothing: once all ranks are through it,   *)
(* every row of the checkpoint, of every expert, is on a rank of its stage, *)
(* the tensor parallel ranks have equal shares of whole units, and a tied  *)
(* output layer has the rows of the embedding shard, whatever the grid and *)
(* the number and shapes of the parameters.                                *)
(***************************************************************************)
THEOREM ShardsCompleteAlways ==
    ASSUME ExportsAfterExports, ImportsFirst, ModelsAsBuilt, ModelsSpreadOut
    PROVE  Spec => []ShardsComplete
<1>1. IInv => JobFacts /\ ModelFacts BY JobsAreSuch, ModelsAreSuch DEF IInv, Shapes
<1>2. IInv => SpreadOut(job) BY DEF ModelsSpreadOut, IInv, Shapes
<1>3. Init => IInv /\ Carried /\ Shared
  <2> SUFFICES ASSUME Init PROVE IInv /\ Carried /\ Shared OBVIOUS
  <2>1. IInv BY InitInv
  <2>2. Shared BY InitShared
  <2> QED BY <1>1, <2>1, <2>2, InitCarried
<1>4. (IInv /\ Carried /\ Shared) /\ [Next]_vars => (IInv /\ Carried /\ Shared)'
  <2> SUFFICES ASSUME IInv, Carried, Shared, [Next]_vars PROVE IInv' /\ Carried' /\ Shared' OBVIOUS
  <2>1. IInv' BY StepInv
  <2>2. Carried' BY <1>1, StepCarried
  <2>3. Shared' BY <1>1, <1>2, <2>2, StepShared
  <2> QED BY <2>1, <2>2, <2>3
<1>5. IInv /\ Carried /\ Shared => ShardsComplete BY <1>1, <1>2, CarriedShards
<1> QED BY <1>3, <1>4, <1>5, PTL DEF Spec

=============================================================================
