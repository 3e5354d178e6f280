-------------------------- MODULE WeightConversion --------------------------
(***************************************************************************)
(* Weights between a Hugging Face checkpoint and a model spread over       *)
(* pipeline, tensor and expert parallel ranks (models/conversion): the     *)
(* task list every rank builds for itself, the collectives each task makes *)
(* in either direction, and the layouts the mappings translate between.    *)
(*                                                                         *)
(* Every rank runs the same loop over its own list; a collective goes      *)
(* through when all of its group are in the same call, and nothing else    *)
(* keeps the ranks together.  A tensor is the sequence of its rows (of its *)
(* columns when it is row-parallel; a row is a head where the code moves   *)
(* whole heads), and a row is named <<key, expert, index>>.                *)
(***************************************************************************)
EXTENDS Integers, FiniteSets, Sequences, SequencesExt, TLC

CONSTANT Jobs   \* conversions to run, records as in JobAssumption

\* The mapping classes of param_mapping.py; "vector" is a 1-D row-parallel
\* tensor, "chunked" ChunkedMapping and MambaInProjMapping, "concat"
\* ConcatenatedQKVMapping.
Direct == {"column", "row", "vector", "replicated"}    \* reached through AutoMapping
Kinds  == Direct \cup {"qkv", "concat", "kv", "gated", "chunked", "gdn"}
None   == -1

\* A parameter: where it lives and its shape.  expert is "no", "grouped"
\* (.mlp.experts.linear_fc) or "sequential" (.mlp.experts.local_experts).
Param == [kind : Kinds, stage : Nat, layer : Int, part : Nat, role : {"other", "embed", "output"},
          expert : {"no", "grouped", "sequential"}, n : Seq(Nat), gate : BOOLEAN]

\* stageSize ranks per pipeline stage; plan is the sequence of calls of the
\* bridge, each with tasks of its own (fresh) or those of the call before.
\* No two parameters have one name, and the model has one to convert.
ASSUME JobAssumption == \A j \in Jobs :
    /\ {j.pp, j.tp, j.ep, j.etp, j.stageSize} \subseteq Nat \ {0}
    /\ j.stageSize % j.tp = 0 /\ j.stageSize % (j.ep * j.etp) = 0
    /\ j.experts \in Nat /\ j.experts % j.ep = 0
    /\ j.params \in Seq(Param) /\ j.tied \in BOOLEAN
    /\ \A i \in DOMAIN j.params :
          j.params[i].stage < j.pp /\ (j.params[i].expert # "no" => j.experts > 0)
    /\ \A i, k \in DOMAIN j.params :
          j.params[i].layer = j.params[k].layer /\ j.params[i].part = j.params[k].part => i = k
    /\ \E i \in DOMAIN j.params : j.tied => j.params[i].role # "output"
    /\ j.missing \subseteq DOMAIN j.params
    /\ j.plan \in Seq([dir : {"import", "export"}, fresh : BOOLEAN])
    /\ j.plan # <<>> /\ j.plan[1].fresh

VARIABLES
    job,        \* the conversion this behaviour runs
    phase,      \* per rank, the call of plan it is in
    tasks,      \* per rank, the task list, as names
    at,         \* per rank, the task it is in (0: building the list)
    todo,       \* per rank, the collectives left of this task
    known,      \* per rank, what the tasks' mapping objects have cached
    mine,       \* per rank, its shard of each parameter it has loaded
    head,       \* per rank, the rows of its output layer when tied
    work,       \* per rank, the shards gathered so far for this task
    out,        \* per rank, the tensors this call has exported
    status      \* per rank, "running", "raised" or "done"

where == <<phase, at, status>>
vars  == <<job, where, tasks, todo, known, mine, head, work, out>>

\* f, and g where f has nothing: what dict.update makes of g.
Merged(f, g) == [x \in DOMAIN f \cup DOMAIN g |-> IF x \in DOMAIN f THEN f[x] ELSE g[x]]

----------------------------------------------------------------------------
(* The grid of ranks: tensor parallel ranks vary fastest, stages slowest.  *)

Ranks    == 0 .. job.pp * job.stageSize - 1
Slot(r)  == r % job.stageSize
Stage(r) == r \div job.stageSize
Ep(r)    == (Slot(r) \div job.etp) % job.ep     \* ep_rank

\* A name is an index into params and an expert number.
Par(n)       == job.params[n.i]
Tp(n)        == IF Par(n).expert = "no" THEN job.tp ELSE job.etp      \* tp_size
TpRank(r, n) == Slot(r) % Tp(n)                                   \* tp_rank

Members(r, group) ==
    {m \in Ranks :
        CASE group = "pp"  -> Slot(m) = Slot(r)
          [] group = "tp"  -> Stage(m) = Stage(r) /\ Slot(m) \div job.tp = Slot(r) \div job.tp
          [] group = "etp" -> Stage(m) = Stage(r) /\ Slot(m) \div job.etp = Slot(r) \div job.etp
          [] group = "ep"  -> /\ Stage(m) = Stage(r) /\ Slot(m) % job.etp = Slot(r) % job.etp
                              /\ Slot(m) \div (job.etp * job.ep) = Slot(r) \div (job.etp * job.ep)
          [] group = "embd" -> Slot(m) = Slot(r) /\ Stage(m) \in {0, job.pp - 1}}

----------------------------------------------------------------------------
(* Layouts: the external tensors of a parameter, and the rows of its shards. *)

Rows(key, g, n) == [i \in 1 .. n |-> <<key, g, i>>]
Total(n) == FoldLeft(LAMBDA x, y : x + y, 0, n)

\* Heads per query group, and how many rows a group takes up.
PerGroup(p) == p.n[1] \div p.n[2]
Span(p)     == (IF p.gate THEN 2 ELSE 1) * PerGroup(p) + 2

\* linear_num_value_heads per key head, and the rows of one key head's qkvz.
Ratio(p)    == p.n[2] \div p.n[1]
Stretch(p)  == 2 + 2 * Ratio(p)

\* The external tensors, by key.  With an output gate q_proj holds, head by
\* head, the query and its gate; qkvz and ba are grouped by key head.
HF(p, g) ==
    CASE p.kind \in Direct -> [weight |-> Rows("weight", g, p.n[1])]
      [] p.kind = "qkv" ->
            [q |-> IF p.gate
                   THEN [i \in 1 .. 2 * p.n[1] |-> <<IF i % 2 = 1 THEN "q" ELSE "z", g, (i + 1) \div 2>>]
                   ELSE Rows("q", g, p.n[1]),
             k |-> Rows("k", g, p.n[2]), v |-> Rows("v", g, p.n[2])]
      [] p.kind = "concat" -> [weight |-> Rows("weight", g, p.n[1] + 2 * p.n[2])]
      [] p.kind = "kv" -> [k |-> Rows("k", g, p.n[2]), v |-> Rows("v", g, p.n[2])]
      [] p.kind = "gated" -> [gate |-> Rows("gate", g, p.n[1]), up |-> Rows("up", g, p.n[1])]
      [] p.kind = "chunked" -> [weight |-> Rows("weight", g, Total(p.n))]
      [] p.kind = "gdn" -> [qkvz |-> Rows("qkvz", g, p.n[1] * Stretch(p)),
                            ba |-> Rows("ba", g, p.n[1] * 2 * Ratio(p))]

\* merge_qkv_weights, merge_qkv_biases.
MergeQKV(p, q, k, v) ==
    [x \in 1 .. Span(p) * p.n[2] |->
        LET j == (x - 1) \div Span(p)
            o == (x - 1) % Span(p)
            h == j * PerGroup(p) + (o % PerGroup(p)) + 1
        IN CASE o = Span(p) - 2 -> k[j + 1]
             [] o = Span(p) - 1 -> v[j + 1]
             [] OTHER -> IF ~p.gate THEN q[h]
                         ELSE IF o < PerGroup(p) THEN q[2 * h - 1] ELSE q[2 * h]]

\* split_qkv_weights, split_qkv_biases: the head at offset o of its group.
HeadAt(p, h, o) == Span(p) * ((h - 1) \div PerGroup(p)) + ((h - 1) % PerGroup(p)) + o
SplitQKV(p, qkv) ==
    [q |-> IF p.gate
           THEN [i \in 1 .. 2 * p.n[1] |->
                    qkv[HeadAt(p, (i + 1) \div 2, IF i % 2 = 1 THEN 1 ELSE PerGroup(p) + 1)]]
           ELSE [h \in 1 .. p.n[1] |-> qkv[HeadAt(p, h, 1)]],
     k |-> [j \in 1 .. p.n[2] |-> qkv[Span(p) * j - 1]],
     v |-> [j \in 1 .. p.n[2] |-> qkv[Span(p) * j]]]

\* ConcatenatedQKVMapping: the three end to end in one tensor.
Queries(p, w) == SubSeq(w, 1, p.n[1])
Keys(p, w)    == SubSeq(w, p.n[1] + 1, p.n[1] + p.n[2])
Values(p, w)  == SubSeq(w, p.n[1] + p.n[2] + 1, p.n[1] + 2 * p.n[2])
Concatenated(parts) == parts.q \o parts.k \o parts.v

\* merge_kv_weights and split_kv_weights, likewise the biases.
MergeKV(p, k, v) == FlattenSeq([j \in 1 .. p.n[2] |-> <<k[j], v[j]>>])
SplitKV(p, kv)   == [k |-> [j \in 1 .. p.n[2] |-> kv[2 * j - 1]],
                     v |-> [j \in 1 .. p.n[2] |-> kv[2 * j]]]

\* The components of get_shard_idx, as hf_to_megatron cuts them out of the tensor.
Components(p, w) ==
    [c \in DOMAIN p.n |->
        LET before == Total(SubSeq(p.n, 1, c - 1))
        IN SubSeq(w, before + 1, before + p.n[c])]

\* merge_gdn_linear_weights: heads first .. first + count - 1 of every key head.
Column(s, heads, first, count) ==
    LET width == Len(s) \div heads
    IN [x \in 1 .. heads * count |-> s[((x - 1) \div count) * width + first + ((x - 1) % count)]]

\* split_gdn_linear_weights: the parts side by side again, key head by key head.
Beside(parts, heads) ==
    FlattenSeq([x \in 1 .. heads * Len(parts) |->
        LET part  == parts[((x - 1) % Len(parts)) + 1]
            h     == (x - 1) \div Len(parts)
            count == Len(part) \div heads
        IN SubSeq(part, h * count + 1, (h + 1) * count)])

\* The parts of the full tensor that are split over the ranks separately: a
\* shard is its chunk of each part, in order.
Fused(p, hf) ==
    CASE p.kind = "qkv"     -> <<MergeQKV(p, hf.q, hf.k, hf.v)>>
      [] p.kind = "kv"      -> <<MergeKV(p, hf.k, hf.v)>>
      [] p.kind = "concat"  -> <<MergeQKV(p, Queries(p, hf.weight), Keys(p, hf.weight),
                                          Values(p, hf.weight))>>
      [] p.kind = "chunked" -> Components(p, hf.weight)
      [] p.kind = "gdn"     -> <<Column(hf.qkvz, p.n[1], 1, 1), Column(hf.qkvz, p.n[1], 2, 1),
                                 Column(hf.qkvz, p.n[1], 3, Ratio(p)),
                                 Column(hf.qkvz, p.n[1], 3 + Ratio(p), Ratio(p)),
                                 Column(hf.ba, p.n[1], 1, Ratio(p)),
                                 Column(hf.ba, p.n[1], 1 + Ratio(p), Ratio(p))>>
      [] OTHER -> <<hf.weight>>

\* Mutant of Parts: gate and up stacked before they are split.
PartsStacked(p, hf) == IF p.kind = "gated" THEN <<hf.gate \o hf.up>> ELSE Fused(p, hf)

Parts(p, hf) == IF p.kind = "gated" THEN <<hf.gate, hf.up>> ELSE Fused(p, hf)

\* The rows of each part of the full tensor, and the external tensors they make.
PartSizes(p) ==
    CASE p.kind = "gated"   -> <<p.n[1], p.n[1]>>
      [] p.kind \in {"qkv", "concat"} -> <<Span(p) * p.n[2]>>
      [] p.kind = "kv"      -> <<2 * p.n[2]>>
      [] p.kind = "chunked" -> p.n
      [] p.kind = "gdn"     -> <<p.n[1], p.n[1], p.n[2], p.n[2], p.n[2], p.n[2]>>
      [] OTHER              -> <<p.n[1]>>

Unparts(p, parts) ==
    CASE p.kind = "gated" -> [gate |-> parts[1], up |-> parts[2]]
      [] p.kind = "qkv"   -> SplitQKV(p, parts[1])
      [] p.kind = "concat" -> [weight |-> Concatenated(SplitQKV(p, parts[1]))]
      [] p.kind = "kv"    -> SplitKV(p, parts[1])
      [] p.kind = "gdn"   -> [qkvz |-> Beside(SubSeq(parts, 1, 4), p.n[1]),
                              ba |-> Beside(SubSeq(parts, 5, 6), p.n[1])]
      [] OTHER            -> [weight |-> FlattenSeq(parts)]

\* Every tensor parallel rank holds the whole tensor.
Whole(p) == p.kind \in {"vector", "replicated"}

\* torch.chunk, and the shard of rank i of size.
Chunk(s, size, i) == SubSeq(s, i * (Len(s) \div size) + 1, (i + 1) * (Len(s) \div size))
Shard(p, hf, size, i) ==
    IF Whole(p) THEN hf.weight
    ELSE LET parts == Parts(p, hf)
         IN FlattenSeq([c \in DOMAIN parts |-> Chunk(parts[c], size, i)])

\* The external tensors from the shards in rank order.
Joined(p, shards) ==
    IF Whole(p) THEN [weight |-> shards[1]]
    ELSE LET size  == Len(shards)
             local == [c \in DOMAIN PartSizes(p) |-> PartSizes(p)[c] \div size]
             begin(c) == Total(SubSeq(local, 1, c - 1))
         IN Unparts(p, [c \in DOMAIN local |->
                FlattenSeq([i \in 1 .. size |->
                    SubSeq(shards[i], begin(c) + 1, begin(c) + local[c])])])

----------------------------------------------------------------------------
(* The task list, build_conversion_tasks.                                  *)

PerRank == job.experts \div job.ep      \* num_experts_per_rank

\* _megatron_local_name_to_global: the experts of grouped parameters are
\* numbered globally, those of a sequential MLP keep their local number.
Numbers(p, r) ==
    CASE p.expert = "no"         -> {None}
      [] p.expert = "grouped"    -> {Ep(r) * PerRank + l : l \in 0 .. PerRank - 1}
      [] p.expert = "sequential" -> 0 .. PerRank - 1

\* The names a stage contributes, gathered over the pipeline group.
Listed   == {i \in DOMAIN job.params : ~(job.tied /\ job.params[i].role = "output")}
Names(r) == UNION {{[i |-> i, g |-> g] : g \in Numbers(job.params[i], r)} : i \in Listed}

\* extract_sort_key: the layer and the expert number, then the name.  A sequential
\* expert's number is part of the name (before linear_fc1, character by character):
\* here it comes last, as a number, which orders the same names another way, and
\* alike on all ranks.
Digits(g) == IF g < 10 THEN <<g>> ELSE <<g \div 10, g % 10>>
SortKey(n) ==
    IF Par(n).expert = "sequential" THEN <<Par(n).layer, None, Par(n).part, n.g>>
    ELSE <<Par(n).layer, n.g, Par(n).part>>

\* Mutant of Before: names in the order of their characters.
BeforeByName(m, n) ==
    LET a == <<Par(m).layer, Par(m).part>> \o Digits(m.g)
        b == <<Par(n).layer, Par(n).part>> \o Digits(n.g)
    IN \/ IsStrictPrefix(a, b)
       \/ \E i \in 1 .. Len(a) :
            i <= Len(b) /\ a[i] < b[i] /\ \A j \in 1 .. i - 1 : a[j] = b[j]

Before(m, n) ==
    LET a == SortKey(m)
        b == SortKey(n)
    IN \E i \in 1 .. Len(a) : i <= Len(b) /\ a[i] < b[i] /\ \A j \in 1 .. i - 1 : a[j] = b[j]

\* sorted(flattened_names, key=extract_sort_key).
Sorted(names) ==
    [k \in 1 .. Cardinality(names) |->
        CHOOSE n \in names : Cardinality({m \in names : Before(m, n)}) = k - 1]

\* The rank has the parameter and the checkpoint has its tensors.
Owns(r, n) == Stage(r) = Par(n).stage /\ n.i \notin job.missing

----------------------------------------------------------------------------
(* The collectives of a task.                                              *)

Call(group, op, what) == [group |-> group, op |-> op, what |-> what]

\* broadcast_obj_from_pp_rank, for the kinds of object that are cached.
Cached == {"type", "config", "experts"}

\* Mutant of Ask: the rank that has the module knows the answer and does not ask.
AskUnlessOwner(r, n, what) ==
    IF job.pp = 1 \/ <<n, what>> \in known[r] \/ (Owns(r, n) /\ what = "experts") THEN <<>>
    ELSE <<Call("pp", "flags", what), Call("pp", "object", what)>>

Ask(r, n, what) ==
    IF job.pp = 1 \/ <<n, what>> \in known[r] THEN <<>>
    ELSE <<Call("pp", "flags", what), Call("pp", "object", what)>>

\* broadcast_from_pp_rank.
Fetch(r, n) ==
    IF job.pp = 1 THEN <<>>
    ELSE (IF <<n, "spec">> \in known[r] THEN <<>> ELSE <<Call("pp", "spec", "")>>)
         \o <<Call("pp", "tensor", "")>>

\* gather_from_tp_ranks; ChunkedMapping and MambaInProjMapping gather part by part.
TpGroup(n) == IF Par(n).expert = "no" THEN "tp" ELSE "etp"
Gather(n) ==
    IF Tp(n) = 1 \/ Whole(Par(n)) THEN <<>>
    ELSE (IF Par(n).kind = "chunked"
          THEN [c \in 1 .. Len(Par(n).n) - 1 |-> Call(TpGroup(n), "part", "")] ELSE <<>>)
         \o <<Call(TpGroup(n), "rows", "")>>

\* gather_from_ep_ranks, once per external tensor.
Experts(r, n) ==
    IF Par(n).expert = "no" THEN <<>>
    ELSE Ask(r, n, "experts")
         \o (IF Par(n).expert = "sequential" THEN <<>>
             ELSE IF Par(n).kind = "gated"
             THEN <<Call("ep", "expert", "gate"), Call("ep", "expert", "up")>>
             ELSE <<Call("ep", "expert", "weight")>>)

\* megatron_to_hf of the task's mapping, on every rank.  Without a pipeline
\* group to notice, a tensor nobody has is not gathered either.
ExportCalls(r, n) ==
    LET kind == Par(n).kind
    IN IF job.pp = 1 /\ ~Owns(r, n) THEN <<>>
       ELSE CASE kind \in Direct    -> Ask(r, n, "type") \o Fetch(r, n) \o Gather(n) \o Experts(r, n)
            [] kind \in {"qkv", "concat", "kv"} ->
                   Ask(r, n, "config") \o Ask(r, n, "type") \o Fetch(r, n) \o Gather(n)
            [] kind = "gdn"          -> Ask(r, n, "layout") \o Ask(r, n, "type") \o Fetch(r, n) \o Gather(n)
            [] kind = "gated"        -> Fetch(r, n) \o Gather(n) \o Experts(r, n)
            [] kind = "chunked"      -> Fetch(r, n) \o Ask(r, n, "layout") \o Gather(n)

\* hf_to_megatron: only ranks that own the module call it.
ImportCalls(r, n) ==
    IF ~Owns(r, n) \/ Tp(n) = 1 THEN <<>>
    ELSE <<Call(TpGroup(n), IF Par(n).kind = "replicated" THEN "bcast" ELSE "scatter", "")>>

\* _broadcast_shared_embeddings, after the last task of an import.
ClosingCalls(r) ==
    IF job.tied /\ job.pp > 1 /\ Stage(r) \in {0, job.pp - 1}
    THEN <<Call("embd", "embedding", "")>> ELSE <<>>

\* The checks tensor parallel rank 0 makes of the tensors before it scatters them.
Uneven(n) ==
    /\ Tp(n) > 1 /\ ~Whole(Par(n))
    /\ \E c \in DOMAIN PartSizes(Par(n)) : PartSizes(Par(n))[c] % Tp(n) # 0

\* The mapping classes that go through an AutoMapping, which keeps the
\* delegate it created in _mapping.
Delegated(n) == Par(n).kind \in Direct \cup {"qkv", "concat", "kv", "gdn"}

----------------------------------------------------------------------------
Dir(r)  == job.plan[phase[r]].dir
Cur(r)  == tasks[r][at[r]]
InTask(r) == at[r] \in 1 .. Len(tasks[r])
Ended(r)  == tasks[r] # <<>> /\ at[r] = Len(tasks[r]) + 1

\* The names are gathered once per instance of a bridge, and every call of AutoBridge
\* makes an instance of its own.
Opening(k) == IF job.plan[k].fresh THEN <<Call("pp", "names", "")>> ELSE <<>>

Init ==
    /\ job \in Jobs
    /\ phase = [r \in Ranks |-> 1]
    /\ tasks = [r \in Ranks |-> <<>>]
    /\ at = [r \in Ranks |-> 0]
    /\ todo = [r \in Ranks |-> Opening(1)]
    /\ known = [r \in Ranks |-> {}]
    /\ mine = [r \in Ranks |-> <<>>]
    /\ head = [r \in Ranks |-> <<>>]
    /\ work = [r \in Ranks |-> <<>>]
    /\ out = [r \in Ranks |-> <<>>]
    /\ status = [r \in Ranks |-> "running"]

\* What the task a rank leaves has done without a collective: one rank loads
\* the whole tensor, and an export yields the tensors of a parameter that is
\* not an expert's, tied embeddings under both names.
Loaded(r) ==
    IF InTask(r) /\ Dir(r) = "import" /\ Owns(r, Cur(r)) /\ Tp(Cur(r)) = 1
    THEN [n \in {Cur(r)} |-> Shard(Par(n), HF(Par(n), n.g), 1, 0)] ELSE <<>>

Aliases(i) ==
    {i} \cup IF job.tied /\ job.params[i].role = "embed"
             THEN {k \in DOMAIN job.params : job.params[k].role = "output"} ELSE {}

Yielded(r) ==
    IF InTask(r) /\ Dir(r) = "export" /\ work[r] # <<>> /\ Par(Cur(r)).expert = "no"
    THEN LET full == Joined(Par(Cur(r)), work[r])
         IN [x \in {<<key, i, None>> : key \in DOMAIN full, i \in Aliases(Cur(r).i)} |-> full[x[1]]]
    ELSE <<>>

\* Export raises on a sequential MLP's name, which carries no expert number
\* where gather_from_ep_ranks looks for it, and on a module no stage has
\* when there is no pipeline group to notice.
Unnamed(r) ==
    /\ InTask(r) /\ Dir(r) = "export"
    /\ Par(Cur(r)).expert = "sequential" \/ (work[r] = <<>> /\ Delegated(Cur(r)))

Idle(r) == status[r] = "running" /\ todo[r] = <<>>

\* The next task of the loop, or the end of the loop.
NextTask(r) ==
    /\ Idle(r) /\ ~Ended(r) /\ ~Unnamed(r)
    /\ LET last == at[r] = Len(tasks[r])
           n    == tasks[r][at[r] + 1]
           takes == ~last /\ Dir(r) = "import" /\ Owns(r, n)
           refused == takes /\ Uneven(n) /\ TpRank(r, n) = 0
       IN /\ at' = [at EXCEPT ![r] = @ + 1]
          /\ mine' = [mine EXCEPT ![r] = Merged(Loaded(r), @)]
          /\ out' = [out EXCEPT ![r] = Merged(Yielded(r), @)]
          /\ work' = [work EXCEPT ![r] =
                IF ~last /\ Dir(r) = "export" /\ Owns(r, n) THEN <<mine[r][n]>> ELSE <<>>]
          /\ todo' = [todo EXCEPT ![r] =
                IF Dir(r) = "import" THEN IF last THEN ClosingCalls(r) ELSE ImportCalls(r, n)
                ELSE IF last THEN <<>> ELSE ExportCalls(r, n)]
          /\ known' = [known EXCEPT ![r] =
                @ \cup IF takes /\ Delegated(n) THEN {<<n, "type">>} ELSE {}]
          /\ status' = [status EXCEPT ![r] = IF refused THEN "raised" ELSE @]
    /\ UNCHANGED <<job, phase, tasks, head>>

Raise(r) ==
    /\ Idle(r) /\ Unnamed(r)
    /\ status' = [status EXCEPT ![r] = "raised"]
    /\ UNCHANGED <<job, phase, tasks, at, todo, known, mine, head, work, out>>

\* The call of the bridge returns, and the next one of the plan begins.
Return(r) ==
    /\ Idle(r) /\ Ended(r)
    /\ IF phase[r] = Len(job.plan)
       THEN status' = [status EXCEPT ![r] = "done"] /\ UNCHANGED <<phase, at, todo, known, out>>
       ELSE /\ phase' = [phase EXCEPT ![r] = @ + 1]
            /\ at' = [at EXCEPT ![r] = 0]
            /\ todo' = [todo EXCEPT ![r] = Opening(phase[r] + 1)]
            /\ known' = [known EXCEPT ![r] = IF job.plan[phase[r] + 1].fresh THEN {} ELSE @]
            /\ out' = [out EXCEPT ![r] = <<>>]
            /\ UNCHANGED status
    /\ UNCHANGED <<job, tasks, mine, head, work>>

----------------------------------------------------------------------------
(* Collectives.                                                            *)

Group(r) == Members(r, Head(todo[r]).group)

\* All of the group are in this call.
Together(r, ops) ==
    /\ todo[r] # <<>> /\ Head(todo[r]).op \in ops
    /\ \A m \in Group(r) :
         status[m] = "running" /\ todo[m] # <<>> /\ Head(todo[m]) = Head(todo[r])

Over(G) == todo' = Merged([m \in G |-> Tail(todo[m])], todo)

\* all_gather_object of what every stage has: names, flags, shapes.
Survey(r) ==
    /\ Together(r, {"names", "flags", "spec"})
    /\ Over(Group(r))
    /\ LET op == Head(todo[r]).op
       IN /\ status' = IF op # "names" /\ \A m \in Group(r) : ~Owns(m, Cur(m))
                       THEN Merged([m \in Group(r) |-> "raised"], status) ELSE status
          /\ known' = IF op = "spec"
                      THEN Merged([m \in Group(r) |-> known[m] \cup {<<Cur(m), "spec">>}], known) ELSE known
          /\ tasks' = IF op = "names" THEN Merged([m \in Group(r) |-> Sorted(Names(m))], tasks) ELSE tasks
    /\ UNCHANGED <<job, phase, at, mine, head, work, out>>

\* Mutant of Object: an object asked for without a key is cached as well.
ObjectAlwaysCached(r) ==
    /\ Together(r, {"object"})
    /\ Over(Group(r))
    /\ known' = Merged([m \in Group(r) |-> known[m] \cup {<<Cur(m), Head(todo[r]).what>>}], known)
    /\ UNCHANGED <<job, where, tasks, mine, head, work, out>>

\* broadcast_object_list from the owner.
Object(r) ==
    /\ Together(r, {"object"})
    /\ Over(Group(r))
    /\ known' = Merged([m \in Group(r) |->
                    known[m] \cup {<<Cur(m), what>> : what \in {Head(todo[r]).what} \cap Cached}], known)
    /\ UNCHANGED <<job, where, tasks, mine, head, work, out>>

\* broadcast of the tensor from the owner.
Tensor(r) ==
    /\ Together(r, {"tensor"})
    /\ Over(Group(r))
    /\ LET src == CHOOSE m \in Group(r) : Owns(m, Cur(m))
       IN work' = Merged([m \in Group(r) |-> work[src]], work)
    /\ UNCHANGED <<job, where, tasks, known, mine, head, out>>

\* all_gather over the tensor parallel group.
TpGather(r) ==
    /\ Together(r, {"part", "rows"})
    /\ Over(Group(r))
    /\ LET n       == Cur(r)
           peer(i) == CHOOSE m \in Group(r) : TpRank(m, n) = i - 1
       IN work' = IF Head(todo[r]).op = "part" THEN work
                  ELSE Merged([m \in Group(r) |-> [i \in 1 .. Tp(n) |-> work[peer(i)][1]]], work)
    /\ UNCHANGED <<job, where, tasks, known, mine, head, out>>

\* all_gather over the expert parallel group: every rank names the others'
\* tensors by its own local expert number.
EpGather(r) ==
    /\ Together(r, {"expert"})
    /\ Over(Group(r))
    /\ LET key == Head(todo[r]).what
           named(m) == [x \in {<<key, Cur(m).i, (Cur(m).g % PerRank) + PerRank * Ep(k)>> : k \in Group(r)} |->
                          LET k == CHOOSE k \in Group(r) : Ep(k) = x[3] \div PerRank
                          IN Joined(Par(Cur(k)), work[k])[key]]
       IN out' = Merged([m \in Group(r) |-> Merged(named(m), out[m])], out)
    /\ UNCHANGED <<job, where, tasks, known, mine, head, work>>

\* scatter or broadcast from tensor parallel rank 0.
TpScatter(r) ==
    /\ Together(r, {"scatter", "bcast"})
    /\ Over(Group(r))
    /\ LET root == CHOOSE m \in Group(r) : TpRank(m, Cur(m)) = 0
           n    == Cur(root)
           shard(m) == Shard(Par(n), HF(Par(n), n.g), Tp(n), TpRank(m, n))
       IN mine' = Merged([m \in Group(r) |-> Merged([x \in {Cur(m)} |-> shard(m)], mine[m])], mine)
    /\ UNCHANGED <<job, where, tasks, known, head, work, out>>

\* The first stage's embedding becomes the last stage's output layer.
ShareEmbedding(r) ==
    /\ Together(r, {"embedding"})
    /\ Over(Group(r))
    /\ LET first == CHOOSE m \in Group(r) : Stage(m) = 0
           n     == CHOOSE n \in DOMAIN mine[first] : Par(n).role = "embed"
       IN head' = Merged([m \in {m \in Group(r) : Stage(m) = job.pp - 1} |-> mine[first][n]], head)
    /\ UNCHANGED <<job, where, tasks, known, mine, work, out>>

Next == \E r \in Ranks :
    \/ NextTask(r) \/ Raise(r) \/ Return(r)
    \/ Survey(r) \/ Object(r) \/ Tensor(r) \/ TpGather(r) \/ EpGather(r)
    \/ TpScatter(r) \/ ShareEmbedding(r)

Spec == Init /\ [][Next]_vars

----------------------------------------------------------------------------
(***************************************************************************)
(* Every variable has its type; only ranks in a task gather tensors.       *)
(***************************************************************************)
TypeOK ==
    /\ job \in Jobs
    /\ \A r \in Ranks :
        /\ phase[r] \in DOMAIN job.plan
        /\ at[r] \in 0 .. Len(tasks[r]) + 1
        /\ status[r] \in {"running", "raised", "done"}
        /\ DOMAIN mine[r] \subseteq Names(r)
        /\ Len(work[r]) <= IF InTask(r) THEN Tp(Cur(r)) ELSE 0
        /\ \A x \in known[r] : x[1] \in Names(r) /\ x[2] \in Cached \cup {"spec"}

\* Every expert a parameter has, by its number in the checkpoint.
AllNumbers(p) == IF p.expert = "no" THEN {None} ELSE 0 .. job.experts - 1

AllRows(p, g) == UNION {{HF(p, g)[key][x] : x \in DOMAIN HF(p, g)[key]} : key \in DOMAIN HF(p, g)}

\* The rows a layer computes with together: a query group with its key and
\* value, a key head's projections, a gate with its up projection, the same
\* slice of every component.
Unit(p, size, row) ==
    CASE p.kind = "qkv"     -> IF row[1] \in {"q", "z"} THEN (row[3] - 1) \div PerGroup(p) ELSE row[3] - 1
      [] p.kind = "concat"  ->
            IF row[3] <= p.n[1] THEN (row[3] - 1) \div PerGroup(p) ELSE (row[3] - p.n[1] - 1) % p.n[2]
      [] p.kind = "gdn"     -> IF row[1] = "qkvz" THEN (row[3] - 1) \div Stretch(p)
                               ELSE (row[3] - 1) \div (2 * Ratio(p))
      [] p.kind = "chunked" ->
            LET c == CHOOSE c \in DOMAIN p.n : /\ Total(SubSeq(p.n, 1, c - 1)) < row[3]
                                               /\ row[3] <= Total(SubSeq(p.n, 1, c))
            IN ((row[3] - Total(SubSeq(p.n, 1, c - 1)) - 1) * size) \div p.n[c]
      [] OTHER -> row[3] - 1

(***************************************************************************)
(* When every rank is through the import, the stage that has a parameter   *)
(* holds all of the checkpoint's rows of it, every expert's included; a    *)
(* rank holds an equal share, and of the rows a layer computes with        *)
(* together all or none; a tied output layer equals the embedding shard.   *)
(***************************************************************************)
ShardsComplete ==
    (\A r \in Ranks : status[r] # "raised" /\ (phase[r] > 1 \/ (Ended(r) /\ todo[r] = <<>>))) =>
        /\ \A i \in Listed \ job.missing : \A g \in AllNumbers(job.params[i]) :
             AllRows(job.params[i], g) \subseteq
                UNION {UNION {{mine[r][n][x] : x \in DOMAIN mine[r][n]} :
                               n \in {n \in DOMAIN mine[r] : n.i = i}} : r \in Ranks}
        /\ \A r \in Ranks : \A n \in DOMAIN mine[r] :
             LET p    == Par(n)
                 held == {mine[r][n][x] : x \in DOMAIN mine[r][n]}
                 size == IF Whole(p) THEN 1 ELSE Tp(n)
                 unit(row) == Unit(p, size, row)
             IN /\ Len(mine[r][n]) * size = Cardinality(AllRows(p, n.g))
                /\ \A row \in held : \A other \in AllRows(p, row[2]) :
                     unit(other) = unit(row) => other \in held
        /\ \A r \in Ranks : head[r] # <<>> =>
             \E m \in Members(r, "embd") : \E n \in DOMAIN mine[m] :
                Par(n).role = "embed" /\ mine[m][n] = head[r]

\* The checkpoint the import read, as an export writes it.
Expected ==
    LET given == {ig \in (DOMAIN job.params \ job.missing) \X (None .. job.experts - 1) :
                    ig[2] \in AllNumbers(job.params[ig[1]])}
        source(i) == IF job.tied /\ job.params[i].role = "output"
                     THEN CHOOSE k \in DOMAIN job.params : job.params[k].role = "embed" ELSE i
    IN [x \in {<<key, ig[1], ig[2]>> : key \in {"weight", "q", "k", "v", "gate", "up", "qkvz", "ba"},
                                       ig \in given} \cap
              UNION {{<<key, ig[1], ig[2]>> : key \in DOMAIN HF(job.params[ig[1]], ig[2])} : ig \in given}
        |-> HF(job.params[source(x[2])], x[3])[x[1]]]

(***************************************************************************)
(* Every rank exports the checkpoint that was imported: the same tensors,  *)
(* each under its own name, row for row, however often it exports.         *)
(***************************************************************************)
RoundTrip ==
    \A r \in Ranks : Dir(r) = "export" /\ Ended(r) => out[r] = Expected

\* The tensors to import divide evenly; those to export carry an expert
\* number where they need one, and no pipeline stage waits for one the
\* checkpoint lacks.
Directions == {job.plan[k].dir : k \in DOMAIN job.plan}
Convertible ==
    /\ "import" \in Directions => \A i \in Listed \ job.missing : ~Uneven([i |-> i, g |-> None])
    /\ "export" \in Directions => \A i \in Listed :
         /\ job.params[i].expert # "sequential"
         /\ i \in job.missing => job.pp = 1 /\ job.params[i].kind \in {"gated", "chunked"}

(***************************************************************************)
(* The ranks' collectives always meet: as long as a rank of a conversion   *)
(* that can succeed has not finished, some rank or some group can go on,   *)
(* and none raises; one that cannot succeed ends with an exception.        *)
(***************************************************************************)
NoHang ==
    LET ops == {"names", "flags", "spec", "object", "tensor", "part", "rows", "expert",
                "scatter", "bcast", "embedding"}
        moving == \E r \in Ranks : Idle(r) \/ Together(r, ops)
        raised == \E r \in Ranks : status[r] = "raised"
        done   == \A r \in Ranks : status[r] = "done"
    IN /\ moving \/ raised \/ done
       /\ raised => ~Convertible
       /\ done => Convertible

=============================================================================
