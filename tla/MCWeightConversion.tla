------------------------- MODULE MCWeightConversion -------------------------
(* Conversions to check: each mapping class, each kind of group.            *)
EXTENDS WeightConversion

P(kind, stage, layer, part, n) ==
    [kind |-> kind, stage |-> stage, layer |-> layer, part |-> part, n |-> n,
     role |-> "other", expert |-> "no", gate |-> FALSE]
E(kind, stage, layer, part, n)  == [P(kind, stage, layer, part, n) EXCEPT !.expert = "grouped"]

Fresh(dir) == [dir |-> dir, fresh |-> TRUE]
Again(dir) == [dir |-> dir, fresh |-> FALSE]
Import == <<Fresh("import"), Fresh("export")>>

Grid(pp, tp, ep, etp, stageSize, experts, params) ==
    [pp |-> pp, tp |-> tp, ep |-> ep, etp |-> etp, stageSize |-> stageSize, experts |-> experts,
     params |-> params, tied |-> FALSE, missing |-> {}, plan |-> Import]

Embed  == [P("column", 0, None, 0, <<4>>) EXCEPT !.role = "embed"]
Output == [P("column", 1, None, 9, <<4>>) EXCEPT !.role = "output"]
GatedQKV(stage, layer) == [P("qkv", stage, layer, 1, <<4, 2>>) EXCEPT !.gate = TRUE]

\* A dense model over two stages, embeddings tied, exported twice.
Dense == [Grid(2, 2, 1, 1, 2, 0,
               <<Embed, GatedQKV(0, 0), P("replicated", 1, 1, 2, <<2>>), P("gated", 1, 1, 3, <<2>>), Output>>)
          EXCEPT !.tied = TRUE, !.plan = Import \o <<Again("export")>>]

\* Experts over the ranks that share the dense layers by tensor parallelism.
MoE == Grid(2, 2, 2, 1, 2, 4,
            <<P("row", 0, 0, 1, <<2>>), E("gated", 1, 1, 2, <<1>>), E("row", 1, 1, 3, <<1>>)>>)

\* Expert numbers of more than one digit.
ManyExperts == Grid(1, 1, 2, 1, 2, 12, <<E("column", 0, 0, 1, <<1>>)>>)

\* Expert tensor parallelism, and the layouts fused from several parts.
Fused2 == Grid(1, 2, 2, 2, 4, 2,
               <<P("chunked", 0, 0, 1, <<4, 2, 2>>), P("gdn", 0, 0, 2, <<2, 4>>), P("kv", 0, 0, 3, <<0, 2>>),
                 P("qkv", 0, 0, 4, <<4, 2>>), P("concat", 0, 0, 6, <<4, 2>>), P("vector", 0, 0, 5, <<2>>), E("gated", 0, 1, 1, <<2>>)>>)
Staged == Grid(2, 2, 1, 1, 2, 0, <<P("chunked", 0, 0, 1, <<2, 4>>), P("gdn", 1, 1, 2, <<2, 2>>)>>)

\* A checkpoint without a parameter of the model, and one that cannot be split.
Absent == {[Grid(2, 1, 1, 1, 1, 0, <<P("gated", 0, 0, 1, <<2>>), P("column", 1, 1, 1, <<2>>)>>)
                EXCEPT !.missing = {m}] : m \in {1, 2}}
          \cup {[Grid(1, tp, 1, 1, tp, 0, <<P(kind, 0, 0, 1, <<2>>), P("column", 0, 1, 1, <<2>>)>>)
                    EXCEPT !.missing = {1}] : kind \in {"gated", "column"}, tp \in {1, 2}}
Odd == Grid(1, 2, 1, 1, 2, 0, <<P("column", 0, 0, 1, <<3>>)>>)

\* A sequential MLP, which can be imported and not exported.
Sequential(ep, experts) ==
    Grid(1, 1, ep, 1, ep, experts, <<[E("column", 0, 0, 1, <<1>>) EXCEPT !.expert = "sequential"]>>)

MCJobs == {Dense, MoE, ManyExperts, Fused2, Staged, Odd, Sequential(1, 2)} \cup Absent

\* Tasks built once and used in both directions.
ReusedJobs == {[Dense EXCEPT !.plan = <<Fresh("import"), Again("export")>>]}

\* The experts of a sequential MLP over two expert parallel ranks.
SequentialJobs == {Sequential(2, 4)}

=============================================================================
