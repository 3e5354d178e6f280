--------------------------- MODULE MCDataPipeline ---------------------------
(* Small instances of DataPipeline for TLC.                                *)
EXTENDS DataPipeline

\* A permutation of 0 .. n - 1 for each epoch: rotated, and reversed in odd epochs.
MCPerm(epoch, n) ==
    [i \in 1 .. n |-> (IF epoch % 2 = 0 THEN i + epoch ELSE 2 * n - i) % n]

\* The random datasets leave an incomplete last batch, the second whole-batch one
\* samples that fill no global batch.
MCDatasets ==
    {[kind |-> "single", total |-> 29],
     [kind |-> "batch", total |-> 16], [kind |-> "batch", total |-> 23],
     [kind |-> "sharded", total |-> 11], [kind |-> "shuffled", total |-> 12]}

MCLayouts == {[mbs |-> 1, dp |-> 2], [mbs |-> 2, dp |-> 2], [mbs |-> 2, dp |-> 1]}

MCSkip == {1}

\* A cyclic dataset that every layout divides evenly.
EvenShards == {[kind |-> "sharded", total |-> 24]}

\* The whole-batch dataset alone, with nothing skipped.
RaggedBatch == {[kind |-> "batch", total |-> 23]}
NoSkip      == {}

=============================================================================
