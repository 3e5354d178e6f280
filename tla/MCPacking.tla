------------------------------ MODULE MCPacking ------------------------------
(* Data sets to pack: ties among lengths, samples at and above the limits.  *)
EXTENDS Packing

S(len, answer) == [len |-> len, answer |-> answer]

Pack(samples, maxSeq, pack, mult, chat) ==
    {[samples |-> samples, maxSeq |-> maxSeq, pack |-> pack, mult |-> mult, chat |-> chat, algorithm |-> a] :
        a \in Algorithms}

\* Chats longer than max_seq_length in their context alone, or with nothing
\* masked, packed two to a row.
CutJobs == Pack(<<S(6, 5), S(6, 0)>>, 4, 8, 2, TRUE)

MCJobs ==
    Pack(<<S(3, 1), S(3, 2), S(4, 2), S(2, 1), S(3, 3)>>, 5, 5, 1, FALSE)   \* ties of one length
    \cup Pack(<<S(4, 1), S(2, 2), S(3, 2), S(4, 3)>>, 4, 8, 2, FALSE)       \* padded to a multiple
    \cup Pack(<<S(3, 1), S(3, 3), S(5, 2)>>, 4, 4, 1, TRUE)                 \* chat, one of max_seq_length
    \cup Pack(<<S(2, 1), S(6, 1)>>, 4, 4, 1, TRUE)                          \* longer than max_seq_length
    \cup Pack(<<S(2, 1), S(5, 1)>>, 5, 3, 1, FALSE)                         \* longer than a pack
    \cup Pack(<<S(3, 1), S(4, 1)>>, 4, 8, 2, TRUE)                          \* chat, to be padded
    \cup Pack(<<S(6, 2), S(6, 5)>>, 4, 8, 2, TRUE)                          \* chat, a context to be padded
    \cup Pack(<<S(5, 0), S(6, 5)>>, 4, 8, 2, TRUE)                          \* chat, truncated, two lengths of mask
    \cup CutJobs

=============================================================================
