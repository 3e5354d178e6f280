-------------------------- MODULE MCCheckpointing --------------------------
(* Small instances of Checkpointing for TLC.                               *)
EXTENDS Checkpointing, TLC

CONSTANTS r0, r1              \* two ranks, interchangeable in this module

KeepAll == -1                 \* most_recent_k of a job that trims nothing

MCRanks == {r0, r1}
RankSymmetry == Permutations(MCRanks)

=============================================================================
