------------------------------- MODULE Packing -------------------------------
(***************************************************************************)
(* Packed fine-tuning data (data/datasets/packed_sequence.py,              *)
(* packing_utils.py and GPTSFTPackedDataset in sft.py): the samples are    *)
(* tokenized and padded, only their LENGTHS are placed into bins, and the  *)
(* bins are then filled with samples of those lengths, tokens and loss     *)
(* mask from two stacks that have to stay in step.                         *)
(*                                                                         *)
(* A token is <<sample, position>> with positions from 0, or <<0, 0>> for  *)
(* padding (the eos token); randomness is a nondeterministic choice.       *)
(***************************************************************************)
EXTENDS Integers, FiniteSets, Sequences, SequencesExt

CONSTANT Jobs   \* what to pack: records as in JobAssumption

Algorithms == {"first_fit_decreasing", "first_fit_shuffle"}

\* samples: per sample its tokens and where its answer starts, 0 when its mask
\* hides nothing; chat datasets bring a loss mask of their own and do not truncate.
ASSUME JobAssumption == \A j \in Jobs :
    /\ {j.maxSeq, j.pack, j.mult} \subseteq Nat \ {0}      \* max_seq_length, packed_sequence_size, pad_seq_to_mult
    /\ j.algorithm \in Algorithms /\ j.chat \in BOOLEAN
    /\ j.samples \in Seq([len : Nat \ {0}, answer : Nat]) /\ j.samples # <<>>
    /\ \A i \in DOMAIN j.samples :
         /\ j.samples[i].answer <= j.samples[i].len
         /\ ~j.chat => j.samples[i].len <= j.maxSeq

VARIABLES
    job,
    stage,      \* "tokenize", "pack", "fill" or how it ended: "done", "raised"
    ids,        \* per sample, input_ids as the packer gets them
    masks,      \* per sample, loss_mask aligned with the labels
    queue,      \* the lengths not yet placed
    bins,       \* assignments: per bin the lengths placed in it
    stacks,     \* ifile_handles: per length, the samples left, tokens and masks
    packed      \* output_data

vars == <<job, stage, ids, masks, queue, bins, stacks, packed>>

Samples == DOMAIN job.samples
Pad     == <<0, 0>>
Sum(s)  == FoldLeft(LAMBDA x, y : x + y, 0, s)
Ceil(n, m) == ((n + m - 1) \div m) * m

----------------------------------------------------------------------------
(* Tokenizing.                                                             *)

\* max_length_to_pad, and whether pre_pad_dataset pads sample i up to it.
PaddedLength(i) == Min({job.maxSeq, Ceil(job.samples[i].len, job.mult)})
IsPadded(i)     == job.mult > 1 /\ job.samples[i].len <= PaddedLength(i)

\* context_ids, padded like input_ids: what precedes the answer, or everything.
Context(i)       == IF job.samples[i].answer = 0 THEN job.samples[i].len ELSE job.samples[i].answer
ContextPadded(i) == job.mult > 1 /\ Context(i) <= PaddedLength(i)

\* tokenize_dataset and pre_pad_dataset: the tokens of sample i.
Tokens(i) ==
    LET len == job.samples[i].len
        raw == [x \in 1 .. len |-> <<i, x - 1>>]
    IN IF IsPadded(i) THEN raw \o [x \in 1 .. PaddedLength(i) - len + 1 |-> Pad]
       ELSE IF job.mult > 1 THEN SubSeq(raw, 1, job.maxSeq) ELSE raw

\* The loss mask fill_packing_strategy makes: a chat sample's own, rolled by
\* one, or everything from the token before the answer.
Mask(i, tokens) ==
    LET len == job.samples[i].len
    IN IF job.chat
       THEN [x \in 1 .. len |-> x < len /\ x >= job.samples[i].answer]
       ELSE [x \in 1 .. Len(tokens) |-> x - 1 >= job.samples[i].answer - 1]

\* A sample counts for its inputs and labels, one less than its tokens.
Length(i) == Len(ids[i]) - 1

Init ==
    /\ job \in Jobs
    /\ stage = "tokenize"
    /\ ids = <<>> /\ masks = <<>> /\ queue = <<>> /\ bins = <<>> /\ stacks = <<>> /\ packed = <<>>

\* A chat's tokens and context are tensors, to which a list of padding cannot
\* be added: only one whose context alone is too long comes through.
Tokenize ==
    /\ stage = "tokenize" /\ ids = <<>>
    /\ IF job.chat /\ \E i \in Samples : IsPadded(i) \/ ContextPadded(i)
       THEN stage' = "raised" /\ UNCHANGED <<ids, masks>>
       ELSE /\ ids' = [i \in Samples |-> Tokens(i)]
            /\ masks' = [i \in Samples |-> Mask(i, Tokens(i))]
            /\ UNCHANGED stage
    /\ UNCHANGED <<job, queue, bins, stacks, packed>>

----------------------------------------------------------------------------
(* Packing lengths.                                                        *)

Permuted == {f \in [1 .. Len(ids) -> Samples] : IsInjective(f)}

\* The orders the packing algorithm may see the lengths in.
Orders ==
    LET lengths == {[x \in DOMAIN f |-> Length(f[x])] : f \in Permuted}
    IN {s \in lengths : job.algorithm = "first_fit_decreasing" =>
                            \A x, y \in DOMAIN s : x < y => s[x] >= s[y]}

\* create_hist indexes its counts by length: one above max_seq_length raises.
Order ==
    /\ stage = "tokenize" /\ ids # <<>>
    /\ IF \E i \in Samples : Length(i) > job.maxSeq
       THEN stage' = "raised" /\ UNCHANGED queue
       ELSE stage' = "pack" /\ \E order \in Orders : queue' = order
    /\ UNCHANGED <<job, ids, masks, bins, stacks, packed>>

\* Mutant of Fitting: only the bin opened last is tried.
FittingLast(s) == {b \in DOMAIN bins : b = Len(bins) /\ Sum(bins[b]) + s <= job.pack}

\* find_first_bin_that_fits.
Fitting(s) == {b \in DOMAIN bins : Sum(bins[b]) + s <= job.pack}

\* first_fit, one length at a time; a new bin is opened whatever the length.
Place ==
    /\ stage = "pack" /\ queue # <<>>
    /\ LET s == Head(queue)
       IN bins' = IF Fitting(s) = {} THEN Append(bins, <<s>>)
                  ELSE [bins EXCEPT ![CHOOSE b \in Fitting(s) : \A c \in Fitting(s) : b <= c] = Append(@, s)]
    /\ queue' = Tail(queue)
    /\ UNCHANGED <<job, stage, ids, masks, stacks, packed>>

----------------------------------------------------------------------------
(* Filling the bins.                                                       *)

\* The samples of length l, and the stacks a permutation of each such group makes.
OfLength(l) == {i \in Samples : Length(i) = l}

Stacked(lengths) ==
    {order \in [lengths -> UNION {SetToSeqs(OfLength(l)) : l \in lengths}] :
        \A l \in lengths : order[l] \in SetToSeqs(OfLength(l))}

\* Stacks are made for lengths up to the pack size only; numpy refuses masks of
\* different lengths among samples of one length.
Handled == {Length(i) : i \in Samples} \cap (0 .. job.pack)

Ragged == \E i, k \in Samples :
            Length(i) = Length(k) /\ Length(i) <= job.pack /\ Len(masks[i]) # Len(masks[k])

Handle ==
    /\ stage = "pack" /\ queue = <<>>
    /\ IF Ragged THEN stage' = "raised" /\ UNCHANGED stacks
       ELSE /\ stage' = "fill"
            /\ \E order \in Stacked(Handled) :
                  stacks' = [l \in Handled |-> [ids |-> order[l], masks |-> order[l]]]
    /\ UNCHANGED <<job, ids, masks, queue, bins, packed>>

\* The samples popped for a bin: for its x-th length, as many from the end
\* of the stack as lengths like it come before in the bin.
Popped(lengths, part) ==
    [x \in DOMAIN lengths |->
        LET stack == stacks[lengths[x]][part]
            used  == Cardinality({y \in 1 .. x - 1 : lengths[y] = lengths[x]})
        IN stack[Len(stack) - used]]

\* Mutant of PoppedMasks: masks are taken from the front of their stack.
PoppedMasksFromFront(lengths) ==
    [x \in DOMAIN lengths |->
        stacks[lengths[x]].masks[1 + Cardinality({y \in 1 .. x - 1 : lengths[y] = lengths[x]})]]

PoppedMasks(lengths) == Popped(lengths, "masks")

Shortened(s, n) == SubSeq(s, 1, Len(s) - n)

\* One bin of fill_packing_strategy: a length no stack was made for raises.
Fill ==
    /\ stage = "fill" /\ Len(packed) < Len(bins)
    /\ LET lengths == bins[Len(packed) + 1]
           count(l) == Cardinality({x \in DOMAIN lengths : lengths[x] = l})
       IN IF \E x \in DOMAIN lengths : lengths[x] \notin DOMAIN stacks
          THEN stage' = "raised" /\ UNCHANGED <<stacks, packed>>
          ELSE /\ LET who == Popped(lengths, "ids")
                  IN packed' = Append(packed,
                        [ids    |-> FlattenSeq([x \in DOMAIN who |-> ids[who[x]]]),
                         mask   |-> FlattenSeq([x \in DOMAIN who |-> masks[PoppedMasks(lengths)[x]]]),
                         starts |-> [x \in DOMAIN who |-> Sum([y \in 1 .. x - 1 |-> Len(ids[who[y]])])]])
               /\ stacks' = [l \in DOMAIN stacks |->
                                [ids |-> Shortened(stacks[l].ids, count(l)),
                                 masks |-> Shortened(stacks[l].masks, count(l))]]
               /\ UNCHANGED stage
    /\ UNCHANGED <<job, ids, masks, queue, bins>>

\* The assertion that nothing is left over, and the save.
Save ==
    /\ stage = "fill" /\ Len(packed) = Len(bins)
    /\ stage' = IF \A l \in DOMAIN stacks : stacks[l].ids = <<>> THEN "done" ELSE "raised"
    /\ UNCHANGED <<job, ids, masks, queue, bins, stacks, packed>>

Next == Tokenize \/ Order \/ Place \/ Handle \/ Fill \/ Save
Spec == Init /\ [][Next]_vars

----------------------------------------------------------------------------
(* What the training loop gets of a packed sequence: __getitem__ and       *)
(* collate_fn.                                                             *)

Bounds(item) == Append(item.starts, Len(item.ids))     \* seq_boundaries

\* The slices from .. to of the sequences, end to end; a slice past the end is
\* cut short.
Slices(item, s, from, to) ==
    LET last(x) == Min({Bounds(item)[x + 1] + to, Len(s)})
    IN FlattenSeq([x \in DOMAIN item.starts |-> SubSeq(s, Bounds(item)[x] + 1 + from, last(x))])

\* cu_seqlens, up to the length every row of the batch is padded to.
CuSeqlens(item, maxLength) ==
    LET cu == [x \in 1 .. Len(item.starts) + 1 |-> Bounds(item)[x] - (x - 1)]
    IN IF Last(cu) = maxLength THEN cu ELSE Append(cu, maxLength)

Row(item) ==
    LET tokens == Slices(item, item.ids, 0, -1)
        mask   == Slices(item, item.mask, 0, -1)
    IN [tokens |-> tokens, labels |-> Slices(item, item.ids, 1, 0),
        loss   |-> [x \in DOMAIN tokens |-> x <= Len(mask) /\ mask[x] /\ tokens[x] # Pad],
        cu     |-> CuSeqlens(item, job.pack)]

(***************************************************************************)
(* Of packed data that was written, every sample with something to predict *)
(* is in exactly one row, within one sequence of it, no longer than the    *)
(* pack size; each of its tokens is trained to predict the next one of the *)
(* same sample, with the loss of its own answer and no other unless tokens *)
(* and masks were cut apart.                                               *)
(***************************************************************************)
\* pre_pad_dataset cuts the tokens of a long chat to max_seq_length, not its mask.
CutApart == \E i \in Samples : Len(masks[i]) # Len(ids[i])

PackedFaithfully ==
    stage = "done" =>
        \A i \in {i \in Samples : Length(i) > 0} :
            /\ Cardinality({b \in DOMAIN packed : <<i, 0>> \in Range(Row(packed[b]).tokens)}) = 1
            /\ \E b \in DOMAIN packed :
                LET row == Row(packed[b])
                    len == Length(i)
                IN /\ Len(row.tokens) <= job.pack
                   /\ \E c \in 1 .. Len(row.cu) - 1 :
                        /\ row.cu[c + 1] - row.cu[c] = len
                        /\ SubSeq(row.tokens, row.cu[c] + 1, row.cu[c + 1]) = SubSeq(ids[i], 1, len)
                        /\ SubSeq(row.labels, row.cu[c] + 1, row.cu[c + 1]) = SubSeq(ids[i], 2, len + 1)
                        /\ ~CutApart => \A x \in 1 .. len :
                             row.loss[row.cu[c] + x] =
                                (ids[i][x] # Pad /\ x >= job.samples[i].answer)

(***************************************************************************)
(* A chat's "loss_mask corresponds to tokens of input_ids", in the packed  *)
(* rows too.                                                               *)
(***************************************************************************)
MasksCorrespond == \A b \in DOMAIN packed : Len(packed[b].mask) = Len(packed[b].ids)

(***************************************************************************)
(* First-fit wastes little: of any two bins one could not have taken what  *)
(* the other holds.                                                        *)
(***************************************************************************)
NoTwoBinsMerge ==
    \A b, c \in DOMAIN bins : b # c => Sum(bins[b]) + Sum(bins[c]) > job.pack

=============================================================================
