---------------------------- MODULE PackingProofs ----------------------------
(***************************************************************************)
(* Packing for data sets of every kind: first-fit leaves no two bins that  *)
(* could be one, and the rows of packed data that was written hold every   *)
(* sample once, whole, with its own labels and loss.                       *)
(***************************************************************************)
EXTENDS Packing, CountingLemmas

-----------------------------------------------------------------------------
(* Sums of lengths.                                                        *)

LEMMA SumIsSumOf == ASSUME NEW s PROVE Sum(s) = SumOf(s)
BY DEF Sum, SumOf

LEMMA SumAppend ==
    ASSUME NEW s \in Seq(Nat), NEW e \in Nat
    PROVE  Sum(Append(s, e)) = Sum(s) + e /\ Sum(s) \in Nat /\ Sum(Append(s, e)) \in Nat
<1> DEFINE t == Append(s, e)
           n == Len(s)
<1>1. n \in Nat /\ DOMAIN s = 1 .. n /\ DOMAIN t = 1 .. n + 1 OBVIOUS
<1>2. \A k \in 1 .. n + 1 : t[k] \in Nat OBVIOUS
<1>3. \A k \in 1 .. n : s[k] = t[k] OBVIOUS
<1>4. t[n + 1] = e OBVIOUS
<1> HIDE DEF t, n
<1>5. SumOf(t) = SumOf(s) + t[n + 1] /\ SumOf(s) \in Nat /\ SumOf(t) \in Nat
      BY ONLY <1>1, <1>2, <1>3, SumStep
<1> QED BY <1>4, <1>5, SumIsSumOf DEF t

LEMMA SumOfOne == ASSUME NEW e \in Nat PROVE Sum(<<e>>) = e
<1>1. <<>> \in Seq(Nat) /\ Append(<<>>, e) = <<e>> OBVIOUS
<1>2. Sum(<<>>) = 0 BY EmptySum, SumIsSumOf, DOMAIN <<>> = {}
<1>3. Sum(Append(<<>>, e)) = Sum(<<>>) + e BY <1>1, SumAppend
<1> QED BY <1>1, <1>2, <1>3

LEMMA SumAtLeast ==
    ASSUME NEW s \in Seq(Nat)
    PROVE  Sum(s) \in Nat /\ \A x \in DOMAIN s : Sum(s) >= s[x]
<1> DEFINE n == Len(s)
<1>1. n \in Nat /\ DOMAIN s = 1 .. n /\ \A k \in 1 .. n : s[k] \in Nat OBVIOUS
<1> HIDE DEF n
<1>2. PICK A : Partial(A, s, n) /\ SumOf(s) = A[n] BY <1>1, SumIsLast
<1>3. \A k \in 0 .. n : A[k] \in Nat BY <1>1, <1>2, PartialsAreNumbers
<1>4. ASSUME NEW x \in 1 .. n PROVE A[n] >= s[x]
  <2>1. A[x] = A[x - 1] + s[x] /\ x - 1 \in 0 .. n /\ x \in 0 .. n BY <1>1, <1>2 DEF Partial
  <2>2. A[x] <= A[n]
    <3>1. \A k \in x .. n : A[x] <= A[k] BY <1>1, <1>2, <2>1, PartialsGrow
    <3> QED BY <1>1, <3>1
  <2> QED BY <1>1, <1>3, <2>1, <2>2
<1> QED BY <1>1, <1>2, <1>3, <1>4, SumIsSumOf

-----------------------------------------------------------------------------
(* Tokens and masks.                                                       *)

\* A job with the samples it was given.
LEMMA JobFacts ==
    ASSUME NEW i \in Samples, job \in Jobs
    PROVE  /\ job.samples \in Seq([len : Nat \ {0}, answer : Nat])
           /\ i \in Nat \ {0} /\ Samples = 1 .. Len(job.samples)
           /\ job.samples[i].len \in Nat \ {0} /\ job.samples[i].answer \in Nat
           /\ job.maxSeq \in Nat \ {0} /\ job.pack \in Nat \ {0} /\ job.mult \in Nat \ {0}
<1>1. job.samples \in Seq([len : Nat \ {0}, answer : Nat]) BY JobAssumption
<1>2. job.samples[i] \in [len : Nat \ {0}, answer : Nat]
  <2> DEFINE s == job.samples
             R == [len : Nat \ {0}, answer : Nat]
  <2>1. i \in DOMAIN s BY DEF Samples
  <2>2. s \in Seq(R) BY <1>1
  <2> HIDE DEF s, R
  <2>3. i \in 1 .. Len(s) BY <2>1, <2>2
  <2>4. s[i] \in R BY <2>2, <2>3
  <2> QED BY <2>4 DEF s, R
<1>3. {job.maxSeq, job.pack, job.mult} \subseteq Nat \ {0} BY JobAssumption
<1> QED BY <1>1, <1>2, <1>3 DEF Samples

LEMMA PaddedLengthFacts ==
    ASSUME NEW i \in Samples, job \in Jobs
    PROVE  /\ PaddedLength(i) \in Nat \ {0}
           /\ job.mult > 1 /\ ~IsPadded(i) => job.maxSeq < job.samples[i].len
<1> DEFINE len == job.samples[i].len
           up == Ceil(len, job.mult)
           q == (len + job.mult - 1) \div job.mult
<1>1. len \in Nat \ {0} /\ job.mult \in Nat \ {0} /\ job.maxSeq \in Nat \ {0} BY JobFacts
<1>2. PICK n \in Nat : n = len + job.mult - 1 BY <1>1
<1>3. /\ n \div job.mult \in Nat /\ n % job.mult \in 0 .. job.mult - 1
      /\ n = (n \div job.mult) * job.mult + (n % job.mult)
      BY <1>1, DivMod
<1> DEFINE d == n \div job.mult
           r == n % job.mult
           p == d * job.mult
<1>4. up = p BY <1>2 DEF Ceil
<1>5. d \in Nat /\ job.mult \in Nat BY <1>1, <1>3
<1> HIDE DEF d
<1>6. p \in Nat BY <1>5
<1>7. n = p + r /\ r \in 0 .. job.mult - 1 BY <1>3 DEF d
<1> HIDE DEF len, p, r
<1>8. up \in Nat /\ up >= len BY <1>1, <1>2, <1>4, <1>6, <1>7
<1> HIDE DEF up
<1>9. PaddedLength(i) = Min({job.maxSeq, up}) BY DEF PaddedLength, up, len
<1>10. \E m \in {job.maxSeq, up} : m <= job.maxSeq /\ m <= up BY <1>1, <1>8
<1>11. PaddedLength(i) \in {job.maxSeq, up}
  <2>1. \E m \in {job.maxSeq, up} : \A y \in {job.maxSeq, up} : m <= y BY <1>10
  <2> QED BY <1>9, <2>1 DEF Min
<1>12. CASE job.mult > 1 /\ ~IsPadded(i)
  <2>1. ~(len <= PaddedLength(i)) BY <1>12 DEF IsPadded, len
  <2> QED BY <1>1, <1>8, <1>11, <2>1 DEF len
<1> QED BY <1>1, <1>8, <1>11, <1>12

\* A sample's tokens begin with its own, in order, and may end in padding.
LEMMA TokensFacts ==
    ASSUME NEW i \in Samples, job \in Jobs
    PROVE  /\ Tokens(i) \in Seq(Nat \X Nat) /\ Len(Tokens(i)) \in Nat \ {0}
           /\ Tokens(i)[1] = <<i, 0>>
           /\ \A x \in 1 .. Len(Tokens(i)) : Tokens(i)[x] \in {<<i, x - 1>>, Pad}
<1> DEFINE len == job.samples[i].len
           raw == [x \in 1 .. len |-> <<i, x - 1>>]
           more == PaddedLength(i) - len + 1
           pads == [x \in 1 .. more |-> Pad]
<1>1. len \in Nat \ {0} /\ job.maxSeq \in Nat \ {0} /\ i \in Nat \ {0} BY JobFacts
<1>2. PaddedLength(i) \in Nat \ {0} /\ (job.mult > 1 /\ ~IsPadded(i) => job.maxSeq < len)
      BY PaddedLengthFacts
<1> HIDE DEF len
<1>3. raw \in Seq(Nat \X Nat) /\ Len(raw) = len
  <2>1. \A x \in 1 .. len : <<i, x - 1>> \in Nat \X Nat BY <1>1
  <2> QED BY <1>1, <2>1
<1>4. \A x \in 1 .. len : raw[x] = <<i, x - 1>> OBVIOUS
<1> HIDE DEF raw
<1>5. CASE IsPadded(i)
  <2>1. more \in Nat BY <1>1, <1>2, <1>5 DEF IsPadded, len
  <2> HIDE DEF more
  <2>2. pads \in Seq(Nat \X Nat) /\ Len(pads) = more /\ \A x \in 1 .. more : pads[x] = Pad
        BY <2>1 DEF Pad
  <2> HIDE DEF pads
  <2>3. Tokens(i) = raw \o pads BY <1>5 DEF Tokens, raw, pads, more, len
  <2>4. /\ raw \o pads \in Seq(Nat \X Nat) /\ Len(raw \o pads) = Len(raw) + Len(pads)
        /\ \A x \in 1 .. Len(raw) + Len(pads) :
             (raw \o pads)[x] = IF x <= Len(raw) THEN raw[x] ELSE pads[x - Len(raw)]
        BY <1>3, <2>2, ConcatProperties
  <2>5. /\ Tokens(i) \in Seq(Nat \X Nat) /\ Len(Tokens(i)) = len + more
        /\ \A x \in 1 .. len + more :
             Tokens(i)[x] = IF x <= len THEN raw[x] ELSE pads[x - len]
        BY <1>3, <2>2, <2>3, <2>4
  <2>6. ASSUME NEW x \in 1 .. len + more PROVE Tokens(i)[x] \in {<<i, x - 1>>, Pad}
    <3>1. CASE x <= len
      <4>1. x \in 1 .. len BY <1>1, <2>1, <3>1
      <4>2. Tokens(i)[x] = raw[x] BY <2>5, <3>1
      <4>3. raw[x] = <<i, x - 1>> BY <1>4, <4>1
      <4> QED BY <4>2, <4>3
    <3>2. CASE ~(x <= len)
      <4>1. x - len \in 1 .. more BY <1>1, <2>1, <3>2
      <4> QED BY <2>2, <2>5, <3>2, <4>1
    <3> QED BY <3>1, <3>2
  <2>7. Tokens(i)[1] = <<i, 0>>
    <3>1. 1 \in 1 .. len + more /\ 1 <= len /\ 1 \in 1 .. len /\ 1 - 1 = 0 BY <1>1, <2>1
    <3> QED BY <1>4, <2>5, <3>1
  <2> QED BY <1>1, <2>1, <2>5, <2>6, <2>7
<1>6. CASE ~IsPadded(i) /\ job.mult > 1
  <2>1. job.maxSeq < len BY <1>2, <1>6
  <2>2. Tokens(i) = SubSeq(raw, 1, job.maxSeq) BY <1>6 DEF Tokens, raw, len
  <2>3. /\ SubSeq(raw, 1, job.maxSeq) \in Seq(Nat \X Nat)
        /\ Len(SubSeq(raw, 1, job.maxSeq)) = job.maxSeq
        /\ \A x \in 1 .. job.maxSeq : SubSeq(raw, 1, job.maxSeq)[x] = raw[x]
        BY <1>1, <1>3, <2>1
  <2>4. \A x \in 1 .. job.maxSeq : x \in 1 .. len BY <1>1, <2>1
  <2>5. 1 \in 1 .. job.maxSeq /\ 1 - 1 = 0 BY <1>1
  <2> QED BY <1>1, <1>4, <2>2, <2>3, <2>4, <2>5
<1>7. CASE ~IsPadded(i) /\ ~(job.mult > 1)
  <2>1. Tokens(i) = raw BY <1>7 DEF Tokens, raw, len
  <2>2. 1 \in 1 .. len /\ 1 - 1 = 0 BY <1>1
  <2> QED BY <1>1, <1>3, <1>4, <2>1, <2>2
<1> QED BY <1>5, <1>6, <1>7


\* The mask of a sample whose tokens and mask were not cut apart is its answer's.
LEMMA MaskFacts ==
    ASSUME NEW i \in Samples, job \in Jobs
    PROVE  /\ Mask(i, Tokens(i)) \in Seq(BOOLEAN)
           /\ Len(Mask(i, Tokens(i))) = Len(Tokens(i)) =>
                \A x \in 1 .. Len(Tokens(i)) - 1 :
                    Mask(i, Tokens(i))[x] = (x >= job.samples[i].answer)
<1> DEFINE len == job.samples[i].len
           answer == job.samples[i].answer
           n == Len(Tokens(i))
           chat == [x \in 1 .. len |-> x < len /\ x >= answer]
           plain == [x \in 1 .. n |-> x - 1 >= answer - 1]
<1>1. len \in Nat \ {0} /\ answer \in Nat BY JobFacts
<1>2. n \in Nat \ {0} BY TokensFacts
<1>3. Mask(i, Tokens(i)) = IF job.chat THEN chat ELSE plain BY DEF Mask
<1> HIDE DEF len, answer, n
<1>4. chat \in Seq(BOOLEAN) /\ Len(chat) = len BY <1>1
<1>5. plain \in Seq(BOOLEAN) /\ Len(plain) = n BY <1>2
<1>6. CASE job.chat
  <2>1. \A x \in 1 .. len : chat[x] = (x < len /\ x >= answer) OBVIOUS
  <2> HIDE DEF chat
  <2>2. ASSUME len = n, NEW x \in 1 .. n - 1 PROVE chat[x] = (x >= answer)
    <3>1. x \in 1 .. len /\ x < len BY <1>2, <2>2
    <3> QED BY <2>1, <3>1
  <2> HIDE DEF plain
  <2> QED BY <1>3, <1>4, <1>6, <2>2 DEF n, answer
<1>7. CASE ~job.chat
  <2>1. \A x \in 1 .. n : plain[x] = (x - 1 >= answer - 1) OBVIOUS
  <2> HIDE DEF plain, chat
  <2>2. ASSUME NEW x \in 1 .. n - 1 PROVE plain[x] = (x >= answer)
    <3>1. x \in 1 .. n /\ x \in Int BY <1>2
    <3>2. (x - 1 >= answer - 1) = (x >= answer) BY <1>1, <3>1
    <3> QED BY <2>1, <3>1, <3>2
  <2> QED BY <1>3, <1>5, <1>7, <2>2 DEF n, answer
<1> QED BY <1>6, <1>7

-----------------------------------------------------------------------------
(* What is known of the samples and the bins in every state.               *)

Prepared == /\ ids = [i \in Samples |-> Tokens(i)]
            /\ masks = [i \in Samples |-> Mask(i, Tokens(i))]

PreparedFirst ==
    /\ job \in Jobs
    /\ ids # <<>> => Prepared
    /\ stage \in {"pack", "fill", "done"} => ids # <<>>

LEMMA PreparedMakes ==
    ASSUME job' = job, ids' = [i \in Samples |-> Tokens(i)],
           masks' = [i \in Samples |-> Mask(i, Tokens(i))]
    PROVE  Prepared'
<1>1. Samples' = Samples BY DEF Samples
<1>2. \A i : Tokens(i)' = Tokens(i) BY DEF Tokens, IsPadded, PaddedLength
<1>3. ASSUME NEW i PROVE (Mask(i, Tokens(i)))' = Mask(i, Tokens(i))
      BY <1>2 DEF Mask
<1>4. [i \in Samples |-> Tokens(i)]' = [i \in Samples |-> Tokens(i)] BY <1>1, <1>2
<1>5. [i \in Samples |-> Mask(i, Tokens(i))]' = [i \in Samples |-> Mask(i, Tokens(i))] BY <1>1, <1>3
<1> QED BY <1>4, <1>5 DEF Prepared

LEMMA PreparedStays ==
    ASSUME UNCHANGED <<job, ids, masks>>, PreparedFirst, ids # <<>>
    PROVE  Prepared'
BY PreparedMakes DEF PreparedFirst, Prepared

LEMMA AlwaysPreparedFirst == Spec => []PreparedFirst
<1>1. Init => PreparedFirst BY DEF Init, PreparedFirst
<1>2. PreparedFirst /\ [Next]_vars => PreparedFirst'
  <2> SUFFICES ASSUME PreparedFirst, [Next]_vars PROVE PreparedFirst' OBVIOUS
  <2>1. CASE Tokenize
    <3>1. job' = job /\ stage = "tokenize" /\ ids = <<>> /\ stage' \in {stage, "raised"}
          BY <2>1 DEF Tokenize
    <3>2. CASE stage' = "raised"
      <4>1. CASE ids' = <<>> BY <3>1, <3>2, <4>1 DEF PreparedFirst
      <4>2. CASE ids' # <<>>
        <5>1. Prepared'
          <6>1. ids' = [i \in Samples |-> Tokens(i)] /\ masks' = [i \in Samples |-> Mask(i, Tokens(i))]
                BY <2>1, <3>1, <4>2 DEF Tokenize
          <6> QED BY <3>1, <6>1, PreparedMakes
        <5> QED BY <3>1, <3>2, <5>1 DEF PreparedFirst
      <4> QED BY <4>1, <4>2
    <3>3. CASE stage' # "raised"
      <4>1. ids' = [i \in Samples |-> Tokens(i)] /\ masks' = [i \in Samples |-> Mask(i, Tokens(i))]
            BY <2>1, <3>3 DEF Tokenize
      <4>2. Prepared' BY <3>1, <4>1, PreparedMakes
      <4> QED BY <3>1, <3>3, <4>2 DEF PreparedFirst
    <3> QED BY <3>2, <3>3
  <2>2. CASE Order \/ Place \/ Handle \/ Fill \/ Save \/ UNCHANGED vars
    <3>1. UNCHANGED <<job, ids, masks>> BY <2>2 DEF Order, Place, Handle, Fill, Save, vars
    <3>2. stage' \in {"pack", "fill", "done"} => ids # <<>>
          BY <2>2 DEF Order, Place, Handle, Fill, Save, vars, PreparedFirst
    <3>3. ids # <<>> => Prepared' BY <3>1, PreparedStays
    <3> QED BY <3>1, <3>2, <3>3 DEF PreparedFirst
  <2> QED BY <2>1, <2>2 DEF Next
<1> QED BY <1>1, <1>2, PTL DEF Spec

\* The samples' lengths are those of their tokens.
LEMMA LengthFacts ==
    ASSUME PreparedFirst, ids # <<>>, NEW i \in Samples
    PROVE  /\ ids[i] = Tokens(i) /\ masks[i] = Mask(i, Tokens(i))
           /\ Length(i) \in Nat /\ Len(ids[i]) = Length(i) + 1
<1>1. ids[i] = Tokens(i) /\ masks[i] = Mask(i, Tokens(i)) BY DEF PreparedFirst, Prepared
<1>2. Len(Tokens(i)) \in Nat \ {0} BY TokensFacts DEF PreparedFirst
<1> QED BY <1>1, <1>2 DEF Length

-----------------------------------------------------------------------------
(* First fit.                                                              *)

BinsTyped ==
    /\ queue \in Seq(Nat) /\ bins \in Seq(Seq(Nat))
    /\ \A b \in DOMAIN bins : bins[b] # <<>>

\* A bin opened after another holds nothing the other could have taken.
FirstFit ==
    \A b, c \in DOMAIN bins : b < c =>
        \A x \in DOMAIN bins[c] : Sum(bins[b]) + bins[c][x] > job.pack

\* A bin is too full only by a length that fits no bin.
NoBinOverfull ==
    \A b \in DOMAIN bins :
        Sum(bins[b]) <= job.pack \/ \E x \in DOMAIN bins[b] : bins[b][x] > job.pack

BinsInv == BinsTyped /\ FirstFit /\ NoBinOverfull

\* The length s is placed in bin b, which is opened for it or is the first it fits.
Opens(s)     == Fitting(s) = {} /\ bins' = Append(bins, <<s>>)
Joins(b, s)  == /\ b \in DOMAIN bins /\ Sum(bins[b]) + s <= job.pack
                /\ \A c \in DOMAIN bins : c < b => Sum(bins[c]) + s > job.pack
                /\ bins' = [bins EXCEPT ![b] = Append(@, s)]

LEMMA PlaceCases ==
    ASSUME Place, BinsTyped, PreparedFirst
    PROVE  /\ Head(queue) \in Nat /\ queue' = Tail(queue) /\ queue' \in Seq(Nat)
           /\ Opens(Head(queue)) \/ \E b \in DOMAIN bins : Joins(b, Head(queue))
<1> DEFINE s == Head(queue)
<1>1. s \in Nat /\ queue' = Tail(queue) /\ queue' \in Seq(Nat) BY DEF Place, BinsTyped
<1>2. bins' = IF Fitting(s) = {} THEN Append(bins, <<s>>)
              ELSE [bins EXCEPT ![CHOOSE b \in Fitting(s) : \A c \in Fitting(s) : b <= c] = Append(@, s)]
      BY DEF Place
<1> HIDE DEF s
<1>3. Fitting(s) = {} => Opens(s) BY <1>2 DEF Opens
<1>4. ASSUME Fitting(s) # {} PROVE \E b \in DOMAIN bins : Joins(b, s)
  <2> DEFINE b == CHOOSE b \in Fitting(s) : \A c \in Fitting(s) : b <= c
  <2>1. Fitting(s) \subseteq Nat BY DEF Fitting, BinsTyped
  <2>2. b \in Fitting(s) /\ \A c \in Fitting(s) : b <= c BY <1>4, <2>1, LeastNumber
  <2>3. bins' = [bins EXCEPT ![b] = Append(@, s)] BY <1>2, <1>4
  <2> HIDE DEF b
  <2>4. b \in DOMAIN bins /\ Sum(bins[b]) + s <= job.pack BY <2>2 DEF Fitting
  <2>5. ASSUME NEW c \in DOMAIN bins, c < b PROVE Sum(bins[c]) + s > job.pack
    <3>1. c \notin Fitting(s) BY <2>1, <2>2, <2>5
    <3>2. ~(Sum(bins[c]) + s <= job.pack) BY <3>1 DEF Fitting
    <3>3. Sum(bins[c]) \in Nat
      <4>1. bins[c] \in Seq(Nat) BY DEF BinsTyped
      <4> QED BY <4>1, SumAtLeast
    <3>4. job.pack \in Nat BY JobAssumption DEF PreparedFirst
    <3> QED BY <1>1, <3>2, <3>3, <3>4
  <2> QED BY <2>3, <2>4, <2>5 DEF Joins
<1> QED BY <1>1, <1>3, <1>4 DEF s


LEMMA BinSums ==
    ASSUME BinsTyped, NEW b \in DOMAIN bins
    PROVE  /\ bins[b] \in Seq(Nat) /\ Sum(bins[b]) \in Nat /\ b \in Nat \ {0}
           /\ \A x \in DOMAIN bins[b] : bins[b][x] \in Nat /\ Sum(bins[b]) >= bins[b][x]
<1>1. bins[b] \in Seq(Nat) /\ b \in Nat \ {0} BY DEF BinsTyped
<1> DEFINE s == bins[b]
<1> HIDE DEF s
<1>2. s \in Seq(Nat) BY <1>1 DEF s
<1>3. \A x \in DOMAIN s : s[x] \in Nat BY <1>2
<1> QED BY <1>1, <1>2, <1>3, SumAtLeast DEF s

LEMMA OpenBin ==
    ASSUME NEW s \in Nat, BinsInv, PreparedFirst, Opens(s), job' = job, queue' \in Seq(Nat)
    PROVE  BinsInv'
<1> DEFINE n == Len(bins)
           new == <<s>>
<1>1. n \in Nat /\ DOMAIN bins = 1 .. n /\ bins \in Seq(Seq(Nat)) BY DEF BinsInv, BinsTyped
<1>2. new \in Seq(Nat) /\ new # <<>> /\ DOMAIN new = {1} /\ new[1] = s OBVIOUS
<1>3. Sum(new) = s BY SumOfOne
<1>4. bins' = Append(bins, new) /\ Fitting(s) = {} BY DEF Opens
<1> HIDE DEF new
<1>5. /\ bins' \in Seq(Seq(Nat)) /\ DOMAIN bins' = 1 .. n + 1 /\ bins'[n + 1] = new
      /\ \A b \in 1 .. n : bins'[b] = bins[b]
      BY <1>1, <1>2, <1>4
<1> HIDE DEF n
<1>6. job.pack \in Nat BY JobAssumption DEF PreparedFirst
<1>7. \A b \in 1 .. n : Sum(bins[b]) \in Nat /\ Sum(bins[b]) + s > job.pack
  <2> SUFFICES ASSUME NEW b \in 1 .. n PROVE Sum(bins[b]) \in Nat /\ Sum(bins[b]) + s > job.pack OBVIOUS
  <2>1. b \in DOMAIN bins BY <1>1
  <2>2. Sum(bins[b]) \in Nat BY <2>1, BinSums DEF BinsInv
  <2>3. ~(Sum(bins[b]) + s <= job.pack) BY <1>4, <2>1 DEF Fitting
  <2> QED BY <1>6, <2>2, <2>3
<1>8. BinsTyped'
  <2>1. \A b \in DOMAIN bins' : bins'[b] # <<>>
    <3>1. \A b \in 1 .. n : bins[b] # <<>> BY <1>1 DEF BinsInv, BinsTyped
    <3>2. \A b \in 1 .. n + 1 : b \in 1 .. n \/ b = n + 1 BY <1>1
    <3> QED BY <1>2, <1>5, <3>1, <3>2
  <2> QED BY <1>5, <2>1 DEF BinsTyped
<1>9. FirstFit'
  <2> SUFFICES ASSUME NEW b \in 1 .. n + 1, NEW c \in 1 .. n + 1, b < c, NEW x \in DOMAIN bins'[c]
               PROVE  Sum(bins'[b]) + bins'[c][x] > job.pack
      BY <1>5 DEF FirstFit
  <2>0. b \in 1 .. n BY <1>1
  <2>1. b \in 1 .. n /\ bins'[b] = bins[b] BY <1>5, <2>0
  <2>2. CASE c = n + 1 BY <1>2, <1>5, <1>7, <2>1, <2>2
  <2>3. CASE c # n + 1
    <3>1. c \in 1 .. n /\ bins'[c] = bins[c] BY <1>1, <1>5, <2>3
    <3> QED BY <1>1, <2>1, <3>1 DEF BinsInv, FirstFit
  <2> QED BY <2>2, <2>3
<1>10. NoBinOverfull'
  <2> SUFFICES ASSUME NEW b \in 1 .. n + 1
               PROVE  Sum(bins'[b]) <= job.pack \/ \E x \in DOMAIN bins'[b] : bins'[b][x] > job.pack
      BY <1>5 DEF NoBinOverfull
  <2>1. CASE b = n + 1
    <3>1. bins'[b] = new /\ 1 \in DOMAIN new BY <1>2, <1>5, <2>1
    <3>2. Sum(new) <= job.pack \/ new[1] > job.pack BY <1>2, <1>3, <1>6
    <3> QED BY <3>1, <3>2
  <2>2. CASE b # n + 1
    <3>0. b \in 1 .. n BY <1>1, <2>2
    <3>1. b \in 1 .. n /\ bins'[b] = bins[b] BY <1>5, <3>0
    <3> QED BY <1>1, <3>1 DEF BinsInv, NoBinOverfull
  <2> QED BY <2>1, <2>2
<1> QED BY <1>8, <1>9, <1>10 DEF BinsInv

LEMMA JoinBin ==
    ASSUME NEW s \in Nat, BinsInv, PreparedFirst, NEW d \in DOMAIN bins, Joins(d, s),
           job' = job, queue' \in Seq(Nat)
    PROVE  BinsInv'
<1> DEFINE n == Len(bins)
           old == bins[d]
           new == Append(bins[d], s)
           m == Len(bins[d])
<1>1. n \in Nat /\ DOMAIN bins = 1 .. n /\ bins \in Seq(Seq(Nat)) BY DEF BinsInv, BinsTyped
<1>2. old \in Seq(Nat) /\ Sum(old) \in Nat BY BinSums DEF BinsInv
<1>3. bins' = [bins EXCEPT ![d] = new] BY DEF Joins
<1>4. /\ new \in Seq(Nat) /\ new # <<>> /\ m \in Nat /\ DOMAIN old = 1 .. m /\ DOMAIN new = 1 .. m + 1
      /\ new[m + 1] = s /\ \A x \in 1 .. m : new[x] = old[x]
  <2> HIDE <1>3
  <2> HIDE DEF old
  <2>1. new = Append(old, s) /\ m = Len(old) BY DEF old
  <2> HIDE DEF new, m
  <2> QED BY <1>2, <2>1
<1>5. Sum(new) = Sum(old) + s BY <1>2, SumAppend
<1> HIDE DEF new, old, m
<1>6. /\ bins' \in Seq(Seq(Nat)) /\ DOMAIN bins' = 1 .. n /\ bins'[d] = new
      /\ \A b \in 1 .. n : b # d => bins'[b] = bins[b]
      BY <1>1, <1>3, <1>4
<1> HIDE DEF n
<1>7. job.pack \in Nat BY JobAssumption DEF PreparedFirst
<1>8. /\ Sum(old) + s <= job.pack /\ bins[d] = old
      /\ \A c \in DOMAIN bins : c < d => Sum(bins[c]) + s > job.pack
      BY DEF Joins, old
<1>9. BinsTyped'
  <2>1. \A b \in DOMAIN bins' : bins'[b] # <<>>
        BY <1>1, <1>4, <1>6 DEF BinsInv, BinsTyped
  <2> QED BY <1>6, <2>1 DEF BinsTyped
<1>10. FirstFit'
  <2> SUFFICES ASSUME NEW b \in 1 .. n, NEW c \in 1 .. n, b < c, NEW x \in DOMAIN bins'[c]
               PROVE  Sum(bins'[b]) + bins'[c][x] > job.pack
      BY <1>6 DEF FirstFit
  <2>1. \A y \in DOMAIN bins[c] : Sum(bins[b]) + bins[c][y] > job.pack /\ bins[c][y] \in Nat
    <3>1. \A y \in DOMAIN bins[c] : Sum(bins[b]) + bins[c][y] > job.pack
          BY <1>1 DEF BinsInv, FirstFit
    <3> QED BY <1>1, <3>1, BinSums DEF BinsInv
  <2>2. Sum(bins[b]) \in Nat BY <1>1, BinSums DEF BinsInv
  <2>3. CASE b = d
    <3>1. c # d /\ bins'[c] = bins[c] /\ bins'[b] = new BY <1>6, <2>3
    <3>2. Sum(bins'[b]) = Sum(bins[b]) + s BY <1>5, <1>8, <2>3, <3>1
    <3>3. Sum(bins[b]) + bins[c][x] > job.pack /\ bins[c][x] \in Nat BY <2>1, <3>1
    <3> QED BY <1>7, <2>2, <3>1, <3>2, <3>3
  <2>4. CASE c = d
    <3>1. bins'[b] = bins[b] /\ bins'[c] = new BY <1>6, <2>4
    <3>2. CASE x = m + 1
      <4>1. b \in DOMAIN bins /\ b < d BY <1>1, <2>4
      <4> QED BY <1>4, <1>8, <3>1, <3>2, <4>1
    <3>3. CASE x # m + 1
      <4>1. x \in 1 .. m BY <1>4, <3>1, <3>3
      <4>2. x \in DOMAIN bins[c] /\ bins'[c][x] = bins[c][x] BY <1>4, <1>8, <2>4, <3>1, <4>1
      <4> QED BY <2>1, <3>1, <4>2
    <3> QED BY <3>2, <3>3
  <2>5. CASE b # d /\ c # d
    <3>1. bins'[b] = bins[b] /\ bins'[c] = bins[c] BY <1>6, <2>5
    <3> QED BY <2>1, <3>1
  <2> QED BY <2>3, <2>4, <2>5
<1>11. NoBinOverfull'
  <2> SUFFICES ASSUME NEW b \in 1 .. n
               PROVE  Sum(bins'[b]) <= job.pack \/ \E x \in DOMAIN bins'[b] : bins'[b][x] > job.pack
      BY <1>6 DEF NoBinOverfull
  <2>1. CASE b = d BY <1>5, <1>6, <1>8, <2>1
  <2>2. CASE b # d BY <1>1, <1>6, <2>2 DEF BinsInv, NoBinOverfull
  <2> QED BY <2>1, <2>2
<1> QED BY <1>9, <1>10, <1>11 DEF BinsInv

LEMMA BinsStep == ASSUME BinsInv, PreparedFirst, [Next]_vars PROVE BinsInv'
<1>1. CASE Place
  <2>1. job' = job BY <1>1 DEF Place
  <2>2. PICK s \in Nat : queue' \in Seq(Nat) /\ (Opens(s) \/ \E b \in DOMAIN bins : Joins(b, s))
        BY <1>1, PlaceCases DEF BinsInv
  <2> QED BY <2>1, <2>2, OpenBin, JoinBin
<1>2. CASE Order
  <2>1. UNCHANGED <<job, bins>> /\ ids # <<>> BY <1>2 DEF Order
  <2>2. queue' \in Seq(Nat)
    <3>1. CASE queue' = queue BY <3>1 DEF BinsInv, BinsTyped
    <3>2. CASE queue' # queue
      <4>1. queue' \in Orders BY <1>2, <3>2 DEF Order
      <4>2. PICK f \in Permuted : queue' = [x \in DOMAIN f |-> Length(f[x])] BY <4>1 DEF Orders
      <4>3. f \in [1 .. Len(ids) -> Samples] BY DEF Permuted
      <4>4. Len(ids) \in Nat
        <5>1. ids = [i \in Samples |-> Tokens(i)] BY <2>1 DEF PreparedFirst, Prepared
        <5>2. Samples = 1 .. Len(job.samples) /\ Len(job.samples) \in Nat
              BY JobAssumption DEF Samples, PreparedFirst
        <5> QED BY <5>1, <5>2
      <4>5. \A x \in 1 .. Len(ids) : Length(f[x]) \in Nat BY <2>1, <4>3, LengthFacts
      <4> QED BY <4>2, <4>3, <4>4, <4>5
    <3> QED BY <3>1, <3>2
  <2> QED BY <2>1, <2>2 DEF BinsInv, BinsTyped, FirstFit, NoBinOverfull
<1>3. CASE Tokenize \/ Handle \/ Fill \/ Save \/ UNCHANGED vars
  <2>1. UNCHANGED <<job, queue, bins>> BY <1>3 DEF Tokenize, Handle, Fill, Save, vars
  <2> QED BY <2>1 DEF BinsInv, BinsTyped, FirstFit, NoBinOverfull
<1> QED BY <1>1, <1>2, <1>3 DEF Next

LEMMA AlwaysBinsInv == Spec => [](PreparedFirst /\ BinsInv)
<1>1. Init => BinsInv
  <2> SUFFICES ASSUME Init PROVE BinsInv OBVIOUS
  <2>1. queue = <<>> /\ bins = <<>> BY DEF Init
  <2>2. <<>> \in Seq(Nat) /\ <<>> \in Seq(Seq(Nat)) /\ DOMAIN <<>> = {} OBVIOUS
  <2> QED BY <2>1, <2>2 DEF BinsInv, BinsTyped, FirstFit, NoBinOverfull
<1>2. PreparedFirst /\ BinsInv /\ [Next]_vars => BinsInv' BY BinsStep
<1> QED BY <1>1, <1>2, AlwaysPreparedFirst, PTL DEF Spec

(***************************************************************************)
(* Whatever the lengths and the order they come in, no two bins that       *)
(* first-fit leaves could have been one.                                   *)
(***************************************************************************)
THEOREM NoTwoBinsEverMerge == Spec => []NoTwoBinsMerge
<1>1. PreparedFirst /\ BinsInv => NoTwoBinsMerge
  <2> SUFFICES ASSUME PreparedFirst, BinsInv PROVE NoTwoBinsMerge OBVIOUS
  <2> SUFFICES ASSUME NEW b \in DOMAIN bins, NEW c \in DOMAIN bins, b < c
               PROVE  Sum(bins[b]) + Sum(bins[c]) > job.pack
    <3>1. \A b \in DOMAIN bins : b \in Nat /\ Sum(bins[b]) \in Nat BY BinSums DEF BinsInv
    <3> QED BY <3>1 DEF NoTwoBinsMerge
  <2>1. Sum(bins[b]) \in Nat /\ Sum(bins[c]) \in Nat BY BinSums DEF BinsInv
  <2>2. 1 \in DOMAIN bins[c] BY BinSums DEF BinsInv, BinsTyped
  <2>3. Sum(bins[c]) >= bins[c][1] /\ bins[c][1] \in Nat BY <2>2, BinSums DEF BinsInv
  <2>4. Sum(bins[b]) + bins[c][1] > job.pack BY <2>2 DEF BinsInv, FirstFit
  <2>5. job.pack \in Nat BY JobAssumption DEF PreparedFirst
  <2> QED BY <2>1, <2>3, <2>4, <2>5
<1> QED BY <1>1, AlwaysBinsInv, PTL


-----------------------------------------------------------------------------
(* Every length is placed once.                                            *)

\* The placement of the samples: bin B[i] and place X[i] in it, or bin 0 and the
\* place in the queue counted from its end.
Placement(B, X) ==
    /\ \A i \in Samples :
         \/ /\ B[i] = 0 /\ X[i] \in 1 .. Len(queue)
            /\ queue[Len(queue) + 1 - X[i]] = Length(i)
         \/ /\ B[i] \in DOMAIN bins /\ X[i] \in DOMAIN bins[B[i]]
            /\ bins[B[i]][X[i]] = Length(i)
    /\ \A k \in 1 .. Len(queue) : \E i \in Samples : B[i] = 0 /\ X[i] = k
    /\ \A b \in DOMAIN bins : \A x \in DOMAIN bins[b] : \E i \in Samples : B[i] = b /\ X[i] = x

AllPlaced ==
    /\ stage = "tokenize" => bins = <<>> /\ queue = <<>>
    /\ stage \in {"tokenize", "pack"} => packed = <<>>
    /\ stage \in {"fill", "done"} => queue = <<>>
    /\ stage \in {"pack", "fill", "done"} => \E B, X : Placement(B, X)

\* Whatever bin it joins, a length gets a place of its own.
NewPlace(b, x, s) ==
    /\ b \in Nat \ {0} /\ b \in DOMAIN bins' /\ x \in DOMAIN bins'[b] /\ bins'[b][x] = s
    /\ ~(b \in DOMAIN bins /\ x \in DOMAIN bins[b])
    /\ \A c \in DOMAIN bins : \A y \in DOMAIN bins[c] :
         c \in DOMAIN bins' /\ y \in DOMAIN bins'[c] /\ bins'[c][y] = bins[c][y]
    /\ \A c \in DOMAIN bins' : \A y \in DOMAIN bins'[c] :
         (c = b /\ y = x) \/ (c \in DOMAIN bins /\ y \in DOMAIN bins[c])

LEMMA PlaceIsNew ==
    ASSUME NEW s \in Nat, BinsTyped, Opens(s) \/ \E b \in DOMAIN bins : Joins(b, s)
    PROVE  \E b : \E x : NewPlace(b, x, s)
<1> DEFINE n == Len(bins)
<1>1. n \in Nat /\ DOMAIN bins = 1 .. n /\ bins \in Seq(Seq(Nat)) BY DEF BinsTyped
<1>2. CASE Opens(s)
  <2> DEFINE new == <<s>>
  <2>1. new \in Seq(Nat) /\ DOMAIN new = {1} /\ new[1] = s OBVIOUS
  <2>2. bins' = Append(bins, new) BY <1>2 DEF Opens
  <2> HIDE DEF new
  <2>3. /\ bins' \in Seq(Seq(Nat)) /\ DOMAIN bins' = 1 .. n + 1 /\ bins'[n + 1] = new
        /\ \A b \in 1 .. n : bins'[b] = bins[b]
        BY <1>1, <2>1, <2>2
  <2> HIDE DEF n
  <2>4. n + 1 \in Nat \ {0} /\ n + 1 \in 1 .. n + 1 /\ n + 1 \notin 1 .. n BY <1>1
  <2>5. \A c \in 1 .. n + 1 : c = n + 1 \/ c \in 1 .. n BY <1>1
  <2>6. 1 .. n \subseteq 1 .. n + 1 BY <1>1
  <2>7. NewPlace(n + 1, 1, s) BY <1>1, <2>1, <2>3, <2>4, <2>5, <2>6 DEF NewPlace
  <2> QED BY <2>7
<1>3. ASSUME NEW d \in DOMAIN bins, Joins(d, s) PROVE \E b : \E x : NewPlace(b, x, s)
  <2> DEFINE old == bins[d]
             new == Append(bins[d], s)
             m == Len(bins[d])
  <2>1. old \in Seq(Nat) BY BinSums
  <2>2. bins' = [bins EXCEPT ![d] = new] BY <1>3 DEF Joins
  <2>3. /\ new \in Seq(Nat) /\ m \in Nat /\ DOMAIN old = 1 .. m /\ DOMAIN new = 1 .. m + 1
        /\ new[m + 1] = s /\ \A x \in 1 .. m : new[x] = old[x]
    <3> HIDE <2>2
    <3> HIDE DEF old
    <3>1. new = Append(old, s) /\ m = Len(old) BY DEF old
    <3> HIDE DEF new, m
    <3> QED BY <2>1, <3>1
  <2> HIDE DEF new, old, m
  <2>4. /\ DOMAIN bins' = 1 .. n /\ bins'[d] = new
        /\ \A b \in 1 .. n : b # d => bins'[b] = bins[b]
        BY <1>1, <2>2, <2>3
  <2>5. bins[d] = old /\ d \in Nat \ {0} /\ d \in 1 .. n BY <1>1 DEF old
  <2>6. m + 1 \in 1 .. m + 1 /\ m + 1 \notin 1 .. m /\ 1 .. m \subseteq 1 .. m + 1 BY <2>3
  <2>7. \A y \in 1 .. m + 1 : y = m + 1 \/ y \in 1 .. m BY <2>3
  <2> HIDE DEF n
  <2>8. \A c \in DOMAIN bins : \A y \in DOMAIN bins[c] :
          c \in DOMAIN bins' /\ y \in DOMAIN bins'[c] /\ bins'[c][y] = bins[c][y]
        BY <1>1, <2>3, <2>4, <2>5, <2>6
  <2>9. \A c \in DOMAIN bins' : \A y \in DOMAIN bins'[c] :
          (c = d /\ y = m + 1) \/ (c \in DOMAIN bins /\ y \in DOMAIN bins[c])
        BY <1>1, <2>3, <2>4, <2>5, <2>7
  <2>10. NewPlace(d, m + 1, s) BY <1>1, <2>3, <2>4, <2>5, <2>6, <2>8, <2>9 DEF NewPlace
  <2> QED BY <2>10
<1> QED BY <1>2, <1>3

LEMMA PlacementStep ==
    ASSUME NEW B, NEW X, Placement(B, X), BinsTyped, queue # <<>>, UNCHANGED <<job, ids>>,
           queue' = Tail(queue), NEW b0, NEW x0, NewPlace(b0, x0, Head(queue))
    PROVE  \E C, Y : Placement(C, Y)'
<1> DEFINE n == Len(queue)
           Moves(i) == B[i] = 0 /\ X[i] = n
<1>1. n \in Nat /\ n >= 1 /\ DOMAIN queue = 1 .. n /\ Head(queue) = queue[1] BY DEF BinsTyped
<1>2. Len(queue') = n - 1 /\ \A x \in 1 .. n - 1 : queue'[x] = queue[x + 1] BY DEF BinsTyped
<1>3. Samples' = Samples /\ \A i : Length(i)' = Length(i) BY DEF Samples, Length
<1>4. PICK C : \A i \in Samples : C[i] = IF Moves(i) THEN b0 ELSE B[i]
  <2> DEFINE F == [i \in Samples |-> IF Moves(i) THEN b0 ELSE B[i]]
  <2>1. \A i \in Samples : F[i] = IF Moves(i) THEN b0 ELSE B[i] OBVIOUS
  <2> QED BY <2>1
<1>5. PICK Y : \A i \in Samples : Y[i] = IF Moves(i) THEN x0 ELSE X[i]
  <2> DEFINE F == [i \in Samples |-> IF Moves(i) THEN x0 ELSE X[i]]
  <2>1. \A i \in Samples : F[i] = IF Moves(i) THEN x0 ELSE X[i] OBVIOUS
  <2> QED BY <2>1
<1>6. PICK s : s = Head(queue) OBVIOUS
<1> HIDE DEF n
<1>7. /\ b0 \in Nat \ {0} /\ b0 \in DOMAIN bins' /\ x0 \in DOMAIN bins'[b0] /\ bins'[b0][x0] = s
      /\ \A c \in DOMAIN bins : \A y \in DOMAIN bins[c] :
           c \in DOMAIN bins' /\ y \in DOMAIN bins'[c] /\ bins'[c][y] = bins[c][y]
      /\ \A c \in DOMAIN bins' : \A y \in DOMAIN bins'[c] :
           (c = b0 /\ y = x0) \/ (c \in DOMAIN bins /\ y \in DOMAIN bins[c])
      BY <1>6 DEF NewPlace
<1>8. 0 \notin DOMAIN bins BY DEF BinsTyped
<1>9. ASSUME NEW i \in Samples
      PROVE  \/ /\ C[i] = 0 /\ Y[i] \in 1 .. n - 1
                /\ queue'[(n - 1) + 1 - Y[i]] = Length(i)
             \/ /\ C[i] \in DOMAIN bins' /\ Y[i] \in DOMAIN bins'[C[i]]
                /\ bins'[C[i]][Y[i]] = Length(i)
  <2>1. \/ /\ B[i] = 0 /\ X[i] \in 1 .. n
           /\ queue[n + 1 - X[i]] = Length(i)
        \/ /\ B[i] \in DOMAIN bins /\ X[i] \in DOMAIN bins[B[i]]
           /\ bins[B[i]][X[i]] = Length(i)
        BY DEF Placement, n
  <2>2. CASE Moves(i)
    <3>1. C[i] = b0 /\ Y[i] = x0 BY <1>4, <1>5, <2>2
    <3>2. queue[n + 1 - X[i]] = Length(i) BY <1>8, <2>1, <2>2
    <3>3. n + 1 - X[i] = 1 BY <1>1, <2>2
    <3>4. Length(i) = s BY <1>1, <1>6, <3>2, <3>3
    <3> QED BY <1>7, <3>1, <3>4
  <2>3. CASE ~Moves(i)
    <3>1. C[i] = B[i] /\ Y[i] = X[i] BY <1>4, <1>5, <2>3
    <3>2. CASE B[i] = 0
      <4>1. X[i] \in 1 .. n /\ X[i] # n /\ queue[n + 1 - X[i]] = Length(i) BY <1>8, <2>1, <2>3, <3>2
      <4> DEFINE k == n - X[i]
      <4>2. k \in 1 .. n - 1 /\ k + 1 = n + 1 - X[i] /\ (n - 1) + 1 - X[i] = k /\ X[i] \in 1 .. n - 1
            BY <1>1, <4>1
      <4> HIDE DEF k
      <4>3. queue'[k] = queue[k + 1] BY <1>2, <4>2
      <4> QED BY <3>1, <3>2, <4>1, <4>2, <4>3
    <3>3. CASE B[i] # 0
      <4>1. B[i] \in DOMAIN bins /\ X[i] \in DOMAIN bins[B[i]] /\ bins[B[i]][X[i]] = Length(i)
            BY <2>1, <3>3
      <4> QED BY <1>7, <3>1, <4>1
    <3> QED BY <3>2, <3>3
  <2> QED BY <2>2, <2>3
<1>10. ASSUME NEW k \in 1 .. n - 1 PROVE \E i \in Samples : C[i] = 0 /\ Y[i] = k
  <2>1. k \in 1 .. n /\ k # n BY <1>1
  <2>2. PICK i \in Samples : B[i] = 0 /\ X[i] = k BY <2>1 DEF Placement, n
  <2>3. ~Moves(i) BY <2>1, <2>2
  <2> QED BY <1>4, <1>5, <2>2, <2>3
<1>11. ASSUME NEW c \in DOMAIN bins', NEW y \in DOMAIN bins'[c]
       PROVE  \E i \in Samples : C[i] = c /\ Y[i] = y
  <2>1. CASE c = b0 /\ y = x0
    <3>1. n \in 1 .. n BY <1>1
    <3>2. PICK i \in Samples : B[i] = 0 /\ X[i] = n BY <3>1 DEF Placement, n
    <3> QED BY <1>4, <1>5, <2>1, <3>2
  <2>2. CASE c \in DOMAIN bins /\ y \in DOMAIN bins[c]
    <3>1. PICK i \in Samples : B[i] = c /\ X[i] = y BY <2>2 DEF Placement
    <3>2. ~Moves(i) BY <1>8, <2>2, <3>1
    <3> QED BY <1>4, <1>5, <3>1, <3>2
  <2> QED BY <1>7, <2>1, <2>2
<1>12. Placement(C, Y)'
  <2>1. \A i \in Samples :
         \/ /\ C[i] = 0 /\ Y[i] \in 1 .. Len(queue')
            /\ queue'[Len(queue') + 1 - Y[i]] = Length(i)'
         \/ /\ C[i] \in DOMAIN bins' /\ Y[i] \in DOMAIN bins'[C[i]]
            /\ bins'[C[i]][Y[i]] = Length(i)'
        BY <1>2, <1>3, <1>9
  <2>2. \A k \in 1 .. Len(queue') : \E i \in Samples : C[i] = 0 /\ Y[i] = k BY <1>2, <1>10
  <2>3. \A c \in DOMAIN bins' : \A y \in DOMAIN bins'[c] : \E i \in Samples : C[i] = c /\ Y[i] = y
        BY <1>11
  <2> QED BY <1>3, <2>1, <2>2, <2>3 DEF Placement
<1> QED BY <1>12


LEMMA SampleCount ==
    ASSUME PreparedFirst, ids # <<>>
    PROVE  Len(ids) \in Nat /\ Samples = 1 .. Len(ids)
<1>1. ids = [i \in Samples |-> Tokens(i)] BY DEF PreparedFirst, Prepared
<1>2. PICK n \in Nat : Samples = 1 .. n BY JobAssumption DEF PreparedFirst, Samples
<1>3. DOMAIN ids = 1 .. n BY <1>1, <1>2
<1>4. Len(ids) = n BY <1>1, <1>2
<1> QED BY <1>2, <1>4

LEMMA OrderPlaces ==
    ASSUME PreparedFirst, ids # <<>>, UNCHANGED <<job, ids>>, bins' = <<>>, queue' \in Orders
    PROVE  \E C, Y : Placement(C, Y)'
<1>1. PICK f \in Permuted : queue' = [x \in DOMAIN f |-> Length(f[x])] BY DEF Orders
<1>2. PICK n \in Nat : n = Len(ids) /\ Samples = 1 .. n BY SampleCount
<1>3. f \in [1 .. n -> 1 .. n] /\ IsInjective(f) BY <1>2 DEF Permuted
<1>4. f \in Surjection(1 .. n, 1 .. n)
  <2>1. IsFiniteSet(1 .. n) BY <1>2, FS_Interval
  <2>2. f \in Injection(1 .. n, 1 .. n) BY <1>3 DEF Injection
  <2> QED BY <2>1, <2>2, FS_Injection
<1>5. \A i \in 1 .. n : \E x \in 1 .. n : f[x] = i BY <1>4 DEF Surjection
<1> DEFINE at(i) == CHOOSE x \in 1 .. n : f[x] = i
<1>6. \A i \in 1 .. n : at(i) \in 1 .. n /\ f[at(i)] = i BY <1>5
<1>7. \A x \in 1 .. n : f[x] \in 1 .. n /\ at(f[x]) = x
  <2> SUFFICES ASSUME NEW x \in 1 .. n PROVE f[x] \in 1 .. n /\ at(f[x]) = x OBVIOUS
  <2>1. f[x] \in 1 .. n BY <1>3
  <2>2. at(f[x]) \in 1 .. n /\ f[at(f[x])] = f[x]
    <3> HIDE DEF at
    <3> QED BY <1>6, <2>1
  <2> HIDE DEF at
  <2> QED BY <1>3, <2>1, <2>2 DEF IsInjective
<1> HIDE DEF at
<1>8. PICK Y : \A i \in 1 .. n : Y[i] = n + 1 - at(i)
  <2> DEFINE F == [i \in 1 .. n |-> n + 1 - at(i)]
  <2>1. \A i \in 1 .. n : F[i] = n + 1 - at(i) OBVIOUS
  <2> QED BY <2>1
<1>9. PICK C : \A i \in 1 .. n : C[i] = 0
  <2> DEFINE F == [i \in 1 .. n |-> 0]
  <2>1. \A i \in 1 .. n : F[i] = 0 OBVIOUS
  <2> QED BY <2>1
<1>10. Len(queue') = n /\ \A x \in 1 .. n : queue'[x] = Length(f[x]) BY <1>1, <1>2, <1>3
<1>11. ASSUME NEW i \in 1 .. n
       PROVE  C[i] = 0 /\ Y[i] \in 1 .. n /\ queue'[n + 1 - Y[i]] = Length(i)
  <2>1. at(i) \in 1 .. n /\ f[at(i)] = i BY <1>6
  <2>2. Y[i] \in 1 .. n /\ n + 1 - Y[i] = at(i) BY <1>2, <1>8, <2>1
  <2>3. queue'[at(i)] = Length(i) BY <1>10, <2>1
  <2> QED BY <1>9, <2>2, <2>3
<1>12. ASSUME NEW k \in 1 .. n PROVE \E i \in 1 .. n : C[i] = 0 /\ Y[i] = k
  <2>1. n + 1 - k \in 1 .. n /\ n + 1 - (n + 1 - k) = k BY <1>2
  <2> DEFINE x == n + 1 - k
  <2>2. f[x] \in 1 .. n /\ at(f[x]) = x BY <1>7, <2>1
  <2>3. Y[f[x]] = k BY <1>8, <2>1, <2>2
  <2> QED BY <1>9, <2>2, <2>3
<1>13. Placement(C, Y)'
  <2>1. Samples' = 1 .. n /\ \A i : Length(i)' = Length(i) BY <1>2 DEF Samples, Length
  <2>2. \A i \in Samples' :
         \/ /\ C[i] = 0 /\ Y[i] \in 1 .. Len(queue')
            /\ queue'[Len(queue') + 1 - Y[i]] = Length(i)'
         \/ /\ C[i] \in DOMAIN bins' /\ Y[i] \in DOMAIN bins'[C[i]]
            /\ bins'[C[i]][Y[i]] = Length(i)'
        BY <1>10, <1>11, <2>1
  <2>3. \A k \in 1 .. Len(queue') : \E i \in Samples' : C[i] = 0 /\ Y[i] = k BY <1>10, <1>12, <2>1
  <2>4. DOMAIN bins' = {} OBVIOUS
  <2> QED BY <2>2, <2>3, <2>4 DEF Placement
<1> QED BY <1>13

LEMMA PlacementStays ==
    ASSUME NEW B, NEW X, Placement(B, X), UNCHANGED <<job, ids, bins, queue>>
    PROVE  Placement(B, X)'
BY DEF Placement, Samples, Length

LEMMA AllPlacedStep == ASSUME AllPlaced, PreparedFirst, BinsInv, [Next]_vars PROVE AllPlaced'
<1>1. CASE Tokenize
  <2>1. stage = "tokenize" /\ stage' \in {"tokenize", "raised"} /\ UNCHANGED <<queue, bins, packed>>
        BY <1>1 DEF Tokenize
  <2> QED BY <2>1 DEF AllPlaced
<1>2. CASE Order
  <2>1. /\ stage = "tokenize" /\ UNCHANGED <<job, ids, bins, packed>> /\ ids # <<>>
        /\ stage' = "raised" \/ (stage' = "pack" /\ queue' \in Orders)
        BY <1>2 DEF Order
  <2>2. bins' = <<>> /\ packed' = <<>> BY <2>1 DEF AllPlaced
  <2>3. CASE stage' = "raised" BY <2>2, <2>3 DEF AllPlaced
  <2>4. CASE stage' = "pack" /\ queue' \in Orders
    <3>1. PICK C, Y : Placement(C, Y)' BY <2>1, <2>2, <2>4, OrderPlaces
    <3> QED BY <2>2, <2>4, <3>1 DEF AllPlaced
  <2> QED BY <2>1, <2>3, <2>4
<1>3. CASE Place
  <2>1. stage = "pack" /\ queue # <<>> /\ UNCHANGED <<job, ids, stage, packed>> BY <1>3 DEF Place
  <2>2. /\ Head(queue) \in Nat /\ queue' = Tail(queue)
        /\ Opens(Head(queue)) \/ \E b \in DOMAIN bins : Joins(b, Head(queue))
        BY <1>3, PlaceCases DEF BinsInv
  <2>3. PICK B, X : Placement(B, X) BY <2>1 DEF AllPlaced
  <2>4. PICK b, x : NewPlace(b, x, Head(queue)) BY <2>2, PlaceIsNew DEF BinsInv
  <2>5. PICK C, Y : Placement(C, Y)' BY <2>1, <2>2, <2>3, <2>4, PlacementStep DEF BinsInv
  <2> QED BY <2>1, <2>5 DEF AllPlaced
<1>4. CASE Handle \/ Fill \/ Save \/ UNCHANGED vars
  <2>1. UNCHANGED <<job, ids, bins, queue>> BY <1>4 DEF Handle, Fill, Save, vars
  <2>2. /\ stage' \in {stage, "raised"} \/ (stage = "pack" /\ queue = <<>> /\ stage' = "fill")
           \/ (stage = "fill" /\ stage' = "done")
        /\ stage' \in {"tokenize", "pack"} => packed' = packed
        BY <1>4 DEF Handle, Fill, Save, vars
  <2>3. stage' \in {"pack", "fill", "done"} => stage \in {"pack", "fill", "done"}
        BY <2>2
  <2>4. ASSUME stage' \in {"pack", "fill", "done"} PROVE (\E B, X : Placement(B, X))'
    <3>1. PICK B, X : Placement(B, X) BY <2>3, <2>4 DEF AllPlaced
    <3>2. Placement(B, X)' BY <2>1, <3>1, PlacementStays
    <3> QED BY <3>2
  <2>5. stage' \in {"fill", "done"} => queue' = <<>> BY <2>1, <2>2 DEF AllPlaced
  <2>6. stage' = "tokenize" => stage = "tokenize" BY <2>2
  <2>7. stage' \in {"tokenize", "pack"} => stage \in {"tokenize", "pack"} BY <2>2
  <2> QED BY <2>1, <2>2, <2>4, <2>5, <2>6, <2>7 DEF AllPlaced
<1> QED BY <1>1, <1>2, <1>3, <1>4 DEF Next


-----------------------------------------------------------------------------
(* What the stacks hold.                                                   *)

\* The places of length l in the bins after the first n.
Left(l, n) ==
    {p \in Nat \X Nat : /\ n < p[1] /\ p[1] \in DOMAIN bins
                        /\ p[2] \in DOMAIN bins[p[1]] /\ bins[p[1]][p[2]] = l}

\* There is a sample on the stack for every place still to be filled.
StacksSuffice ==
    /\ DOMAIN stacks = Handled
    /\ \A l \in Handled :
         /\ stacks[l].ids = stacks[l].masks
         /\ stacks[l].ids \in Seq(OfLength(l)) /\ IsInjective(stacks[l].ids)
         /\ IsFiniteSet(Left(l, Len(packed)))
         /\ Cardinality(Left(l, Len(packed))) <= Len(stacks[l].ids)

\* What is packed of the samples w.
Item(w) ==
    [ids    |-> FlattenSeq([x \in DOMAIN w |-> ids[w[x]]]),
     mask   |-> FlattenSeq([x \in DOMAIN w |-> masks[w[x]]]),
     starts |-> [x \in DOMAIN w |-> Sum([y \in 1 .. x - 1 |-> Len(ids[w[y]])])]]

\* The bins packed hold the samples W, each once, and the stacks all others.
FilledWith(W) ==
    /\ Len(packed) \in 0 .. Len(bins)
    /\ packed = [b \in 1 .. Len(packed) |-> Item(W[b])]
    /\ \A b \in 1 .. Len(packed) :
         /\ W[b] \in Seq(Samples) /\ DOMAIN W[b] = DOMAIN bins[b]
         /\ \A x \in DOMAIN bins[b] : bins[b][x] \in Handled /\ W[b][x] \in OfLength(bins[b][x])
    /\ \A b, c \in 1 .. Len(packed) : \A x \in DOMAIN W[b] : \A y \in DOMAIN W[c] :
         W[b][x] = W[c][y] => b = c /\ x = y
    /\ \A l \in Handled : \A k \in DOMAIN stacks[l].ids :
         \A b \in 1 .. Len(packed) : \A x \in DOMAIN W[b] : stacks[l].ids[k] # W[b][x]
    /\ \A l \in Handled : \A i \in OfLength(l) :
         \/ \E k \in DOMAIN stacks[l].ids : stacks[l].ids[k] = i
         \/ \E b \in 1 .. Len(packed) : \E x \in DOMAIN W[b] : W[b][x] = i

Filling ==
    /\ stage \in {"fill", "done"} => StacksSuffice /\ \E W : FilledWith(W)
    /\ stage = "done" => Len(packed) = Len(bins) /\ \A l \in Handled : stacks[l].ids = <<>>

LEMMA OfLengthFacts ==
    ASSUME PreparedFirst, ids # <<>>, NEW l
    PROVE  /\ OfLength(l) \subseteq Samples /\ IsFiniteSet(OfLength(l))
           /\ \A i \in OfLength(l) : Length(i) = l
           /\ Handled \subseteq Nat /\ (l \in Handled => l <= job.pack)
<1>1. OfLength(l) \in SUBSET Samples BY DEF OfLength
<1>2. IsFiniteSet(Samples)
  <2>1. PICK n \in Nat : Samples = 1 .. n BY SampleCount
  <2> QED BY <2>1, FS_Interval
<1>3. IsFiniteSet(OfLength(l)) BY <1>1, <1>2, FS_Subset
<1>4. \A i \in OfLength(l) : Length(i) = l BY DEF OfLength
<1>5. Handled \subseteq 0 .. job.pack BY DEF Handled
<1>6. job.pack \in Nat BY JobAssumption DEF PreparedFirst
<1>7. \A k \in Handled : k \in Nat /\ k <= job.pack
  <2> SUFFICES ASSUME NEW k \in Handled PROVE k \in Nat /\ k <= job.pack OBVIOUS
  <2>1. k \in 0 .. job.pack BY <1>5
  <2> QED BY <1>6, <2>1
<1> QED BY <1>1, <1>3, <1>4, <1>7

\* Every place is some sample's, so there are no more places than samples.
LEMMA PlacesOfSamples ==
    ASSUME PreparedFirst, ids # <<>>, BinsTyped, queue = <<>>, NEW B, NEW X, Placement(B, X), NEW l
    PROVE  IsFiniteSet(Left(l, 0)) /\ Cardinality(Left(l, 0)) <= Cardinality(OfLength(l))
<1> DEFINE of(p) == CHOOSE i \in Samples : B[i] = p[1] /\ X[i] = p[2]
           f == [p \in Left(l, 0) |-> of(p)]
<1>1. ASSUME NEW p \in Left(l, 0)
      PROVE  of(p) \in OfLength(l) /\ p = <<B[of(p)], X[of(p)]>>
  <2>1. /\ p \in Nat \X Nat /\ p[1] \in DOMAIN bins /\ p[2] \in DOMAIN bins[p[1]]
        /\ bins[p[1]][p[2]] = l
        BY DEF Left
  <2>2. \E i \in Samples : B[i] = p[1] /\ X[i] = p[2] BY <2>1 DEF Placement
  <2>3. PICK i : i = of(p) OBVIOUS
  <2>4. i \in Samples /\ B[i] = p[1] /\ X[i] = p[2] BY <2>2, <2>3
  <2> HIDE DEF of
  <2>5. 0 \notin DOMAIN bins BY DEF BinsTyped
  <2>6. bins[B[i]][X[i]] = Length(i)
    <3>1. B[i] # 0 BY <2>1, <2>4, <2>5
    <3> QED BY <2>4, <3>1 DEF Placement
  <2>7. i \in OfLength(l) BY <2>1, <2>4, <2>6 DEF OfLength
  <2>8. p = <<p[1], p[2]>> BY <2>1
  <2> QED BY <2>3, <2>4, <2>7, <2>8
<1> HIDE DEF of
<1>2. f \in Injection(Left(l, 0), OfLength(l))
  <2>1. f \in [Left(l, 0) -> OfLength(l)] BY <1>1
  <2>2. ASSUME NEW p \in Left(l, 0), NEW q \in Left(l, 0), f[p] = f[q] PROVE p = q
    <3>1. of(p) = of(q) BY <2>2
    <3>2. p = <<B[of(p)], X[of(p)]>> /\ q = <<B[of(q)], X[of(q)]>> BY <1>1
    <3> QED BY <3>1, <3>2
  <2>3. DOMAIN f = Left(l, 0) OBVIOUS
  <2> HIDE DEF f
  <2> QED BY <2>1, <2>2, <2>3 DEF Injection, IsInjective
<1>3. IsFiniteSet(OfLength(l)) BY OfLengthFacts
<1> HIDE DEF f
<1> QED BY <1>2, <1>3, FS_Injection

LEMMA StackFacts ==
    ASSUME PreparedFirst, ids # <<>>, NEW l, NEW s \in SetToSeqs(OfLength(l))
    PROVE  /\ s \in Seq(OfLength(l)) /\ IsInjective(s) /\ Len(s) = Cardinality(OfLength(l))
           /\ \A i \in OfLength(l) : \E k \in DOMAIN s : s[k] = i
<1> DEFINE T == OfLength(l)
           n == Cardinality(T)
<1>1. IsFiniteSet(T) BY OfLengthFacts
<1>2. n \in Nat BY <1>1, FS_CardinalityType
<1>3. s \in [1 .. n -> T] /\ \A i, j \in 1 .. n : i # j => s[i] # s[j] BY DEF SetToSeqs
<1> HIDE DEF T, n
<1>4. s \in Seq(T) /\ Len(s) = n /\ DOMAIN s = 1 .. n BY <1>2, <1>3
<1>5. IsInjective(s) BY <1>3, <1>4 DEF IsInjective
<1>6. s \in Injection(1 .. n, T) BY <1>3, <1>5 DEF Injection
<1>7. Cardinality(1 .. n) = n BY <1>2, FS_Interval
<1>8. s \in Surjection(1 .. n, T) BY <1>1, <1>6, <1>7, FS_Injection DEF n
<1>9. \A i \in T : \E k \in 1 .. n : s[k] = i BY <1>8 DEF Surjection
<1> QED BY <1>4, <1>5, <1>9 DEF T, n

LEMMA HandleFills ==
    ASSUME Handle, stage' = "fill", PreparedFirst, BinsInv, AllPlaced
    PROVE  (StacksSuffice /\ \E W : FilledWith(W))'
<1>1. /\ stage = "pack" /\ queue = <<>> /\ UNCHANGED <<job, ids, masks, queue, bins, packed>>
      /\ ids # <<>> /\ packed = <<>>
      BY DEF Handle, PreparedFirst, AllPlaced
<1>2. PICK order \in Stacked(Handled) :
        stacks' = [l \in Handled |-> [ids |-> order[l], masks |-> order[l]]]
      BY DEF Handle
<1>3. \A l \in Handled : order[l] \in SetToSeqs(OfLength(l)) BY DEF Stacked
<1>4. PICK B, X : Placement(B, X) BY <1>1 DEF AllPlaced
<1>5. Len(packed) = 0 /\ 1 .. 0 = {} BY <1>1
<1>6. \A l : OfLength(l)' = OfLength(l) /\ Left(l, 0)' = Left(l, 0)
      BY <1>1 DEF OfLength, Samples, Length, Left
<1>7. Handled' = Handled BY <1>1 DEF Handled, Samples, Length
<1>8. DOMAIN stacks' = Handled /\ \A l \in Handled : stacks'[l].ids = order[l] /\ stacks'[l].masks = order[l]
      BY <1>2
<1>9. ASSUME NEW l \in Handled
      PROVE  /\ order[l] \in Seq(OfLength(l)) /\ IsInjective(order[l])
             /\ IsFiniteSet(Left(l, 0)) /\ Cardinality(Left(l, 0)) <= Len(order[l])
             /\ \A i \in OfLength(l) : \E k \in DOMAIN order[l] : order[l][k] = i
  <2>1. PICK s : s = order[l] OBVIOUS
  <2>2. s \in SetToSeqs(OfLength(l)) BY <1>3, <2>1
  <2>3. /\ s \in Seq(OfLength(l)) /\ IsInjective(s) /\ Len(s) = Cardinality(OfLength(l))
        /\ \A i \in OfLength(l) : \E k \in DOMAIN s : s[k] = i
        BY <1>1, <2>2, StackFacts
  <2>4. IsFiniteSet(Left(l, 0)) /\ Cardinality(Left(l, 0)) <= Cardinality(OfLength(l))
        BY <1>1, <1>4, PlacesOfSamples DEF BinsInv
  <2> QED BY <2>1, <2>3, <2>4
<1>10. StacksSuffice'
  <2>1. Len(packed)' = 0 BY <1>1, <1>5
  <2>2. \A l \in Handled :
         /\ stacks'[l].ids = stacks'[l].masks
         /\ stacks'[l].ids \in Seq(OfLength(l)') /\ IsInjective(stacks'[l].ids)
         /\ IsFiniteSet(Left(l, 0)') /\ Cardinality(Left(l, 0)') <= Len(stacks'[l].ids)
        BY <1>6, <1>8, <1>9
  <2> QED BY <1>7, <1>8, <2>1, <2>2 DEF StacksSuffice
<1>11. FilledWith(<<>>)'
  <2>1. Len(packed') = 0 /\ packed' = <<>> BY <1>1, <1>5
  <2>2. Len(bins') \in Nat BY <1>1 DEF BinsInv, BinsTyped
  <2>3. \A l \in Handled : \A i \in OfLength(l) : \E k \in DOMAIN stacks'[l].ids : stacks'[l].ids[k] = i
        BY <1>8, <1>9
  <2> QED BY <1>5, <1>6, <1>7, <2>1, <2>2, <2>3 DEF FilledWith
<1> QED BY <1>10, <1>11


-----------------------------------------------------------------------------
(* Taking samples from the stacks.                                         *)

LEMMA PoppedOne ==
    ASSUME NEW s \in Seq(Nat), NEW x \in DOMAIN s
    PROVE  /\ Popped(s, "ids")[x] = stacks[s[x]].ids[Len(stacks[s[x]].ids) - Times(s, s[x], x - 1)]
           /\ PoppedMasks(s)[x] = stacks[s[x]].masks[Len(stacks[s[x]].masks) - Times(s, s[x], x - 1)]
BY DEF Popped, PoppedMasks, Times, Occurrences

LEMMA PoppedFacts ==
    ASSUME PreparedFirst, ids # <<>>, StacksSuffice, NEW s \in Seq(Nat),
           \A x \in DOMAIN s : s[x] \in Handled,
           \A l \in Handled : Times(s, l, Len(s)) <= Len(stacks[l].ids),
           NEW w, w = Popped(s, "ids")
    PROVE  /\ PoppedMasks(s) = w /\ w \in Seq(Samples) /\ DOMAIN w = DOMAIN s
           /\ \A x \in DOMAIN s :
                /\ w[x] \in OfLength(s[x])
                /\ \E k \in DOMAIN stacks[s[x]].ids :
                     k > Len(stacks[s[x]].ids) - Times(s, s[x], Len(s)) /\ w[x] = stacks[s[x]].ids[k]
           /\ \A x, y \in DOMAIN s : w[x] = w[y] => x = y
           /\ \A l \in Handled : \A k \in DOMAIN stacks[l].ids :
                k > Len(stacks[l].ids) - Times(s, l, Len(s)) =>
                    \E x \in DOMAIN s : s[x] = l /\ w[x] = stacks[l].ids[k]
<1>1. PICK n \in Nat : n = Len(s) /\ DOMAIN s = 1 .. n OBVIOUS
<1>2. ASSUME NEW l
      PROVE  /\ \A m \in 0 .. n : Times(s, l, m) \in Nat
             /\ \A x \in 1 .. n : s[x] = l => Times(s, l, x - 1) < Times(s, l, n)
             /\ \A x, y \in 1 .. n :
                  s[x] = l /\ s[y] = l /\ Times(s, l, x - 1) = Times(s, l, y - 1) => x = y
             /\ \A k \in 0 .. Times(s, l, n) - 1 : \E x \in 1 .. n : s[x] = l /\ Times(s, l, x - 1) = k
  BY OccurrencesNumbered
<1>3. ASSUME NEW x \in 1 .. n
      PROVE  /\ s[x] \in Handled /\ w[x] = stacks[s[x]].ids[Len(stacks[s[x]].ids) - Times(s, s[x], x - 1)]
             /\ PoppedMasks(s)[x] = w[x]
  <2>1. x \in DOMAIN s /\ s[x] \in Handled BY <1>1
  <2>2. stacks[s[x]].ids = stacks[s[x]].masks BY <2>1 DEF StacksSuffice
  <2> QED BY <2>1, <2>2, PoppedOne
<1>4. ASSUME NEW l \in Handled
      PROVE  /\ stacks[l].ids \in Seq(OfLength(l)) /\ IsInjective(stacks[l].ids)
             /\ Len(stacks[l].ids) \in Nat /\ DOMAIN stacks[l].ids = 1 .. Len(stacks[l].ids)
             /\ Times(s, l, n) \in Nat /\ Times(s, l, n) <= Len(stacks[l].ids)
  <2>1. PICK t : t = stacks[l].ids OBVIOUS
  <2>2. t \in Seq(OfLength(l)) /\ IsInjective(t) BY <2>1 DEF StacksSuffice
  <2>3. Len(t) \in Nat /\ DOMAIN t = 1 .. Len(t) BY <2>2
  <2>4. n \in 0 .. n BY <1>1
  <2>5. Times(s, l, n) \in Nat BY <1>2, <2>4
  <2>6. Times(s, l, n) <= Len(stacks[l].ids) BY <1>1
  <2> QED BY <2>1, <2>2, <2>3, <2>5, <2>6
<1>5. ASSUME NEW x \in 1 .. n
      PROVE  \E k \in 1 .. Len(stacks[s[x]].ids) :
                /\ k = Len(stacks[s[x]].ids) - Times(s, s[x], x - 1)
                /\ k > Len(stacks[s[x]].ids) - Times(s, s[x], n)
                /\ w[x] = stacks[s[x]].ids[k]
  <2>1. PICK l : l = s[x] OBVIOUS
  <2>2. l \in Handled BY <1>3, <2>1
  <2>3. PICK L : L = Len(stacks[l].ids) OBVIOUS
  <2>4. PICK c : c = Times(s, l, n) OBVIOUS
  <2>5. PICK u : u = Times(s, l, x - 1) OBVIOUS
  <2>6. L \in Nat /\ c \in Nat /\ c <= L BY <1>4, <2>2, <2>3, <2>4
  <2>7. u < c /\ u \in Nat
    <3>1. x - 1 \in 0 .. n BY <1>1
    <3> QED BY <1>2, <2>1, <2>4, <2>5, <3>1
  <2>8. L - u \in 1 .. L /\ L - u > L - c BY <2>6, <2>7
  <2>9. w[x] = stacks[l].ids[L - u] BY <1>3, <2>1, <2>3, <2>5
  <2> QED BY <2>1, <2>3, <2>4, <2>5, <2>8, <2>9
<1>6. ASSUME NEW x \in 1 .. n PROVE w[x] \in OfLength(s[x])
  <2>1. PICK k \in 1 .. Len(stacks[s[x]].ids) : w[x] = stacks[s[x]].ids[k] BY <1>5
  <2>2. PICK t : t = stacks[s[x]].ids OBVIOUS
  <2>3. t \in Seq(OfLength(s[x])) /\ k \in 1 .. Len(t) BY <1>3, <1>4, <2>2
  <2>4. t[k] \in OfLength(s[x]) BY <2>3
  <2> QED BY <2>1, <2>2, <2>4
<1>7. w = [x \in 1 .. n |-> w[x]] /\ PoppedMasks(s) = [x \in 1 .. n |-> PoppedMasks(s)[x]]
      BY <1>1 DEF Popped, PoppedMasks
<1>8. PoppedMasks(s) = w BY <1>3, <1>7
<1>9. w \in Seq(Samples) /\ DOMAIN w = 1 .. n
  <2>1. \A x \in 1 .. n : w[x] \in Samples BY <1>6, OfLengthFacts
  <2> QED BY <1>1, <1>7, <2>1
<1>10. ASSUME NEW x \in 1 .. n, NEW y \in 1 .. n, w[x] = w[y] PROVE x = y
  <2>1. PICK l : l = s[x] OBVIOUS
  <2>2. s[y] = l
    <3>1. Length(w[x]) = s[x] /\ Length(w[y]) = s[y] BY <1>6, OfLengthFacts
    <3> QED BY <1>10, <2>1, <3>1
  <2>3. l \in Handled BY <1>3, <2>1
  <2>4. PICK t : t = stacks[l].ids OBVIOUS
  <2>5. IsInjective(t) /\ DOMAIN t = 1 .. Len(t) /\ Len(t) \in Nat BY <1>4, <2>3, <2>4
  <2>6. PICK j \in 1 .. Len(t) : j = Len(t) - Times(s, l, x - 1) /\ w[x] = t[j] BY <1>5, <2>1, <2>4
  <2>7. PICK k \in 1 .. Len(t) : k = Len(t) - Times(s, l, y - 1) /\ w[y] = t[k] BY <1>5, <2>2, <2>4
  <2>8. j = k BY <1>10, <2>5, <2>6, <2>7 DEF IsInjective
  <2>9. x - 1 \in 0 .. n /\ y - 1 \in 0 .. n BY <1>1
  <2>10. Times(s, l, x - 1) \in Nat /\ Times(s, l, y - 1) \in Nat BY <1>2, <2>9
  <2>11. Times(s, l, x - 1) = Times(s, l, y - 1) BY <2>5, <2>6, <2>7, <2>8, <2>10
  <2> QED BY <1>2, <2>1, <2>2, <2>11
<1>11. ASSUME NEW l \in Handled, NEW k \in 1 .. Len(stacks[l].ids),
              k > Len(stacks[l].ids) - Times(s, l, n)
       PROVE  \E x \in 1 .. n : s[x] = l /\ w[x] = stacks[l].ids[k]
  <2>1. PICK L : L = Len(stacks[l].ids) OBVIOUS
  <2>2. PICK c : c = Times(s, l, n) OBVIOUS
  <2>3. L \in Nat /\ c \in Nat /\ k \in 1 .. L /\ k > L - c BY <1>4, <1>11, <2>1, <2>2
  <2>4. L - k \in 0 .. c - 1 /\ L - (L - k) = k BY <2>3
  <2>5. PICK x \in 1 .. n : s[x] = l /\ Times(s, l, x - 1) = L - k BY <1>2, <2>2, <2>4
  <2>6. w[x] = stacks[l].ids[L - (L - k)] BY <1>3, <2>1, <2>5
  <2> QED BY <2>4, <2>5, <2>6
<1>12. \A x \in DOMAIN s :
          /\ w[x] \in OfLength(s[x])
          /\ \E k \in DOMAIN stacks[s[x]].ids :
               k > Len(stacks[s[x]].ids) - Times(s, s[x], Len(s)) /\ w[x] = stacks[s[x]].ids[k]
  <2> SUFFICES ASSUME NEW x \in 1 .. n
               PROVE /\ w[x] \in OfLength(s[x])
                     /\ \E k \in DOMAIN stacks[s[x]].ids :
                          k > Len(stacks[s[x]].ids) - Times(s, s[x], n) /\ w[x] = stacks[s[x]].ids[k]
      BY <1>1
  <2>1. DOMAIN stacks[s[x]].ids = 1 .. Len(stacks[s[x]].ids) BY <1>3, <1>4
  <2> QED BY <1>5, <1>6, <2>1
<1>13. \A l \in Handled : \A k \in DOMAIN stacks[l].ids :
          k > Len(stacks[l].ids) - Times(s, l, Len(s)) =>
              \E x \in DOMAIN s : s[x] = l /\ w[x] = stacks[l].ids[k]
  <2> SUFFICES ASSUME NEW l \in Handled, NEW k \in DOMAIN stacks[l].ids,
                      k > Len(stacks[l].ids) - Times(s, l, Len(s))
               PROVE \E x \in DOMAIN s : s[x] = l /\ w[x] = stacks[l].ids[k]
      OBVIOUS
  <2>1. k \in 1 .. Len(stacks[l].ids) BY <1>4
  <2>2. k > Len(stacks[l].ids) - Times(s, l, n) BY <1>1
  <2>3. \E x \in 1 .. n : s[x] = l /\ w[x] = stacks[l].ids[k] BY <1>11, <2>1, <2>2
  <2> QED BY <1>1, <2>3
<1>14. \A x, y \in DOMAIN s : w[x] = w[y] => x = y BY <1>1, <1>10
<1> QED BY <1>1, <1>8, <1>9, <1>12, <1>13, <1>14


-----------------------------------------------------------------------------
(* Filling a bin.                                                          *)

LEMMA LeftSplits ==
    ASSUME BinsTyped, NEW n \in Nat, n + 1 \in DOMAIN bins, NEW l, IsFiniteSet(Left(l, n))
    PROVE  /\ IsFiniteSet(Left(l, n + 1)) /\ Cardinality(Left(l, n + 1)) \in Nat
           /\ Times(bins[n + 1], l, Len(bins[n + 1])) \in Nat
           /\ Cardinality(Left(l, n + 1)) + Times(bins[n + 1], l, Len(bins[n + 1])) = Cardinality(Left(l, n))
<1>1. PICK s : s = bins[n + 1] OBVIOUS
<1>2. s \in Seq(Nat) BY <1>1 DEF BinsTyped
<1>3. PICK m \in Nat : m = Len(s) /\ DOMAIN s = 1 .. m BY <1>2
<1> DEFINE O == Occurrences(s, l, m)
           Here == {<<n + 1, x>> : x \in O}
           Later == Left(l, n + 1)
<1>4. O \subseteq 1 .. m /\ \A x \in 1 .. m : x \in O <=> s[x] = l BY DEF Occurrences
<1>5. IsFiniteSet(O) /\ Cardinality(O) \in Nat
  <2>1. IsFiniteSet(1 .. m) BY FS_Interval
  <2> HIDE DEF O
  <2> QED BY <1>4, <2>1, FS_Subset, FS_CardinalityType
<1>6. Times(bins[n + 1], l, Len(bins[n + 1])) = Cardinality(O) BY <1>1, <1>3 DEF Times
<1> HIDE DEF O
<1>7. IsFiniteSet(Here) /\ Cardinality(Here) = Cardinality(O)
  <2> DEFINE f == [x \in O |-> <<n + 1, x>>]
  <2>1. f \in [O -> Here] /\ DOMAIN f = O OBVIOUS
  <2>2. \A x, y \in O : f[x] = f[y] => x = y OBVIOUS
  <2>3. \A t \in Here : \E x \in O : f[x] = t OBVIOUS
  <2> HIDE DEF f, Here
  <2>4. f \in Bijection(O, Here) BY <2>1, <2>2, <2>3 DEF Bijection, Injection, Surjection, IsInjective
  <2>5. ExistsBijection(O, Here) BY <2>4 DEF ExistsBijection
  <2> QED BY <1>5, <2>5, FS_Bijection
<1>8. Left(l, n) = Later \cup Here
  <2>1. ASSUME NEW p \in Left(l, n) PROVE p \in Later \cup Here
    <3>1. /\ p \in Nat \X Nat /\ n < p[1] /\ p[1] \in DOMAIN bins
          /\ p[2] \in DOMAIN bins[p[1]] /\ bins[p[1]][p[2]] = l
          BY DEF Left
    <3>2. CASE p[1] = n + 1
      <4>1. p[2] \in O BY <1>1, <1>3, <1>4, <3>1, <3>2
      <4>2. p = <<n + 1, p[2]>> BY <3>1, <3>2
      <4> QED BY <4>1, <4>2
    <3>3. CASE p[1] # n + 1
      <4>1. n + 1 < p[1] BY <3>1, <3>3
      <4> QED BY <3>1, <4>1 DEF Left
    <3> QED BY <3>2, <3>3
  <2>2. Later \subseteq Left(l, n) BY DEF Left
  <2>3. ASSUME NEW x \in O PROVE <<n + 1, x>> \in Left(l, n)
    <3>1. x \in Nat /\ x \in DOMAIN s /\ s[x] = l BY <1>3, <1>4
    <3>2. <<n + 1, x>> \in Nat \X Nat /\ n < n + 1 BY <3>1
    <3> QED BY <1>1, <3>1, <3>2 DEF Left
  <2> QED BY <2>1, <2>2, <2>3
<1>9. Later \cap Here = {}
  <2> SUFFICES ASSUME NEW x \in O, <<n + 1, x>> \in Later PROVE FALSE OBVIOUS
  <2>1. n + 1 < n + 1 BY DEF Left
  <2> QED BY <2>1
<1> HIDE DEF Here, Later
<1>10. IsFiniteSet(Later)
  <2>1. Later \in SUBSET Left(l, n) BY <1>8
  <2> QED BY <2>1, FS_Subset
<1>11. Cardinality(Later) \in Nat BY <1>10, FS_CardinalityType
<1>12. Cardinality(Left(l, n)) = Cardinality(Later) + Cardinality(Here) - Cardinality({})
       BY <1>7, <1>8, <1>9, <1>10, FS_Union
<1>13. Cardinality({}) = 0 BY FS_EmptySet
<1>14. Cardinality(Left(l, n)) = Cardinality(Later) + Cardinality(O) BY <1>5, <1>7, <1>11, <1>12, <1>13
<1> QED BY <1>5, <1>6, <1>10, <1>11, <1>14 DEF Later

\* What Fill does with the samples it takes.
LEMMA FillTakes ==
    ASSUME Fill, stage' = "fill", PreparedFirst, BinsInv, StacksSuffice, Len(packed) \in Nat
    PROVE  \E s \in Seq(Nat), w \in Seq(Samples) :
             /\ Len(packed) + 1 \in DOMAIN bins /\ s = bins[Len(packed) + 1]
             /\ \A x \in DOMAIN s : s[x] \in Handled
             /\ \A l \in Handled : Times(s, l, Len(s)) <= Len(stacks[l].ids)
             /\ w = Popped(s, "ids") /\ packed' = Append(packed, Item(w))
             /\ stacks' = [l \in Handled |->
                             [ids |-> Shortened(stacks[l].ids, Times(s, l, Len(s))),
                              masks |-> Shortened(stacks[l].masks, Times(s, l, Len(s)))]]
<1>1. PICK n \in Nat : n = Len(packed) OBVIOUS
<1>2. n < Len(bins) /\ stage = "fill" /\ ids # <<>> BY <1>1 DEF Fill, PreparedFirst
<1>3. n + 1 \in DOMAIN bins BY <1>1, <1>2 DEF BinsInv, BinsTyped
<1>4. PICK s : s = bins[n + 1] OBVIOUS
<1>5. s \in Seq(Nat) BY <1>3, <1>4, BinSums DEF BinsInv
<1>6. ~\E x \in DOMAIN s : s[x] \notin DOMAIN stacks BY <1>1, <1>4 DEF Fill
<1>7. \A x \in DOMAIN s : s[x] \in Handled BY <1>6 DEF StacksSuffice
<1>8. ASSUME NEW l \in Handled PROVE Times(s, l, Len(s)) <= Len(stacks[l].ids)
  <2>1. /\ stacks[l].ids \in Seq(OfLength(l)) /\ IsFiniteSet(Left(l, n))
        /\ Cardinality(Left(l, n)) <= Len(stacks[l].ids)
        BY <1>1 DEF StacksSuffice
  <2>2. Len(stacks[l].ids) \in Nat
    <3>1. PICK t : t = stacks[l].ids OBVIOUS
    <3>2. t \in Seq(OfLength(l)) BY <2>1, <3>1
    <3>3. Len(t) \in Nat BY <3>2
    <3> QED BY <3>1, <3>3
  <2>3. /\ Cardinality(Left(l, n + 1)) \in Nat /\ Times(s, l, Len(s)) \in Nat
        /\ Cardinality(Left(l, n + 1)) + Times(s, l, Len(s)) = Cardinality(Left(l, n))
        BY <1>3, <1>4, <2>1, LeftSplits DEF BinsInv
  <2> QED BY <2>1, <2>2, <2>3
<1>9. PICK w : w = Popped(s, "ids") OBVIOUS
<1>10. w \in Seq(Samples) /\ PoppedMasks(s) = w BY <1>2, <1>5, <1>7, <1>8, <1>9, PoppedFacts
<1>11. packed' = Append(packed,
          [ids    |-> FlattenSeq([x \in DOMAIN w |-> ids[w[x]]]),
           mask   |-> FlattenSeq([x \in DOMAIN w |-> masks[PoppedMasks(s)[x]]]),
           starts |-> [x \in DOMAIN w |-> Sum([y \in 1 .. x - 1 |-> Len(ids[w[y]])])]])
       BY <1>1, <1>4, <1>6, <1>9 DEF Fill
<1>12. packed' = Append(packed, Item(w)) BY <1>10, <1>11 DEF Item
<1>13. ASSUME NEW l PROVE Times(s, l, Len(s)) = Cardinality({x \in DOMAIN s : s[x] = l})
  <2>1. DOMAIN s = 1 .. Len(s) BY <1>5
  <2>2. {x \in DOMAIN s : s[x] = l} = Occurrences(s, l, Len(s)) BY <2>1 DEF Occurrences
  <2> QED BY <2>2 DEF Times
<1>14. stacks' = [l \in DOMAIN stacks |->
          [ids |-> Shortened(stacks[l].ids, Cardinality({x \in DOMAIN s : s[x] = l})),
           masks |-> Shortened(stacks[l].masks, Cardinality({x \in DOMAIN s : s[x] = l}))]]
       BY <1>1, <1>4, <1>6 DEF Fill
<1>15. stacks' = [l \in Handled |->
          [ids |-> Shortened(stacks[l].ids, Times(s, l, Len(s))),
           masks |-> Shortened(stacks[l].masks, Times(s, l, Len(s)))]]
  <2>1. DOMAIN stacks = Handled BY DEF StacksSuffice
  <2> QED BY <1>13, <1>14, <2>1
<1> QED BY <1>1, <1>3, <1>4, <1>5, <1>7, <1>8, <1>9, <1>10, <1>12, <1>15


\* What is left of a stack when the last c are taken.
LEMMA ShortenedFacts ==
    ASSUME NEW S, NEW t \in Seq(S), IsInjective(t), NEW c \in Nat, c <= Len(t)
    PROVE  /\ Shortened(t, c) \in Seq(S) /\ IsInjective(Shortened(t, c))
           /\ Len(Shortened(t, c)) = Len(t) - c /\ Len(t) \in Nat
           /\ DOMAIN t = 1 .. Len(t) /\ DOMAIN Shortened(t, c) = 1 .. Len(t) - c
           /\ \A k \in 1 .. Len(t) - c : Shortened(t, c)[k] = t[k]
<1>1. PICK n \in Nat : n = Len(t) OBVIOUS
<1>2. DOMAIN t = 1 .. n /\ n - c \in 0 .. n BY <1>1
<1>3. PICK u : u = Shortened(t, c) OBVIOUS
<1>4. u = SubSeq(t, 1, n - c) BY <1>1, <1>3 DEF Shortened
<1>5. /\ u \in Seq(S) /\ Len(u) = n - c /\ DOMAIN u = 1 .. n - c
      /\ \A k \in 1 .. n - c : u[k] = t[k]
      BY <1>1, <1>2, <1>4
<1>6. IsInjective(u)
  <2>1. \A k \in 1 .. n - c : k \in 1 .. n BY <1>2
  <2> QED BY <1>2, <1>5, <2>1 DEF IsInjective
<1> QED BY <1>1, <1>2, <1>3, <1>5, <1>6

LEMMA FillFills ==
    ASSUME Fill, stage' = "fill", PreparedFirst, BinsInv, StacksSuffice, NEW W, FilledWith(W)
    PROVE  (StacksSuffice /\ \E V : FilledWith(V))'
<1>1. PICK n \in Nat : n = Len(packed)
  <2>1. Len(bins) \in Nat /\ Len(packed) \in 0 .. Len(bins) BY DEF FilledWith, BinsInv, BinsTyped
  <2> QED BY <2>1
<1>2. PICK s \in Seq(Nat), w \in Seq(Samples) :
             /\ n + 1 \in DOMAIN bins /\ s = bins[n + 1]
             /\ \A x \in DOMAIN s : s[x] \in Handled
             /\ \A l \in Handled : Times(s, l, Len(s)) <= Len(stacks[l].ids)
             /\ w = Popped(s, "ids") /\ packed' = Append(packed, Item(w))
             /\ stacks' = [l \in Handled |->
                             [ids |-> Shortened(stacks[l].ids, Times(s, l, Len(s))),
                              masks |-> Shortened(stacks[l].masks, Times(s, l, Len(s)))]]
      BY <1>1, FillTakes
<1>3. UNCHANGED <<job, ids, masks, queue, bins>> /\ ids # <<>> BY DEF Fill, PreparedFirst
<1>4. /\ DOMAIN w = DOMAIN s
      /\ \A x \in DOMAIN s :
           /\ w[x] \in OfLength(s[x])
           /\ \E k \in DOMAIN stacks[s[x]].ids :
                k > Len(stacks[s[x]].ids) - Times(s, s[x], Len(s)) /\ w[x] = stacks[s[x]].ids[k]
      /\ \A x, y \in DOMAIN s : w[x] = w[y] => x = y
      /\ \A l \in Handled : \A k \in DOMAIN stacks[l].ids :
           k > Len(stacks[l].ids) - Times(s, l, Len(s)) =>
               \E x \in DOMAIN s : s[x] = l /\ w[x] = stacks[l].ids[k]
  <2>1. /\ \A x \in DOMAIN s : s[x] \in Handled
        /\ \A l \in Handled : Times(s, l, Len(s)) <= Len(stacks[l].ids)
        BY <1>2
  <2>2. w = Popped(s, "ids") BY <1>2
  <2> HIDE <1>2
  <2> QED BY <1>3, <2>1, <2>2, PoppedFacts
<1>5. PICK c : \A l \in Handled : c[l] = Times(s, l, Len(s))
  <2> DEFINE F == [l \in Handled |-> Times(s, l, Len(s))]
  <2>1. \A l \in Handled : F[l] = Times(s, l, Len(s)) OBVIOUS
  <2> QED BY <2>1
<1>6. PICK t : \A l \in Handled : t[l] = stacks[l].ids
  <2> DEFINE F == [l \in Handled |-> stacks[l].ids]
  <2>1. \A l \in Handled : F[l] = stacks[l].ids OBVIOUS
  <2> QED BY <2>1
<1>7. PICK u : \A l \in Handled : u[l] = Shortened(t[l], c[l])
  <2> DEFINE F == [l \in Handled |-> Shortened(t[l], c[l])]
  <2>1. \A l \in Handled : F[l] = Shortened(t[l], c[l]) OBVIOUS
  <2> QED BY <2>1
<1>8. ASSUME NEW l \in Handled
      PROVE  /\ c[l] \in Nat /\ c[l] <= Len(t[l]) /\ Len(t[l]) \in Nat
             /\ t[l] \in Seq(OfLength(l)) /\ IsInjective(t[l]) /\ DOMAIN t[l] = 1 .. Len(t[l])
             /\ u[l] \in Seq(OfLength(l)) /\ IsInjective(u[l])
             /\ Len(u[l]) = Len(t[l]) - c[l] /\ DOMAIN u[l] = 1 .. Len(t[l]) - c[l]
             /\ \A k \in 1 .. Len(t[l]) - c[l] : u[l][k] = t[l][k]
             /\ stacks'[l].ids = u[l] /\ stacks'[l].masks = u[l]
             /\ IsFiniteSet(Left(l, n + 1)) /\ Cardinality(Left(l, n + 1)) <= Len(u[l])
  <2>1. PICK r : r = t[l] OBVIOUS
  <2>2. /\ r = stacks[l].ids /\ r = stacks[l].masks /\ r \in Seq(OfLength(l)) /\ IsInjective(r)
        /\ IsFiniteSet(Left(l, n)) /\ Cardinality(Left(l, n)) <= Len(r)
        BY <1>1, <1>6, <2>1 DEF StacksSuffice
  <2>3. /\ IsFiniteSet(Left(l, n + 1)) /\ Cardinality(Left(l, n + 1)) \in Nat
        /\ Times(s, l, Len(s)) \in Nat
        /\ Cardinality(Left(l, n + 1)) + Times(s, l, Len(s)) = Cardinality(Left(l, n))
        BY <1>2, <2>2, LeftSplits DEF BinsInv
  <2>4. PICK d : d = c[l] OBVIOUS
  <2>5. d = Times(s, l, Len(s)) /\ d \in Nat /\ d <= Len(r) BY <1>2, <1>5, <2>2, <2>3, <2>4
  <2>6. /\ Shortened(r, d) \in Seq(OfLength(l)) /\ IsInjective(Shortened(r, d))
        /\ Len(Shortened(r, d)) = Len(r) - d /\ Len(r) \in Nat
        /\ DOMAIN r = 1 .. Len(r) /\ DOMAIN Shortened(r, d) = 1 .. Len(r) - d
        /\ \A k \in 1 .. Len(r) - d : Shortened(r, d)[k] = r[k]
        BY <2>2, <2>5, ShortenedFacts
  <2>7. u[l] = Shortened(r, d) BY <1>7, <2>1, <2>4
  <2>8. stacks'[l].ids = u[l] /\ stacks'[l].masks = u[l] BY <1>2, <2>2, <2>5, <2>7
  <2>9. Cardinality(Left(l, n + 1)) <= Len(r) - d BY <2>2, <2>3, <2>5, <2>6
  <2> QED BY <2>1, <2>2, <2>3, <2>4, <2>5, <2>6, <2>7, <2>8, <2>9
<1>9. Handled' = Handled /\ Samples' = Samples BY <1>3 DEF Handled, Samples, Length
<1>10. \A l : OfLength(l)' = OfLength(l) /\ Left(l, n + 1)' = Left(l, n + 1)
       BY <1>3 DEF OfLength, Samples, Length, Left
<1>11. /\ Len(packed') = n + 1
       /\ packed' = [b \in 1 .. n + 1 |-> IF b = n + 1 THEN Item(w) ELSE Item(W[b])]
  <2>1. packed = [b \in 1 .. n |-> Item(W[b])] BY <1>1 DEF FilledWith
  <2> DEFINE T == {Item(W[b]) : b \in 1 .. n} \cup {Item(w)}
  <2>2. packed \in Seq(T) /\ Item(w) \in T /\ Len(packed) = n BY <1>1, <2>1
  <2>3. \A b \in 1 .. n : packed[b] = Item(W[b]) BY <2>1
  <2> HIDE DEF T
  <2> HIDE <2>1
  <2>4. PICK F : F = Append(packed, Item(w)) OBVIOUS
  <2>5. /\ F \in Seq(T) /\ Len(F) = n + 1 /\ DOMAIN F = 1 .. n + 1
        /\ \A b \in 1 .. n : F[b] = packed[b]
        /\ F[n + 1] = Item(w)
        BY <2>2, <2>4
  <2>6. \A b \in 1 .. n + 1 : F[b] = IF b = n + 1 THEN Item(w) ELSE Item(W[b])
    <3>1. \A b \in 1 .. n + 1 : b # n + 1 => b \in 1 .. n OBVIOUS
    <3> QED BY <2>3, <2>5, <3>1
  <2>7. F = [b \in 1 .. n + 1 |-> F[b]] BY <2>5
  <2>8. packed' = F BY <1>2, <2>4
  <2> QED BY <2>5, <2>6, <2>7, <2>8
<1>12. PICK V : V = [b \in 1 .. n + 1 |-> IF b = n + 1 THEN w ELSE W[b]] OBVIOUS
<1>13. V[n + 1] = w /\ \A b \in 1 .. n : V[b] = W[b] /\ b \in 1 .. n + 1 BY <1>12
<1>14. StacksSuffice'
  <2>1. DOMAIN stacks' = Handled BY <1>2
  <2>2. \A l \in Handled :
         /\ stacks'[l].ids = stacks'[l].masks
         /\ stacks'[l].ids \in Seq(OfLength(l)') /\ IsInjective(stacks'[l].ids)
         /\ IsFiniteSet(Left(l, n + 1)') /\ Cardinality(Left(l, n + 1)') <= Len(stacks'[l].ids)
        BY <1>8, <1>10
  <2> QED BY <1>9, <1>11, <2>1, <2>2 DEF StacksSuffice
<1>15. FilledWith(V)'
  <2>1. n + 1 \in 0 .. Len(bins) BY <1>2 DEF BinsInv, BinsTyped
  <2>2. packed' = [b \in 1 .. n + 1 |-> Item(V[b])]
    <3>1. \A b \in 1 .. n + 1 : (IF b = n + 1 THEN Item(w) ELSE Item(W[b])) = Item(V[b])
          BY <1>12
    <3> QED BY <1>11, <3>1
  <2>3. \A v : Item(v)' = Item(v) BY <1>3 DEF Item
  <2>4. packed' = [b \in 1 .. n + 1 |-> Item(V[b])'] BY <2>2, <2>3
  <2>5. \A b \in 1 .. n + 1 : b = n + 1 \/ b \in 1 .. n OBVIOUS
  <2>6. \A b \in 1 .. n :
         /\ W[b] \in Seq(Samples) /\ DOMAIN W[b] = DOMAIN bins[b]
         /\ \A x \in DOMAIN bins[b] : bins[b][x] \in Handled /\ W[b][x] \in OfLength(bins[b][x])
        BY <1>1 DEF FilledWith
  <2>7. ASSUME NEW b \in 1 .. n + 1
        PROVE  /\ V[b] \in Seq(Samples) /\ DOMAIN V[b] = DOMAIN bins[b]
               /\ \A x \in DOMAIN bins[b] : bins[b][x] \in Handled /\ V[b][x] \in OfLength(bins[b][x])
    <3>1. CASE b \in 1 .. n BY <1>13, <2>6, <3>1
    <3>2. CASE b = n + 1
      <4>1. V[b] = w /\ bins[b] = s BY <1>2, <1>13, <3>2
      <4>2. /\ w \in Seq(Samples) /\ DOMAIN w = DOMAIN s
            /\ \A x \in DOMAIN s : s[x] \in Handled /\ w[x] \in OfLength(s[x])
            BY <1>2, <1>4
      <4> QED BY <4>1, <4>2
    <3> QED BY <2>5, <3>1, <3>2
  \* The samples taken were on the stacks, so they are not in the earlier bins.
  <2>8. ASSUME NEW x \in DOMAIN w, NEW b \in 1 .. n, NEW y \in DOMAIN W[b] PROVE w[x] # W[b][y]
    <3>1. s[x] \in Handled BY <1>2, <1>4
    <3>2. PICK k \in DOMAIN stacks[s[x]].ids : w[x] = stacks[s[x]].ids[k] BY <1>4
    <3> QED BY <1>1, <3>1, <3>2 DEF FilledWith
  <2>9. ASSUME NEW b \in 1 .. n + 1, NEW d \in 1 .. n + 1, NEW x \in DOMAIN V[b], NEW y \in DOMAIN V[d],
               V[b][x] = V[d][y]
        PROVE  b = d /\ x = y
    <3>1. CASE b \in 1 .. n /\ d \in 1 .. n
      <4>1. V[b] = W[b] /\ V[d] = W[d] BY <1>13, <3>1
      <4>2. x \in DOMAIN W[b] /\ y \in DOMAIN W[d] /\ W[b][x] = W[d][y] BY <2>9, <4>1
      <4>3. \A e, g \in 1 .. n : \A z \in DOMAIN W[e] : \A v \in DOMAIN W[g] :
              W[e][z] = W[g][v] => e = g /\ z = v
            BY <1>1 DEF FilledWith
      <4> QED BY <3>1, <4>2, <4>3
    <3>2. CASE b = n + 1 /\ d = n + 1 BY <1>4, <1>13, <2>9, <3>2
    <3>3. CASE b = n + 1 /\ d \in 1 .. n BY <1>13, <2>8, <2>9, <3>3
    <3>4. CASE b \in 1 .. n /\ d = n + 1 BY <1>13, <2>8, <2>9, <3>4
    <3> QED BY <2>5, <3>1, <3>2, <3>3, <3>4
  <2>10. ASSUME NEW l \in Handled, NEW k \in DOMAIN u[l], NEW b \in 1 .. n + 1, NEW x \in DOMAIN V[b]
         PROVE  u[l][k] # V[b][x]
    <3>1. PICK L \in Nat : L = Len(t[l]) BY <1>8
    <3>2. c[l] \in Nat /\ c[l] <= L /\ DOMAIN t[l] = 1 .. L /\ k \in 1 .. L - c[l] /\ u[l][k] = t[l][k]
          BY <1>8, <3>1
    <3>3. k \in DOMAIN t[l] /\ t[l] = stacks[l].ids BY <1>6, <3>2
    <3>4. CASE b \in 1 .. n
      <4>1. \A e \in 1 .. n : \A z \in DOMAIN W[e] : stacks[l].ids[k] # W[e][z]
            BY <1>1, <3>3 DEF FilledWith
      <4>2. V[b] = W[b] BY <1>13, <3>4
      <4>3. x \in DOMAIN W[b] BY <4>2
      <4>4. stacks[l].ids[k] # W[b][x] BY <3>4, <4>1, <4>3
      <4> QED BY <3>2, <3>3, <4>2, <4>4
    <3>5. CASE b = n + 1
      <4> SUFFICES ASSUME t[l][k] = w[x] PROVE FALSE BY <1>13, <3>2, <3>5
      <4>1. x \in DOMAIN s /\ w[x] \in OfLength(s[x]) BY <1>4, <1>13, <3>5
      <4>2. PICK j \in DOMAIN stacks[s[x]].ids :
              j > Len(stacks[s[x]].ids) - Times(s, s[x], Len(s)) /\ w[x] = stacks[s[x]].ids[j]
            BY <1>4, <4>1
      <4>3. PICK r : r = t[l] OBVIOUS
      <4>4. r \in Seq(OfLength(l)) /\ IsInjective(r) /\ DOMAIN r = 1 .. L /\ r[k] = w[x]
            BY <1>8, <3>1, <4>3
      <4>5. r[k] \in OfLength(l) BY <3>2, <3>3, <4>3, <4>4
      <4>6. s[x] = l BY <1>3, <4>1, <4>4, <4>5, OfLengthFacts
      <4>7. j \in 1 .. L /\ r[j] = w[x] /\ j > L - c[l] BY <1>5, <3>1, <3>2, <3>3, <4>2, <4>3, <4>6
      <4>8. j = k BY <3>2, <3>3, <4>3, <4>4, <4>7 DEF IsInjective
      <4> QED BY <3>2, <4>7, <4>8
    <3> QED BY <2>5, <3>4, <3>5
  <2>11. ASSUME NEW l \in Handled, NEW i \in OfLength(l)
         PROVE  \/ \E k \in DOMAIN u[l] : u[l][k] = i
                \/ \E b \in 1 .. n + 1 : \E x \in DOMAIN V[b] : V[b][x] = i
    <3>1. PICK L \in Nat : L = Len(t[l]) BY <1>8
    <3>2. /\ c[l] \in Nat /\ c[l] <= L /\ DOMAIN t[l] = 1 .. L /\ DOMAIN u[l] = 1 .. L - c[l]
          /\ t[l] = stacks[l].ids /\ \A k \in 1 .. L - c[l] : u[l][k] = t[l][k]
          BY <1>6, <1>8, <3>1
    <3>3. \/ \E k \in DOMAIN stacks[l].ids : stacks[l].ids[k] = i
          \/ \E b \in 1 .. n : \E x \in DOMAIN W[b] : W[b][x] = i
          BY <1>1 DEF FilledWith
    <3>4. CASE \E b \in 1 .. n : \E x \in DOMAIN W[b] : W[b][x] = i
      <4>1. PICK b \in 1 .. n : \E x \in DOMAIN W[b] : W[b][x] = i BY <3>4
      <4>2. b \in 1 .. n + 1 /\ V[b] = W[b] BY <1>13
      <4> QED BY <4>1, <4>2
    <3>5. ASSUME NEW k \in 1 .. L, t[l][k] = i
          PROVE  \/ \E j \in DOMAIN u[l] : u[l][j] = i
                 \/ \E b \in 1 .. n + 1 : \E x \in DOMAIN V[b] : V[b][x] = i
      <4>1. CASE k <= L - c[l]
        <5>1. k \in 1 .. L - c[l] BY <3>2, <4>1
        <5> QED BY <3>2, <3>5, <5>1
      <4>2. CASE ~(k <= L - c[l])
        <5>1. k > L - c[l] BY <3>2, <4>2
        <5>2. k > Len(stacks[l].ids) - Times(s, l, Len(s)) /\ k \in DOMAIN stacks[l].ids
              BY <1>5, <3>1, <3>2, <5>1
        <5>3. PICK x \in DOMAIN s : w[x] = stacks[l].ids[k] BY <1>4, <5>2
        <5>4. n + 1 \in 1 .. n + 1 /\ x \in DOMAIN V[n + 1] /\ V[n + 1][x] = i
              BY <1>4, <1>13, <3>2, <3>5, <5>3
        <5> QED BY <5>4
      <4> QED BY <4>1, <4>2
    <3> QED BY <3>2, <3>3, <3>4, <3>5
  <2>12. \A l \in Handled : stacks'[l].ids = u[l] BY <1>8
  <2>13. \A l \in Handled : \A k \in DOMAIN stacks'[l].ids :
           \A b \in 1 .. n + 1 : \A x \in DOMAIN V[b] : stacks'[l].ids[k] # V[b][x]
    <3> SUFFICES ASSUME NEW l \in Handled, NEW k \in DOMAIN stacks'[l].ids,
                        NEW b \in 1 .. n + 1, NEW x \in DOMAIN V[b]
                 PROVE  stacks'[l].ids[k] # V[b][x]
        OBVIOUS
    <3>1. stacks'[l].ids = u[l] BY <2>12
    <3>2. k \in DOMAIN u[l] BY <3>1
    <3>3. u[l][k] # V[b][x] BY <2>10, <3>2
    <3> QED BY <3>1, <3>3
  <2>14. \A l \in Handled : \A i \in OfLength(l)' :
           \/ \E k \in DOMAIN stacks'[l].ids : stacks'[l].ids[k] = i
           \/ \E b \in 1 .. n + 1 : \E x \in DOMAIN V[b] : V[b][x] = i
         BY <1>10, <2>11, <2>12
  <2>15. ASSUME NEW b \in 1 .. n + 1
         PROVE  /\ V[b] \in Seq(Samples') /\ DOMAIN V[b] = DOMAIN bins'[b]
                /\ \A x \in DOMAIN bins'[b] :
                     bins'[b][x] \in Handled' /\ V[b][x] \in (OfLength(bins[b][x]))'
    <3>1. bins' = bins BY <1>3
    <3>2. ASSUME NEW x \in DOMAIN bins[b]
          PROVE  bins[b][x] \in Handled /\ V[b][x] \in (OfLength(bins[b][x]))'
      <4>1. (OfLength(bins[b][x]))' = OfLength(bins[b][x]) BY <1>3 DEF OfLength, Samples, Length
      <4> QED BY <2>7, <4>1
    <3> QED BY <1>9, <2>7, <3>1, <3>2
  <2>16. n + 1 \in 0 .. Len(bins') BY <1>3, <2>1
  <2> QED BY <1>9, <1>11, <2>4, <2>9, <2>13, <2>14, <2>15, <2>16 DEF FilledWith
<1> QED BY <1>14, <1>15


LEMMA FillingStays ==
    ASSUME UNCHANGED <<job, ids, masks, bins, stacks, packed>>, StacksSuffice, NEW W, FilledWith(W)
    PROVE  StacksSuffice' /\ FilledWith(W)'
<1>1. Handled' = Handled /\ Samples' = Samples BY DEF Handled, Samples, Length
<1>2. \A l : OfLength(l)' = OfLength(l) BY DEF OfLength, Samples, Length
<1>3. \A l, n : Left(l, n)' = Left(l, n) BY DEF Left
<1>4. StacksSuffice' BY <1>1, <1>2, <1>3 DEF StacksSuffice
<1>5. FilledWith(W)'
  <2>1. \A v : Item(v)' = Item(v) BY DEF Item
  <2>2. packed = [b \in 1 .. Len(packed) |-> Item(W[b])] BY DEF FilledWith
  <2>3. packed' = [b \in 1 .. Len(packed') |-> Item(W[b])'] BY <2>1, <2>2
  <2>4. ASSUME NEW b \in 1 .. Len(packed)
        PROVE  /\ W[b] \in Seq(Samples') /\ DOMAIN W[b] = DOMAIN bins'[b]
               /\ \A x \in DOMAIN bins'[b] :
                    bins'[b][x] \in Handled' /\ W[b][x] \in (OfLength(bins[b][x]))'
    <3>1. /\ W[b] \in Seq(Samples) /\ DOMAIN W[b] = DOMAIN bins[b]
          /\ \A x \in DOMAIN bins[b] : bins[b][x] \in Handled /\ W[b][x] \in OfLength(bins[b][x])
          BY DEF FilledWith
    <3>2. ASSUME NEW x \in DOMAIN bins[b] PROVE (OfLength(bins[b][x]))' = OfLength(bins[b][x])
          BY DEF OfLength, Samples, Length
    <3> QED BY <1>1, <3>1, <3>2
  <2>5. /\ Len(packed) \in 0 .. Len(bins)
        /\ \A b, c \in 1 .. Len(packed) : \A x \in DOMAIN W[b] : \A y \in DOMAIN W[c] :
             W[b][x] = W[c][y] => b = c /\ x = y
        /\ \A l \in Handled : \A k \in DOMAIN stacks[l].ids :
             \A b \in 1 .. Len(packed) : \A x \in DOMAIN W[b] : stacks[l].ids[k] # W[b][x]
        /\ \A l \in Handled : \A i \in OfLength(l) :
             \/ \E k \in DOMAIN stacks[l].ids : stacks[l].ids[k] = i
             \/ \E b \in 1 .. Len(packed) : \E x \in DOMAIN W[b] : W[b][x] = i
        BY DEF FilledWith
  <2>6. \A b \in 1 .. Len(packed') :
          /\ W[b] \in Seq(Samples') /\ DOMAIN W[b] = DOMAIN bins'[b]
          /\ \A x \in DOMAIN bins'[b] : bins'[b][x] \in Handled' /\ W[b][x] \in OfLength(bins[b][x])'
        BY <2>4
  <2>7. Len(packed') \in 0 .. Len(bins') BY <2>5
  <2>8. \A l \in Handled' : \A k \in DOMAIN stacks'[l].ids :
          \A b \in 1 .. Len(packed') : \A x \in DOMAIN W[b] : stacks'[l].ids[k] # W[b][x]
        BY <1>1, <2>5
  <2>9. \A l \in Handled' : \A i \in OfLength(l)' :
          \/ \E k \in DOMAIN stacks'[l].ids : stacks'[l].ids[k] = i
          \/ \E b \in 1 .. Len(packed') : \E x \in DOMAIN W[b] : W[b][x] = i
        BY <1>1, <1>2, <2>5
  <2>10. \A b, c \in 1 .. Len(packed') : \A x \in DOMAIN W[b] : \A y \in DOMAIN W[c] :
           W[b][x] = W[c][y] => b = c /\ x = y
         BY <2>5
  <2> QED BY <2>3, <2>6, <2>7, <2>8, <2>9, <2>10 DEF FilledWith
<1> QED BY <1>4, <1>5

LEMMA FillingStep ==
    ASSUME Filling, AllPlaced, PreparedFirst, BinsInv, [Next]_vars
    PROVE  Filling'
<1>1. CASE Tokenize \/ Order \/ Place
  <2>1. stage' \in {"tokenize", "pack", "raised"} BY <1>1 DEF Tokenize, Order, Place
  <2> QED BY <2>1 DEF Filling
<1>2. CASE Handle
  <2>1. stage' \in {"fill", "raised"} BY <1>2 DEF Handle
  <2>2. stage' = "fill" => (StacksSuffice /\ \E W : FilledWith(W))' BY <1>2, HandleFills
  <2> QED BY <2>1, <2>2 DEF Filling
<1>3. CASE Fill
  <2>1. stage = "fill" /\ stage' \in {"fill", "raised"} BY <1>3 DEF Fill
  <2>2. StacksSuffice /\ \E W : FilledWith(W) BY <2>1 DEF Filling
  <2>3. stage' = "fill" => (StacksSuffice /\ \E W : FilledWith(W))' BY <1>3, <2>2, FillFills
  <2> QED BY <2>1, <2>3 DEF Filling
<1>4. CASE Save \/ UNCHANGED vars
  <2>1. /\ UNCHANGED <<job, ids, masks, bins, stacks, packed>>
        /\ stage' = stage \/ (stage = "fill" /\ stage' \in {"done", "raised"})
        BY <1>4 DEF Save, vars
  <2>2. CASE stage' \in {"fill", "done"}
    <3>1. stage \in {"fill", "done"} BY <2>1, <2>2
    <3>2. PICK W : StacksSuffice /\ FilledWith(W) BY <3>1 DEF Filling
    <3>3. StacksSuffice' /\ FilledWith(W)' BY <2>1, <3>2, FillingStays
    <3>4. stage' = "done" => Len(packed) = Len(bins) /\ \A l \in Handled : stacks[l].ids = <<>>
      <4>1. CASE Save BY <4>1, <3>2 DEF Save, StacksSuffice
      <4>2. CASE UNCHANGED vars BY <4>2 DEF vars, Filling
      <4> QED BY <1>4, <4>1, <4>2
    <3>5. Handled' = Handled BY <2>1 DEF Handled, Samples, Length
    <3> QED BY <2>1, <3>3, <3>4, <3>5 DEF Filling
  <2>3. CASE stage' \notin {"fill", "done"} BY <2>3 DEF Filling
  <2> QED BY <2>2, <2>3
<1> QED BY <1>1, <1>2, <1>3, <1>4 DEF Next

PackingInv == PreparedFirst /\ BinsInv /\ AllPlaced /\ Filling

LEMMA AlwaysPackingInv == Spec => []PackingInv
<1>1. Init => AllPlaced /\ Filling BY DEF Init, AllPlaced, Filling
<1>2. PreparedFirst /\ BinsInv /\ AllPlaced /\ Filling /\ [Next]_vars => AllPlaced' /\ Filling'
      BY AllPlacedStep, FillingStep
<1> QED BY <1>1, <1>2, AlwaysBinsInv, PTL DEF Spec, PackingInv


-----------------------------------------------------------------------------
(* Rows.                                                                   *)

LEMMA MinOfTwo == ASSUME NEW a \in Int, NEW b \in Int, a <= b PROVE Min({a, b}) = a
<1>1. a \in {a, b} /\ \A y \in {a, b} : a <= y OBVIOUS
<1>2. \A x \in {a, b} : (\A y \in {a, b} : x <= y) => x = a OBVIOUS
<1> QED BY <1>1, <1>2 DEF Min

\* F is the sequences t, of lengths L, end to end; M is each length less one.
Sliced(S, n, L, P, M, Q, t, F, item, from, to) ==
    /\ n \in Nat \ {0} /\ \A k \in 1 .. n : L[k] \in Nat \ {0} /\ M[k] = L[k] - 1 /\ Len(t[k]) = L[k]
    /\ Partial(P, L, n) /\ Partial(Q, M, n)
    /\ F \in Seq(S) /\ EndToEnd(F, t, P, n)
    /\ DOMAIN item.starts = 1 .. n /\ \A x \in 1 .. n + 1 : Bounds(item)[x] = P[x - 1]
    /\ from \in {0, 1} /\ to \in Int /\ to = from - 1

\* G is what the sequences t have after their first from elements, of lengths M, end to end.
Lying(G, S, n, M, Q, t, from) ==
    /\ G \in Seq(S) /\ Len(G) = Q[n]
    /\ \A k \in 1 .. n : \A j \in 1 .. M[k] :
         Q[k - 1] + j \in 1 .. Q[n] /\ G[Q[k - 1] + j] = t[k][from + j]
    /\ \A p \in 1 .. Q[n] : \E k \in 1 .. n : \E j \in 1 .. M[k] : p = Q[k - 1] + j

\* Slices one shorter than what they are cut from lie end to end themselves.
LEMMA SlicesPlaces ==
    ASSUME NEW S, NEW n, NEW L, NEW P, NEW M, NEW Q, NEW t, NEW F, NEW item, NEW from, NEW to,
           Sliced(S, n, L, P, M, Q, t, F, item, from, to)
    PROVE  Lying(Slices(item, F, from, to), S, n, M, Q, t, from)
<1> DEFINE last(x) == Min({Bounds(item)[x + 1] + to, Len(F)})
           u == [x \in DOMAIN item.starts |-> SubSeq(F, Bounds(item)[x] + 1 + from, last(x))]
<1>0. /\ n \in Nat \ {0} /\ \A k \in 1 .. n : L[k] \in Nat \ {0} /\ M[k] = L[k] - 1 /\ Len(t[k]) = L[k]
      /\ Partial(P, L, n) /\ Partial(Q, M, n)
      /\ F \in Seq(S) /\ EndToEnd(F, t, P, n)
      /\ DOMAIN item.starts = 1 .. n /\ \A x \in 1 .. n + 1 : Bounds(item)[x] = P[x - 1]
      /\ from \in {0, 1} /\ to \in Int /\ to = from - 1
      BY DEF Sliced
<1> USE <1>0
<1>1. Slices(item, F, from, to) = FlattenSeq(u) BY DEF Slices
<1>2. \A k \in 1 .. n : L[k] \in Nat /\ M[k] \in Nat OBVIOUS
<1>3. \A k \in 0 .. n : P[k] \in Nat BY <1>2, PartialsAreNumbers
<1>4. Len(F) = P[n] BY DEF EndToEnd
<1>5. ASSUME NEW x \in 1 .. n
      PROVE  /\ u[x] \in Seq(S) /\ Len(u[x]) = M[x]
             /\ \A j \in 1 .. M[x] : u[x][j] = t[x][from + j]
  <2>1. PICK a : a = P[x - 1] OBVIOUS
  <2>2. PICK z : z = P[x] OBVIOUS
  <2>3. x - 1 \in 0 .. n /\ x \in 0 .. n /\ x + 1 \in 1 .. n + 1 /\ (x + 1) - 1 = x /\ x \in 1 .. n + 1
        OBVIOUS
  <2>4. a \in Nat /\ z \in Nat /\ L[x] \in Nat \ {0} BY <1>3, <2>1, <2>2, <2>3
  <2>5. z = a + L[x] BY <2>1, <2>2 DEF Partial
  <2>6. z <= P[n] /\ P[n] \in Nat
    <3>1. \A k \in x .. n : P[x] <= P[k] BY <1>2, <2>3, PartialsGrow
    <3>2. n \in x .. n /\ n \in 0 .. n OBVIOUS
    <3> QED BY <1>3, <2>2, <3>1, <3>2
  <2>7. Bounds(item)[x] = a /\ Bounds(item)[x + 1] = z BY <2>1, <2>2, <2>3
  <2>8. last(x) = z + to
    <3>1. z + to \in Int /\ Len(F) \in Int /\ z + to <= Len(F) BY <1>4, <2>4, <2>6
    <3> QED BY <2>7, <3>1, MinOfTwo
  <2>9. u[x] = SubSeq(F, a + 1 + from, z + to) BY <2>7, <2>8
  <2>10. PICK f : f = a + from OBVIOUS
  <2>11. PICK m : m = M[x] OBVIOUS
  <2>12. m = L[x] - 1 /\ from \in Nat /\ to = from - 1 BY <2>11
  <2>13. f \in Nat /\ m \in Nat /\ f + m = z + to
    <3>1. PICK l \in Nat \ {0} : l = L[x] BY <2>4
    <3>2. z = a + l /\ m = l - 1 BY <2>5, <2>12, <3>1
    <3>3. m \in Nat BY <3>2
    <3>4. f \in Nat BY <2>4, <2>10, <2>12
    <3> QED BY ONLY <2>4, <2>10, <2>12, <3>2, <3>3, <3>4, l \in Nat
  <2>14. f + m <= Len(F)
    <3>1. z + to <= P[n] BY <2>4, <2>6, <2>12
    <3> QED BY <1>4, <2>13, <3>1
  <2>15. u[x] = SubSeq(F, f + 1, f + m)
    <3>1. a + 1 + from = f + 1 BY <2>4, <2>10, <2>12
    <3> HIDE DEF u
    <3> QED BY <2>9, <2>13, <3>1
  <2>16. ASSUME NEW j \in 1 .. m PROVE F[f + j] = t[x][from + j]
    <3>1. from + j \in 1 .. L[x] /\ f + j = a + (from + j)
      <4>1. PICK l \in Nat \ {0} : l = L[x] BY <2>4
      <4>2. m = l - 1 /\ j \in 1 .. m /\ from \in {0, 1} /\ a \in Nat BY <2>4, <2>12, <4>1
      <4>3. from + j \in 1 .. l /\ f + j = a + (from + j) BY ONLY <2>10, <4>2, l \in Nat
      <4> QED BY <4>1, <4>3
    <3>2. F[P[x - 1] + (from + j)] = t[x][from + j] BY <3>1 DEF EndToEnd
    <3> QED BY <2>1, <3>1, <3>2
  <2>17. /\ SubSeq(F, f + 1, f + m) \in Seq(S) /\ Len(SubSeq(F, f + 1, f + m)) = m
         /\ \A j \in 1 .. m : SubSeq(F, f + 1, f + m)[j] = F[f + j]
         BY <2>13, <2>14, CutFacts
  <2> HIDE DEF u
  <2> QED BY <2>11, <2>15, <2>16, <2>17
<1>6. DOMAIN u = 1 .. n /\ Len(u) = n OBVIOUS
<1> HIDE DEF u, last
<1>7. FlattenSeq(u) \in Seq(S) /\ EndToEnd(FlattenSeq(u), u, Q, n)
  <2>1. \A k \in 1 .. n : u[k] \in Seq(S) /\ M[k] = Len(u[k]) BY <1>5
  <2> QED BY <1>6, <2>1, FlattenPlaces
<1>8. PICK G : G = FlattenSeq(u) OBVIOUS
<1>9. /\ Len(G) = Q[n]
      /\ \A k \in 1 .. n : \A x \in 1 .. Len(u[k]) :
           Q[k - 1] + x \in 1 .. Q[n] /\ G[Q[k - 1] + x] = u[k][x]
      /\ \A p \in 1 .. Q[n] : \E k \in 1 .. n : \E x \in 1 .. Len(u[k]) : p = Q[k - 1] + x
      BY <1>7, <1>8 DEF EndToEnd
<1>10. ASSUME NEW k \in 1 .. n, NEW j \in 1 .. M[k]
       PROVE  Q[k - 1] + j \in 1 .. Q[n] /\ G[Q[k - 1] + j] = t[k][from + j]
  <2>1. Len(u[k]) = M[k] /\ u[k][j] = t[k][from + j] BY <1>5
  <2>2. j \in 1 .. Len(u[k]) BY <2>1
  <2> QED BY <1>9, <2>1, <2>2
<1>11. ASSUME NEW p \in 1 .. Q[n] PROVE \E k \in 1 .. n : \E j \in 1 .. M[k] : p = Q[k - 1] + j
  <2>1. PICK k \in 1 .. n : \E x \in 1 .. Len(u[k]) : p = Q[k - 1] + x BY <1>9
  <2>2. Len(u[k]) = M[k] BY <1>5
  <2> QED BY <2>1, <2>2
<1>12. G \in Seq(S) /\ Len(G) = Q[n] BY <1>7, <1>8, <1>9
<1>13. Lying(G, S, n, M, Q, t, from) BY ONLY <1>10, <1>11, <1>12, Zenon DEF Lying
<1>14. Slices(item, F, from, to) = G BY <1>1, <1>8
<1> QED BY ONLY <1>13, <1>14

\* L is how many tokens the samples w have, P their running sums.
Measured(w, n, L, P) ==
    /\ w \in Seq(Samples) /\ n \in Nat \ {0} /\ Len(w) = n
    /\ L = [k \in 1 .. n |-> Len(ids[w[k]])]
    /\ P = [k \in 0 .. n |-> SumOf([y \in 1 .. k |-> L[y]])]

\* Where the samples w are in the sequences packed of them.
LEMMA ItemFacts ==
    ASSUME PreparedFirst, ids # <<>>, NEW w, NEW n, NEW L, NEW P, Measured(w, n, L, P)
    PROVE  /\ Partial(P, L, n) /\ \A k \in 1 .. n : L[k] \in Nat \ {0}
           /\ Item(w).ids \in Seq(Nat \X Nat)
           /\ EndToEnd(Item(w).ids, [x \in 1 .. n |-> ids[w[x]]], P, n)
           /\ (\A i \in Samples : Len(masks[i]) = Len(ids[i])) =>
                /\ Item(w).mask \in Seq(BOOLEAN)
                /\ EndToEnd(Item(w).mask, [x \in 1 .. n |-> masks[w[x]]], P, n)
           /\ DOMAIN Item(w).starts = 1 .. n
           /\ \A x \in 1 .. n + 1 : Bounds(Item(w))[x] = P[x - 1]
<1> DEFINE t == [x \in 1 .. n |-> ids[w[x]]]
           m == [x \in 1 .. n |-> masks[w[x]]]
           starts == [x \in 1 .. n |-> Sum([y \in 1 .. x - 1 |-> Len(ids[w[y]])])]
<1>0. /\ w \in Seq(Samples) /\ n \in Nat \ {0} /\ Len(w) = n
      /\ L = [k \in 1 .. n |-> Len(ids[w[k]])]
      /\ P = [k \in 0 .. n |-> SumOf([y \in 1 .. k |-> L[y]])]
      BY DEF Measured
<1> USE <1>0
<1>1. DOMAIN w = 1 .. n /\ \A x \in 1 .. n : w[x] \in Samples OBVIOUS
<1>2. Item(w).ids = FlattenSeq(t) /\ Item(w).mask = FlattenSeq(m) /\ Item(w).starts = starts
      BY <1>1 DEF Item
<1>3. ASSUME NEW x \in 1 .. n
      PROVE  t[x] \in Seq(Nat \X Nat) /\ L[x] = Len(t[x]) /\ L[x] \in Nat \ {0} /\ m[x] \in Seq(BOOLEAN)
             /\ m[x] = masks[w[x]] /\ t[x] = ids[w[x]]
  <2>1. PICK i \in Samples : i = w[x] BY <1>1
  <2>2. ids[i] = Tokens(i) /\ masks[i] = Mask(i, Tokens(i)) BY LengthFacts
  <2>3. Tokens(i) \in Seq(Nat \X Nat) /\ Len(Tokens(i)) \in Nat \ {0} BY TokensFacts DEF PreparedFirst
  <2>4. Mask(i, Tokens(i)) \in Seq(BOOLEAN) BY MaskFacts DEF PreparedFirst
  <2> QED BY <2>1, <2>2, <2>3, <2>4
<1>4. DOMAIN t = 1 .. n /\ Len(t) = n /\ DOMAIN m = 1 .. n /\ Len(m) = n OBVIOUS
<1>5. DOMAIN L = 1 .. n /\ \A k \in 1 .. n : L[k] \in Nat BY <1>3
<1>6. \A k \in 0 .. n : P[k] = SumOf([y \in 1 .. k |-> L[y]]) OBVIOUS
<1>7. Partial(P, L, n) /\ \A k \in 0 .. n : P[k] \in Nat
  <2>1. n \in Nat OBVIOUS
  <2> QED BY ONLY <1>5, <1>6, <2>1, PartialSums
<1> HIDE DEF t, m
<1>8. FlattenSeq(t) \in Seq(Nat \X Nat) /\ EndToEnd(FlattenSeq(t), t, P, n)
      BY <1>3, <1>4, <1>7, FlattenPlaces
<1>9. ASSUME \A i \in Samples : Len(masks[i]) = Len(ids[i])
      PROVE  FlattenSeq(m) \in Seq(BOOLEAN) /\ EndToEnd(FlattenSeq(m), m, P, n)
  <2>1. \A x \in 1 .. n : m[x] \in Seq(BOOLEAN) /\ L[x] = Len(m[x]) BY <1>1, <1>3, <1>9
  <2> QED BY <1>4, <1>7, <2>1, FlattenPlaces
<1>10. ASSUME NEW x \in 1 .. n PROVE starts[x] = P[x - 1]
  <2>1. x - 1 \in 0 .. n OBVIOUS
  <2>2. PICK k \in 0 .. n : k = x - 1 BY <2>1
  <2> DEFINE a == [y \in 1 .. k |-> Len(ids[w[y]])]
             b == [y \in 1 .. k |-> L[y]]
  <2>3. \A y \in 1 .. k : L[y] = Len(ids[w[y]]) BY <1>3
  <2>4. a = b BY <2>3
  <2>5. starts[x] = Sum(a) BY <2>2
  <2>6. P[k] = SumOf(b) BY <1>6
  <2> HIDE DEF a, b, starts
  <2> QED BY <2>2, <2>4, <2>5, <2>6, SumIsSumOf
<1>11. ASSUME NEW x \in 1 .. n + 1 PROVE Bounds(Item(w))[x] = P[x - 1]
  <2>1. Len(Item(w).ids) = P[n] BY <1>2, <1>8 DEF EndToEnd
  <2>2. P[n] \in Nat BY <1>7
  <2>3. Bounds(Item(w)) = Append(starts, P[n]) BY <1>2, <2>1 DEF Bounds
  <2>4. starts \in Seq(Nat) /\ Len(starts) = n
    <3>1. \A k \in 1 .. n : starts[k] \in Nat
      <4>1. \A k \in 1 .. n : k - 1 \in 0 .. n OBVIOUS
      <4> HIDE DEF starts
      <4> QED BY <1>7, <1>10, <4>1
    <3>2. starts = [k \in 1 .. n |-> starts[k]] /\ n \in Nat OBVIOUS
    <3> HIDE DEF starts
    <3>3. PICK f : f = starts OBVIOUS
    <3>4. f = [k \in 1 .. n |-> f[k]] /\ \A k \in 1 .. n : f[k] \in Nat BY <3>1, <3>2, <3>3
    <3>5. f \in Seq(Nat) /\ Len(f) = n BY ONLY <3>2, <3>4
    <3> QED BY <3>3, <3>5
  <2> HIDE DEF starts
  <2>5. CASE x = n + 1 BY <2>2, <2>3, <2>4, <2>5
  <2>6. CASE x # n + 1
    <3>1. x \in 1 .. n BY <2>6
    <3>2. Append(starts, P[n])[x] = starts[x] BY <2>2, <2>4, <3>1
    <3> QED BY <1>10, <2>3, <3>1, <3>2
  <2> QED BY <2>5, <2>6
<1>12. DOMAIN starts = 1 .. n OBVIOUS
<1> HIDE DEF starts
<1> QED BY <1>2, <1>3, <1>7, <1>8, <1>9, <1>11, <1>12 DEF t, m


\* The row the training loop gets of the samples w; M is their lengths, Q the running sums.
RowOf(w, n, M, Q, row) ==
    /\ w \in Seq(Samples) /\ n \in Nat \ {0} /\ Len(w) = n
    /\ \A k \in 1 .. n : M[k] = Length(w[k])
    /\ Partial(Q, M, n) /\ row = Row(Item(w))

RowPlaces(w, n, M, Q, row) ==
    /\ row.tokens \in Seq(Nat \X Nat) /\ Len(row.tokens) = Q[n]
    /\ row.labels \in Seq(Nat \X Nat) /\ Len(row.labels) = Q[n]
    /\ \A k \in 1 .. n : \A j \in 1 .. M[k] :
         /\ Q[k - 1] + j \in 1 .. Q[n]
         /\ row.tokens[Q[k - 1] + j] = ids[w[k]][j]
         /\ row.labels[Q[k - 1] + j] = ids[w[k]][1 + j]
         /\ (\A i \in Samples : Len(masks[i]) = Len(ids[i])) =>
              row.loss[Q[k - 1] + j] = (masks[w[k]][j] /\ ids[w[k]][j] # Pad)
    /\ \A p \in 1 .. Q[n] : \E k \in 1 .. n : \E j \in 1 .. M[k] : p = Q[k - 1] + j
    /\ \A k \in 1 .. n : k \in 1 .. Len(row.cu) - 1 /\ row.cu[k] = Q[k - 1] /\ row.cu[k + 1] = Q[k]

\* Where the samples are in it.
LEMMA RowFacts ==
    ASSUME PreparedFirst, ids # <<>>, NEW w, NEW n, NEW M, NEW Q, NEW row, RowOf(w, n, M, Q, row)
    PROVE  RowPlaces(w, n, M, Q, row)
<1>0. /\ w \in Seq(Samples) /\ n \in Nat \ {0} /\ Len(w) = n
      /\ \A k \in 1 .. n : M[k] = Length(w[k])
      /\ Partial(Q, M, n) /\ row = Row(Item(w))
      BY DEF RowOf
<1> USE <1>0
<1>1. PICK L : L = [k \in 1 .. n |-> Len(ids[w[k]])] OBVIOUS
<1>2. PICK P : P = [k \in 0 .. n |-> SumOf([y \in 1 .. k |-> L[y]])] OBVIOUS
<1>3. PICK item : item = Item(w) OBVIOUS
<1>4. PICK t : t = [x \in 1 .. n |-> ids[w[x]]] OBVIOUS
<1>5. PICK m : m = [x \in 1 .. n |-> masks[w[x]]] OBVIOUS
<1>6. /\ Partial(P, L, n) /\ \A k \in 1 .. n : L[k] \in Nat \ {0}
      /\ item.ids \in Seq(Nat \X Nat) /\ EndToEnd(item.ids, t, P, n)
      /\ (\A i \in Samples : Len(masks[i]) = Len(ids[i])) =>
           item.mask \in Seq(BOOLEAN) /\ EndToEnd(item.mask, m, P, n)
      /\ DOMAIN item.starts = 1 .. n
      /\ \A x \in 1 .. n + 1 : Bounds(item)[x] = P[x - 1]
  <2>1. /\ Partial(P, L, n) /\ \A k \in 1 .. n : L[k] \in Nat \ {0}
        /\ Item(w).ids \in Seq(Nat \X Nat)
        /\ EndToEnd(Item(w).ids, [x \in 1 .. n |-> ids[w[x]]], P, n)
        /\ (\A i \in Samples : Len(masks[i]) = Len(ids[i])) =>
             /\ Item(w).mask \in Seq(BOOLEAN)
             /\ EndToEnd(Item(w).mask, [x \in 1 .. n |-> masks[w[x]]], P, n)
        /\ DOMAIN Item(w).starts = 1 .. n
        /\ \A x \in 1 .. n + 1 : Bounds(Item(w))[x] = P[x - 1]
    <3>1. Measured(w, n, L, P) BY <1>1, <1>2 DEF Measured
    <3> QED BY ONLY PreparedFirst, ids # <<>>, <3>1, ItemFacts
  <2> QED BY ONLY <2>1, <1>3, <1>4, <1>5
<1>7. ASSUME NEW k \in 1 .. n
      PROVE  w[k] \in Samples /\ Len(t[k]) = L[k] /\ M[k] = L[k] - 1 /\ M[k] \in Nat
  <2>1. w[k] \in Samples OBVIOUS
  <2>2. PICK i \in Samples : i = w[k] BY <2>1
  <2>3. Length(i) \in Nat /\ Len(ids[i]) = Length(i) + 1 BY LengthFacts
  <2>4. t[k] = ids[i] /\ L[k] = Len(ids[i]) /\ M[k] = Length(i) BY <1>1, <1>4, <2>2
  <2> QED BY <2>1, <2>3, <2>4
<1>8. /\ row.tokens = Slices(item, item.ids, 0, -1) /\ row.labels = Slices(item, item.ids, 1, 0)
      /\ row.loss = [x \in DOMAIN row.tokens |->
                        LET mask == Slices(item, item.mask, 0, -1)
                        IN x <= Len(mask) /\ mask[x] /\ row.tokens[x] # Pad]
      /\ row.cu = CuSeqlens(item, job.pack)
      BY <1>3 DEF Row
<1>9. \A k \in 1 .. n : L[k] \in Nat \ {0} /\ M[k] = L[k] - 1 /\ Len(t[k]) = L[k] BY <1>6, <1>7
<1>10. /\ 0 \in {0, 1} /\ -1 \in Int /\ -1 = 0 - 1 /\ 1 \in {0, 1} /\ 0 \in Int /\ 0 = 1 - 1
       /\ \A j \in Nat : 0 + j = j
  OBVIOUS
<1>11. ASSUME NEW F, NEW S, NEW v, NEW from, NEW to, F \in Seq(S), EndToEnd(F, v, P, n),
              \A k \in 1 .. n : Len(v[k]) = L[k], from \in {0, 1}, to \in Int, to = from - 1
       PROVE  Lying(Slices(item, F, from, to), S, n, M, Q, v, from)
  <2>1. Sliced(S, n, L, P, M, Q, v, F, item, from, to) BY <1>6, <1>9, <1>11 DEF Sliced
  <2> QED BY ONLY <2>1, SlicesPlaces
<1>12. item.ids \in Seq(Nat \X Nat) /\ EndToEnd(item.ids, t, P, n) /\ \A k \in 1 .. n : Len(t[k]) = L[k]
  BY <1>6, <1>9
<1>13. Lying(row.tokens, Nat \X Nat, n, M, Q, t, 0)
  <2>1. Lying(Slices(item, item.ids, 0, -1), Nat \X Nat, n, M, Q, t, 0) BY ONLY <1>10, <1>11, <1>12
  <2> QED BY <1>8, <2>1
<1>14. Lying(row.labels, Nat \X Nat, n, M, Q, t, 1)
  <2>1. Lying(Slices(item, item.ids, 1, 0), Nat \X Nat, n, M, Q, t, 1) BY ONLY <1>10, <1>11, <1>12
  <2> QED BY <1>8, <2>1
<1>15. ASSUME \A i \in Samples : Len(masks[i]) = Len(ids[i])
       PROVE  Lying(Slices(item, item.mask, 0, -1), BOOLEAN, n, M, Q, m, 0)
  <2>1. \A k \in 1 .. n : Len(m[k]) = L[k] BY <1>1, <1>5, <1>7, <1>15
  <2>2. item.mask \in Seq(BOOLEAN) /\ EndToEnd(item.mask, m, P, n) BY <1>6, <1>15
  <2> QED BY ONLY <1>10, <1>11, <2>1, <2>2
<1>16. \A k \in 0 .. n : Q[k] \in Nat
  <2>1. \A k \in 1 .. n : M[k] \in Nat BY <1>7
  <2> QED BY <2>1, PartialsAreNumbers
<1>17. ASSUME NEW k \in 1 .. n, NEW j \in 1 .. M[k]
       PROVE  /\ Q[k - 1] + j \in 1 .. Q[n]
              /\ row.tokens[Q[k - 1] + j] = ids[w[k]][j]
              /\ row.labels[Q[k - 1] + j] = ids[w[k]][1 + j]
              /\ (\A i \in Samples : Len(masks[i]) = Len(ids[i])) =>
                   row.loss[Q[k - 1] + j] = (masks[w[k]][j] /\ ids[w[k]][j] # Pad)
  <2>1. PICK p : p = Q[k - 1] + j OBVIOUS
  <2>2. j \in Nat /\ 0 + j = j BY <1>7
  <2>3. p \in 1 .. Q[n] /\ row.tokens[p] = t[k][j]
    <3>1. p \in 1 .. Q[n] /\ row.tokens[p] = t[k][0 + j] BY <1>13, <2>1 DEF Lying
    <3> QED BY ONLY <3>1, <2>2, <1>10
  <2>4. row.labels[p] = t[k][1 + j] BY <1>14, <2>1 DEF Lying
  <2>5. t[k] = ids[w[k]] /\ m[k] = masks[w[k]] BY <1>4, <1>5
  <2>6. ASSUME \A i \in Samples : Len(masks[i]) = Len(ids[i])
        PROVE  row.loss[p] = (masks[w[k]][j] /\ ids[w[k]][j] # Pad)
    <3>1. PICK g : g = Slices(item, item.mask, 0, -1) OBVIOUS
    <3>2. Len(g) = Q[n] /\ g[p] = m[k][j]
      <4>1. Len(g) = Q[n] /\ g[p] = m[k][0 + j] BY <1>15, <2>1, <2>6, <3>1 DEF Lying
      <4> QED BY ONLY <4>1, <2>2, <1>10
    <3>3. Q[n] \in Nat
      <4>1. n \in 0 .. n OBVIOUS
      <4> QED BY <1>16, <4>1
    <3>4. p <= Len(g) BY <2>3, <3>2, <3>3
    <3>5. p \in DOMAIN row.tokens
      <4>1. PICK f \in Seq(Nat \X Nat) : f = row.tokens BY <1>13 DEF Lying
      <4>2. Len(f) = Q[n] BY <1>13, <4>1 DEF Lying
      <4>3. p \in DOMAIN f BY <2>3, <4>2
      <4> QED BY <4>1, <4>3
    <3>6. row.loss[p] = (p <= Len(g) /\ g[p] /\ row.tokens[p] # Pad) BY <1>8, <3>1, <3>5
    <3> QED BY <2>3, <2>5, <3>2, <3>4, <3>6
  <2> QED BY <2>1, <2>3, <2>4, <2>5, <2>6
<1>18. ASSUME NEW k \in 1 .. n
       PROVE  k \in 1 .. Len(row.cu) - 1 /\ row.cu[k] = Q[k - 1] /\ row.cu[k + 1] = Q[k]
  <2>1. Len(item.starts) = n
    <3>1. item.starts = [x \in DOMAIN w |-> Sum([y \in 1 .. x - 1 |-> Len(ids[w[y]])])]
          BY <1>3 DEF Item
    <3>2. DOMAIN w = 1 .. n OBVIOUS
    <3> QED BY <3>1, <3>2
  <2>2. PICK cu : cu = [x \in 1 .. n + 1 |-> Bounds(item)[x] - (x - 1)] OBVIOUS
  <2>3. row.cu = cu \/ row.cu = Append(cu, job.pack) BY <1>8, <2>1, <2>2 DEF CuSeqlens
  <2>4. \A x \in 0 .. n : P[x] = Q[x] + x
    <3>1. OneLarger(L, M, n)
      <4>1. ASSUME NEW x \in 1 .. n PROVE L[x] \in Nat /\ M[x] \in Nat /\ L[x] = M[x] + 1
        <5>1. PICK l \in Nat \ {0} : l = L[x] BY <1>6
        <5>2. M[x] = l - 1 BY <1>9, <5>1
        <5> QED BY ONLY <5>1, <5>2
      <4> QED BY <4>1 DEF OneLarger
    <3>2. Partial(P, L, n) /\ Partial(Q, M, n) /\ n \in Nat BY <1>6
    <3> QED BY ONLY <3>1, <3>2, PartialsDrift
  <2>5. ASSUME NEW x \in 1 .. n + 1 PROVE cu[x] = Q[x - 1]
    <3>1. x - 1 \in 0 .. n OBVIOUS
    <3>2. PICK y \in 0 .. n : y = x - 1 BY <3>1
    <3>3. cu[x] = P[y] - y BY <1>6, <2>2, <3>2
    <3>4. P[y] = Q[y] + y /\ Q[y] \in Nat BY <1>16, <2>4
    <3> QED BY <3>2, <3>3, <3>4
  <2>6. cu \in Seq(Nat) /\ Len(cu) = n + 1 /\ DOMAIN cu = 1 .. n + 1
    <3>1. \A x \in 1 .. n + 1 : x - 1 \in 0 .. n OBVIOUS
    <3>2. \A x \in 1 .. n + 1 : cu[x] \in Nat BY <1>16, <2>5, <3>1
    <3>3. cu = [x \in 1 .. n + 1 |-> cu[x]] /\ n + 1 \in Nat BY <2>2
    <3> QED BY ONLY <3>2, <3>3
  <2>7. job.pack \in Nat BY JobAssumption DEF PreparedFirst
  <2>8. k \in 1 .. n + 1 /\ k + 1 \in 1 .. n + 1 /\ (k + 1) - 1 = k OBVIOUS
  <2>9. cu[k] = Q[k - 1] /\ cu[k + 1] = Q[k] BY <2>5, <2>8
  <2>10. CASE row.cu = cu BY <2>6, <2>8, <2>9, <2>10
  <2>11. CASE row.cu = Append(cu, job.pack)
    <3>1. /\ Len(Append(cu, job.pack)) = n + 2
          /\ \A x \in 1 .. n + 1 : Append(cu, job.pack)[x] = cu[x]
          BY <2>6, <2>7
    <3> QED BY <2>8, <2>9, <2>11, <3>1
  <2> QED BY <2>3, <2>10, <2>11
<1> QED BY <1>13, <1>14, <1>17, <1>18 DEF Lying, RowPlaces


-----------------------------------------------------------------------------
(* A row serves the samples packed in it.                                  *)

\* In the row, sequence c is sample i's.
Serves(row, c, i) ==
    /\ c \in 1 .. Len(row.cu) - 1
    /\ row.cu[c + 1] - row.cu[c] = Length(i)
    /\ SubSeq(row.tokens, row.cu[c] + 1, row.cu[c + 1]) = SubSeq(ids[i], 1, Length(i))
    /\ SubSeq(row.labels, row.cu[c] + 1, row.cu[c + 1]) = SubSeq(ids[i], 2, Length(i) + 1)
    /\ ~CutApart => \A x \in 1 .. Length(i) :
         row.loss[row.cu[c] + x] = (ids[i][x] # Pad /\ x >= job.samples[i].answer)

\* Samples a bin was filled with, and their lengths.
BinOf(w, n, M) ==
    /\ w \in Seq(Samples) /\ n \in Nat \ {0} /\ Len(w) = n
    /\ M \in Seq(Nat) /\ Len(M) = n /\ \A k \in 1 .. n : M[k] = Length(w[k])

\* The row serves every sample packed in it, and no other.
ServesAll(row, w, n, M) ==
    /\ row.tokens \in Seq(Nat \X Nat) /\ Len(row.tokens) = Sum(M)
    /\ \A k \in 1 .. n : Serves(row, k, w[k])
    /\ \A k \in 1 .. n : M[k] > 0 => \E p \in DOMAIN row.tokens : row.tokens[p] = <<w[k], 0>>
    /\ \A i \in Samples : \A p \in DOMAIN row.tokens :
         row.tokens[p] = <<i, 0>> => \E k \in 1 .. n : w[k] = i

LEMMA BinRow ==
    ASSUME PreparedFirst, ids # <<>>, NEW w, NEW n, NEW M, BinOf(w, n, M)
    PROVE  ServesAll(Row(Item(w)), w, n, M)
<1>0. PICK row : row = Row(Item(w)) OBVIOUS
<1>1. /\ w \in Seq(Samples) /\ n \in Nat \ {0} /\ Len(w) = n
      /\ M \in Seq(Nat) /\ Len(M) = n /\ \A k \in 1 .. n : M[k] = Length(w[k])
      BY DEF BinOf
<1>2. n \in Nat /\ DOMAIN M = 1 .. n /\ \A k \in 1 .. n : M[k] \in Nat BY <1>1
<1>3. PICK Q : Partial(Q, M, n) /\ SumOf(M) = Q[n] BY <1>2, SumIsLast
<1>4. RowPlaces(w, n, M, Q, row)
  <2>1. RowOf(w, n, M, Q, row) BY <1>0, <1>1, <1>3 DEF RowOf
  <2> QED BY <2>1, RowFacts
<1>5. \A k \in 0 .. n : Q[k] \in Nat BY <1>2, <1>3, PartialsAreNumbers
<1>6. row.tokens \in Seq(Nat \X Nat) /\ Len(row.tokens) = Q[n] BY <1>4 DEF RowPlaces
<1>7. row.labels \in Seq(Nat \X Nat) /\ Len(row.labels) = Q[n] BY <1>4 DEF RowPlaces
<1>8. PICK tokens \in Seq(Nat \X Nat) : tokens = row.tokens BY <1>6
<1>9. PICK labels \in Seq(Nat \X Nat) : labels = row.labels BY <1>7
<1>10. PICK N \in Nat : N = Q[n]
  <2>1. n \in 0 .. n BY <1>2
  <2> QED BY <1>5, <2>1
<1>11. Len(tokens) = N /\ DOMAIN tokens = 1 .. N /\ Len(labels) = N BY <1>6, <1>7, <1>8, <1>9, <1>10
<1> DEFINE Piece(k, f, m, i) ==
             /\ f \in Nat /\ m \in Nat /\ i \in Samples
             /\ f = Q[k - 1] /\ m = M[k] /\ i = w[k] /\ m = Length(i)
             /\ f + m = Q[k] /\ f + m <= N
             /\ ids[i] \in Seq(Nat \X Nat) /\ Len(ids[i]) = m + 1 /\ ids[i][1] = <<i, 0>>
             /\ \A x \in 1 .. m : ids[i][x] \in {<<i, x - 1>>, Pad}
             /\ ~CutApart => \A x \in 1 .. m : masks[i][x] = (x >= job.samples[i].answer)
<1>12. ASSUME NEW k \in 1 .. n PROVE \E f, m, i : Piece(k, f, m, i)
  <2>1. k - 1 \in 0 .. n /\ k \in 0 .. n /\ n \in k .. n BY <1>2
  <2>2. PICK f \in Nat : f = Q[k - 1] BY <1>5, <2>1
  <2>3. PICK m \in Nat : m = M[k] BY <1>2
  <2>4. PICK i \in Samples : i = w[k] BY <1>1
  <2>5. m = Length(i) BY <1>1, <2>3, <2>4
  <2>6. f + m = Q[k] BY <1>3, <2>2, <2>3 DEF Partial
  <2>7. f + m <= N
    <3>1. \A d \in k .. n : Q[k] <= Q[d] BY <1>2, <1>3, <2>1, PartialsGrow
    <3> QED BY <1>10, <2>1, <2>6, <3>1
  <2>8. /\ ids[i] = Tokens(i) /\ masks[i] = Mask(i, Tokens(i)) /\ Len(ids[i]) = m + 1
        BY <2>5, LengthFacts
  <2>9. /\ ids[i] \in Seq(Nat \X Nat) /\ ids[i][1] = <<i, 0>>
        /\ \A x \in 1 .. m + 1 : ids[i][x] \in {<<i, x - 1>>, Pad}
        BY <2>8, TokensFacts DEF PreparedFirst
  <2>10. ASSUME ~CutApart, NEW x \in 1 .. m PROVE masks[i][x] = (x >= job.samples[i].answer)
    <3>1. Len(masks[i]) = Len(ids[i]) BY <2>10 DEF CutApart
    <3>2. \A y \in 1 .. Len(Tokens(i)) - 1 : Mask(i, Tokens(i))[y] = (y >= job.samples[i].answer)
          BY <2>8, <3>1, MaskFacts DEF PreparedFirst
    <3>3. Len(Tokens(i)) - 1 = m BY <2>8
    <3> QED BY <2>8, <3>2, <3>3
  <2>11. 1 .. m \subseteq 1 .. m + 1 OBVIOUS
  <2>12. Piece(k, f, m, i)
        BY <2>2, <2>3, <2>4, <2>5, <2>6, <2>7, <2>8, <2>9, <2>10, <2>11
  <2> HIDE DEF Piece
  <2> QED BY <2>12
<1> HIDE DEF Piece
<1>13. ASSUME NEW k \in 1 .. n PROVE Serves(row, k, w[k])
  <2>0. PICK f, m, i : Piece(k, f, m, i) BY <1>12
  <2>1. /\ f \in Nat /\ m \in Nat /\ i \in Samples
        /\ f = Q[k - 1] /\ m = M[k] /\ i = w[k] /\ m = Length(i)
        /\ f + m = Q[k] /\ f + m <= N
        /\ ids[i] \in Seq(Nat \X Nat) /\ Len(ids[i]) = m + 1
        /\ ~CutApart => \A x \in 1 .. m : masks[i][x] = (x >= job.samples[i].answer)
        BY <2>0 DEF Piece
  <2>2. k \in 1 .. Len(row.cu) - 1 /\ row.cu[k] = f /\ row.cu[k + 1] = f + m
        BY <1>4, <2>1 DEF RowPlaces
  <2>3. ASSUME NEW j \in 1 .. m
        PROVE  /\ tokens[f + j] = ids[i][j] /\ labels[f + j] = ids[i][1 + j]
               /\ (\A h \in Samples : Len(masks[h]) = Len(ids[h])) =>
                    row.loss[f + j] = (masks[i][j] /\ ids[i][j] # Pad)
    <3>1. j \in 1 .. M[k] BY <2>1
    <3>2. /\ row.tokens[Q[k - 1] + j] = ids[w[k]][j]
          /\ row.labels[Q[k - 1] + j] = ids[w[k]][1 + j]
          /\ (\A h \in Samples : Len(masks[h]) = Len(ids[h])) =>
               row.loss[Q[k - 1] + j] = (masks[w[k]][j] /\ ids[w[k]][j] # Pad)
          BY <1>4, <3>1 DEF RowPlaces
    <3> QED BY <1>8, <1>9, <2>1, <3>2
  <2>4. PICK s \in Seq(Nat \X Nat) : s = ids[i] BY <2>1
  <2>5. Len(s) = m + 1 BY <2>1, <2>4
  <2>6. Cut(tokens, f + 1, f + m) = Cut(s, 1, m)
    <3>1. PICK g \in Nat : g = 0 OBVIOUS
    <3>2. tokens \in Seq(Nat \X Nat) /\ s \in Seq(Nat \X Nat) /\ f \in Nat /\ g \in Nat /\ m \in Nat
          BY <2>1
    <3>3. f + m <= Len(tokens) /\ g + m <= Len(s) BY <1>11, <2>1, <2>5, <3>1
    <3>4. \A j \in 1 .. m : tokens[f + j] = s[g + j] BY <2>3, <2>4, <3>1
    <3>5. Alike(Nat \X Nat, tokens, f + 1, f + m, s, g + 1, g + m) BY ONLY <3>2, <3>3, <3>4 DEF Alike
    <3>6. Cut(tokens, f + 1, f + m) = Cut(s, g + 1, g + m) BY ONLY <3>5, SameCut
    <3>7. g + 1 = 1 /\ g + m = m BY <2>1, <3>1
    <3> QED BY <3>6, <3>7
  <2>7. Cut(labels, f + 1, f + m) = Cut(s, 2, m + 1)
    <3>1. PICK g \in Nat : g = 1 OBVIOUS
    <3>2. labels \in Seq(Nat \X Nat) /\ s \in Seq(Nat \X Nat) /\ f \in Nat /\ g \in Nat /\ m \in Nat
          BY <2>1
    <3>3. f + m <= Len(labels) /\ g + m <= Len(s) BY <1>11, <2>1, <2>5, <3>1
    <3>4. \A j \in 1 .. m : labels[f + j] = s[g + j] BY <2>3, <2>4, <3>1
    <3>5. Alike(Nat \X Nat, labels, f + 1, f + m, s, g + 1, g + m) BY ONLY <3>2, <3>3, <3>4 DEF Alike
    <3>6. Cut(labels, f + 1, f + m) = Cut(s, g + 1, g + m) BY ONLY <3>5, SameCut
    <3>7. g + 1 = 2 /\ g + m = m + 1 BY <2>1, <3>1
    <3> QED BY <3>6, <3>7
  <2>8. ASSUME ~CutApart, NEW x \in 1 .. m
        PROVE  row.loss[f + x] = (ids[i][x] # Pad /\ x >= job.samples[i].answer)
    <3>1. \A h \in Samples : Len(masks[h]) = Len(ids[h]) BY <2>8 DEF CutApart
    <3>2. row.loss[f + x] = (masks[i][x] /\ ids[i][x] # Pad) BY <2>3, <3>1
    <3>3. masks[i][x] = (x >= job.samples[i].answer) BY <2>1, <2>8
    <3> QED BY <3>2, <3>3
  <2>9. (f + m) - f = m BY <2>1
  <2>10. Serves(row, k, i)
    <3>1. row.cu[k + 1] - row.cu[k] = Length(i) BY <2>1, <2>2, <2>9
    <3>2. SubSeq(row.tokens, row.cu[k] + 1, row.cu[k + 1]) = SubSeq(ids[i], 1, Length(i))
          BY <1>8, <2>1, <2>2, <2>4, <2>6 DEF Cut
    <3>3. SubSeq(row.labels, row.cu[k] + 1, row.cu[k + 1]) = SubSeq(ids[i], 2, Length(i) + 1)
          BY <1>9, <2>1, <2>2, <2>4, <2>7 DEF Cut
    <3>4. ~CutApart => \A x \in 1 .. Length(i) :
            row.loss[row.cu[k] + x] = (ids[i][x] # Pad /\ x >= job.samples[i].answer)
          BY <2>1, <2>2, <2>8
    <3> QED BY <2>2, <3>1, <3>2, <3>3, <3>4 DEF Serves
  <2> QED BY <2>1, <2>10
<1>14. ASSUME NEW k \in 1 .. n, M[k] > 0 PROVE \E p \in DOMAIN tokens : tokens[p] = <<w[k], 0>>
  <2>0. PICK f, m, i : Piece(k, f, m, i) BY <1>12
  <2>1. m \in Nat /\ f = Q[k - 1] /\ m = M[k] /\ i = w[k] /\ ids[i][1] = <<i, 0>> BY <2>0 DEF Piece
  <2>2. 1 \in 1 .. m BY <1>14, <2>1
  <2>3. f + 1 \in 1 .. N /\ tokens[f + 1] = ids[i][1] BY <1>4, <1>8, <1>10, <2>1, <2>2 DEF RowPlaces
  <2> QED BY <1>11, <2>1, <2>3
<1>15. ASSUME NEW i \in Samples, NEW p \in DOMAIN tokens, tokens[p] = <<i, 0>>
       PROVE  \E k \in 1 .. n : w[k] = i
  <2>1. p \in 1 .. Q[n] BY <1>10, <1>11
  <2>2. PICK k \in 1 .. n : \E j \in 1 .. M[k] : p = Q[k - 1] + j BY <1>4, <2>1 DEF RowPlaces
  <2>3. PICK j \in 1 .. M[k] : p = Q[k - 1] + j BY <2>2
  <2>4. tokens[p] = ids[w[k]][j] BY <1>4, <1>8, <2>3 DEF RowPlaces
  <2>0. PICK f, m, h : Piece(k, f, m, h) BY <1>12
  <2>5. m = M[k] /\ h = w[k] /\ \A x \in 1 .. m : ids[h][x] \in {<<h, x - 1>>, Pad} BY <2>0 DEF Piece
  <2>6. ids[h][j] \in {<<h, j - 1>>, Pad} BY <2>3, <2>5
  <2>7. <<i, 0>> \in {<<h, j - 1>>, <<0, 0>>} BY <1>15, <2>4, <2>5, <2>6 DEF Pad
  <2>8. i # 0 BY JobFacts DEF PreparedFirst
  <2>9. i = h BY <2>7, <2>8
  <2> QED BY <2>5, <2>9
<1>16. Sum(M) = N BY <1>3, <1>10, SumIsSumOf
<1>17. ServesAll(row, w, n, M) BY <1>6, <1>8, <1>10, <1>13, <1>14, <1>15, <1>16 DEF ServesAll
<1> QED BY <1>0, <1>17


-----------------------------------------------------------------------------
(* Of a finished job.                                                      *)

\* Every bin is packed, of the samples W; no bin is overfull, no sample is left
\* out or packed twice.
Finished(W) ==
    /\ DOMAIN packed = DOMAIN bins
    /\ \A b \in DOMAIN bins : /\ packed[b] = Item(W[b]) /\ BinOf(W[b], Len(W[b]), bins[b])
                              /\ Sum(bins[b]) <= job.pack
    /\ \A i \in Samples : \E b \in DOMAIN bins : \E x \in 1 .. Len(W[b]) : W[b][x] = i
    /\ \A b, c \in DOMAIN bins : \A x \in 1 .. Len(W[b]) : \A y \in 1 .. Len(W[c]) :
         W[b][x] = W[c][y] => b = c

LEMMA WhenDone ==
    ASSUME PackingInv, stage = "done"
    PROVE  ids # <<>> /\ \E W : Finished(W)
<1>1. PreparedFirst /\ BinsInv /\ AllPlaced /\ Filling BY DEF PackingInv
<1>2. ids # <<>> /\ queue = <<>> BY <1>1 DEF PreparedFirst, AllPlaced
<1>3. PICK W : FilledWith(W) BY <1>1 DEF Filling
<1>4. PICK B, X : Placement(B, X) BY <1>1 DEF AllPlaced
<1>5. Len(packed) = Len(bins) /\ \A l \in Handled : stacks[l].ids = <<>> BY <1>1 DEF Filling
<1>6. PICK n \in Nat : n = Len(bins) /\ DOMAIN bins = 1 .. n BY <1>1 DEF BinsInv, BinsTyped
<1>7. packed = [b \in 1 .. n |-> Item(W[b])] BY <1>3, <1>5, <1>6 DEF FilledWith
<1>8. DOMAIN packed = 1 .. n /\ \A b \in 1 .. n : packed[b] = Item(W[b]) BY <1>7
<1>9. ASSUME NEW b \in 1 .. n
      PROVE  /\ BinOf(W[b], Len(W[b]), bins[b]) /\ Sum(bins[b]) <= job.pack
             /\ DOMAIN W[b] = 1 .. Len(W[b])
  <2>1. PICK M \in Seq(Nat) : M = bins[b] /\ M # <<>> BY <1>1, <1>6, BinSums DEF BinsInv, BinsTyped
  <2>2. W[b] \in Seq(Samples) BY <1>3, <1>5, <1>6 DEF FilledWith
  <2>3. PICK w \in Seq(Samples) : w = W[b] BY <2>2
  <2>4. /\ DOMAIN w = DOMAIN M
        /\ \A x \in DOMAIN M : M[x] \in Handled /\ w[x] \in OfLength(M[x])
        BY <1>3, <1>5, <1>6, <2>1, <2>3 DEF FilledWith
  <2>5. Len(w) = Len(M) /\ Len(M) \in Nat \ {0} /\ DOMAIN M = 1 .. Len(M) BY <2>1, <2>4
  <2>6. \A x \in DOMAIN M : M[x] = Length(w[x]) /\ M[x] <= job.pack
        BY <1>1, <1>2, <2>4, OfLengthFacts
  <2>7. BinOf(w, Len(w), M) BY <2>5, <2>6 DEF BinOf
  <2>8. job.pack \in Nat BY <1>1, JobAssumption DEF PreparedFirst
  <2>9. Sum(M) <= job.pack
    <3>1. Sum(M) <= job.pack \/ \E x \in DOMAIN M : M[x] > job.pack
          BY <1>1, <1>6, <2>1 DEF BinsInv, NoBinOverfull
    <3>2. \A x \in DOMAIN M : M[x] \in Nat BY <2>1
    <3> QED BY <2>6, <2>8, <3>1, <3>2
  <2> QED BY <2>1, <2>3, <2>5, <2>7, <2>9
<1>10. ASSUME NEW i \in Samples PROVE \E b \in 1 .. n : \E x \in 1 .. Len(W[b]) : W[b][x] = i
  <2>1. B[i] \in DOMAIN bins /\ X[i] \in DOMAIN bins[B[i]] /\ bins[B[i]][X[i]] = Length(i)
    <3>1. ~(X[i] \in 1 .. Len(queue)) BY <1>2
    <3> QED BY <1>4, <3>1 DEF Placement
  <2>2. Length(i) \in Handled
    <3>1. B[i] \in 1 .. Len(packed) BY <1>5, <1>6, <2>1
    <3>2. bins[B[i]][X[i]] \in Handled BY <1>3, <2>1, <3>1 DEF FilledWith
    <3> QED BY <2>1, <3>2
  <2>3. i \in OfLength(Length(i)) BY DEF OfLength
  <2>4. PICK b \in 1 .. Len(packed) : \E x \in DOMAIN W[b] : W[b][x] = i
    <3>1. DOMAIN stacks[Length(i)].ids = {} BY <1>5, <2>2
    <3>2. \/ \E k \in DOMAIN stacks[Length(i)].ids : stacks[Length(i)].ids[k] = i
          \/ \E b \in 1 .. Len(packed) : \E x \in DOMAIN W[b] : W[b][x] = i
          BY <1>3, <2>2, <2>3 DEF FilledWith
    <3> QED BY <3>1, <3>2
  <2>5. b \in 1 .. n BY <1>5, <1>6
  <2> QED BY <1>9, <2>4, <2>5
<1>11. \A b, c \in 1 .. n : \A x \in 1 .. Len(W[b]) : \A y \in 1 .. Len(W[c]) :
         W[b][x] = W[c][y] => b = c
       BY <1>3, <1>5, <1>6, <1>9 DEF FilledWith
<1>12. Finished(W) BY <1>6, <1>8, <1>9, <1>10, <1>11 DEF Finished
<1> QED BY <1>2, <1>12

LEMMA DoneIsFaithful ==
    ASSUME PackingInv
    PROVE  PackedFaithfully
<1> SUFFICES ASSUME stage = "done", NEW i \in Samples, Length(i) > 0
             PROVE  /\ Cardinality({b \in DOMAIN packed : <<i, 0>> \in Range(Row(packed[b]).tokens)}) = 1
                    /\ \E b \in DOMAIN packed :
                         /\ Len(Row(packed[b]).tokens) <= job.pack
                         /\ \E c \in 1 .. Len(Row(packed[b]).cu) - 1 : Serves(Row(packed[b]), c, i)
    BY DEF PackedFaithfully, Serves
<1>1. PreparedFirst /\ ids # <<>> BY WhenDone DEF PackingInv
<1>2. PICK W : Finished(W) BY WhenDone
<1>3. DOMAIN packed = DOMAIN bins BY <1>2 DEF Finished
<1> DEFINE RowAt(b) == Row(packed[b])
<1>4. ASSUME NEW b \in DOMAIN bins
      PROVE  /\ Len(RowAt(b).tokens) <= job.pack
             /\ \A k \in 1 .. Len(W[b]) : Serves(RowAt(b), k, W[b][k])
             /\ \A k \in 1 .. Len(W[b]) :
                  Length(W[b][k]) > 0 => \E p \in DOMAIN RowAt(b).tokens : RowAt(b).tokens[p] = <<W[b][k], 0>>
             /\ \A p \in DOMAIN RowAt(b).tokens :
                  RowAt(b).tokens[p] = <<i, 0>> => \E k \in 1 .. Len(W[b]) : W[b][k] = i
  <2>1. packed[b] = Item(W[b]) /\ BinOf(W[b], Len(W[b]), bins[b]) /\ Sum(bins[b]) <= job.pack
        BY <1>2 DEF Finished
  <2>2. ServesAll(RowAt(b), W[b], Len(W[b]), bins[b]) BY <1>1, <2>1, BinRow
  <2>3. \A k \in 1 .. Len(W[b]) : bins[b][k] = Length(W[b][k]) BY <2>1 DEF BinOf
  <2> HIDE DEF RowAt
  <2> QED BY <2>1, <2>2, <2>3 DEF ServesAll
<1>5. PICK b \in DOMAIN bins : \E x \in 1 .. Len(W[b]) : W[b][x] = i BY <1>2 DEF Finished
<1>6. PICK x \in 1 .. Len(W[b]) : W[b][x] = i BY <1>5
<1>7. ASSUME NEW c \in DOMAIN bins PROVE <<i, 0>> \in Range(RowAt(c).tokens) <=> c = b
  <2>1. CASE c = b
    <3>1. \E p \in DOMAIN RowAt(b).tokens : RowAt(b).tokens[p] = <<i, 0>> BY <1>4, <1>6
    <3> HIDE DEF RowAt
    <3> QED BY <2>1, <3>1 DEF Range
  <2>2. CASE c # b
    <3>1. ASSUME <<i, 0>> \in Range(RowAt(c).tokens) PROVE FALSE
      <4> HIDE DEF RowAt
      <4>1. PICK p \in DOMAIN RowAt(c).tokens : RowAt(c).tokens[p] = <<i, 0>> BY <3>1 DEF Range
      <4>2. PICK k \in 1 .. Len(W[c]) : W[c][k] = i BY <1>4, <4>1
      <4>3. c = b BY <1>2, <1>6, <4>2 DEF Finished
      <4> QED BY <2>2, <4>3
    <3> QED BY <2>2, <3>1
  <2> QED BY <2>1, <2>2
<1>8. {c \in DOMAIN packed : <<i, 0>> \in Range(Row(packed[c]).tokens)} = {b} BY <1>3, <1>5, <1>7
<1>9. Cardinality({b}) = 1 BY FS_Singleton
<1>10. Serves(RowAt(b), x, i) BY <1>4, <1>6
<1>11. x \in 1 .. Len(RowAt(b).cu) - 1 BY <1>10 DEF Serves
<1> QED BY <1>3, <1>4, <1>8, <1>9, <1>10, <1>11

(***************************************************************************)
(* Of packed data that was written, every sample with something to predict *)
(* is in exactly one row, within one sequence of it, no longer than the    *)
(* pack size, with its own tokens, labels and loss (PackedFaithfully): the *)
(* stacks of tokens and of masks stay in step, every place in a bin takes  *)
(* a sample of its length from them, and each sample has such a place      *)
(* (PackingInv).                                                           *)
(***************************************************************************)
THEOREM PackedAlwaysFaithful == Spec => []PackedFaithfully
BY AlwaysPackingInv, DoneIsFaithful, PTL

=============================================================================
