--------------------------- MODULE CountingLemmas ---------------------------
(***************************************************************************)
(* Division with remainder, induction over the natural numbers, the size   *)
(* of disjoint unions, sums of sequences of numbers and places in an       *)
(* order, for the proofs about data and about weights.                     *)
(***************************************************************************)
EXTENDS Integers, FiniteSets, SequencesExt, FiniteSetTheorems, SequenceTheorems,
        WellFoundedInduction, FunctionTheorems, TLAPS

-----------------------------------------------------------------------------
(* Division.                                                               *)

LEMMA DivMod ==
    ASSUME NEW a \in Nat, NEW d \in Nat \ {0}
    PROVE  a \div d \in Nat /\ a % d \in 0 .. d - 1 /\ a = (a \div d) * d + (a % d)
OBVIOUS

\* A number is written in one way as a multiple and a remainder.
LEMMA SameDigits ==
    ASSUME NEW d \in Nat \ {0}, NEW p \in Int, NEW q \in Int,
           NEW a \in 0 .. d - 1, NEW b \in 0 .. d - 1, p * d + a = q * d + b
    PROVE  p = q /\ a = b
OBVIOUS

LEMMA DivUnique ==
    ASSUME NEW d \in Nat \ {0}, NEW q \in Nat, NEW a \in 0 .. d - 1
    PROVE  (q * d + a) \div d = q /\ (q * d + a) % d = a
OBVIOUS

LEMMA MultipleOf ==
    ASSUME NEW d \in Nat \ {0}, NEW a \in Nat
    PROVE  /\ a % d = 0 => a = (a \div d) * d
           /\ \A q \in Nat : (q * d) % d = 0 /\ (q * d) \div d = q
<1>1. a % d = 0 => a = (a \div d) * d BY DivMod
<1>2. ASSUME NEW q \in Nat PROVE (q * d) % d = 0 /\ (q * d) \div d = q
  <2>1. q * d = q * d + 0 /\ 0 \in 0 .. d - 1 OBVIOUS
  <2> QED BY <2>1, DivUnique
<1> QED BY <1>1, <1>2

LEMMA SumOfMultiples ==
    ASSUME NEW d \in Nat \ {0}, NEW a \in Nat, NEW b \in Nat, a % d = 0, b % d = 0
    PROVE  (a + b) % d = 0 /\ (a + b) \div d = (a \div d) + (b \div d)
<1> DEFINE p == a \div d
           q == b \div d
<1>1. p \in Nat /\ q \in Nat /\ a = p * d /\ b = q * d BY DivMod
<1> HIDE DEF p, q
<1>2. a + b = (p + q) * d BY <1>1
<1>3. p + q \in Nat BY <1>1
<1>4. (a + b) % d = 0 /\ (a + b) \div d = p + q BY <1>2, <1>3, MultipleOf
<1> QED BY <1>4 DEF p, q

\* A remainder of a multiple is a multiple when the divisor is one too.
LEMMA RemainderOfMultiple ==
    ASSUME NEW d \in Nat \ {0}, NEW m \in Nat \ {0}, NEW a \in Nat, a % d = 0, m % d = 0
    PROVE  (a % m) % d = 0
<1> DEFINE p == a \div d
           q == m \div d
           k == a \div m
<1>1. p \in Nat /\ q \in Nat /\ k \in Nat /\ a = p * d /\ m = q * d BY DivMod
<1>2. a % m \in Nat /\ a = k * m + (a % m) BY DivMod
<1> HIDE DEF p, q, k
<1>3. a % m = (p - k * q) * d
  <2>1. k * m = (k * q) * d BY <1>1
  <2>2. k * q \in Nat BY <1>1
  <2> QED BY <1>1, <1>2, <2>1, <2>2
<1>4. p - k * q \in Nat
  <2>1. p - k * q \in Int BY <1>1
  <2> DEFINE z == p - k * q
  <2> HIDE DEF z
  <2>2. z \in Int /\ z * d \in Nat BY <1>2, <1>3, <2>1 DEF z
  <2>3. z \in Nat BY <2>2
  <2> QED BY <2>3 DEF z
<1> DEFINE z == p - k * q
<1> HIDE DEF z
<1>5. z \in Nat /\ a % m = z * d BY <1>3, <1>4 DEF z
<1> QED BY <1>5, MultipleOf, SMTT(30)

\* Multiples are at least one divisor apart.
LEMMA MultiplesApart ==
    ASSUME NEW d \in Nat \ {0}, NEW a \in Nat, NEW b \in Nat, a % d = 0, b % d = 0, a < b
    PROVE  a + d <= b
<1> DEFINE p == a \div d
           q == b \div d
<1>1. p \in Nat /\ q \in Nat /\ a = p * d /\ b = q * d BY DivMod
<1> HIDE DEF p, q
<1>2. p < q BY <1>1
<1>3. (p + 1) * d <= q * d BY <1>1, <1>2
<1> QED BY <1>1, <1>3

-----------------------------------------------------------------------------
(* Induction.                                                              *)

LEMMA LeastNumber ==
    ASSUME NEW T, T \subseteq Nat, T # {}
    PROVE  \E x \in T : \A y \in T : x <= y
<1>1. IsWellFoundedOn(OpToRel(<, Nat), Nat) BY NatLessThanWellFounded
<1>2. PICK x \in T : \A y \in T : ~ (<<y, x>> \in OpToRel(<, Nat)) BY <1>1, WFMin
<1>3. \A y \in T : ~(y < x) BY <1>2 DEF OpToRel
<1> QED BY <1>3

\* Induction, for a set of numbers instead of a predicate.
LEMMA CountingUp ==
    ASSUME NEW S, 0 \in S, \A n \in Nat : n \in S => n + 1 \in S
    PROVE  Nat \subseteq S
<1> SUFFICES ASSUME Nat \ S # {} PROVE FALSE OBVIOUS
<1>1. PICK x \in Nat \ S : \A y \in Nat \ S : x <= y BY LeastNumber
<1>2. x # 0 OBVIOUS
<1>3. x - 1 \in Nat BY <1>2
<1>4. x - 1 \in S BY <1>1, <1>3
<1>5. x \in S BY <1>3, <1>4
<1> QED BY <1>5

-----------------------------------------------------------------------------
(* Disjoint unions.                                                        *)

LEMMA DisjointUnion ==
    ASSUME NEW F, NEW c \in Nat, NEW n \in Nat,
           \A i \in 0 .. n - 1 : IsFiniteSet(F[i]) /\ Cardinality(F[i]) = c,
           \A i, j \in 0 .. n - 1 : i # j => F[i] \cap F[j] = {},
           NEW W, \A x : x \in W <=> \E i \in 0 .. n - 1 : x \in F[i]
    PROVE  IsFiniteSet(W) /\ Cardinality(W) = n * c
<1> DEFINE U(m) == UNION {F[i] : i \in 0 .. m - 1}
           G == {m \in Nat : m <= n => IsFiniteSet(U(m)) /\ Cardinality(U(m)) = m * c}
<1>1. 0 \in G
  <2>1. U(0) = {} OBVIOUS
  <2> QED BY <2>1, FS_EmptySet
<1>2. ASSUME NEW m \in Nat, m \in G PROVE m + 1 \in G
  <2> SUFFICES ASSUME m + 1 <= n
               PROVE  IsFiniteSet(U(m + 1)) /\ Cardinality(U(m + 1)) = (m + 1) * c
      OBVIOUS
  <2>1. IsFiniteSet(U(m)) /\ Cardinality(U(m)) = m * c BY <1>2
  <2>2. m \in 0 .. n - 1 OBVIOUS
  <2>3. U(m + 1) = U(m) \cup F[m]
    <3>1. \A i : i \in 0 .. (m + 1) - 1 <=> i \in 0 .. m - 1 \/ i = m OBVIOUS
    <3> QED BY <3>1
  <2>4. U(m) \cap F[m] = {}
    <3>1. \A i \in 0 .. m - 1 : i \in 0 .. n - 1 /\ i # m BY <2>2
    <3>2. \A i \in 0 .. m - 1 : F[i] \cap F[m] = {} BY <2>2, <3>1
    <3> QED BY <3>2
  <2>5. IsFiniteSet(F[m]) /\ Cardinality(F[m]) = c BY <2>2
  <2> HIDE DEF U
  <2>6. /\ IsFiniteSet(U(m) \cup F[m])
        /\ Cardinality(U(m) \cup F[m]) = Cardinality(U(m)) + Cardinality(F[m]) - Cardinality({})
        BY <2>1, <2>4, <2>5, FS_Union
  <2>7. Cardinality({}) = 0 BY FS_EmptySet
  <2>8. Cardinality(U(m) \cup F[m]) = m * c + c BY <2>1, <2>5, <2>6, <2>7
  <2>9. m * c + c = (m + 1) * c OBVIOUS
  <2> QED BY <2>3, <2>6, <2>8, <2>9
<1>3. W = U(n) OBVIOUS
<1> HIDE DEF U
<1>4. Nat \subseteq G
  <2> HIDE DEF G
  <2> QED BY <1>1, <1>2, CountingUp
<1>5. n \in G BY <1>4
<1> QED BY <1>3, <1>5

\* As many values as there are indices.
LEMMA InjectiveImage ==
    ASSUME NEW f, NEW n \in Nat, \A i, j \in 0 .. n - 1 : f[i] = f[j] => i = j,
           NEW W, \A x : x \in W <=> \E i \in 0 .. n - 1 : x = f[i]
    PROVE  IsFiniteSet(W) /\ Cardinality(W) = n
<1>1. PICK F : \A i \in 0 .. n - 1 : F[i] = {f[i]}
  <2> DEFINE G == [i \in 0 .. n - 1 |-> {f[i]}]
  <2>1. \A i \in 0 .. n - 1 : G[i] = {f[i]} OBVIOUS
  <2> QED BY <2>1
<1>2. PICK c \in Nat : c = 1 OBVIOUS
<1>3. \A i \in 0 .. n - 1 : IsFiniteSet(F[i]) /\ Cardinality(F[i]) = c
  <2>1. \A i \in 0 .. n - 1 : IsFiniteSet({f[i]}) /\ Cardinality({f[i]}) = 1 BY FS_Singleton
  <2> QED BY <1>1, <1>2, <2>1
<1>4. \A i, j \in 0 .. n - 1 : i # j => F[i] \cap F[j] = {} BY <1>1
<1>5. \A x : x \in W <=> \E i \in 0 .. n - 1 : x \in F[i] BY <1>1
<1>6. IsFiniteSet(W) /\ Cardinality(W) = n * c BY <1>3, <1>4, <1>5, DisjointUnion
<1> QED BY <1>2, <1>6

-----------------------------------------------------------------------------
(* Sums of sequences of numbers.                                           *)

SumOf(s) == FoldLeft(LAMBDA x, y : x + y, 0, s)

\* The function FoldLeft recurses with.
Folding(s, h) ==
    h = [T \in SUBSET DOMAIN s |-> IF T = {} THEN 0 ELSE h[T \ {Max(T)}] + s[Max(T)]]

LEMMA MaxOfRange ==
    ASSUME NEW n \in Nat, NEW T \in SUBSET (1 .. n + 1), n + 1 \in T
    PROVE  Max(T) = n + 1
<1>1. \A y \in T : n + 1 >= y OBVIOUS
<1>2. \A x \in T : (\A y \in T : x >= y) => x = n + 1 OBVIOUS
<1> QED BY <1>1, <1>2 DEF Max

LEMMA FoldingExists ==
    ASSUME NEW n \in Nat, NEW s, DOMAIN s = 1 .. n
    PROVE  \E h : Folding(s, h)
<1> DEFINE Body(h, T) == IF T = {} THEN 0 ELSE h[T \ {Max(T)}] + s[Max(T)]
           G == {m \in Nat : \E h : h = [T \in SUBSET (1 .. m) |-> Body(h, T)]}
<1>1. 0 \in G
  <2> DEFINE h == [T \in SUBSET (1 .. 0) |-> 0]
  <2>1. \A T \in SUBSET (1 .. 0) : T = {} OBVIOUS
  <2>2. h = [T \in SUBSET (1 .. 0) |-> Body(h, T)] BY <2>1
  <2> QED BY <2>2
<1>2. ASSUME NEW m \in Nat, m \in G PROVE m + 1 \in G
  <2>1. PICK h : h = [T \in SUBSET (1 .. m) |-> Body(h, T)] BY <1>2
  <2> DEFINE g == [T \in SUBSET (1 .. m + 1) |->
                      IF m + 1 \in T THEN h[T \ {m + 1}] + s[m + 1] ELSE h[T]]
  <2>2. ASSUME NEW T \in SUBSET (1 .. m + 1) PROVE g[T] = Body(g, T)
    <3>1. CASE m + 1 \in T
      <4>1. Max(T) = m + 1 BY <3>1, MaxOfRange
      <4>2. T \ {m + 1} \in SUBSET (1 .. m) /\ m + 1 \notin T \ {m + 1} OBVIOUS
      <4>3. T \ {m + 1} \in SUBSET (1 .. m + 1) OBVIOUS
      <4>4. g[T \ {m + 1}] = h[T \ {m + 1}] BY <4>2, <4>3
      <4>5. g[T] = h[T \ {m + 1}] + s[m + 1] BY <3>1
      <4> HIDE DEF g
      <4> QED BY <3>1, <4>1, <4>4, <4>5
    <3>2. CASE m + 1 \notin T
      <4>1. T \in SUBSET (1 .. m) BY <3>2
      <4>2. g[T] = h[T] BY <3>2
      <4>3. h[T] = Body(h, T) BY <2>1, <4>1
      <4>4. CASE T = {} BY <4>2, <4>3, <4>4
      <4>5. CASE T # {}
        <5> DEFINE z == Max(T)
                   U == T \ {z}
        <5>1. U \in SUBSET (1 .. m) /\ m + 1 \notin U /\ U \in SUBSET (1 .. m + 1)
          <6> HIDE DEF z
          <6> QED BY <3>2, <4>1
        <5>2. g[U] = h[U] BY <5>1
        <5> HIDE DEF g
        <5> QED BY <4>2, <4>3, <4>5, <5>2
      <4> QED BY <4>4, <4>5
    <3> QED BY <3>1, <3>2
  <2>3. g = [T \in SUBSET (1 .. m + 1) |-> g[T]] OBVIOUS
  <2>4. g = [T \in SUBSET (1 .. m + 1) |-> Body(g, T)]
    <3> HIDE DEF g, Body
    <3> QED BY <2>2, <2>3
  <2> HIDE DEF g, Body
  <2> QED BY <2>4
<1>3. n \in G
  <2> HIDE DEF G
  <2>1. Nat \subseteq G BY <1>1, <1>2, CountingUp
  <2> QED BY <2>1
<1> QED BY <1>3 DEF Folding

LEMMA SumFolds ==
    ASSUME NEW n \in Nat, NEW s, DOMAIN s = 1 .. n
    PROVE  \E h : Folding(s, h) /\ SumOf(s) = h[1 .. n]
<1>1. \E h : h = [T \in SUBSET DOMAIN s |-> IF T = {} THEN 0 ELSE h[T \ {Max(T)}] + s[Max(T)]]
      BY FoldingExists DEF Folding
<1>2. \E h : /\ h = [T \in SUBSET DOMAIN s |-> IF T = {} THEN 0 ELSE h[T \ {Max(T)}] + s[Max(T)]]
             /\ SumOf(s) = h[DOMAIN s]
      BY <1>1 DEF SumOf, FoldLeft, MapThenFoldSet
<1> QED BY <1>2 DEF Folding

LEMMA FoldingStep ==
    ASSUME NEW s, NEW h, Folding(s, h), NEW k \in Nat, 1 .. k + 1 \subseteq DOMAIN s
    PROVE  h[{}] = 0 /\ h[1 .. k + 1] = h[1 .. k] + s[k + 1]
<1>1. h[{}] = 0 BY DEF Folding
<1>2. Max(1 .. k + 1) = k + 1 BY MaxOfRange
<1>3. (1 .. k + 1) \ {k + 1} = 1 .. k /\ 1 .. k + 1 # {} OBVIOUS
<1> DEFINE T == 1 .. k + 1
<1>4. T \in SUBSET DOMAIN s OBVIOUS
<1>5. h[T] = IF T = {} THEN 0 ELSE h[T \ {Max(T)}] + s[Max(T)]
  <2> HIDE DEF T
  <2> QED BY <1>4 DEF Folding
<1> QED BY <1>1, <1>2, <1>3, <1>5

\* Sequences that begin alike have the same sums so far.
LEMMA FoldingsAgree ==
    ASSUME NEW s, NEW h, Folding(s, h), NEW t, NEW g, Folding(t, g), NEW n \in Nat,
           1 .. n \subseteq DOMAIN s, 1 .. n \subseteq DOMAIN t,
           \A k \in 1 .. n : s[k] = t[k] /\ s[k] \in Nat
    PROVE  h[1 .. n] = g[1 .. n] /\ h[1 .. n] \in Nat
<1> DEFINE G == {m \in Nat : m <= n => h[1 .. m] = g[1 .. m] /\ h[1 .. m] \in Nat}
<1>1. 0 \in G
  <2>1. 1 .. 0 = {} OBVIOUS
  <2>2. h[{}] = 0 /\ g[{}] = 0 BY DEF Folding
  <2> QED BY <2>1, <2>2
<1>2. ASSUME NEW m \in Nat, m \in G PROVE m + 1 \in G
  <2> SUFFICES ASSUME m + 1 <= n PROVE h[1 .. m + 1] = g[1 .. m + 1] /\ h[1 .. m + 1] \in Nat
      OBVIOUS
  <2>1. h[1 .. m] = g[1 .. m] /\ h[1 .. m] \in Nat BY <1>2
  <2>2. 1 .. m + 1 \subseteq DOMAIN s /\ 1 .. m + 1 \subseteq DOMAIN t /\ m + 1 \in 1 .. n
        OBVIOUS
  <2>3. h[1 .. m + 1] = h[1 .. m] + s[m + 1] BY <2>2, FoldingStep
  <2>4. g[1 .. m + 1] = g[1 .. m] + t[m + 1] BY <2>2, FoldingStep
  <2> QED BY <2>1, <2>2, <2>3, <2>4
<1>3. n \in G
  <2> HIDE DEF G
  <2>1. Nat \subseteq G BY <1>1, <1>2, CountingUp
  <2> QED BY <2>1
<1> QED BY <1>3

LEMMA EmptySum == ASSUME NEW s, DOMAIN s = {} PROVE SumOf(s) = 0
<1>1. DOMAIN s = 1 .. 0 /\ 1 .. 0 = {} OBVIOUS
<1>2. PICK h : Folding(s, h) /\ SumOf(s) = h[1 .. 0] BY <1>1, SumFolds
<1> QED BY <1>1, <1>2 DEF Folding

LEMMA SumStep ==
    ASSUME NEW n \in Nat, NEW s, DOMAIN s = 1 .. n + 1, NEW t, DOMAIN t = 1 .. n,
           \A k \in 1 .. n + 1 : s[k] \in Nat, \A k \in 1 .. n : t[k] = s[k]
    PROVE  SumOf(s) = SumOf(t) + s[n + 1] /\ SumOf(t) \in Nat /\ SumOf(s) \in Nat
<1>1. PICK h : Folding(s, h) /\ SumOf(s) = h[1 .. n + 1] BY SumFolds, n + 1 \in Nat
<1>2. PICK g : Folding(t, g) /\ SumOf(t) = g[1 .. n] BY SumFolds
<1>3. h[1 .. n] = g[1 .. n] /\ h[1 .. n] \in Nat
  <2>1. 1 .. n \subseteq DOMAIN s /\ 1 .. n \subseteq DOMAIN t OBVIOUS
  <2>2. \A k \in 1 .. n : s[k] = t[k] /\ s[k] \in Nat OBVIOUS
  <2> QED BY <1>1, <1>2, <2>1, <2>2, FoldingsAgree
<1>4. h[1 .. n + 1] = h[1 .. n] + s[n + 1] BY <1>1, FoldingStep
<1>5. s[n + 1] \in Nat OBVIOUS
<1> QED BY <1>1, <1>2, <1>3, <1>4, <1>5


\* A is the running sums of the numbers L.
Partial(A, L, n) == A[0] = 0 /\ \A k \in 1 .. n : A[k] = A[k - 1] + L[k]

LEMMA PartialSums ==
    ASSUME NEW n \in Nat, NEW L, DOMAIN L = 1 .. n, \A k \in 1 .. n : L[k] \in Nat,
           NEW A, \A k \in 0 .. n : A[k] = SumOf([y \in 1 .. k |-> L[y]])
    PROVE  Partial(A, L, n) /\ \A k \in 0 .. n : A[k] \in Nat
<1>1. A[0] = 0
  <2> SUFFICES ASSUME NEW k \in 0 .. n, k = 0 PROVE A[k] = 0 OBVIOUS
  <2> DEFINE s == [y \in 1 .. k |-> L[y]]
  <2>1. DOMAIN s = {} OBVIOUS
  <2>2. A[k] = SumOf(s) OBVIOUS
  <2> HIDE DEF s
  <2>3. SumOf(s) = 0 BY <2>1, EmptySum
  <2> QED BY <2>2, <2>3
<1>2. ASSUME NEW k \in 1 .. n PROVE A[k] = A[k - 1] + L[k] /\ A[k] \in Nat
  <2> DEFINE m == k - 1
             s == [y \in 1 .. k |-> L[y]]
             t == [y \in 1 .. m |-> L[y]]
  <2>1. m \in Nat /\ k = m + 1 /\ m \in 0 .. n /\ k \in 0 .. n OBVIOUS
  <2>2. DOMAIN s = 1 .. k /\ DOMAIN t = 1 .. m OBVIOUS
  <2>3. \A y \in 1 .. k : s[y] = L[y] /\ s[y] \in Nat OBVIOUS
  <2>4. \A y \in 1 .. m : t[y] = s[y] OBVIOUS
  <2>5. A[k] = SumOf(s) /\ A[m] = SumOf(t) BY <2>1
  <2> HIDE DEF s, t, m
  <2>6. /\ DOMAIN s = 1 .. m + 1 /\ DOMAIN t = 1 .. m /\ m \in Nat
        /\ \A y \in 1 .. m + 1 : s[y] \in Nat
        BY <2>1, <2>2, <2>3
  <2>7. SumOf(s) = SumOf(t) + s[m + 1] /\ SumOf(s) \in Nat
    <3> HIDE <2>1, <2>2, <2>3
    <3> QED BY ONLY <2>4, <2>6, SumStep
  <2>8. s[m + 1] = L[k] BY <2>1, <2>3
  <2>9. A[k] = A[m] + L[k] /\ A[k] \in Nat BY <2>5, <2>7, <2>8
  <2> QED BY <2>9 DEF m
<1> QED BY <1>1, <1>2 DEF Partial

LEMMA PartialsAreNumbers ==
    ASSUME NEW n \in Nat, NEW L, \A k \in 1 .. n : L[k] \in Nat, NEW A, Partial(A, L, n)
    PROVE  \A k \in 0 .. n : A[k] \in Nat
<1> DEFINE G == {k \in Nat : k <= n => A[k] \in Nat}
<1>1. 0 \in G BY DEF Partial
<1>2. ASSUME NEW k \in Nat, k \in G PROVE k + 1 \in G
  <2> SUFFICES ASSUME k + 1 <= n PROVE A[k + 1] \in Nat OBVIOUS
  <2>1. A[k] \in Nat BY <1>2
  <2>2. k + 1 \in 1 .. n /\ (k + 1) - 1 = k OBVIOUS
  <2>3. A[k + 1] = A[k] + L[k + 1] BY <2>2 DEF Partial
  <2> QED BY <2>1, <2>2, <2>3
<1>3. \A k \in Nat : k \in G
  <2> HIDE DEF G
  <2> QED BY <1>1, <1>2, CountingUp
<1> QED BY <1>3

LEMMA PartialsGrow ==
    ASSUME NEW n \in Nat, NEW L, \A k \in 1 .. n : L[k] \in Nat, NEW A, Partial(A, L, n),
           NEW j \in 0 .. n
    PROVE  \A k \in j .. n : A[j] <= A[k]
<1>1. \A k \in 0 .. n : A[k] \in Nat BY PartialsAreNumbers
<1> DEFINE G == {d \in Nat : j + d <= n => A[j] <= A[j + d]}
<1>2. 0 \in G BY <1>1
<1>3. ASSUME NEW d \in Nat, d \in G PROVE d + 1 \in G
  <2> SUFFICES ASSUME j + (d + 1) <= n PROVE A[j] <= A[j + (d + 1)] OBVIOUS
  <2> DEFINE k == j + (d + 1)
  <2>1. k \in 1 .. n /\ k - 1 = j + d /\ j + d \in 0 .. n OBVIOUS
  <2>2. A[j] <= A[j + d] BY <1>3
  <2>3. A[k] = A[j + d] + L[k]
    <3> HIDE DEF k
    <3> QED BY <2>1 DEF Partial
  <2>4. A[j] \in Nat /\ A[j + d] \in Nat /\ L[k] \in Nat BY <1>1, <2>1
  <2> HIDE DEF k
  <2>5. A[j] <= A[k] BY <2>2, <2>3, <2>4
  <2> QED BY <2>5 DEF k
<1>4. \A d \in Nat : d \in G
  <2> HIDE DEF G
  <2> QED BY <1>2, <1>3, CountingUp
<1>5. ASSUME NEW k \in j .. n PROVE A[j] <= A[k]
  <2>1. k - j \in Nat /\ j + (k - j) = k OBVIOUS
  <2>2. k - j \in G BY <1>4, <2>1
  <2> QED BY <2>1, <2>2
<1> QED BY <1>5

\* No running sum passes the whole, and all of it is the last one.
LEMMA SumIsLast ==
    ASSUME NEW n \in Nat, NEW L, DOMAIN L = 1 .. n, \A k \in 1 .. n : L[k] \in Nat
    PROVE  \E A : Partial(A, L, n) /\ SumOf(L) = A[n]
<1> DEFINE A == [k \in 0 .. n |-> SumOf([y \in 1 .. k |-> L[y]])]
<1>1. \A k \in 0 .. n : A[k] = SumOf([y \in 1 .. k |-> L[y]]) OBVIOUS
<1> HIDE DEF A
<1>2. Partial(A, L, n) BY <1>1, PartialSums
<1>3. PICK h : Folding(L, h) /\ SumOf(L) = h[1 .. n] BY SumFolds
<1> DEFINE s == [y \in 1 .. n |-> L[y]]
<1>4. DOMAIN s = 1 .. n /\ \A y \in 1 .. n : s[y] = L[y] OBVIOUS
<1>5. A[n] = SumOf(s) BY <1>1
<1> HIDE DEF s
<1>6. PICK g : Folding(s, g) /\ SumOf(s) = g[1 .. n] BY <1>4, SumFolds
<1>7. h[1 .. n] = g[1 .. n]
  <2>1. 1 .. n \subseteq DOMAIN L /\ 1 .. n \subseteq DOMAIN s BY <1>4
  <2>2. \A k \in 1 .. n : L[k] = s[k] /\ L[k] \in Nat BY <1>4
  <2> QED BY <1>3, <1>6, <2>1, <2>2, FoldingsAgree
<1> QED BY <1>2, <1>3, <1>5, <1>6, <1>7

\* The same numbers, each one larger: the running sums drift apart by one a step.
OneLarger(M, L, n) == \A k \in 1 .. n : L[k] \in Nat /\ M[k] = L[k] + 1

LEMMA PartialsDrift ==
    ASSUME NEW n \in Nat, NEW L, NEW M, OneLarger(M, L, n),
           NEW A, Partial(A, L, n), NEW B, Partial(B, M, n)
    PROVE  \A k \in 0 .. n : B[k] = A[k] + k
<1>1. \A k \in 0 .. n : A[k] \in Nat BY PartialsAreNumbers DEF OneLarger
<1> DEFINE G == {k \in Nat : k <= n => B[k] = A[k] + k}
<1>2. 0 \in G BY DEF Partial
<1>3. ASSUME NEW k \in Nat, k \in G PROVE k + 1 \in G
  <2> SUFFICES ASSUME k + 1 <= n PROVE B[k + 1] = A[k + 1] + (k + 1) OBVIOUS
  <2>1. B[k] = A[k] + k BY <1>3
  <2>2. k + 1 \in 1 .. n /\ (k + 1) - 1 = k OBVIOUS
  <2>3. A[k + 1] = A[k] + L[k + 1] /\ B[k + 1] = B[k] + M[k + 1] BY <2>2 DEF Partial
  <2>4. A[k] \in Nat /\ L[k + 1] \in Nat /\ M[k + 1] = L[k + 1] + 1 BY <1>1, <2>2 DEF OneLarger
  <2> QED BY <2>1, <2>3, <2>4
<1>4. \A k \in Nat : k \in G
  <2> HIDE DEF G
  <2> QED BY <1>2, <1>3, CountingUp
<1> QED BY <1>4

-----------------------------------------------------------------------------
(* Sequences end to end.                                                   *)

LEMMA FlattenFolds ==
    ASSUME NEW n \in Nat \ {0}, NEW t, DOMAIN t = 1 .. n, Len(t) = n
    PROVE  \E h : /\ \A i \in 1 .. n : h[i] = IF i = 1 THEN t[i] ELSE h[i - 1] \o t[i]
                  /\ FlattenSeq(t) = h[n]
<1> DEFINE Body(h, i) == IF i = 1 THEN t[i] ELSE h[i - 1] \o t[i]
           G == {m \in Nat : \E h : h = [i \in 1 .. m |-> Body(h, i)]}
<1>1. 0 \in G
  <2> DEFINE h == [i \in 1 .. 0 |-> 0]
  <2>1. h = [i \in 1 .. 0 |-> Body(h, i)] OBVIOUS
  <2> QED BY <2>1
<1>2. ASSUME NEW m \in Nat, m \in G PROVE m + 1 \in G
  <2>1. PICK h : h = [i \in 1 .. m |-> Body(h, i)] BY <1>2
  <2> DEFINE g == [i \in 1 .. m + 1 |-> IF i = m + 1 THEN Body(h, i) ELSE h[i]]
  <2>2. ASSUME NEW i \in 1 .. m + 1 PROVE g[i] = Body(g, i)
    <3>1. i # 1 => g[i - 1] = h[i - 1] OBVIOUS
    <3>2. Body(g, i) = Body(h, i)
      <4> HIDE DEF g
      <4> QED BY <3>1
    <3>3. i # m + 1 => h[i] = Body(h, i)
      <4>1. i # m + 1 => i \in 1 .. m OBVIOUS
      <4> HIDE DEF Body
      <4> QED BY <2>1, <4>1
    <3>4. g[i] = IF i = m + 1 THEN Body(h, i) ELSE h[i] OBVIOUS
    <3> HIDE DEF g, Body
    <3> QED BY <3>2, <3>3, <3>4
  <2>3. g = [i \in 1 .. m + 1 |-> g[i]] OBVIOUS
  <2>4. g = [i \in 1 .. m + 1 |-> Body(g, i)]
    <3> HIDE DEF g, Body
    <3> QED BY <2>2, <2>3
  <2> HIDE DEF g, Body
  <2> QED BY <2>4
<1>3. n \in G
  <2> HIDE DEF G
  <2> QED BY <1>1, <1>2, CountingUp
<1>4. \E h : h = [i \in 1 .. Len(t) |-> IF i = 1 THEN t[i] ELSE h[i - 1] \o t[i]] BY <1>3
<1>5. \E h : /\ h = [i \in 1 .. Len(t) |-> IF i = 1 THEN t[i] ELSE h[i - 1] \o t[i]]
             /\ FlattenSeq(t) = h[Len(t)]
      BY <1>4, Len(t) # 0 DEF FlattenSeq
<1>6. PICK h : /\ h = [i \in 1 .. n |-> Body(h, i)] /\ FlattenSeq(t) = h[n] BY <1>5
<1>7. \A i \in 1 .. n : h[i] = Body(h, i)
  <2> HIDE DEF Body
  <2> QED BY <1>6
<1> QED BY <1>6, <1>7


\* F is the first n of the sequences t end to end, A their running lengths.
EndToEnd(F, t, A, n) ==
    /\ Len(F) = A[n]
    /\ \A k \in 1 .. n : \A x \in 1 .. Len(t[k]) :
         A[k - 1] + x \in 1 .. A[n] /\ F[A[k - 1] + x] = t[k][x]
    /\ \A p \in 1 .. A[n] : \E k \in 1 .. n : \E x \in 1 .. Len(t[k]) : p = A[k - 1] + x

LEMMA OneMore ==
    ASSUME NEW S, NEW n \in Nat, NEW t, \A k \in 1 .. n + 1 : t[k] \in Seq(S),
           NEW A, \A k \in 0 .. n + 1 : A[k] \in Nat, A[n + 1] = A[n] + Len(t[n + 1]),
           NEW F \in Seq(S), EndToEnd(F, t, A, n)
    PROVE  F \o t[n + 1] \in Seq(S) /\ EndToEnd(F \o t[n + 1], t, A, n + 1)
<1> DEFINE u == t[n + 1]
           H == F \o u
<1>1. u \in Seq(S) /\ Len(u) \in Nat /\ A[n] \in Nat /\ n + 1 \in 1 .. n + 1 OBVIOUS
<1>2. Len(F) = A[n] BY DEF EndToEnd
<1>3. /\ H \in Seq(S) /\ Len(H) = A[n] + Len(u)
      /\ \A i \in 1 .. A[n] + Len(u) : H[i] = IF i <= A[n] THEN F[i] ELSE u[i - A[n]]
  <2> HIDE DEF u
  <2>1. /\ H \in Seq(S) /\ Len(H) = Len(F) + Len(u)
        /\ \A i \in 1 .. Len(F) + Len(u) : H[i] = IF i <= Len(F) THEN F[i] ELSE u[i - Len(F)]
        BY <1>1, ConcatProperties
  <2> HIDE DEF H
  <2> QED BY <1>2, <2>1
<1>4. A[n + 1] = A[n] + Len(u) OBVIOUS
<1> HIDE DEF H
<1>5. ASSUME NEW k \in 1 .. n + 1, NEW x \in 1 .. Len(t[k])
      PROVE  A[k - 1] + x \in 1 .. A[n + 1] /\ H[A[k - 1] + x] = t[k][x]
  <2>1. CASE k = n + 1
    <3>1. t[k] = u /\ k - 1 = n BY <2>1
    <3> HIDE DEF u
    <3>2. A[n] + x \in 1 .. A[n] + Len(u) /\ ~(A[n] + x <= A[n]) /\ (A[n] + x) - A[n] = x BY <1>1, <3>1
    <3>3. H[A[n] + x] = u[x] BY <1>3, <3>2
    <3> QED BY <1>4, <3>1, <3>2, <3>3
  <2>2. CASE k # n + 1
    <3>1. k \in 1 .. n BY <2>2
    <3>2. A[k - 1] + x \in 1 .. A[n] /\ F[A[k - 1] + x] = t[k][x] BY <3>1 DEF EndToEnd
    <3> DEFINE p == A[k - 1] + x
    <3> HIDE DEF u, p
    <3>3. p \in 1 .. A[n] /\ F[p] = t[k][x] BY <3>2 DEF p
    <3>4. p \in 1 .. A[n] + Len(u) /\ p <= A[n] BY <1>1, <3>3
    <3>5. H[p] = F[p] BY <1>3, <3>4
    <3>6. p \in 1 .. A[n + 1] /\ H[p] = t[k][x] BY <1>4, <3>3, <3>4, <3>5
    <3> QED BY <3>6 DEF p
  <2> QED BY <2>1, <2>2
<1>6. ASSUME NEW p \in 1 .. A[n + 1]
      PROVE  \E k \in 1 .. n + 1 : \E x \in 1 .. Len(t[k]) : p = A[k - 1] + x
  <2>1. CASE p <= A[n]
    <3>1. p \in 1 .. A[n] BY <1>1, <2>1
    <3>2. PICK k \in 1 .. n : \E x \in 1 .. Len(t[k]) : p = A[k - 1] + x BY <3>1 DEF EndToEnd
    <3>3. k \in 1 .. n + 1 OBVIOUS
    <3> QED BY <3>2, <3>3
  <2>2. CASE ~(p <= A[n])
    <3>1. p - A[n] \in 1 .. Len(u) /\ p = A[n] + (p - A[n])
      <4> HIDE DEF u
      <4> QED BY <1>1, <1>4, <2>2
    <3>2. (n + 1) - 1 = n OBVIOUS
    <3> QED BY <1>1, <3>1, <3>2
  <2> QED BY <2>1, <2>2
<1>7. EndToEnd(H, t, A, n + 1) BY <1>3, <1>4, <1>5, <1>6 DEF EndToEnd
<1> QED BY <1>3, <1>7 DEF H

LEMMA FlattenPlaces ==
    ASSUME NEW S, NEW n \in Nat \ {0}, NEW t, DOMAIN t = 1 .. n, Len(t) = n,
           \A k \in 1 .. n : t[k] \in Seq(S),
           NEW L, \A k \in 1 .. n : L[k] = Len(t[k]), NEW A, Partial(A, L, n)
    PROVE  FlattenSeq(t) \in Seq(S) /\ EndToEnd(FlattenSeq(t), t, A, n)
<1>1. PICK h : /\ \A i \in 1 .. n : h[i] = IF i = 1 THEN t[i] ELSE h[i - 1] \o t[i]
               /\ FlattenSeq(t) = h[n]
      BY FlattenFolds
<1>2. \A k \in 1 .. n : L[k] \in Nat OBVIOUS
<1>3. \A k \in 0 .. n : A[k] \in Nat BY <1>2, PartialsAreNumbers
<1>4. \A k \in 1 .. n : A[k] = A[k - 1] + Len(t[k]) BY DEF Partial
<1>5. A[0] = 0 BY DEF Partial
<1> DEFINE Good(k) == h[k] \in Seq(S) /\ EndToEnd(h[k], t, A, k)
           G == {m \in Nat : m + 1 <= n => Good(m + 1)}
<1>6. 0 \in G
  <2>1. 1 \in 1 .. n /\ h[1] = t[1] /\ t[1] \in Seq(S) BY <1>1
  <2>2. A[1] = Len(t[1]) BY <1>4, <1>5, <2>1
  <2>3. EndToEnd(t[1], t, A, 1)
    <3>1. ASSUME NEW k \in 1 .. 1, NEW x \in 1 .. Len(t[k])
          PROVE  A[k - 1] + x \in 1 .. A[1] /\ t[1][A[k - 1] + x] = t[k][x]
      <4>1. k = 1 /\ A[k - 1] = 0 BY <1>5
      <4>2. A[k - 1] + x = x BY <4>1
      <4> QED BY <2>2, <4>1, <4>2
    <3>2. ASSUME NEW p \in 1 .. A[1]
          PROVE  \E k \in 1 .. 1 : \E x \in 1 .. Len(t[k]) : p = A[k - 1] + x
      <4>1. p \in 1 .. Len(t[1]) /\ p = A[0] + p BY <1>5, <2>2
      <4>2. 1 \in 1 .. 1 /\ 1 - 1 = 0 OBVIOUS
      <4> QED BY <4>1, <4>2
    <3> QED BY <2>2, <3>1, <3>2 DEF EndToEnd
  <2> QED BY <2>1, <2>3
<1>7. ASSUME NEW m \in Nat, m \in G PROVE m + 1 \in G
  <2> SUFFICES ASSUME (m + 1) + 1 <= n PROVE Good((m + 1) + 1) OBVIOUS
  <2> DEFINE k == m + 1
             j == k + 1
  <2>1. k \in Nat /\ k \in 1 .. n /\ j \in 1 .. n /\ j # 1 /\ j - 1 = k OBVIOUS
  <2>2. Good(k) BY <1>7
  <2> HIDE DEF k, j
  <2>3. h[j] = h[k] \o t[j] BY <1>1, <2>1
  <2>4. A[j] = A[k] + Len(t[j]) BY <1>4, <2>1
  <2>5. \A i \in 1 .. k + 1 : t[i] \in Seq(S) BY <2>1 DEF j
  <2>6. \A i \in 0 .. k + 1 : A[i] \in Nat BY <1>3, <2>1 DEF j
  <2>7. h[k] \in Seq(S) /\ EndToEnd(h[k], t, A, k) BY <2>2
  <2>8. A[k + 1] = A[k] + Len(t[k + 1]) BY <2>4 DEF j
  <2>9. h[k] \o t[k + 1] \in Seq(S) /\ EndToEnd(h[k] \o t[k + 1], t, A, k + 1)
        BY <2>1, <2>5, <2>6, <2>7, <2>8, OneMore
  <2>10. h[j] \in Seq(S) /\ EndToEnd(h[j], t, A, j) BY <2>3, <2>9 DEF j
  <2> QED BY <2>10 DEF j, k
<1>8. \A m \in Nat : m \in G
  <2> HIDE DEF G
  <2> QED BY <1>6, <1>7, CountingUp
<1>9. Good(n)
  <2>1. n - 1 \in Nat /\ (n - 1) + 1 = n OBVIOUS
  <2>2. n - 1 \in G BY <1>8, <2>1
  <2> QED BY <2>1, <2>2
<1> QED BY <1>1, <1>9


-----------------------------------------------------------------------------
(* Occurrences of a value in a sequence.                                   *)

Occurrences(s, l, n) == {y \in 1 .. n : s[y] = l}
Times(s, l, n)       == Cardinality(Occurrences(s, l, n))

LEMMA OccurrenceFacts ==
    ASSUME NEW n \in Nat, NEW s, NEW l
    PROVE  /\ \A m \in 0 .. n : IsFiniteSet(Occurrences(s, l, m)) /\ Cardinality(Occurrences(s, l, m)) \in Nat
           /\ Partial([m \in 0 .. n |-> Cardinality(Occurrences(s, l, m))],
                      [k \in 1 .. n |-> IF s[k] = l THEN 1 ELSE 0], n)
<1> DEFINE C == [m \in 0 .. n |-> Cardinality(Occurrences(s, l, m))]
           I == [k \in 1 .. n |-> IF s[k] = l THEN 1 ELSE 0]
<1>1. ASSUME NEW m \in 0 .. n
      PROVE  IsFiniteSet(Occurrences(s, l, m)) /\ Cardinality(Occurrences(s, l, m)) \in Nat
  <2>1. IsFiniteSet(1 .. m) BY FS_Interval
  <2>2. Occurrences(s, l, m) \in SUBSET (1 .. m) BY DEF Occurrences
  <2> QED BY <2>1, <2>2, FS_Subset, FS_CardinalityType
<1>2. C[0] = 0
  <2>1. Occurrences(s, l, 0) = {} BY DEF Occurrences
  <2> QED BY <2>1, FS_EmptySet
<1>3. ASSUME NEW k \in 1 .. n PROVE C[k] = C[k - 1] + I[k]
  <2> DEFINE m == k - 1
             old == Occurrences(s, l, m)
  <2>1. m \in 0 .. n /\ k \in 0 .. n BY DEF Occurrences
  <2>2. IsFiniteSet(old) /\ Cardinality(old) \in Nat /\ C[m] = Cardinality(old) BY <1>1, <2>1
  <2>3. C[k] = Cardinality(Occurrences(s, l, k)) BY <2>1
  <2>4. CASE s[k] = l
    <3>1. Occurrences(s, l, k) = old \cup {k} BY <2>4 DEF Occurrences
    <3>2. k \notin old BY DEF Occurrences
    <3>3. I[k] = 1 BY <2>4
    <3> HIDE DEF old, C, I, m
    <3>4. Cardinality(old \cup {k}) = Cardinality(old) + 1 BY <2>2, <3>2, FS_AddElement
    <3> QED BY <2>2, <2>3, <3>1, <3>3, <3>4 DEF m
  <2>5. CASE s[k] # l
    <3>1. Occurrences(s, l, k) = old BY <2>5 DEF Occurrences
    <3>2. I[k] = 0 BY <2>5
    <3> HIDE DEF old, C, I, m
    <3> QED BY <2>2, <2>3, <3>1, <3>2 DEF m
  <2> QED BY <2>4, <2>5
<1>4. Partial(C, I, n) BY <1>2, <1>3 DEF Partial
<1> QED BY <1>1, <1>4

\* Each occurrence has a number of its own, from 0 to one less than their count.
LEMMA OccurrencesNumbered ==
    ASSUME NEW n \in Nat, NEW s, NEW l
    PROVE  /\ \A m \in 0 .. n : Times(s, l, m) \in Nat
           /\ \A x \in 1 .. n : s[x] = l => Times(s, l, x - 1) < Times(s, l, n)
           /\ \A x, y \in 1 .. n :
                s[x] = l /\ s[y] = l /\ Times(s, l, x - 1) = Times(s, l, y - 1) => x = y
           /\ \A k \in 0 .. Times(s, l, n) - 1 : \E x \in 1 .. n : s[x] = l /\ Times(s, l, x - 1) = k
<1>0. PICK C : \A m \in 0 .. n : C[m] = Cardinality(Occurrences(s, l, m))
  <2> DEFINE F == [m \in 0 .. n |-> Cardinality(Occurrences(s, l, m))]
  <2>1. \A m \in 0 .. n : F[m] = Cardinality(Occurrences(s, l, m)) OBVIOUS
  <2> QED BY <2>1
<1> DEFINE D == [m \in 0 .. n |-> Cardinality(Occurrences(s, l, m))]
           I == [k \in 1 .. n |-> IF s[k] = l THEN 1 ELSE 0]
<1>1. Partial(D, I, n) /\ \A m \in 0 .. n : C[m] = D[m] BY <1>0, OccurrenceFacts
<1>2. \A k \in 1 .. n : I[k] \in Nat /\ (s[k] = l => I[k] = 1) /\ (s[k] # l => I[k] = 0) OBVIOUS
<1> HIDE DEF D, I
<1>3. Partial(C, I, n)
  <2>1. \A k \in 1 .. n : k \in 0 .. n /\ k - 1 \in 0 .. n OBVIOUS
  <2>2. 0 \in 0 .. n OBVIOUS
  <2> QED BY <1>1, <2>1, <2>2 DEF Partial
<1>4. \A m \in 0 .. n : C[m] \in Nat BY <1>2, <1>3, PartialsAreNumbers
<1>5. ASSUME NEW x \in 1 .. n, s[x] = l PROVE C[x] = C[x - 1] + 1 BY <1>2, <1>3, <1>5 DEF Partial
<1>6. ASSUME NEW x \in 0 .. n, NEW y \in x .. n PROVE C[x] <= C[y]
      BY <1>2, <1>3, PartialsGrow
<1>7. ASSUME NEW x \in 1 .. n, s[x] = l PROVE C[x - 1] < C[n]
  <2>1. C[x] = C[x - 1] + 1 BY <1>5, <1>7
  <2>2. C[x] <= C[n] BY <1>6
  <2>3. C[x] \in Nat /\ C[x - 1] \in Nat /\ C[n] \in Nat BY <1>4
  <2> QED BY <2>1, <2>2, <2>3
<1>8. ASSUME NEW x \in 1 .. n, NEW y \in 1 .. n, s[x] = l, x < y PROVE C[x - 1] < C[y - 1]
  <2>1. C[x] = C[x - 1] + 1 BY <1>5, <1>8
  <2>2. x \in 0 .. n /\ y - 1 \in x .. n BY <1>8
  <2>3. C[x] <= C[y - 1] BY <1>6, <2>2
  <2>4. C[x] \in Nat /\ C[x - 1] \in Nat /\ C[y - 1] \in Nat BY <1>4
  <2> QED BY <2>1, <2>3, <2>4
<1>9. ASSUME NEW x \in 1 .. n, NEW y \in 1 .. n, s[x] = l, s[y] = l, C[x - 1] = C[y - 1] PROVE x = y
  <2>1. ~(x < y) /\ ~(y < x)
    <3>1. C[x - 1] \in Nat /\ C[y - 1] \in Nat BY <1>4
    <3> QED BY <1>8, <1>9, <3>1
  <2> QED BY <2>1
<1> DEFINE G == {m \in Nat : m <= n => \A k \in 0 .. C[m] - 1 : \E x \in 1 .. m : s[x] = l /\ C[x - 1] = k}
<1>10. 0 \in G
  <2>1. C[0] = 0 BY <1>3 DEF Partial
  <2> QED BY <2>1
<1>11. ASSUME NEW m \in Nat, m \in G PROVE m + 1 \in G
  <2> SUFFICES ASSUME m + 1 <= n, NEW k \in 0 .. C[m + 1] - 1
               PROVE  \E x \in 1 .. m + 1 : s[x] = l /\ C[x - 1] = k
      OBVIOUS
  <2>1. m + 1 \in 1 .. n /\ (m + 1) - 1 = m /\ m \in 0 .. n OBVIOUS
  <2>2. C[m + 1] = C[m] + I[m + 1] BY <1>3, <2>1 DEF Partial
  <2>3. C[m] \in Nat BY <1>4, <2>1
  <2>4. CASE k <= C[m] - 1
    <3>1. k \in 0 .. C[m] - 1 BY <2>3, <2>4
    <3>2. PICK x \in 1 .. m : s[x] = l /\ C[x - 1] = k BY <1>11, <2>1, <3>1
    <3> QED BY <3>2
  <2>5. CASE ~(k <= C[m] - 1)
    <3>1. I[m + 1] # 0 BY <2>2, <2>3, <2>5
    <3>2. s[m + 1] = l /\ I[m + 1] = 1 BY <1>2, <2>1, <3>1
    <3>3. k = C[m] BY <2>2, <2>3, <2>5, <3>2
    <3> QED BY <2>1, <3>2, <3>3
  <2> QED BY <2>4, <2>5
<1>12. n \in G
  <2> HIDE DEF G
  <2>1. Nat \subseteq G BY <1>10, <1>11, CountingUp
  <2> QED BY <2>1
<1>13. \A k \in 0 .. C[n] - 1 : \E x \in 1 .. n : s[x] = l /\ C[x - 1] = k BY <1>12
<1>14. \A m \in 0 .. n : C[m] = Times(s, l, m) BY <1>0 DEF Times
<1>15. \A x \in 1 .. n : C[x - 1] = Times(s, l, x - 1)
  <2>1. \A x \in 1 .. n : x - 1 \in 0 .. n OBVIOUS
  <2> QED BY <1>14, <2>1
<1>16. C[n] = Times(s, l, n)
  <2>1. n \in 0 .. n OBVIOUS
  <2> QED BY <1>14, <2>1
<1>17. \A m \in 0 .. n : Times(s, l, m) \in Nat BY <1>4, <1>14
<1>18. \A x \in 1 .. n : s[x] = l => Times(s, l, x - 1) < Times(s, l, n) BY <1>7, <1>15, <1>16
<1>19. \A x, y \in 1 .. n :
        s[x] = l /\ s[y] = l /\ Times(s, l, x - 1) = Times(s, l, y - 1) => x = y
      BY <1>9, <1>15
<1>20. \A k \in 0 .. Times(s, l, n) - 1 : \E x \in 1 .. n : s[x] = l /\ Times(s, l, x - 1) = k
      BY <1>13, <1>15, <1>16
<1> QED BY <1>17, <1>18, <1>19, <1>20


-----------------------------------------------------------------------------
(* Cuts of a sequence.                                                     *)

LEMMA CutFacts ==
    ASSUME NEW S, NEW F \in Seq(S), NEW f \in Nat, NEW m \in Nat, f + m <= Len(F)
    PROVE  /\ SubSeq(F, f + 1, f + m) \in Seq(S) /\ Len(SubSeq(F, f + 1, f + m)) = m
           /\ \A j \in 1 .. m : SubSeq(F, f + 1, f + m)[j] = F[f + j]
<1> DEFINE a == f + 1
           b == f + m
           v == SubSeq(F, a, b)
<1>1. a \in Int /\ b \in Int /\ b - a + 1 = m OBVIOUS
<1>2. \A i \in a .. b : F[i] \in S OBVIOUS
<1>3. (a <= b => b - a + 1 = m) /\ (~(a <= b) => m = 0) OBVIOUS
<1>4. \A j \in 1 .. m : a + j - 1 = f + j OBVIOUS
<1> HIDE DEF a, b
<1>5. /\ v \in Seq(S) /\ Len(v) = IF a <= b THEN b - a + 1 ELSE 0
      /\ \A i \in 1 .. b - a + 1 : v[i] = F[a + i - 1]
      BY <1>1, <1>2, SubSeqProperties
<1> HIDE DEF v
<1>6. Len(v) = m /\ \A j \in 1 .. m : v[j] = F[f + j] BY <1>1, <1>3, <1>4, <1>5
<1> QED BY <1>5, <1>6 DEF v, a, b

\* From a to b, F has what G has from e to d.
Alike(S, F, a, b, G, e, d) ==
    /\ F \in Seq(S) /\ G \in Seq(S)
    /\ \E f, g, m \in Nat :
         /\ a = f + 1 /\ b = f + m /\ e = g + 1 /\ d = g + m
         /\ f + m <= Len(F) /\ g + m <= Len(G) /\ \A j \in 1 .. m : F[f + j] = G[g + j]

Cut(F, a, b) == SubSeq(F, a, b)

LEMMA SameCut ==
    ASSUME NEW S, NEW F, NEW G, NEW a, NEW b, NEW e, NEW d, Alike(S, F, a, b, G, e, d)
    PROVE  Cut(F, a, b) = Cut(G, e, d)
<1> DEFINE u == SubSeq(F, a, b)
           v == SubSeq(G, e, d)
<1>0. F \in Seq(S) /\ G \in Seq(S) BY DEF Alike
<1>1. PICK f, g, m \in Nat :
         /\ a = f + 1 /\ b = f + m /\ e = g + 1 /\ d = g + m
         /\ f + m <= Len(F) /\ g + m <= Len(G) /\ \A j \in 1 .. m : F[f + j] = G[g + j]
      BY DEF Alike
<1>2. u \in Seq(S) /\ Len(u) = m /\ \A j \in 1 .. m : u[j] = F[f + j]
  <2> HIDE DEF u
  <2>1. u = SubSeq(F, f + 1, f + m) BY <1>1 DEF u
  <2> QED BY <1>0, <1>1, <2>1, CutFacts
<1>3. v \in Seq(S) /\ Len(v) = m /\ \A j \in 1 .. m : v[j] = G[g + j]
  <2> HIDE DEF v
  <2>1. v = SubSeq(G, g + 1, g + m) BY <1>1 DEF v
  <2> QED BY <1>0, <1>1, <2>1, CutFacts
<1> HIDE DEF u, v
<1>4. \A j \in 1 .. m : u[j] = v[j] BY <1>1, <1>2, <1>3
<1>5. u = v BY <1>2, <1>3, <1>4, SeqEqual
<1> QED BY <1>5 DEF u, v, Cut

-----------------------------------------------------------------------------
(* Places in an order.                                                     *)

\* R orders the elements of W: a set of pairs, strict and total on W.
Ordering(W, R) ==
    /\ IsFiniteSet(W)
    /\ \A n \in W : <<n, n>> \notin R
    /\ \A l, m, n \in W : <<l, m>> \in R /\ <<m, n>> \in R => <<l, n>> \in R
    /\ \A m, n \in W : m = n \/ <<m, n>> \in R \/ <<n, m>> \in R

\* How many elements come before n.
Earlier(W, R, n) == {m \in W : <<m, n>> \in R}
CountBefore(W, R, n)   == Cardinality(Earlier(W, R, n))

\* An ordered set has one element at every place.
LEMMA PlacesInOrder ==
    ASSUME NEW W, NEW R, Ordering(W, R)
    PROVE  /\ Cardinality(W) \in Nat
           /\ \A n \in W : CountBefore(W, R, n) \in 0 .. Cardinality(W) - 1
           /\ \A m, n \in W : <<m, n>> \in R => CountBefore(W, R, m) < CountBefore(W, R, n)
           /\ \A m, n \in W : CountBefore(W, R, m) = CountBefore(W, R, n) => m = n
           /\ \A k \in 0 .. Cardinality(W) - 1 : \E n \in W : CountBefore(W, R, n) = k
<1> DEFINE E(n) == Earlier(W, R, n)
<1>1. PICK N \in Nat : N = Cardinality(W) BY FS_CardinalityType DEF Ordering
<1>2. ASSUME NEW n \in W PROVE IsFiniteSet(E(n)) /\ CountBefore(W, R, n) \in 0 .. N - 1
  <2>1. E(n) \in SUBSET W /\ n \notin E(n) BY DEF Ordering, Earlier
  <2>2. IsFiniteSet(W) BY DEF Ordering
  <2>3. IsFiniteSet(E(n)) /\ Cardinality(E(n)) <= N /\ (N = Cardinality(E(n)) => W = E(n))
        BY <1>1, <2>1, <2>2, FS_Subset
  <2>4. Cardinality(E(n)) \in Nat BY <2>3, FS_CardinalityType
  <2> QED BY <2>1, <2>3, <2>4 DEF CountBefore
<1>3. ASSUME NEW m \in W, NEW n \in W, <<m, n>> \in R PROVE CountBefore(W, R, m) < CountBefore(W, R, n)
  <2>1. E(m) \in SUBSET E(n) BY <1>3 DEF Ordering, Earlier
  <2>2. m \in E(n) /\ m \notin E(m) BY <1>3 DEF Ordering, Earlier
  <2>3. IsFiniteSet(E(n)) BY <1>2
  <2>4. Cardinality(E(m)) <= Cardinality(E(n)) /\ (Cardinality(E(n)) = Cardinality(E(m)) => E(n) = E(m))
        BY <2>1, <2>3, FS_Subset
  <2>5. CountBefore(W, R, m) \in Nat /\ CountBefore(W, R, n) \in Nat BY <1>2
  <2> QED BY <2>2, <2>4, <2>5 DEF CountBefore
<1>4. ASSUME NEW m \in W, NEW n \in W, CountBefore(W, R, m) = CountBefore(W, R, n) PROVE m = n
  <2>1. CountBefore(W, R, m) \in Nat /\ CountBefore(W, R, n) \in Nat BY <1>2
  <2>2. <<m, n>> \notin R
    <3> SUFFICES ASSUME <<m, n>> \in R PROVE FALSE OBVIOUS
    <3>1. CountBefore(W, R, m) < CountBefore(W, R, n) BY <1>3
    <3> QED BY <1>4, <2>1, <3>1
  <2>3. <<n, m>> \notin R
    <3> SUFFICES ASSUME <<n, m>> \in R PROVE FALSE OBVIOUS
    <3>1. CountBefore(W, R, n) < CountBefore(W, R, m) BY <1>3
    <3> QED BY <1>4, <2>1, <3>1
  <2> QED BY <2>2, <2>3 DEF Ordering
<1>5. ASSUME NEW k \in 0 .. N - 1 PROVE \E n \in W : CountBefore(W, R, n) = k
  <2> DEFINE f == [n \in W |-> CountBefore(W, R, n)]
             T == 0 .. N - 1
  <2>0. f \in [W -> T] BY <1>2
  <2>1. f \in Injection(W, T) BY <1>4, <2>0, Fun_IsInj
  <2>2. IsFiniteSet(T) /\ Cardinality(T) = N BY FS_Interval
  <2> HIDE DEF f, T
  <2>3. f \in Surjection(W, T) BY <1>1, <2>1, <2>2, FS_Injection
  <2>4. PICK n \in W : f[n] = k BY <1>5, <2>3 DEF Surjection, T
  <2> QED BY <2>4 DEF f
<1> HIDE DEF E
<1> QED BY <1>1, <1>2, <1>3, <1>4, <1>5

\* h takes the elements of V to those of W, in order.
KeepsOrder(h, V, R, W, S) ==
    /\ IsFiniteSet(V) /\ h \in Bijection(V, W)
    /\ \A m, n \in V : <<m, n>> \in R <=> <<h[m], h[n]>> \in S

\* What keeps the order keeps the places.
LEMMA SamePlaces ==
    ASSUME NEW h, NEW V, NEW R, NEW W, NEW S, KeepsOrder(h, V, R, W, S)
    PROVE  /\ Cardinality(V) = Cardinality(W)
           /\ \A n \in V : CountBefore(V, R, n) = CountBefore(W, S, h[n])
<1>0. /\ IsFiniteSet(V) /\ h \in Bijection(V, W)
      /\ \A m, n \in V : <<m, n>> \in R <=> <<h[m], h[n]>> \in S
      BY DEF KeepsOrder
<1>1. /\ h \in [V -> W]
      /\ \A m, n \in V : h[m] = h[n] => m = n
      /\ \A w \in W : \E v \in V : h[v] = w
      BY <1>0, Fun_BijectionProperties
<1>2. ExistsBijection(V, W) BY <1>0 DEF ExistsBijection
<1>3. Cardinality(V) = Cardinality(W) BY <1>0, <1>2, FS_Bijection
<1>4. ASSUME NEW n \in V PROVE CountBefore(V, R, n) = CountBefore(W, S, h[n])
  <2> DEFINE A == Earlier(V, R, n)
             B == Earlier(W, S, h[n])
             f == [x \in A |-> h[x]]
  <2>1. IsFiniteSet(A) BY <1>0, FS_Subset DEF Earlier
  <2>2. f \in [A -> B] BY <1>0, <1>1 DEF Earlier
  <2>3. \A x, y \in A : f[x] = f[y] => x = y BY <1>1 DEF Earlier
  <2>4. \A t \in B : \E x \in A : f[x] = t
    <3> SUFFICES ASSUME NEW t \in B PROVE \E x \in A : f[x] = t OBVIOUS
    <3>1. t \in W /\ <<t, h[n]>> \in S BY DEF Earlier
    <3>2. PICK v \in V : h[v] = t BY <1>1, <3>1
    <3>3. v \in A BY <1>0, <3>1, <3>2 DEF Earlier
    <3> QED BY <3>2, <3>3
  <2> HIDE DEF A, B, f
  <2>5. f \in Bijection(A, B) BY <2>2, <2>3, <2>4, Fun_IsBij
  <2>6. ExistsBijection(A, B) BY <2>5 DEF ExistsBijection
  <2>7. Cardinality(A) = Cardinality(B) BY <2>1, <2>6, FS_Bijection
  <2> QED BY <2>7 DEF CountBefore, A, B
<1> QED BY <1>3, <1>4

=============================================================================
