----------------------------- MODULE LoopTheorems -----------------------------
(***************************************************************************)
(* What the proofs of several components need: induction over the natural  *)
(* numbers and over sequences, stated about sets, and the loops that the   *)
(* recursive functions of the models are.                                  *)
(***************************************************************************)
EXTENDS Integers, SequencesExt, SequenceTheorems, WellFoundedInduction, TLAPS

(* Induction up to n. *)
LEMMA UpToN ==
    ASSUME NEW n \in Nat, NEW P, 0 \in P, \A k \in 0..n : k \in P /\ k < n => k + 1 \in P
    PROVE  0..n \subseteq P
<1> DEFINE Bad == {k \in 0..n : k \notin P}
<1>1. SUFFICES ASSUME Bad # {} PROVE FALSE
  OBVIOUS
<1>2. PICK k \in Bad : \A j \in Bad : ~(j < k)
  <2>1. Bad \subseteq Nat
    OBVIOUS
  <2>2. \E x \in Bad : \A y \in Bad : ~(<<y, x>> \in OpToRel(<, Nat))
    <3> HIDE DEF Bad
    <3> QED
      BY <1>1, <2>1, NatLessThanWellFounded, WFMin
  <2> QED
    BY <2>1, <2>2 DEF OpToRel
<1>3. k \in 0..n /\ k \notin P /\ k # 0
  BY <1>2
<1>4. k - 1 \in 0..n /\ k - 1 < n /\ (k - 1) + 1 = k /\ k - 1 < k
  BY <1>3
<1>5. k - 1 \in P
  BY <1>2, <1>4
<1> QED
  BY <1>3, <1>4, <1>5

(* What a loop of n rounds makes of base, F[k] being the k-th round. *)
Rounds(g, n, base, F) ==
    /\ DOMAIN g = 0..n
    /\ g[0] = base
    /\ \A k \in 1..n : g[k] = F[k][g[k - 1]]

LEMMA OneRoundMore ==
    ASSUME NEW S, NEW n \in Nat, NEW m \in Nat, m < n, NEW base \in S,
           NEW F \in [1..n -> [S -> S]], NEW g \in [0..m -> S], Rounds(g, m, base, F)
    PROVE  \E h \in [0..m + 1 -> S] : Rounds(h, m + 1, base, F)
<1>1. m \in 0..m /\ g[m] \in S /\ m + 1 \in 1..n
  OBVIOUS
<1>2. PICK last \in S : last = F[m + 1][g[m]]
  BY <1>1
<1> DEFINE h == [k \in 0..m + 1 |-> IF k <= m THEN g[k] ELSE last]
<1>3. \A k \in 0..m : g[k] \in S
  OBVIOUS
<1>4. h \in [0..m + 1 -> S]
  <2>1. \A k \in 0..m + 1 : k <= m => k \in 0..m
    OBVIOUS
  <2> QED
    BY <1>3, <2>1
<1>5. \A k \in 0..m : h[k] = g[k]
  OBVIOUS
<1>6. h[m + 1] = last
  OBVIOUS
<1>7. DOMAIN h = 0..m + 1
  OBVIOUS
<1> HIDE DEF h
<1>8. h[0] = base
  <2>1. 0 \in 0..m
    OBVIOUS
  <2> QED
    BY <1>5, <2>1 DEF Rounds
<1>9. ASSUME NEW k \in 1..m + 1 PROVE h[k] = F[k][h[k - 1]]
  <2>1. CASE k <= m
    <3>1. k \in 0..m /\ k - 1 \in 0..m /\ k \in 1..m
      BY <2>1
    <3>2. h[k] = g[k] /\ h[k - 1] = g[k - 1] /\ g[k] = F[k][g[k - 1]]
      BY <1>5, <3>1 DEF Rounds
    <3> QED
      BY <3>2
  <2>2. CASE k = m + 1
    <3>1. k - 1 = m
      BY <2>2
    <3>2. h[k - 1] = g[m]
      BY <1>1, <1>5, <3>1
    <3> QED
      BY <1>2, <1>6, <2>2, <3>2
  <2> QED
    BY <2>1, <2>2
<1>10. Rounds(h, m + 1, base, F)
  BY <1>7, <1>8, <1>9 DEF Rounds
<1> QED
  BY <1>4, <1>10

LEMMA RoundsExist ==
    ASSUME NEW S, NEW n \in Nat, NEW base \in S, NEW F \in [1..n -> [S -> S]]
    PROVE  \E g \in [0..n -> S] : Rounds(g, n, base, F)
<1> DEFINE P == {m \in 0..n : \E g \in [0..m -> S] : Rounds(g, m, base, F)}
<1>1. 0 \in P
  <2> DEFINE z == [j \in 0..0 |-> base]
  <2>1. z \in [0..0 -> S] /\ z[0] = base /\ DOMAIN z = 0..0
    OBVIOUS
  <2>2. \A k \in 1..0 : FALSE
    OBVIOUS
  <2> HIDE DEF z
  <2>3. Rounds(z, 0, base, F)
    BY <2>1, <2>2 DEF Rounds
  <2> QED
    BY <2>1, <2>3
<1>2. ASSUME NEW m \in 0..n, m \in P, m < n PROVE m + 1 \in P
  <2>1. PICK g \in [0..m -> S] : Rounds(g, m, base, F)
    BY <1>2
  <2>2. \E h \in [0..m + 1 -> S] : Rounds(h, m + 1, base, F)
    BY <1>2, <2>1, OneRoundMore
  <2> QED
    BY <1>2, <2>2
<1>3. 0..n \subseteq P
  <2> HIDE DEF P
  <2> QED
    BY <1>1, <1>2, UpToN
<1> QED
  BY <1>3

(* Whatever holds at the start of a loop and is kept by its rounds. *)
LEMMA EveryRound ==
    ASSUME NEW S, NEW n \in Nat, NEW f, f[0] \in S,
           \A k \in 1..n : f[k - 1] \in S => f[k] \in S
    PROVE  \A k \in 0..n : f[k] \in S
<1> DEFINE P == {k \in 0..n : f[k] \in S}
<1>1. 0 \in P
  OBVIOUS
<1>2. ASSUME NEW k \in 0..n, k \in P, k < n PROVE k + 1 \in P
  <2>1. k + 1 \in 1..n /\ (k + 1) - 1 = k /\ k + 1 \in 0..n /\ f[k] \in S
    BY <1>2
  <2>2. f[k + 1] \in S
    BY <2>1
  <2> QED
    BY <2>1, <2>2
<1>3. 0..n \subseteq P
  <2> HIDE DEF P
  <2> QED
    BY <1>1, <1>2, UpToN
<1> QED
  BY <1>3

-----------------------------------------------------------------------------
(* A number of whole parts of m and of what is left.                       *)
LEMMA DivMod ==
    ASSUME NEW m \in Nat \ {0}, NEW q \in Int, NEW r \in 0..m - 1
    PROVE  (q * m + r) \div m = q /\ (q * m + r) % m = r
<1>1. PICK a \in Int : a = q * m + r
  OBVIOUS
<1>2. PICK d \in Int, s \in 0..m - 1 : d = a \div m /\ s = a % m /\ a = d * m + s
  BY <1>1
<1>3. PICK u \in Int, v \in Int : u = q * m /\ v = d * m
  OBVIOUS
<1>4. u + r = v + s
  BY <1>1, <1>2, <1>3
<1>5. ~(d < q)
  <2> SUFFICES ASSUME d < q PROVE FALSE
    OBVIOUS
  <2>1. PICK e \in Nat : q = d + 1 + e
    <3>1. q - d - 1 \in Nat /\ q = d + 1 + (q - d - 1)
      OBVIOUS
    <3> QED
      BY <3>1
  <2>2. PICK w \in Nat : w = e * m
    OBVIOUS
  <2>3. u = v + m + w
    BY <1>3, <2>1, <2>2
  <2> QED
    BY <1>2, <1>4, <2>3
<1>6. ~(q < d)
  <2> SUFFICES ASSUME q < d PROVE FALSE
    OBVIOUS
  <2>1. PICK e \in Nat : d = q + 1 + e
    <3>1. d - q - 1 \in Nat /\ d = q + 1 + (d - q - 1)
      OBVIOUS
    <3> QED
      BY <3>1
  <2>2. PICK w \in Nat : w = e * m
    OBVIOUS
  <2>3. v = u + m + w
    BY <1>3, <2>1, <2>2
  <2> QED
    BY <1>2, <1>4, <2>3
<1>7. d = q
  BY <1>5, <1>6
<1> QED
  BY <1>1, <1>2, <1>3, <1>4, <1>7

LEMMA Division ==
    ASSUME NEW m \in Nat \ {0}, NEW a \in Int
    PROVE  \E d \in Int, r \in 0..m - 1 : d = a \div m /\ r = a % m /\ a = d * m + r
OBVIOUS

-----------------------------------------------------------------------------
(* The ends of a bounded set of integers. *)

LEMMA LeastOf ==
    ASSUME NEW lo \in Int, NEW hi \in Int, NEW S \in SUBSET (lo..hi), S # {}
    PROVE  Min(S) \in S /\ \A v \in S : Min(S) <= v
<1> DEFINE T == {n \in Nat : n + lo \in S}
<1>0. \A v \in S : v \in Int /\ v - lo \in T
  OBVIOUS
<1>1. T \subseteq Nat /\ T # {}
  BY <1>0
<1>2. \E x \in T : \A y \in T : ~(<<y, x>> \in OpToRel(<, Nat))
  BY <1>1, NatLessThanWellFounded, WFMin
<1>3. PICK x \in T : \A y \in T : ~(y < x)
  BY <1>1, <1>2 DEF OpToRel
<1>4. x + lo \in S /\ \A v \in S : x + lo <= v
  BY <1>0, <1>3
<1>5. \E m \in S : \A v \in S : m <= v
  BY <1>4
<1>6. Min(S) = CHOOSE m \in S : \A v \in S : m <= v
  BY DEF Min
<1> QED
  BY <1>5, <1>6

LEMMA GreatestOf ==
    ASSUME NEW lo \in Int, NEW hi \in Int, NEW S \in SUBSET (lo..hi), S # {}
    PROVE  Max(S) \in S /\ \A v \in S : v <= Max(S)
<1> DEFINE T == {n \in Nat : hi - n \in S}
<1>0. \A v \in S : v \in Int /\ hi - v \in Nat /\ hi - (hi - v) = v /\ hi - v \in T
  OBVIOUS
<1>1. T \subseteq Nat /\ T # {}
  BY <1>0
<1>2. \E x \in T : \A y \in T : ~(<<y, x>> \in OpToRel(<, Nat))
  BY <1>1, NatLessThanWellFounded, WFMin
<1>3. PICK x \in T : \A y \in T : ~(y < x)
  BY <1>1, <1>2 DEF OpToRel
<1>4. hi - x \in S /\ \A v \in S : v <= hi - x
  <2>1. x \in Nat /\ hi - x \in S
    OBVIOUS
  <2>2. ASSUME NEW v \in S PROVE v <= hi - x
    <3>1. hi - v \in T /\ v \in Int
      BY <1>0
    <3>2. ~(hi - v < x) /\ hi - v \in Nat
      BY <1>3, <3>1
    <3> HIDE DEF T
    <3> QED
      BY <2>1, <3>1, <3>2
  <2> QED
    BY <2>1, <2>2
<1>5. \E m \in S : \A v \in S : m >= v
  BY <1>4
<1>6. Max(S) = CHOOSE m \in S : \A v \in S : m >= v
  BY DEF Max
<1>7. Max(S) \in S /\ \A v \in S : Max(S) >= v
  BY <1>5, <1>6
<1> QED
  BY <1>7

-----------------------------------------------------------------------------
(* The flattening of a sequence, one element more at a time. *)
LEMMA FlattenUnfolds ==
    ASSUME NEW S, NEW ss \in Seq(Seq(S))
    PROVE  \E f \in [0..Len(ss) -> Seq(S)] :
             /\ f[0] = <<>> /\ f[Len(ss)] = FlattenSeq(ss)
             /\ \A k \in 1..Len(ss) : f[k] = f[k - 1] \o ss[k]
<1>0. PICK n \in Nat : n = Len(ss)
  OBVIOUS
<1>1. \A k \in 1..n : ss[k] \in Seq(S)
  BY <1>0
<1> DEFINE F == [k \in 1..n |-> [x \in Seq(S) |-> x \o ss[k]]]
<1>2. F \in [1..n -> [Seq(S) -> Seq(S)]] /\ \A k \in 1..n, x \in Seq(S) : F[k][x] = x \o ss[k]
  <2>1. \A k \in 1..n : \A x \in Seq(S) : x \o ss[k] \in Seq(S)
    BY <1>1, ConcatProperties
  <2> QED
    BY <2>1
<1> HIDE DEF F
<1>3. PICK g \in [0..n -> Seq(S)] : Rounds(g, n, <<>>, F)
  BY <1>2, EmptySeq, RoundsExist
<1>4. g[0] = <<>> /\ \A k \in 1..n : g[k] = g[k - 1] \o ss[k]
  <2>1. \A k \in 1..n : k - 1 \in 0..n
    OBVIOUS
  <2> QED
    BY <1>2, <1>3, <2>1 DEF Rounds
<1>5. CASE n = 0
  <2>1. ss = <<>> /\ FlattenSeq(ss) = ss
    BY <1>0, <1>5, EmptySeq DEF FlattenSeq
  <2> QED
    BY <1>0, <1>3, <1>4, <1>5, <2>1
<1>6. CASE n # 0
  <2> DEFINE Unfolds(f) == f = [i \in 1..n |-> IF i = 1 THEN ss[i] ELSE f[i - 1] \o ss[i]]
             h == [i \in 1..n |-> g[i]]
  <2>1. \A i \in 1..n : h[i] = IF i = 1 THEN ss[i] ELSE h[i - 1] \o ss[i]
    <3> SUFFICES ASSUME NEW i \in 1..n
                 PROVE  h[i] = IF i = 1 THEN ss[i] ELSE h[i - 1] \o ss[i]
      OBVIOUS
    <3>1. h[i] = g[i - 1] \o ss[i]
      BY <1>4
    <3>2. CASE i = 1
      <4>1. <<>> \o ss[i] = ss[i] /\ g[i - 1] = <<>>
        BY <1>1, <1>4, <3>2, ConcatEmptySeq
      <4> QED
        BY <3>1, <3>2, <4>1
    <3>3. CASE i # 1
      <4>1. i - 1 \in 1..n
        BY <3>3
      <4> QED
        BY <3>1, <3>3, <4>1
    <3> QED
      BY <3>2, <3>3
  <2>2. Unfolds(h)
    BY <2>1
  <2>3. PICK flatten : flatten = (CHOOSE f : Unfolds(f)) /\ FlattenSeq(ss) = flatten[n]
    BY <1>0, <1>6 DEF FlattenSeq
  <2>4. Unfolds(flatten)
    <3> HIDE DEF Unfolds
    <3> QED
      BY <2>2, <2>3
  <2>5. \A i \in 1..n : flatten[i] = IF i = 1 THEN ss[i] ELSE flatten[i - 1] \o ss[i]
    BY <2>4
  <2> DEFINE P == {k \in 0..n : k # 0 => flatten[k] = g[k]}
  <2>6. 0 \in P
    OBVIOUS
  <2>7. ASSUME NEW k \in 0..n, k \in P, k < n PROVE k + 1 \in P
    <3>1. k + 1 \in 1..n /\ (k + 1) - 1 = k /\ (k + 1 = 1 <=> k = 0)
      BY <2>7
    <3>2. g[k + 1] = g[k] \o ss[k + 1]
      BY <1>4, <3>1
    <3>3. CASE k = 0
      <4>1. flatten[k + 1] = ss[k + 1]
        BY <2>5, <3>1, <3>3
      <4>2. g[k] = <<>> /\ <<>> \o ss[k + 1] = ss[k + 1]
        BY <1>1, <1>4, <3>1, <3>3, ConcatEmptySeq
      <4>3. flatten[k + 1] = g[k + 1]
        BY <3>2, <4>1, <4>2
      <4> QED
        BY <3>1, <4>3
    <3>4. CASE k # 0
      <4>1. flatten[k + 1] = flatten[k] \o ss[k + 1]
        BY <2>5, <3>1, <3>4
      <4>2. flatten[k] = g[k]
        BY <2>7, <3>4
      <4>3. flatten[k + 1] = g[k + 1]
        BY <3>2, <4>1, <4>2
      <4> QED
        BY <3>1, <4>3
    <3> QED
      BY <3>3, <3>4
  <2>8. n \in P
    <3>1. 0..n \subseteq P
      <4> HIDE DEF P
      <4> QED
        BY <2>6, <2>7, UpToN
    <3> QED
      BY <3>1
  <2>9. FlattenSeq(ss) = g[n]
    BY <1>6, <2>3, <2>8
  <2> QED
    BY <1>0, <1>3, <1>4, <2>9
<1> QED
  BY <1>5, <1>6

LEMMA FlattenAppend ==
    ASSUME NEW S, NEW ss \in Seq(Seq(S)), NEW x \in Seq(S)
    PROVE  /\ FlattenSeq(ss) \in Seq(S)
           /\ FlattenSeq(Append(ss, x)) = FlattenSeq(ss) \o x
<1>0. PICK n \in Nat : n = Len(ss)
  OBVIOUS
<1>1. PICK tt \in Seq(Seq(S)) : /\ tt = Append(ss, x) /\ Len(tt) = n + 1
                                /\ \A i \in 1..n : tt[i] = ss[i]
                                /\ tt[n + 1] = x
  BY <1>0, AppendProperties
<1>2. PICK f \in [0..n -> Seq(S)] : /\ f[0] = <<>> /\ f[n] = FlattenSeq(ss)
                                    /\ \A k \in 1..n : f[k] = f[k - 1] \o ss[k]
  BY <1>0, FlattenUnfolds
<1>3. PICK g \in [0..n + 1 -> Seq(S)] : /\ g[0] = <<>> /\ g[n + 1] = FlattenSeq(tt)
                                        /\ \A k \in 1..n + 1 : g[k] = g[k - 1] \o tt[k]
  <2>1. \E g \in [0..Len(tt) -> Seq(S)] : /\ g[0] = <<>> /\ g[Len(tt)] = FlattenSeq(tt)
                                          /\ \A k \in 1..Len(tt) : g[k] = g[k - 1] \o tt[k]
    BY FlattenUnfolds
  <2>2. Len(tt) = n + 1
    BY <1>1
  <2> QED
    BY <2>1, <2>2
<1> DEFINE P == {k \in 0..n : f[k] = g[k]}
<1>4. 0 \in P
  BY <1>2, <1>3
<1>5. ASSUME NEW k \in 0..n, k \in P, k < n PROVE k + 1 \in P
  <2>1. k + 1 \in 1..n /\ (k + 1) - 1 = k /\ k + 1 \in 1..n + 1 /\ k + 1 \in 0..n
    BY <1>5
  <2>2. f[k + 1] = f[k] \o ss[k + 1] /\ g[k + 1] = g[k] \o tt[k + 1]
    BY <1>2, <1>3, <2>1
  <2>3. f[k] = g[k] /\ ss[k + 1] = tt[k + 1]
    BY <1>1, <1>5, <2>1
  <2> QED
    BY <2>1, <2>2, <2>3
<1>6. f[n] = g[n]
  <2>1. 0..n \subseteq P
    <3> HIDE DEF P
    <3> QED
      BY <1>4, <1>5, UpToN
  <2> QED
    BY <2>1
<1>7. g[n + 1] = g[n] \o x
  <2>1. n + 1 \in 1..n + 1 /\ (n + 1) - 1 = n
    OBVIOUS
  <2> QED
    BY <1>1, <1>3, <2>1
<1>8. f[n] \in Seq(S)
  OBVIOUS
<1> QED
  BY <1>1, <1>2, <1>3, <1>6, <1>7, <1>8

=============================================================================
