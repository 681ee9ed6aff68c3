--------------------------- MODULE PipelineProofs ---------------------------
(***************************************************************************)
(* What run_query prints is an answer of its plan, for any plan, any store *)
(* and any cut of its rows into groups.                                    *)
(*                                                                         *)
(* First relations and their operators, a row and a batch at a time: what  *)
(* is kept, joined, summed and grouped of two batches is that of each, put *)
(* together; every relation has a sorted ordering, and the least element,  *)
(* the sums and the keys of more rows come from those there were.  Then    *)
(* the meaning of a plan: every operator has an answer, which its children *)
(* determine.  Then the invariant of a run and, operator by operator, that *)
(* each of its steps keeps it.                                             *)
(***************************************************************************)
EXTENDS Pipeline, LoopTheorems, FiniteSetTheorems

(* Induction over the sequences of elements of R. *)
LEMMA GrowingSequences ==
    ASSUME NEW R, NEW P, <<>> \in P,
           \A s \in Seq(R), x \in R : s \in P => Append(s, x) \in P
    PROVE  Seq(R) \subseteq P
<1>. SUFFICES ASSUME NEW s \in Seq(R) PROVE s \in P
  OBVIOUS
<1>0. PICK n \in Nat : n = Len(s)
  BY LenProperties
<1>1. PICK pre : pre = [k \in 0..n |-> SubSeq(s, 1, k)]
  OBVIOUS
<1>. DEFINE Q == {k \in 0..n : pre[k] \in P}
<1>2. 0 \in Q
  <2>1. pre[0] = <<>>
    BY <1>1, SubSeqEmpty
  <2>. QED BY <2>1
<1>3. ASSUME NEW k \in 0..n, k \in Q, k < n PROVE k + 1 \in Q
  <2>1. k + 1 \in 1..n /\ 1 \in 1..n /\ (k + 1) - 1 = k /\ k + 1 \in 0..n
    BY <1>3
  <2>2. pre[k + 1] = SubSeq(s, 1, k) \o <<s[k + 1]>>
    BY <1>0, <1>1, <2>1, SubSeqRecursiveSecond
  <2>3. pre[k] = SubSeq(s, 1, k) /\ SubSeq(s, 1, k) \in Seq(R)
    BY <1>0, <1>1, <2>1, SubSeqProperties, LenProperties
  <2>4. s[k + 1] \in R
    BY <1>0, <2>1, ElementOfSeq
  <2>5. pre[k + 1] = Append(pre[k], s[k + 1])
    BY <2>2, <2>3, <2>4, AppendIsConcat
  <2>6. Append(pre[k], s[k + 1]) \in P
    BY <1>3, <2>3, <2>4
  <2>. QED BY <2>1, <2>5, <2>6
<1>4. pre[n] = s /\ n \in Q
  <2>1. 0..n \subseteq Q
    <3>. HIDE DEF Q
    <3>. QED BY <1>2, <1>3, UpToN
  <2>2. pre[n] = s
    BY <1>0, <1>1, SubSeqFull
  <2>. QED BY <2>1, <2>2
<1>. QED BY <1>4

(* A loop over one element more starts like the loop without it. *)
Loop(f, n, S, base, F) == n \in Nat /\ f \in [0..n -> S] /\ Rounds(f, n, base, F)
OneMore(n, m, S, F, G) == m = n + 1 /\ \A k \in 1..n : \A x \in S : F[k][x] = G[k][x]
Follows(g, m, G, f, n) == g[m] = G[m][f[n]]

LEMMA LongerLoop ==
    ASSUME NEW S, NEW n, NEW m, NEW base, NEW F, NEW G, NEW f, NEW g,
           OneMore(n, m, S, F, G), Loop(f, n, S, base, F), Loop(g, m, S, base, G)
    PROVE  Follows(g, m, G, f, n)
<1>0. /\ n \in Nat /\ m = n + 1 /\ f \in [0..n -> S] /\ g \in [0..n + 1 -> S]
      /\ Rounds(f, n, base, F) /\ Rounds(g, n + 1, base, G)
      /\ \A k \in 1..n : \A x \in S : F[k][x] = G[k][x]
  BY DEF Loop, OneMore
<1>. DEFINE Q == {k \in 0..n : f[k] = g[k]}
<1>1. 0 \in Q
  BY <1>0 DEF Rounds
<1>2. ASSUME NEW k \in 0..n, k \in Q, k < n PROVE k + 1 \in Q
  <2>1. k + 1 \in 1..n /\ (k + 1) - 1 = k /\ k + 1 \in 1..n + 1 /\ f[k] \in S /\ f[k] = g[k]
    BY <1>0, <1>2
  <2>2. f[k + 1] = F[k + 1][f[k]] /\ g[k + 1] = G[k + 1][g[k]]
    BY <1>0, <2>1 DEF Rounds
  <2>3. f[k + 1] = g[k + 1]
    BY <1>0, <2>1, <2>2
  <2>. QED BY <2>1, <2>3
<1>3. 0..n \subseteq Q
  <2>. HIDE DEF Q
  <2>. QED BY <1>0, <1>1, <1>2, UpToN
<1>4. f[n] = g[n] /\ n + 1 \in 1..n + 1 /\ (n + 1) - 1 = n
  BY <1>0, <1>3
<1>. QED BY <1>0, <1>4 DEF Rounds, Follows

-----------------------------------------------------------------------------
(* Where, a row at a time. *)

WhereStep(rows, keep, R) ==
    [k \in 1..Len(rows) |->
       [s \in Seq(R) |-> IF rows[k] \in keep THEN Append(s, rows[k]) ELSE s]]

LEMMA WhereUnfolds ==
    ASSUME NEW R, NEW rows \in Seq(R), NEW keep
    PROVE  \E f \in [0..Len(rows) -> Seq(R)] :
             Rounds(f, Len(rows), <<>>, WhereStep(rows, keep, R)) /\ Where(rows, keep) = f[Len(rows)]
<1>0. PICK n \in Nat : n = Len(rows)
  BY LenProperties
<1>. DEFINE F == WhereStep(rows, keep, R)
<1>1. F \in [1..n -> [Seq(R) -> Seq(R)]]
      /\ \A k \in 1..n, s \in Seq(R) :
           F[k][s] = IF rows[k] \in keep THEN Append(s, rows[k]) ELSE s
  <2>1. \A k \in 1..n : \A s \in Seq(R) :
          (IF rows[k] \in keep THEN Append(s, rows[k]) ELSE s) \in Seq(R)
    BY <1>0, ElementOfSeq, AppendProperties
  <2>. QED BY <1>0, <2>1 DEF WhereStep
<1>. HIDE DEF F
<1>2. PICK g \in [0..n -> Seq(R)] : Rounds(g, n, <<>>, F)
  BY <1>1, EmptySeq, RoundsExist
<1>. DEFINE Unfolds(f) == f = [m \in 0..n |->
               IF m = 0 THEN <<>>
               ELSE IF rows[m] \in keep THEN Append(f[m - 1], rows[m])
               ELSE f[m - 1]]
<1>3. Unfolds(g)
  <2>1. \A m \in 1..n : m \in 1..n /\ m - 1 \in 0..n /\ g[m - 1] \in Seq(R)
    OBVIOUS
  <2>2. \A m \in 1..n : g[m] = IF rows[m] \in keep THEN Append(g[m - 1], rows[m]) ELSE g[m - 1]
    BY <1>1, <1>2, <2>1 DEF Rounds
  <2>3. g[0] = <<>> /\ \A m \in 0..n : m # 0 => m \in 1..n
    BY <1>2 DEF Rounds
  <2>4. \A m \in 0..n : g[m] =
               IF m = 0 THEN <<>>
               ELSE IF rows[m] \in keep THEN Append(g[m - 1], rows[m])
               ELSE g[m - 1]
    BY <2>2, <2>3
  <2>. QED BY <2>4
<1>4. PICK upTo : upTo = (CHOOSE f : Unfolds(f)) /\ Where(rows, keep) = upTo[n]
  BY <1>0 DEF Where
<1>5. Unfolds(upTo)
  <2>. HIDE DEF Unfolds
  <2>. QED BY <1>3, <1>4
<1>6. \A m \in 0..n : upTo[m] =
               IF m = 0 THEN <<>>
               ELSE IF rows[m] \in keep THEN Append(upTo[m - 1], rows[m])
               ELSE upTo[m - 1]
  BY <1>5
<1>. DEFINE Q == {k \in 0..n : upTo[k] = g[k]}
<1>7. 0 \in Q
  BY <1>2, <1>6 DEF Rounds
<1>8. ASSUME NEW k \in 0..n, k \in Q, k < n PROVE k + 1 \in Q
  <2>1. k + 1 \in 1..n /\ (k + 1) - 1 = k /\ k + 1 \in 0..n /\ g[k] \in Seq(R) /\ k + 1 # 0
    BY <1>8
  <2>2. g[k + 1] = IF rows[k + 1] \in keep THEN Append(g[k], rows[k + 1]) ELSE g[k]
    BY <1>1, <1>2, <2>1 DEF Rounds
  <2>3. upTo[k + 1] = IF rows[k + 1] \in keep THEN Append(upTo[k], rows[k + 1]) ELSE upTo[k]
    BY <1>6, <2>1
  <2>. QED BY <1>8, <2>1, <2>2, <2>3
<1>9. upTo[n] = g[n]
  <2>1. 0..n \subseteq Q
    <3>. HIDE DEF Q
    <3>. QED BY <1>7, <1>8, UpToN
  <2>. QED BY <2>1
<1>10. Where(rows, keep) = g[n]
  BY <1>4, <1>9
<1>. QED BY <1>0, <1>2, <1>10 DEF F

LEMMA WhereEmpty ==
    ASSUME NEW keep
    PROVE  Where(<<>>, keep) = <<>>
<1>1. <<>> \in Seq({}) /\ Len(<<>>) = 0
  BY EmptySeq
<1>2. PICK f \in [0..0 -> Seq({})] :
        Rounds(f, 0, <<>>, WhereStep(<<>>, keep, {})) /\ Where(<<>>, keep) = f[0]
  BY <1>1, WhereUnfolds
<1>. QED BY <1>2 DEF Rounds

LEMMA WhereType ==
    ASSUME NEW R, NEW rows \in Seq(R), NEW keep
    PROVE  Where(rows, keep) \in Seq(R)
<1>1. PICK n \in Nat : n = Len(rows)
  BY LenProperties
<1>2. PICK f \in [0..n -> Seq(R)] : Where(rows, keep) = f[n]
  BY <1>1, WhereUnfolds
<1>. QED BY <1>2

LEMMA WhereGrows ==
    ASSUME NEW R, NEW keep, NEW rows \in Seq(R), NEW row \in R
    PROVE  /\ row \in keep => Where(Append(rows, row), keep) = Append(Where(rows, keep), row)
           /\ row \notin keep => Where(Append(rows, row), keep) = Where(rows, keep)
<1>1. PICK n \in Nat : n = Len(rows)
  BY LenProperties
<1>2. PICK more \in Seq(R) : /\ more = Append(rows, row) /\ Len(more) = n + 1
                             /\ \A i \in 1..n : more[i] = rows[i]
                             /\ more[n + 1] = row
  BY <1>1, AppendProperties
<1>11. PICK F : F = WhereStep(rows, keep, R)
  OBVIOUS
<1>12. PICK G : G = WhereStep(more, keep, R)
  OBVIOUS
<1>3. PICK f \in [0..n -> Seq(R)] : Rounds(f, n, <<>>, F) /\ Where(rows, keep) = f[n]
  BY <1>1, <1>11, WhereUnfolds
<1>4. PICK g \in [0..n + 1 -> Seq(R)] : Rounds(g, n + 1, <<>>, G) /\ Where(more, keep) = g[n + 1]
  <2>1. \E g \in [0..Len(more) -> Seq(R)] :
          Rounds(g, Len(more), <<>>, G) /\ Where(more, keep) = g[Len(more)]
    BY <1>12, WhereUnfolds
  <2>2. Len(more) = n + 1
    BY <1>2
  <2>. QED BY <2>1, <2>2
<1>5. OneMore(n, n + 1, Seq(R), F, G)
  <2>1. \A k \in 1..n : k \in 1..Len(rows) /\ k \in 1..Len(more)
    BY <1>1, <1>2
  <2>. QED BY <1>11, <1>12, <1>2, <2>1 DEF WhereStep, OneMore
<1>6. \A x \in Seq(R) : G[n + 1][x] = IF row \in keep THEN Append(x, row) ELSE x
  <2>1. n + 1 \in 1..Len(more)
    BY <1>2
  <2>. QED BY <1>11, <1>12, <1>2, <2>1 DEF WhereStep
<1>7. f[n] \in Seq(R)
  OBVIOUS
<1>8. Follows(g, n + 1, G, f, n)
  <2>1. Loop(f, n, Seq(R), <<>>, F) /\ Loop(g, n + 1, Seq(R), <<>>, G)
    BY <1>3, <1>4 DEF Loop
  <2>. QED BY <1>5, <2>1, LongerLoop
<1>. QED BY <1>2, <1>3, <1>4, <1>6, <1>7, <1>8 DEF Follows

(* Sequences of sequences of rows, put together. *)
LEMMA AppendConcat ==
    ASSUME NEW R, NEW a \in Seq(R), NEW b \in Seq(R), NEW x \in R
    PROVE  a \o Append(b, x) = Append(a \o b, x)
<1>1. <<x>> \in Seq(R) /\ Append(b, x) = b \o <<x>> /\ a \o b \in Seq(R)
  BY AppendIsConcat, ConcatProperties
<1>2. Append(a \o b, x) = (a \o b) \o <<x>>
  BY <1>1, AppendIsConcat
<1>. QED BY <1>1, <1>2, ConcatAssociative

LEMMA WhereConcat ==
    ASSUME NEW R, NEW keep, NEW a \in Seq(R), NEW b \in Seq(R)
    PROVE  Where(a \o b, keep) = Where(a, keep) \o Where(b, keep)
<1>. DEFINE P == {s \in Seq(R) : Where(a \o s, keep) = Where(a, keep) \o Where(s, keep)}
<1>1. <<>> \in P
  <2>1. a \o <<>> = a /\ Where(a, keep) \o <<>> = Where(a, keep) /\ <<>> \in Seq(R)
    BY ConcatEmptySeq, WhereType, EmptySeq
  <2>. QED BY <2>1, WhereEmpty
<1>2. ASSUME NEW s \in Seq(R), NEW x \in R, s \in P PROVE Append(s, x) \in P
  <2>1. a \o Append(s, x) = Append(a \o s, x) /\ a \o s \in Seq(R) /\ Append(s, x) \in Seq(R)
    BY AppendConcat, ConcatProperties, AppendProperties
  <2>2. Where(a, keep) \in Seq(R) /\ Where(s, keep) \in Seq(R)
        /\ Where(a \o s, keep) = Where(a, keep) \o Where(s, keep)
    BY <1>2, WhereType
  <2>3. Where(a, keep) \o Append(Where(s, keep), x) = Append(Where(a, keep) \o Where(s, keep), x)
    BY <2>2, AppendConcat
  <2>4. Where(Append(s, x), keep) = IF x \in keep THEN Append(Where(s, keep), x) ELSE Where(s, keep)
    BY WhereGrows
  <2>5. Where(Append(a \o s, x), keep) = IF x \in keep THEN Append(Where(a \o s, keep), x) ELSE Where(a \o s, keep)
    BY <2>1, WhereGrows
  <2>6. Where(a \o Append(s, x), keep) = Where(a, keep) \o Where(Append(s, x), keep)
    BY <2>1, <2>2, <2>3, <2>4, <2>5
  <2>. QED BY <2>1, <2>6
<1>3. b \in P
  <2>. HIDE DEF P
  <2>. QED BY <1>1, <1>2, GrowingSequences
<1>. QED BY <1>3

(* What matters of keep is what it says of the rows there are. *)
LEMMA WhereAgrees ==
    ASSUME NEW R, NEW rows \in Seq(R), NEW keep, NEW other,
           \A i \in 1..Len(rows) : rows[i] \in keep <=> rows[i] \in other
    PROVE  Where(rows, keep) = Where(rows, other)
<1>. DEFINE P == {s \in Seq(R) : (\A i \in 1..Len(s) : s[i] \in keep <=> s[i] \in other)
                                => Where(s, keep) = Where(s, other)}
<1>1. <<>> \in P
  BY EmptySeq, WhereEmpty
<1>2. ASSUME NEW s \in Seq(R), NEW x \in R, s \in P PROVE Append(s, x) \in P
  <2>. SUFFICES ASSUME \A i \in 1..Len(Append(s, x)) :
                         Append(s, x)[i] \in keep <=> Append(s, x)[i] \in other
                PROVE  Where(Append(s, x), keep) = Where(Append(s, x), other)
    BY AppendProperties
  <2>0. PICK n \in Nat : n = Len(s)
    BY LenProperties
  <2>1. Len(Append(s, x)) = n + 1 /\ (\A i \in 1..n : Append(s, x)[i] = s[i]) /\ Append(s, x)[n + 1] = x
    BY <2>0, AppendProperties
  <2>2. x \in keep <=> x \in other
    BY <2>1
  <2>3. \A i \in 1..n : s[i] \in keep <=> s[i] \in other
    BY <2>1
  <2>4. Where(s, keep) = Where(s, other)
    BY <1>2, <2>0, <2>3
  <2>5. CASE x \in keep
    <3>1. Where(Append(s, x), keep) = Append(Where(s, keep), x)
      BY <2>5, WhereGrows
    <3>2. Where(Append(s, x), other) = Append(Where(s, other), x)
      BY <2>2, <2>5, WhereGrows
    <3>. QED BY <2>4, <3>1, <3>2
  <2>6. CASE x \notin keep
    <3>1. Where(Append(s, x), keep) = Where(s, keep)
      BY <2>6, WhereGrows
    <3>2. Where(Append(s, x), other) = Where(s, other)
      BY <2>2, <2>6, WhereGrows
    <3>. QED BY <2>4, <3>1, <3>2
  <2>. QED BY <2>5, <2>6
<1>3. rows \in P
  <2>. HIDE DEF P
  <2>. QED BY <1>1, <1>2, GrowingSequences
<1>. QED BY <1>3

LEMMA WhereWithin ==
    ASSUME NEW R, NEW rows \in Seq(R), NEW keep
    PROVE  Where(rows, {row \in Range(rows) : row \in keep}) = Where(rows, keep)
<1>1. \A i \in 1..Len(rows) : rows[i] \in Range(rows)
  BY RangeEquality
<1>. QED BY <1>1, WhereAgrees

LEMMA WhereNone ==
    ASSUME NEW R, NEW rows \in Seq(R), NEW keep, \A i \in 1..Len(rows) : rows[i] \notin keep
    PROVE  Where(rows, keep) = <<>>
<1>. DEFINE P == {s \in Seq(R) : Where(s, {}) = <<>>}
<1>1. <<>> \in P
  BY EmptySeq, WhereEmpty
<1>2. ASSUME NEW s \in Seq(R), NEW x \in R, s \in P PROVE Append(s, x) \in P
  BY <1>2, AppendProperties, WhereGrows
<1>3. rows \in P
  <2>. HIDE DEF P
  <2>. QED BY <1>1, <1>2, GrowingSequences
<1>4. Where(rows, keep) = Where(rows, {})
  BY WhereAgrees
<1>. QED BY <1>3, <1>4

LEMMA WhereOfWhere ==
    ASSUME NEW R, NEW rows \in Seq(R), NEW keep, NEW other
    PROVE  Where(Where(rows, keep), other) = Where(rows, keep \cap other)
<1>0. PICK both : both = keep \cap other
  OBVIOUS
<1>. DEFINE P == {s \in Seq(R) : Where(Where(s, keep), other) = Where(s, both)}
<1>1. <<>> \in P
  BY EmptySeq, WhereEmpty
<1>2. ASSUME NEW s \in Seq(R), NEW x \in R, s \in P PROVE Append(s, x) \in P
  <2>1. PICK more \in Seq(R) : more = Append(s, x)
    BY AppendProperties
  <2>2. PICK kept \in Seq(R) : kept = Where(s, keep)
    BY WhereType
  <2>3. Where(kept, other) = Where(s, both)
    BY <1>2, <2>2
  <2>4. CASE x \in both
    <3>0. x \in keep /\ x \in other
      BY <1>0, <2>4
    <3>1. Where(more, keep) = Append(kept, x)
      BY <2>1, <2>2, <3>0, WhereGrows
    <3>2. Where(more, both) = Append(Where(s, both), x)
      BY <2>1, <2>4, WhereGrows
    <3>3. Where(Append(kept, x), other) = Append(Where(kept, other), x)
      BY <3>0, WhereGrows
    <3>. QED BY <2>1, <2>3, <3>1, <3>2, <3>3
  <2>5. CASE x \in keep /\ x \notin other
    <3>1. Where(more, keep) = Append(kept, x) /\ Where(more, both) = Where(s, both)
      BY <1>0, <2>1, <2>2, <2>5, WhereGrows
    <3>2. Where(Append(kept, x), other) = Where(kept, other)
      BY <2>5, WhereGrows
    <3>. QED BY <2>1, <2>3, <3>1, <3>2
  <2>6. CASE x \notin keep
    <3>1. Where(more, keep) = kept /\ Where(more, both) = Where(s, both)
      BY <1>0, <2>1, <2>2, <2>6, WhereGrows
    <3>. QED BY <2>1, <2>3, <3>1
  <2>. QED BY <1>0, <2>4, <2>5, <2>6
<1>3. rows \in P
  <2>. HIDE DEF P
  <2>. QED BY <1>1, <1>2, GrowingSequences
<1>. QED BY <1>0, <1>3

(* The rows kept are rows that were there, and all that were there if they  *)
(* are all to be kept.                                                      *)
LEMMA WhereKeeps ==
    ASSUME NEW R, NEW rows \in Seq(R), NEW keep
    PROVE  /\ Where(rows, keep) \in Seq(R \cap keep)
           /\ rows \in Seq(keep) => Where(rows, keep) = rows
<1>1. Where(rows, keep) \in Seq(R \cap keep)
  <2>. DEFINE P == {s \in Seq(R) : Where(s, keep) \in Seq(R \cap keep)}
  <2>1. <<>> \in P
    BY EmptySeq, WhereEmpty
  <2>2. ASSUME NEW s \in Seq(R), NEW x \in R, s \in P PROVE Append(s, x) \in P
    <3>1. x \in keep => Append(Where(s, keep), x) \in Seq(R \cap keep)
      BY <2>2, AppendProperties
    <3>. QED BY <2>2, <3>1, AppendProperties, WhereGrows
  <2>3. rows \in P
    <3>. HIDE DEF P
    <3>. QED BY <2>1, <2>2, GrowingSequences
  <2>. QED BY <2>3
<1>2. ASSUME rows \in Seq(keep) PROVE Where(rows, keep) = rows
  <2>. DEFINE P == {s \in Seq(keep) : Where(s, keep) = s}
  <2>1. <<>> \in P
    BY EmptySeq, WhereEmpty
  <2>2. ASSUME NEW s \in Seq(keep), NEW x \in keep, s \in P PROVE Append(s, x) \in P
    <3>1. Where(Append(s, x), keep) = Append(Where(s, keep), x)
      BY WhereGrows
    <3>2. Append(s, x) \in Seq(keep) /\ Where(s, keep) = s
      BY <2>2, AppendProperties
    <3>3. Where(Append(s, x), keep) = Append(s, x)
      BY <3>1, <3>2
    <3>. QED BY <3>2, <3>3
  <2>3. rows \in P
    <3>. HIDE DEF P
    <3>. QED BY <1>2, <2>1, <2>2, GrowingSequences
  <2>. QED BY <2>3
<1>. QED BY <1>1, <1>2

-----------------------------------------------------------------------------
(* How often a row is there, and which sequences have the same rows. *)

Often(rows, row) == Len(Where(rows, {row}))
Alike(a, b, R)   == \A row \in R : Often(a, row) = Often(b, row)

LEMMA OftenEmpty ==
    ASSUME NEW row
    PROVE  Often(<<>>, row) = 0
BY WhereEmpty, EmptySeq DEF Often

LEMMA OftenType ==
    ASSUME NEW R, NEW rows \in Seq(R), NEW row
    PROVE  Often(rows, row) \in Nat
BY WhereType, LenProperties DEF Often

LEMMA OftenGrows ==
    ASSUME NEW R, NEW rows \in Seq(R), NEW last \in R, NEW row
    PROVE  /\ row = last => Often(Append(rows, last), row) = Often(rows, row) + 1
           /\ row # last => Often(Append(rows, last), row) = Often(rows, row)
<1>1. PICK kept \in Seq(R) : kept = Where(rows, {row})
  BY WhereType
<1>2. CASE row = last
  <2>1. Where(Append(rows, last), {row}) = Append(kept, last)
    BY <1>1, <1>2, WhereGrows
  <2>2. Len(Append(kept, last)) = Len(kept) + 1
    BY AppendProperties
  <2>. QED BY <1>1, <1>2, <2>1, <2>2 DEF Often
<1>3. CASE row # last
  <2>1. Where(Append(rows, last), {row}) = kept
    BY <1>1, <1>3, WhereGrows
  <2>. QED BY <1>1, <1>3, <2>1 DEF Often
<1>. QED BY <1>2, <1>3

LEMMA OftenConcat ==
    ASSUME NEW R, NEW a \in Seq(R), NEW b \in Seq(R), NEW row
    PROVE  Often(a \o b, row) = Often(a, row) + Often(b, row)
<1>1. Where(a \o b, {row}) = Where(a, {row}) \o Where(b, {row})
  BY WhereConcat
<1>2. PICK x \in Seq(R), y \in Seq(R) : x = Where(a, {row}) /\ y = Where(b, {row})
  BY WhereType
<1>3. Len(x \o y) = Len(x) + Len(y)
  BY ConcatProperties
<1>. QED BY <1>1, <1>2, <1>3 DEF Often

LEMMA OftenWhere ==
    ASSUME NEW R, NEW rows \in Seq(R), NEW keep, NEW row
    PROVE  Often(Where(rows, keep), row) = IF row \in keep THEN Often(rows, row) ELSE 0
<1>1. Where(Where(rows, keep), {row}) = Where(rows, keep \cap {row})
  BY WhereOfWhere
<1>2. CASE row \in keep
  <2>1. keep \cap {row} = {row}
    BY <1>2
  <2>. QED BY <1>1, <1>2, <2>1 DEF Often
<1>3. CASE row \notin keep
  <2>1. keep \cap {row} = {}
    BY <1>3
  <2>2. Where(rows, {}) = <<>>
    BY WhereNone
  <2>3. Often(Where(rows, keep), row) = Len(<<>>)
    BY <1>1, <2>1, <2>2 DEF Often
  <2>. QED BY <1>3, <2>3, EmptySeq
<1>. QED BY <1>2, <1>3

LEMMA OftenNever ==
    ASSUME NEW R, NEW rows \in Seq(R), NEW row, Often(rows, row) # 0
    PROVE  \E i \in 1..Len(rows) : rows[i] = row
<1>1. ASSUME \A i \in 1..Len(rows) : rows[i] # row PROVE FALSE
  <2>1. \A i \in 1..Len(rows) : rows[i] \notin {row}
    BY <1>1
  <2>2. Where(rows, {row}) = <<>>
    BY <2>1, WhereNone
  <2>. QED BY <2>2, EmptySeq DEF Often
<1>. QED BY <1>1

SplitsAt(rows, i, a, b) == rows = Append(a, rows[i]) \o b

LEMMA SplitAt ==
    ASSUME NEW R, NEW rows \in Seq(R), NEW i \in 1..Len(rows)
    PROVE  \E a \in Seq(R), b \in Seq(R) : SplitsAt(rows, i, a, b)
<1>1. PICK n \in Nat : n = Len(rows)
  BY LenProperties
<1>2. PICK a \in Seq(R) : a = SubSeq(rows, 1, i - 1)
  <2>1. PICK m \in Int : m = i - 1
    OBVIOUS
  <2>2. \A k \in 1..m : rows[k] \in R
    BY <1>1, <2>1, LenProperties
  <2>3. SubSeq(rows, 1, m) \in Seq(R)
    BY <2>2, SubSeqProperties
  <2>. QED BY <2>1, <2>3
<1>3. PICK b \in Seq(R) : b = SubSeq(rows, i + 1, n)
  <2>1. PICK m \in Int : m = i + 1
    OBVIOUS
  <2>2. \A k \in m..n : rows[k] \in R
    BY <1>1, <2>1, LenProperties
  <2>3. SubSeq(rows, m, n) \in Seq(R)
    BY <2>2, SubSeqProperties
  <2>. QED BY <2>1, <2>3
<1>4. rows[i] \in R
  BY LenProperties
<1>5. SubSeq(rows, 1, i) = Append(a, rows[i])
  <2>1. 1 \in 1..Len(rows) /\ i \in 1..Len(rows)
    BY <1>1
  <2>2. SubSeq(rows, 1, i) = a \o <<rows[i]>>
    BY <1>2, <2>1, SubSeqRecursiveSecond
  <2>. QED BY <1>4, <2>2, AppendIsConcat
<1>6. SubSeq(rows, 1, i) \o SubSeq(rows, i + 1, n) = SubSeq(rows, 1, n)
  <2>1. 1 \in 1..Len(rows) + 1 /\ i \in 1 - 1..Len(rows) /\ n \in i..Len(rows)
    BY <1>1
  <2>. QED BY <2>1, ConcatAdjacentSubSeq
<1>7. SubSeq(rows, 1, n) = rows
  BY <1>1, SubSeqFull
<1>8. SplitsAt(rows, i, a, b)
  BY <1>3, <1>5, <1>6, <1>7 DEF SplitsAt
<1>. QED BY <1>8

LEMMA AlikeLength ==
    ASSUME NEW R, NEW a \in Seq(R), NEW b \in Seq(R), Alike(a, b, R)
    PROVE  Len(a) = Len(b)
<1>. DEFINE P == {s \in Seq(R) : \A t \in Seq(R) : Alike(s, t, R) => Len(s) = Len(t)}
<1>1. <<>> \in P
  <2>. SUFFICES ASSUME NEW t \in Seq(R), Alike(<<>>, t, R), t # <<>> PROVE FALSE
    BY EmptySeq
  <2>1. PICK front \in Seq(R), last \in R : t = Append(front, last)
    BY SequenceEmptyOrAppend
  <2>2. Often(t, last) = Often(front, last) + 1 /\ Often(front, last) \in Nat
    BY <2>1, OftenGrows, OftenType
  <2>3. Often(t, last) = 0
    BY OftenEmpty DEF Alike
  <2>. QED BY <2>2, <2>3
<1>2. ASSUME NEW s \in Seq(R), NEW x \in R, s \in P PROVE Append(s, x) \in P
  <2>1. PICK more \in Seq(R) : more = Append(s, x) /\ Len(more) = Len(s) + 1
    BY AppendProperties
  <2>2. ASSUME NEW t \in Seq(R), Alike(more, t, R) PROVE Len(more) = Len(t)
    <3>1. Often(t, x) = Often(s, x) + 1 /\ Often(s, x) \in Nat
      BY <2>1, <2>2, OftenGrows, OftenType DEF Alike
    <3>2. PICK i \in 1..Len(t) : t[i] = x
      BY <3>1, OftenNever
    <3>3. PICK u \in Seq(R), v \in Seq(R) : t = Append(u, x) \o v
      <4>1. PICK u \in Seq(R), v \in Seq(R) : SplitsAt(t, i, u, v)
        BY SplitAt
      <4>. QED BY <3>2, <4>1 DEF SplitsAt
    <3>4. PICK both \in Seq(R) : both = u \o v /\ Len(both) = Len(u) + Len(v)
      BY ConcatProperties
    <3>5. ASSUME NEW row \in R PROVE Often(s, row) = Often(both, row)
      <4>1. PICK ux \in Seq(R) : ux = Append(u, x)
        BY AppendProperties
      <4>2. Often(t, row) = Often(ux, row) + Often(v, row)
        BY <3>3, <4>1, OftenConcat
      <4>3. Often(both, row) = Often(u, row) + Often(v, row)
        BY <3>4, OftenConcat
      <4>4. Often(u, row) \in Nat /\ Often(v, row) \in Nat /\ Often(s, row) \in Nat
        BY OftenType
      <4>8. PICK nu \in Nat, nv \in Nat, ns \in Nat :
              nu = Often(u, row) /\ nv = Often(v, row) /\ ns = Often(s, row)
        BY <4>4
      <4>5. Often(more, row) = Often(t, row)
        BY <2>2 DEF Alike
      <4>6. CASE row = x
        <5>1. Often(ux, row) = Often(u, row) + 1 /\ Often(more, row) = Often(s, row) + 1
          BY <2>1, <4>1, <4>6, OftenGrows
        <5>2. ns + 1 = (nu + 1) + nv
          BY <4>2, <4>5, <4>8, <5>1
        <5>3. ns = nu + nv
          BY <5>2
        <5>. QED BY <4>3, <4>8, <5>3
      <4>7. CASE row # x
        <5>1. Often(ux, row) = Often(u, row) /\ Often(more, row) = Often(s, row)
          BY <2>1, <4>1, <4>7, OftenGrows
        <5>. QED BY <4>2, <4>3, <4>4, <4>5, <5>1
      <4>. QED BY <4>6, <4>7
    <3>6. Len(s) = Len(both)
      BY <1>2, <3>5 DEF Alike
    <3>7. Len(t) = (Len(u) + 1) + Len(v)
      <4>1. PICK ux \in Seq(R) : ux = Append(u, x) /\ Len(ux) = Len(u) + 1
        BY AppendProperties
      <4>. QED BY <3>3, <4>1, ConcatProperties
    <3>8. Len(u) \in Nat /\ Len(v) \in Nat
      BY LenProperties
    <3>. QED BY <2>1, <3>4, <3>6, <3>7, <3>8
  <2>. QED BY <2>1, <2>2
<1>3. a \in P
  <2>. HIDE DEF P
  <2>. QED BY <1>1, <1>2, GrowingSequences
<1>. QED BY <1>3

(* The orderings of some rows are the sequences that have them as often. *)
LEMMA OrderingsAreAlike ==
    ASSUME NEW R, NEW rows \in Seq(R), NEW s
    PROVE  s \in Orderings(rows) <=> s \in Seq(R) /\ Alike(s, rows, R)
<1>1. ASSUME s \in Orderings(rows) PROVE s \in Seq(R) /\ Alike(s, rows, R)
  <2>1. /\ s \in [1..Len(rows) -> Range(rows)]
        /\ \A row \in Range(rows) : Often(s, row) = Often(rows, row)
    BY <1>1 DEF Orderings, Often
  <2>2. Range(rows) \subseteq R /\ Len(rows) \in Nat
    BY RangeOfSeq, LenProperties
  <2>3. s \in Seq(Range(rows)) /\ rows \in Seq(Range(rows)) /\ s \in Seq(R)
    <3>1. s \in Seq(Range(rows)) /\ s \in [1..Len(rows) -> R]
      BY <2>1, <2>2, SeqDef
    <3>. QED BY <2>2, <3>1, SeqOfRange, SeqDef
  <2>4. ASSUME NEW row \in R, row \notin Range(rows) PROVE Often(s, row) = Often(rows, row)
    <3>1. \A t \in Seq(Range(rows)) : Often(t, row) # 0 => \E i \in 1..Len(t) : t[i] = row
      BY OftenNever
    <3>2. \A t \in Seq(Range(rows)) : Often(t, row) = 0
      BY <2>4, <3>1, ElementOfSeq
    <3>. QED BY <2>3, <3>2
  <2>. QED BY <2>1, <2>3, <2>4 DEF Alike
<1>2. ASSUME s \in Seq(R), Alike(s, rows, R) PROVE s \in Orderings(rows)
  <2>1. Len(s) = Len(rows) /\ Len(s) \in Nat
    BY <1>2, AlikeLength, LenProperties
  <2>2. Range(rows) \subseteq R
    BY RangeOfSeq
  <2>3. ASSUME NEW i \in 1..Len(s) PROVE s[i] \in Range(rows)
    <3>1. s[i] \in R
      BY <1>2, ElementOfSeq
    <3>2. Often(s, s[i]) # 0
      <4>0. PICK u \in Seq(R), v \in Seq(R) : SplitsAt(s, i, u, v)
        BY <1>2, SplitAt
      <4>1. s = Append(u, s[i]) \o v
        BY <4>0 DEF SplitsAt
      <4>2. PICK us \in Seq(R) : us = Append(u, s[i])
        BY <3>1, AppendProperties
      <4>3. Often(us, s[i]) = Often(u, s[i]) + 1
        BY <3>1, <4>2, OftenGrows
      <4>4. Often(s, s[i]) = Often(us, s[i]) + Often(v, s[i])
        BY <4>1, <4>2, OftenConcat
      <4>5. Often(u, s[i]) \in Nat /\ Often(v, s[i]) \in Nat
        BY OftenType
      <4>. QED BY <4>3, <4>4, <4>5
    <3>3. Often(rows, s[i]) # 0
      BY <1>2, <3>1, <3>2 DEF Alike
    <3>4. PICK k \in 1..Len(rows) : rows[k] = s[i]
      BY <3>3, OftenNever
    <3>. QED BY <3>4, RangeEquality
  <2>4. s \in [1..Len(rows) -> Range(rows)]
    BY <1>2, <2>1, <2>3, LenProperties
  <2>. QED BY <1>2, <2>2, <2>4 DEF Orderings, Alike, Often
<1>. QED BY <1>1, <1>2

LEMMA OrderingSelf ==
    ASSUME NEW R, NEW rows \in Seq(R)
    PROVE  rows \in Orderings(rows)
<1>1. Alike(rows, rows, R)
  BY DEF Alike
<1>. QED BY <1>1, OrderingsAreAlike

LEMMA AlikeConcat ==
    ASSUME NEW R, NEW a \in Seq(R), NEW b \in Seq(R), NEW c \in Seq(R), NEW d \in Seq(R),
           Alike(a, c, R), Alike(b, d, R)
    PROVE  Alike(a \o b, c \o d, R)
<1>. SUFFICES ASSUME NEW row \in R PROVE Often(a \o b, row) = Often(c \o d, row)
  BY DEF Alike
<1>1. Often(a \o b, row) = Often(a, row) + Often(b, row)
  BY OftenConcat
<1>2. Often(c \o d, row) = Often(c, row) + Often(d, row)
  BY OftenConcat
<1>. QED BY <1>1, <1>2 DEF Alike

LEMMA AlikeWhere ==
    ASSUME NEW R, NEW a \in Seq(R), NEW b \in Seq(R), NEW keep, Alike(a, b, R)
    PROVE  Alike(Where(a, keep), Where(b, keep), R)
<1>. SUFFICES ASSUME NEW row \in R PROVE Often(Where(a, keep), row) = Often(Where(b, keep), row)
  BY DEF Alike
<1>1. Often(Where(a, keep), row) = IF row \in keep THEN Often(a, row) ELSE 0
  BY OftenWhere
<1>2. Often(Where(b, keep), row) = IF row \in keep THEN Often(b, row) ELSE 0
  BY OftenWhere
<1>. QED BY <1>1, <1>2 DEF Alike

-----------------------------------------------------------------------------
(* A function applied to every element, and the results put together.       *)

Mapped(f, s)  == [i \in 1..Len(s) |-> f[s[i]]]
FlatMap(f, s) == FlattenSeq(Mapped(f, s))

LEMMA MappedType ==
    ASSUME NEW S, NEW T, NEW f \in [S -> T], NEW s \in Seq(S)
    PROVE  Mapped(f, s) \in Seq(T) /\ Len(Mapped(f, s)) = Len(s)
<1>1. PICK n \in Nat : n = Len(s)
  BY LenProperties
<1>2. \A i \in 1..n : f[s[i]] \in T
  BY <1>1, ElementOfSeq
<1>. QED BY <1>1, <1>2 DEF Mapped

LEMMA MappedEmpty ==
    ASSUME NEW f
    PROVE  Mapped(f, <<>>) = <<>> /\ FlatMap(f, <<>>) = <<>>
<1>1. Mapped(f, <<>>) = <<>>
  <2>1. Len(<<>>) = 0
    OBVIOUS
  <2>2. Mapped(f, <<>>) = [i \in 1..0 |-> f[<<>>[i]]]
    BY <2>1 DEF Mapped
  <2>. QED BY <2>2
<1>2. FlattenSeq(<<>>) = <<>>
  BY DEF FlattenSeq
<1>. QED BY <1>1, <1>2 DEF FlatMap

LEMMA MappedGrows ==
    ASSUME NEW S, NEW T, NEW f \in [S -> T], NEW s \in Seq(S), NEW x \in S
    PROVE  Mapped(f, Append(s, x)) = Append(Mapped(f, s), f[x])
<1>1. PICK n \in Nat : n = Len(s)
  BY LenProperties
<1>2. PICK more \in Seq(S) : /\ more = Append(s, x) /\ Len(more) = n + 1
                             /\ \A i \in 1..n : more[i] = s[i]
                             /\ more[n + 1] = x
  BY <1>1, AppendProperties
<1>3. PICK m \in Seq(T) : m = Mapped(f, s) /\ Len(m) = n
  BY <1>1, MappedType
<1>4. \A i \in 1..n : m[i] = f[s[i]]
  BY <1>1, <1>3 DEF Mapped
<1>5. PICK mm \in Seq(T) : mm = Mapped(f, more) /\ Len(mm) = n + 1
  <2>1. Mapped(f, more) \in Seq(T) /\ Len(Mapped(f, more)) = Len(more)
    BY MappedType
  <2>. QED BY <1>2, <2>1
<1>6. \A i \in 1..n + 1 : mm[i] = f[more[i]]
  BY <1>2, <1>5 DEF Mapped
<1>7. PICK y \in T : y = f[x]
  OBVIOUS
<1>8. PICK am \in Seq(T) : /\ am = Append(m, y) /\ Len(am) = n + 1
                            /\ \A i \in 1..n : am[i] = m[i]
                            /\ am[n + 1] = y
  BY <1>3, AppendProperties
<1>9. \A i \in 1..n + 1 : mm[i] = am[i]
  <2>. SUFFICES ASSUME NEW i \in 1..n + 1 PROVE mm[i] = am[i]
    OBVIOUS
  <2>1. CASE i = n + 1
    BY <1>2, <1>6, <1>7, <1>8, <2>1
  <2>2. CASE i # n + 1
    <3>1. i \in 1..n
      BY <2>2
    <3>. QED BY <1>2, <1>4, <1>6, <1>8, <3>1
  <2>. QED BY <2>1, <2>2
<1>10. mm = am
  BY <1>5, <1>8, <1>9, SeqEqual
<1>. QED BY <1>2, <1>3, <1>5, <1>7, <1>8, <1>10

LEMMA MappedConcat ==
    ASSUME NEW S, NEW T, NEW f \in [S -> T], NEW a \in Seq(S), NEW b \in Seq(S)
    PROVE  Mapped(f, a \o b) = Mapped(f, a) \o Mapped(f, b)
<1>. DEFINE P == {s \in Seq(S) : Mapped(f, a \o s) = Mapped(f, a) \o Mapped(f, s)}
<1>0. PICK ma \in Seq(T) : ma = Mapped(f, a)
  BY MappedType
<1>1. <<>> \in P
  <2>1. a \o <<>> = a /\ ma \o <<>> = ma
    BY ConcatEmptySeq
  <2>. QED BY <1>0, <2>1, EmptySeq, MappedEmpty
<1>2. ASSUME NEW s \in Seq(S), NEW x \in S, s \in P PROVE Append(s, x) \in P
  <2>1. PICK as \in Seq(S), more \in Seq(S) : as = a \o s /\ more = Append(s, x)
    BY ConcatProperties, AppendProperties
  <2>2. PICK ms \in Seq(T) : ms = Mapped(f, s)
    BY MappedType
  <2>3. a \o more = Append(as, x)
    BY <2>1, AppendConcat
  <2>4. Mapped(f, Append(as, x)) = Append(Mapped(f, as), f[x]) /\ Mapped(f, more) = Append(ms, f[x])
    BY <2>1, <2>2, MappedGrows
  <2>5. Mapped(f, as) = ma \o ms
    BY <1>0, <1>2, <2>1, <2>2
  <2>6. f[x] \in T
    OBVIOUS
  <2>7. ma \o Append(ms, f[x]) = Append(ma \o ms, f[x])
    BY <2>6, AppendConcat
  <2>8. Mapped(f, a \o more) = ma \o Mapped(f, more)
    BY <2>3, <2>4, <2>5, <2>7
  <2>. QED BY <1>0, <2>1, <2>8
<1>3. b \in P
  <2>. HIDE DEF P
  <2>. QED BY <1>1, <1>2, GrowingSequences
<1>. QED BY <1>3

LEMMA FlatMapType ==
    ASSUME NEW S, NEW T, NEW f \in [S -> Seq(T)], NEW s \in Seq(S)
    PROVE  FlatMap(f, s) \in Seq(T)
<1>1. PICK ss \in Seq(Seq(T)) : ss = Mapped(f, s)
  BY MappedType
<1>. QED BY <1>1, EmptySeq, FlattenAppend DEF FlatMap

LEMMA FlatMapGrows ==
    ASSUME NEW S, NEW T, NEW f \in [S -> Seq(T)], NEW s \in Seq(S), NEW x \in S
    PROVE  FlatMap(f, Append(s, x)) = FlatMap(f, s) \o f[x]
<1>1. PICK ss \in Seq(Seq(T)) : ss = Mapped(f, s)
  BY MappedType
<1>2. Mapped(f, Append(s, x)) = Append(ss, f[x]) /\ f[x] \in Seq(T)
  BY <1>1, MappedGrows
<1>. QED BY <1>1, <1>2, FlattenAppend DEF FlatMap

LEMMA FlatMapConcat ==
    ASSUME NEW S, NEW T, NEW f \in [S -> Seq(T)], NEW a \in Seq(S), NEW b \in Seq(S)
    PROVE  FlatMap(f, a \o b) = FlatMap(f, a) \o FlatMap(f, b)
<1>. DEFINE P == {s \in Seq(S) : FlatMap(f, a \o s) = FlatMap(f, a) \o FlatMap(f, s)}
<1>0. PICK fa \in Seq(T) : fa = FlatMap(f, a)
  BY FlatMapType
<1>1. <<>> \in P
  <2>1. a \o <<>> = a /\ fa \o <<>> = fa
    BY ConcatEmptySeq
  <2>. QED BY <1>0, <2>1, EmptySeq, MappedEmpty
<1>2. ASSUME NEW s \in Seq(S), NEW x \in S, s \in P PROVE Append(s, x) \in P
  <2>1. PICK as \in Seq(S), more \in Seq(S) : as = a \o s /\ more = Append(s, x)
    BY ConcatProperties, AppendProperties
  <2>2. PICK fs \in Seq(T), fx \in Seq(T) : fs = FlatMap(f, s) /\ fx = f[x]
    BY FlatMapType
  <2>3. a \o more = Append(as, x)
    BY <2>1, AppendConcat
  <2>4. FlatMap(f, Append(as, x)) = FlatMap(f, as) \o fx /\ FlatMap(f, more) = fs \o fx
    BY <2>1, <2>2, FlatMapGrows
  <2>5. FlatMap(f, as) = fa \o fs
    BY <1>0, <1>2, <2>1, <2>2
  <2>6. (fa \o fs) \o fx = fa \o (fs \o fx)
    BY ConcatAssociative
  <2>7. FlatMap(f, a \o more) = fa \o FlatMap(f, more)
    BY <2>3, <2>4, <2>5, <2>6
  <2>. QED BY <1>0, <2>1, <2>7
<1>3. b \in P
  <2>. HIDE DEF P
  <2>. QED BY <1>1, <1>2, GrowingSequences
<1>. QED BY <1>3

-----------------------------------------------------------------------------
(* Projections and joins, a row at a time. *)

Row == Seq(Int)

EvalRow(exprs, R) == [row \in R |-> [c \in 1..Len(exprs) |-> Eval(row, exprs[c])]]

LEMMA EvaluatedIsMapped ==
    ASSUME NEW R, NEW rows \in Seq(R), NEW exprs
    PROVE  Evaluated(rows, exprs) = Mapped(EvalRow(exprs, R), rows)
<1>1. PICK n \in Nat : n = Len(rows)
  BY LenProperties
<1>2. \A i \in 1..n : rows[i] \in R
  BY <1>1, ElementOfSeq
<1>3. \A i \in 1..n : EvalRow(exprs, R)[rows[i]] = [c \in 1..Len(exprs) |-> Eval(rows[i], exprs[c])]
  BY <1>2 DEF EvalRow
<1>. QED BY <1>1, <1>3 DEF Evaluated, Mapped

LEMMA EvaluatedConcat ==
    ASSUME NEW R, NEW a \in Seq(R), NEW b \in Seq(R), NEW exprs
    PROVE  Evaluated(a \o b, exprs) = Evaluated(a, exprs) \o Evaluated(b, exprs)
<1>1. PICK f, T : f = EvalRow(exprs, R) /\ f \in [R -> T]
  <2>1. EvalRow(exprs, R) \in [R -> {EvalRow(exprs, R)[x] : x \in R}]
    BY DEF EvalRow
  <2>. QED BY <2>1
<1>2. Mapped(f, a \o b) = Mapped(f, a) \o Mapped(f, b)
  BY <1>1, MappedConcat
<1>3. a \o b \in Seq(R)
  BY ConcatProperties
<1>. QED BY <1>1, <1>2, <1>3, EvaluatedIsMapped

LEMMA EvaluatedEmpty ==
    ASSUME NEW exprs
    PROVE  Evaluated(<<>>, exprs) = <<>>
<1>1. <<>> \in Seq({})
  BY EmptySeq
<1>. QED BY <1>1, EvaluatedIsMapped, MappedEmpty

MatchesOf(leftKey, value) == {row \in Row : row[leftKey] = value}

LEMMA MatchesAreWhere ==
    ASSUME NEW left \in Seq(Row), NEW leftKey, NEW value
    PROVE  /\ Matches(left, leftKey, value) = Where(left, MatchesOf(leftKey, value))
           /\ Matches(left, leftKey, value) \in Seq(Row)
<1>1. Range(left) \subseteq Row
  BY RangeOfSeq
<1>2. {row \in Range(left) : row[leftKey] = value}
        = {row \in Range(left) : row \in MatchesOf(leftKey, value)}
  BY <1>1 DEF MatchesOf
<1>3. Where(left, {row \in Range(left) : row \in MatchesOf(leftKey, value)})
        = Where(left, MatchesOf(leftKey, value))
  BY WhereWithin
<1>4. Where(left, MatchesOf(leftKey, value)) \in Seq(Row)
  BY WhereType
<1>. QED BY <1>2, <1>3, <1>4 DEF Matches

BesideRow(row) == [x \in Row |-> x \o row]

LEMMA BesideIsMapped ==
    ASSUME NEW rows \in Seq(Row), NEW row \in Row
    PROVE  /\ BesideRow(row) \in [Row -> Row]
           /\ Beside(rows, row) = Mapped(BesideRow(row), rows)
           /\ Beside(rows, row) \in Seq(Row)
<1>1. BesideRow(row) \in [Row -> Row]
  BY ConcatProperties DEF BesideRow, Row
<1>2. PICK n \in Nat : n = Len(rows)
  BY LenProperties
<1>3. \A i \in 1..n : rows[i] \in Row
  BY <1>2, ElementOfSeq
<1>4. \A i \in 1..n : BesideRow(row)[rows[i]] = rows[i] \o row
  BY <1>3 DEF BesideRow
<1>5. Beside(rows, row) = Mapped(BesideRow(row), rows)
  BY <1>2, <1>4 DEF Beside, Mapped
<1>. QED BY <1>1, <1>5, MappedType

JoinRow(left, leftKey, rightKey) ==
    [row \in Row |-> Beside(Matches(left, leftKey, row[rightKey]), row)]

LEMMA JoinedIsFlatMap ==
    ASSUME NEW left \in Seq(Row), NEW right \in Seq(Row), NEW leftKey, NEW rightKey
    PROVE  /\ JoinRow(left, leftKey, rightKey) \in [Row -> Seq(Row)]
           /\ Joined(left, right, leftKey, rightKey) = FlatMap(JoinRow(left, leftKey, rightKey), right)
           /\ Joined(left, right, leftKey, rightKey) \in Seq(Row)
<1>1. JoinRow(left, leftKey, rightKey) \in [Row -> Seq(Row)]
  BY MatchesAreWhere, BesideIsMapped DEF JoinRow
<1>2. PICK n \in Nat : n = Len(right)
  BY LenProperties
<1>3. \A i \in 1..n : right[i] \in Row
  BY <1>2, ElementOfSeq
<1>4. \A i \in 1..n : JoinRow(left, leftKey, rightKey)[right[i]] =
                          Beside(Matches(left, leftKey, right[i][rightKey]), right[i])
  BY <1>3 DEF JoinRow
<1>5. Joined(left, right, leftKey, rightKey) = FlatMap(JoinRow(left, leftKey, rightKey), right)
  BY <1>2, <1>4 DEF Joined, FlatMap, Mapped
<1>. QED BY <1>1, <1>5, FlatMapType

LEMMA JoinedEmpty ==
    ASSUME NEW left \in Seq(Row), NEW leftKey, NEW rightKey
    PROVE  Joined(left, <<>>, leftKey, rightKey) = <<>>
<1>1. PICK none \in Seq(Row) : none = <<>>
  BY EmptySeq
<1>2. Joined(left, none, leftKey, rightKey) = FlatMap(JoinRow(left, leftKey, rightKey), none)
  BY JoinedIsFlatMap
<1>. QED BY <1>1, <1>2, MappedEmpty

(* The matches of two probe batches, one after the other, are those of both *)
(* at once.                                                                 *)
THEOREM JoinedConcat ==
    ASSUME NEW left \in Seq(Row), NEW a \in Seq(Row), NEW b \in Seq(Row), NEW leftKey, NEW rightKey
    PROVE  Joined(left, a \o b, leftKey, rightKey) =
             Joined(left, a, leftKey, rightKey) \o Joined(left, b, leftKey, rightKey)
<1>1. PICK f \in [Row -> Seq(Row)] : f = JoinRow(left, leftKey, rightKey)
  BY JoinedIsFlatMap
<1>2. FlatMap(f, a \o b) = FlatMap(f, a) \o FlatMap(f, b)
  BY <1>1, FlatMapConcat
<1>3. PICK both \in Seq(Row) : both = a \o b
  BY ConcatProperties
<1>4. Joined(left, both, leftKey, rightKey) = FlatMap(f, both)
  BY <1>1, JoinedIsFlatMap
<1>5. Joined(left, a, leftKey, rightKey) = FlatMap(f, a)
  BY <1>1, JoinedIsFlatMap
<1>6. Joined(left, b, leftKey, rightKey) = FlatMap(f, b)
  BY <1>1, JoinedIsFlatMap
<1>. QED BY <1>2, <1>3, <1>4, <1>5, <1>6

LEMMA JoinedToNone ==
    ASSUME NEW right \in Seq(Row), NEW leftKey, NEW rightKey
    PROVE  Joined(<<>>, right, leftKey, rightKey) = <<>>
<1>0. <<>> \in Seq(Row)
  BY EmptySeq
<1>1. PICK f \in [Row -> Seq(Row)] : f = JoinRow(<<>>, leftKey, rightKey)
  BY <1>0, JoinedIsFlatMap
<1>2. \A row \in Row : f[row] = <<>>
  <2>. SUFFICES ASSUME NEW row \in Row PROVE f[row] = <<>>
    OBVIOUS
  <2>1. Matches(<<>>, leftKey, row[rightKey]) = <<>>
    BY WhereEmpty DEF Matches
  <2>2. Beside(<<>>, row) = <<>>
    BY <1>0, BesideIsMapped, MappedEmpty
  <2>. QED BY <1>1, <2>1, <2>2 DEF JoinRow
<1>. DEFINE P == {s \in Seq(Row) : FlatMap(f, s) = <<>>}
<1>3. <<>> \in P
  BY <1>0, MappedEmpty
<1>4. ASSUME NEW s \in Seq(Row), NEW x \in Row, s \in P PROVE Append(s, x) \in P
  <2>1. FlatMap(f, Append(s, x)) = FlatMap(f, s) \o f[x]
    BY FlatMapGrows
  <2>2. <<>> \o <<>> = <<>>
    BY <1>0, ConcatEmptySeq
  <2>3. FlatMap(f, Append(s, x)) = <<>>
    BY <1>2, <1>4, <2>1, <2>2
  <2>. QED BY <2>3, AppendProperties
<1>5. right \in P
  <2>. HIDE DEF P
  <2>. QED BY <1>3, <1>4, GrowingSequences
<1>. QED BY <1>0, <1>1, <1>5, JoinedIsFlatMap

LEMMA OftenBeside ==
    ASSUME NEW a \in Seq(Row), NEW row \in Row, NEW y \in Row
    PROVE  Often(Beside(a, row), y \o row) = Often(a, y)
<1>1. PICK f \in [Row -> Row] : f = BesideRow(row) /\ \A x \in Row : f[x] = x \o row
  <2>1. <<>> \in Seq(Row)
    BY EmptySeq
  <2>2. BesideRow(row) \in [Row -> Row]
    BY <2>1, BesideIsMapped
  <2>. QED BY <2>2 DEF BesideRow
<1>2. PICK z \in Row : z = y \o row
  BY ConcatProperties DEF Row
<1>. DEFINE P == {s \in Seq(Row) : Often(Mapped(f, s), z) = Often(s, y)}
<1>3. <<>> \in P
  BY EmptySeq, OftenEmpty, MappedEmpty
<1>4. ASSUME NEW s \in Seq(Row), NEW x \in Row, s \in P PROVE Append(s, x) \in P
  <2>1. PICK more \in Seq(Row) : more = Append(s, x)
    BY AppendProperties
  <2>2. PICK m \in Seq(Row), fx \in Row : m = Mapped(f, s) /\ fx = f[x]
    BY MappedType
  <2>3. Mapped(f, more) = Append(m, fx)
    BY <2>1, <2>2, MappedGrows
  <2>4. Often(m, z) = Often(s, y)
    BY <1>4, <2>2
  <2>5. CASE x = y
    <3>1. fx = z
      BY <1>1, <1>2, <2>2, <2>5
    <3>2. Often(Append(m, fx), z) = Often(m, z) + 1
      BY <3>1, OftenGrows
    <3>3. Often(Append(s, x), y) = Often(s, y) + 1
      BY <2>5, OftenGrows
    <3>. QED BY <2>1, <2>3, <2>4, <3>2, <3>3
  <2>6. CASE x # y
    <3>1. x \o row # y \o row
      BY <2>6, ConcatSimplifications DEF Row
    <3>2. fx # z
      BY <1>1, <1>2, <2>2, <3>1
    <3>3. Often(Append(m, fx), z) = Often(m, z)
      BY <3>2, OftenGrows
    <3>4. Often(Append(s, x), y) = Often(s, y)
      BY <2>6, OftenGrows
    <3>. QED BY <2>1, <2>3, <2>4, <3>3, <3>4
  <2>. QED BY <2>5, <2>6
<1>5. a \in P
  <2>. HIDE DEF P
  <2>. QED BY <1>3, <1>4, GrowingSequences
<1>. QED BY <1>1, <1>2, <1>5, BesideIsMapped

LEMMA AlikeBeside ==
    ASSUME NEW a \in Seq(Row), NEW b \in Seq(Row), NEW row \in Row, Alike(a, b, Row)
    PROVE  Alike(Beside(a, row), Beside(b, row), Row)
<1>. SUFFICES ASSUME NEW z \in Row PROVE Often(Beside(a, row), z) = Often(Beside(b, row), z)
  BY DEF Alike
<1>1. CASE \E y \in Row : z = y \o row
  BY <1>1, OftenBeside DEF Alike
<1>2. CASE ~\E y \in Row : z = y \o row
  <2>1. ASSUME NEW s \in Seq(Row) PROVE Often(Beside(s, row), z) = 0
    <3>1. PICK n \in Nat : n = Len(s)
      BY LenProperties
    <3>2. \A i \in 1..n : s[i] \in Row
      BY <3>1, ElementOfSeq
    <3>3. PICK t \in Seq(Row) : t = Beside(s, row)
      BY BesideIsMapped
    <3>4. Len(t) = n /\ \A i \in 1..n : t[i] = s[i] \o row
      BY <3>1, <3>3 DEF Beside
    <3>5. ~\E i \in 1..Len(t) : t[i] = z
      BY <1>2, <3>2, <3>4
    <3>. QED BY <3>3, <3>5, OftenNever
  <2>. QED BY <2>1
<1>. QED BY <1>1, <1>2

(* A join answers the same rows as often in whatever order the multimap of  *)
(* HashJoinOperator gives those of the build side back.                     *)
THEOREM JoinedAlike ==
    ASSUME NEW a \in Seq(Row), NEW b \in Seq(Row), NEW right \in Seq(Row),
           NEW leftKey, NEW rightKey, Alike(a, b, Row)
    PROVE  Alike(Joined(a, right, leftKey, rightKey), Joined(b, right, leftKey, rightKey), Row)
<1>1. PICK f \in [Row -> Seq(Row)], g \in [Row -> Seq(Row)] :
        f = JoinRow(a, leftKey, rightKey) /\ g = JoinRow(b, leftKey, rightKey)
  <2>1. JoinRow(a, leftKey, rightKey) \in [Row -> Seq(Row)]
    BY JoinedIsFlatMap
  <2>2. JoinRow(b, leftKey, rightKey) \in [Row -> Seq(Row)]
    BY JoinedIsFlatMap
  <2>. QED BY <2>1, <2>2
<1>2. ASSUME NEW row \in Row PROVE Alike(f[row], g[row], Row)
  <2>1. PICK am \in Seq(Row) : /\ am = Matches(a, leftKey, row[rightKey])
                               /\ am = Where(a, MatchesOf(leftKey, row[rightKey]))
    BY MatchesAreWhere
  <2>2. PICK bm \in Seq(Row) : /\ bm = Matches(b, leftKey, row[rightKey])
                               /\ bm = Where(b, MatchesOf(leftKey, row[rightKey]))
    BY MatchesAreWhere
  <2>3. Alike(am, bm, Row)
    BY <2>1, <2>2, AlikeWhere
  <2>4. Alike(Beside(am, row), Beside(bm, row), Row)
    BY <2>3, AlikeBeside
  <2>. QED BY <1>1, <2>1, <2>2, <2>4 DEF JoinRow
<1>. DEFINE P == {s \in Seq(Row) : Alike(FlatMap(f, s), FlatMap(g, s), Row)}
<1>3. <<>> \in P
  <2>1. Alike(<<>>, <<>>, Row)
    BY DEF Alike
  <2>. QED BY <2>1, EmptySeq, MappedEmpty
<1>4. ASSUME NEW s \in Seq(Row), NEW x \in Row, s \in P PROVE Append(s, x) \in P
  <2>1. PICK fs \in Seq(Row), gs \in Seq(Row), fx \in Seq(Row), gx \in Seq(Row) :
          fs = FlatMap(f, s) /\ gs = FlatMap(g, s) /\ fx = f[x] /\ gx = g[x]
    BY FlatMapType
  <2>2. FlatMap(f, Append(s, x)) = fs \o fx
    BY <2>1, FlatMapGrows
  <2>3. FlatMap(g, Append(s, x)) = gs \o gx
    BY <2>1, FlatMapGrows
  <2>4. Alike(fs, gs, Row) /\ Alike(fx, gx, Row)
    BY <1>2, <1>4, <2>1
  <2>5. Alike(fs \o fx, gs \o gx, Row)
    BY <2>4, AlikeConcat
  <2>6. Alike(FlatMap(f, Append(s, x)), FlatMap(g, Append(s, x)), Row)
    BY <2>2, <2>3, <2>5
  <2>. QED BY <2>6, AppendProperties
<1>5. right \in P
  <2>. HIDE DEF P
  <2>. QED BY <1>3, <1>4, GrowingSequences
<1>6. Joined(a, right, leftKey, rightKey) = FlatMap(f, right)
  BY <1>1, JoinedIsFlatMap
<1>7. Joined(b, right, leftKey, rightKey) = FlatMap(g, right)
  BY <1>1, JoinedIsFlatMap
<1>. QED BY <1>5, <1>6, <1>7

-----------------------------------------------------------------------------
(* The sum of a column, a row at a time. *)

TotalStep(rows, col) == [k \in 1..Len(rows) |-> [t \in Int |-> t + rows[k][col]]]

LEMMA TotalUnfolds ==
    ASSUME NEW R, NEW col, \A row \in R : row[col] \in Int, NEW rows \in Seq(R)
    PROVE  \E f \in [0..Len(rows) -> Int] :
             Rounds(f, Len(rows), 0, TotalStep(rows, col)) /\ Total(rows, col) = f[Len(rows)]
<1>0. PICK n \in Nat : n = Len(rows)
  BY LenProperties
<1>1. PICK F \in [1..n -> [Int -> Int]] :
        F = TotalStep(rows, col) /\ \A k \in 1..n, t \in Int : F[k][t] = t + rows[k][col]
  <2>1. \A k \in 1..n : rows[k] \in R
    BY <1>0, ElementOfSeq
  <2>2. \A k \in 1..n : rows[k][col] \in Int
    BY <2>1
  <2>3. PICK v \in [1..n -> Int] : \A k \in 1..n : v[k] = rows[k][col]
    <3>1. [k \in 1..n |-> rows[k][col]] \in [1..n -> Int]
      BY <2>2
    <3>. QED BY <3>1
  <2>4. TotalStep(rows, col) = [k \in 1..n |-> [t \in Int |-> t + v[k]]]
    BY <1>0, <2>3 DEF TotalStep
  <2>5. \A k \in 1..n : v[k] \in Int
    OBVIOUS
  <2>6. TotalStep(rows, col) \in [1..n -> [Int -> Int]]
    BY <2>4, <2>5
  <2>7. \A k \in 1..n : TotalStep(rows, col)[k] = [t \in Int |-> t + rows[k][col]]
    BY <1>0 DEF TotalStep
  <2>. QED BY <2>6, <2>7
<1>2. PICK g \in [0..n -> Int] : Rounds(g, n, 0, F)
  <2>1. 0 \in Int
    OBVIOUS
  <2>. QED BY <2>1, RoundsExist
<1>. DEFINE Unfolds(f) ==
              f = [m \in 0..n |-> IF m = 0 THEN 0 ELSE f[m - 1] + rows[m][col]]
<1>3. Unfolds(g)
  <2>1. \A m \in 1..n : m - 1 \in 0..n /\ g[m - 1] \in Int
    OBVIOUS
  <2>2. \A m \in 1..n : g[m] = g[m - 1] + rows[m][col]
    BY <1>1, <1>2, <2>1 DEF Rounds
  <2>3. g[0] = 0 /\ \A m \in 0..n : m # 0 => m \in 1..n
    BY <1>2 DEF Rounds
  <2>4. \A m \in 0..n : g[m] = IF m = 0 THEN 0 ELSE g[m - 1] + rows[m][col]
    BY <2>2, <2>3
  <2>. QED BY <2>4
<1>4. PICK upTo : upTo = (CHOOSE f : Unfolds(f)) /\ Total(rows, col) = upTo[n]
  BY <1>0 DEF Total
<1>5. Unfolds(upTo)
  <2>. HIDE DEF Unfolds
  <2>. QED BY <1>3, <1>4
<1>6. \A m \in 0..n : upTo[m] = IF m = 0 THEN 0 ELSE upTo[m - 1] + rows[m][col]
  BY <1>5
<1>. DEFINE Q == {k \in 0..n : upTo[k] = g[k]}
<1>7. 0 \in Q
  BY <1>2, <1>6 DEF Rounds
<1>8. ASSUME NEW k \in 0..n, k \in Q, k < n PROVE k + 1 \in Q
  <2>0. g[k] \in Int
    OBVIOUS
  <2>1. k + 1 \in 1..n /\ (k + 1) - 1 = k /\ k + 1 \in 0..n /\ k + 1 # 0
    BY <1>8
  <2>2. g[k + 1] = g[k] + rows[k + 1][col]
    BY <1>1, <1>2, <2>0, <2>1 DEF Rounds
  <2>3. upTo[k + 1] = upTo[k] + rows[k + 1][col]
    BY <1>6, <2>1
  <2>. QED BY <1>8, <2>0, <2>1, <2>2, <2>3
<1>9. upTo[n] = g[n]
  <2>1. 0..n \subseteq Q
    <3>. HIDE DEF Q
    <3>. QED BY <1>7, <1>8, UpToN
  <2>. QED BY <2>1
<1>10. Total(rows, col) = g[n]
  BY <1>4, <1>9
<1>. QED BY <1>0, <1>1, <1>2, <1>10

LEMMA TotalEmpty ==
    ASSUME NEW col
    PROVE  Total(<<>>, col) = 0
<1>1. PICK none \in Seq({}) : none = <<>> /\ Len(none) = 0
  BY EmptySeq
<1>2. \A row \in {} : row[col] \in Int
  OBVIOUS
<1>3. \E f \in [0..Len(none) -> Int] :
        Rounds(f, Len(none), 0, TotalStep(none, col)) /\ Total(none, col) = f[Len(none)]
  BY <1>2, TotalUnfolds
<1>. QED BY <1>1, <1>3 DEF Rounds

LEMMA TotalType ==
    ASSUME NEW R, NEW col, \A row \in R : row[col] \in Int, NEW rows \in Seq(R)
    PROVE  Total(rows, col) \in Int
<1>1. PICK n \in Nat : n = Len(rows)
  BY LenProperties
<1>2. PICK f \in [0..n -> Int] : Total(rows, col) = f[n]
  BY <1>1, TotalUnfolds
<1>. QED BY <1>2

LEMMA TotalGrows ==
    ASSUME NEW R, NEW col, \A row \in R : row[col] \in Int, NEW rows \in Seq(R), NEW row \in R
    PROVE  Total(Append(rows, row), col) = Total(rows, col) + row[col]
<1>1. PICK n \in Nat : n = Len(rows)
  BY LenProperties
<1>2. PICK more \in Seq(R) : /\ more = Append(rows, row) /\ Len(more) = n + 1
                             /\ \A i \in 1..n : more[i] = rows[i]
                             /\ more[n + 1] = row
  BY <1>1, AppendProperties
<1>3. PICK F : F = TotalStep(rows, col)
  OBVIOUS
<1>4. PICK G : G = TotalStep(more, col)
  OBVIOUS
<1>5. PICK f \in [0..n -> Int] : Rounds(f, n, 0, F) /\ Total(rows, col) = f[n]
  BY <1>1, <1>3, TotalUnfolds
<1>6. PICK g \in [0..n + 1 -> Int] : Rounds(g, n + 1, 0, G) /\ Total(more, col) = g[n + 1]
  <2>1. \E g \in [0..Len(more) -> Int] : Rounds(g, Len(more), 0, G) /\ Total(more, col) = g[Len(more)]
    BY <1>4, TotalUnfolds
  <2>. QED BY <1>2, <2>1
<1>7. OneMore(n, n + 1, Int, F, G)
  <2>1. \A k \in 1..n : k \in 1..Len(rows) /\ k \in 1..Len(more)
    BY <1>1, <1>2
  <2>. QED BY <1>2, <1>3, <1>4, <2>1 DEF TotalStep, OneMore
<1>8. \A t \in Int : G[n + 1][t] = t + row[col]
  <2>1. n + 1 \in 1..Len(more)
    BY <1>2
  <2>. QED BY <1>2, <1>4, <2>1 DEF TotalStep
<1>9. Follows(g, n + 1, G, f, n)
  <2>1. Loop(f, n, Int, 0, F) /\ Loop(g, n + 1, Int, 0, G)
    BY <1>5, <1>6 DEF Loop
  <2>. QED BY <1>7, <2>1, LongerLoop
<1>10. f[n] \in Int
  OBVIOUS
<1>. QED BY <1>2, <1>5, <1>6, <1>8, <1>9, <1>10 DEF Follows

LEMMA TotalConcat ==
    ASSUME NEW R, NEW col, \A row \in R : row[col] \in Int, NEW a \in Seq(R), NEW b \in Seq(R)
    PROVE  Total(a \o b, col) = Total(a, col) + Total(b, col)
<1>. DEFINE P == {s \in Seq(R) : Total(a \o s, col) = Total(a, col) + Total(s, col)}
<1>1. <<>> \in P
  <2>1. a \o <<>> = a /\ <<>> \in Seq(R) /\ Total(a, col) \in Int
    BY ConcatEmptySeq, EmptySeq, TotalType
  <2>. QED BY <2>1, TotalEmpty
<1>2. ASSUME NEW s \in Seq(R), NEW x \in R, s \in P PROVE Append(s, x) \in P
  <2>1. PICK as \in Seq(R), more \in Seq(R) : as = a \o s /\ more = Append(s, x)
    BY ConcatProperties, AppendProperties
  <2>2. a \o more = Append(as, x)
    BY <2>1, AppendConcat
  <2>3. Total(Append(as, x), col) = Total(as, col) + x[col]
    BY TotalGrows
  <2>4. Total(more, col) = Total(s, col) + x[col]
    BY <2>1, TotalGrows
  <2>5. PICK ta \in Int, ts \in Int, tx \in Int :
          ta = Total(a, col) /\ ts = Total(s, col) /\ tx = x[col]
    BY TotalType
  <2>6. Total(as, col) = ta + ts
    BY <1>2, <2>1, <2>5
  <2>7. Total(a \o more, col) = Total(a, col) + Total(more, col)
    BY <2>2, <2>3, <2>4, <2>5, <2>6
  <2>. QED BY <2>1, <2>7
<1>3. b \in P
  <2>. HIDE DEF P
  <2>. QED BY <1>1, <1>2, GrowingSequences
<1>. QED BY <1>3

-----------------------------------------------------------------------------
(* The keys of some rows, a row at a time. *)

LEMMA RangeOfNone ==
    Range(<<>>) = {}
<1>1. PICK none \in Seq({}) : none = <<>>
  BY EmptySeq
<1>2. Range(none) \in SUBSET {}
  BY RangeOfSeq
<1>. QED BY <1>1, <1>2

LEMMA RangeGrows ==
    ASSUME NEW R, NEW s \in Seq(R), NEW x \in R
    PROVE  Range(Append(s, x)) = Range(s) \cup {x}
<1>1. PICK n \in Nat : n = Len(s)
  BY LenProperties
<1>2. PICK more \in Seq(R) : /\ more = Append(s, x) /\ Len(more) = n + 1
                             /\ \A i \in 1..n : more[i] = s[i]
                             /\ more[n + 1] = x
  BY <1>1, AppendProperties
<1>3. Range(more) = {more[i] : i \in 1..n + 1} /\ Range(s) = {s[i] : i \in 1..n}
  <2>1. Range(more) = {more[i] : i \in 1..Len(more)}
    BY RangeEquality
  <2>2. Range(s) = {s[i] : i \in 1..Len(s)}
    BY RangeEquality
  <2>. QED BY <1>1, <1>2, <2>1, <2>2
<1>4. \A i \in 1..n + 1 : i \in 1..n \/ i = n + 1
  OBVIOUS
<1>5. \A i \in 1..n : i \in 1..n + 1
  OBVIOUS
<1>6. n + 1 \in 1..n + 1
  OBVIOUS
<1>. QED BY <1>2, <1>3, <1>4, <1>5, <1>6

LEMMA RangeWhere ==
    ASSUME NEW R, NEW rows \in Seq(R), NEW keep
    PROVE  Range(Where(rows, keep)) = Range(rows) \cap keep
<1>. DEFINE P == {s \in Seq(R) : Range(Where(s, keep)) = Range(s) \cap keep}
<1>1. <<>> \in P
  <2>1. <<>> \in Seq(R) /\ Range(<<>>) = {}
    BY EmptySeq, RangeOfNone
  <2>. QED BY <2>1, WhereEmpty
<1>2. ASSUME NEW s \in Seq(R), NEW x \in R, s \in P PROVE Append(s, x) \in P
  <2>1. PICK w \in Seq(R) : w = Where(s, keep)
    BY WhereType
  <2>2. PICK more \in Seq(R) : more = Append(s, x) /\ Range(more) = Range(s) \cup {x}
    BY AppendProperties, RangeGrows
  <2>3. CASE x \in keep
    <3>1. Where(more, keep) = Append(w, x)
      BY <2>1, <2>2, <2>3, WhereGrows
    <3>2. Range(Append(w, x)) = Range(w) \cup {x}
      BY RangeGrows
    <3>. QED BY <1>2, <2>1, <2>2, <2>3, <3>1, <3>2
  <2>4. CASE x \notin keep
    <3>1. Where(more, keep) = w
      BY <2>1, <2>2, <2>4, WhereGrows
    <3>. QED BY <1>2, <2>1, <2>2, <2>4, <3>1
  <2>. QED BY <2>3, <2>4
<1>3. rows \in P
  <2>. HIDE DEF P
  <2>. QED BY <1>1, <1>2, GrowingSequences
<1>. QED BY <1>3

KeysIn(R, cols) == {Pick(row, cols) : row \in R}

LEMMA KeyOfRow ==
    ASSUME NEW R, NEW cols, NEW rows \in Seq(R), NEW k \in 1..Len(rows)
    PROVE  Pick(rows[k], cols) \in KeysIn(R, cols)
<1>1. rows[k] \in R
  BY ElementOfSeq
<1>. QED BY <1>1 DEF KeysIn

KeysStep(rows, cols, R) ==
    [k \in 1..Len(rows) |->
       [s \in Seq(KeysIn(R, cols)) |->
          IF Pick(rows[k], cols) \in Range(s) THEN s ELSE Append(s, Pick(rows[k], cols))]]

LEMMA KeysUnfold ==
    ASSUME NEW R, NEW cols, NEW rows \in Seq(R)
    PROVE  \E f \in [0..Len(rows) -> Seq(KeysIn(R, cols))] :
             Rounds(f, Len(rows), <<>>, KeysStep(rows, cols, R)) /\ KeysOf(rows, cols) = f[Len(rows)]
<1>0. PICK n \in Nat : n = Len(rows)
  BY LenProperties
<1>01. PICK K : K = KeysIn(R, cols)
  OBVIOUS
<1>1. PICK v \in [1..n -> K] : \A k \in 1..n : v[k] = Pick(rows[k], cols)
  <2>1. \A k \in 1..n : Pick(rows[k], cols) \in K
    BY <1>0, <1>01, KeyOfRow
  <2>2. [k \in 1..n |-> Pick(rows[k], cols)] \in [1..n -> K]
    BY <2>1
  <2>. QED BY <2>2
<1>2. PICK F \in [1..n -> [Seq(K) -> Seq(K)]] :
        /\ F = KeysStep(rows, cols, R)
        /\ \A k \in 1..n : \A s \in Seq(K) :
              F[k][s] = IF v[k] \in Range(s) THEN s ELSE Append(s, v[k])
  <2>1. \A k \in 1..n : \A s \in Seq(K) : (IF v[k] \in Range(s) THEN s ELSE Append(s, v[k])) \in Seq(K)
    BY AppendProperties
  <2>2. KeysStep(rows, cols, R) =
          [k \in 1..n |-> [s \in Seq(K) |-> IF v[k] \in Range(s) THEN s ELSE Append(s, v[k])]]
    BY <1>0, <1>01, <1>1 DEF KeysStep
  <2>. QED BY <2>1, <2>2
<1>3. PICK g \in [0..n -> Seq(K)] : Rounds(g, n, <<>>, F)
  BY EmptySeq, RoundsExist
<1>4. g[0] = <<>> /\ \A m \in 1..n : g[m] = IF v[m] \in Range(g[m - 1]) THEN g[m - 1]
                                            ELSE Append(g[m - 1], v[m])
  <2>1. \A m \in 1..n : m - 1 \in 0..n /\ g[m - 1] \in Seq(K)
    OBVIOUS
  <2>2. \A m \in 1..n : g[m] = F[m][g[m - 1]]
    BY <1>3 DEF Rounds
  <2>3. \A m \in 1..n : g[m] = IF v[m] \in Range(g[m - 1]) THEN g[m - 1] ELSE Append(g[m - 1], v[m])
    BY <1>2, <2>1, <2>2
  <2>. QED BY <1>3, <2>3 DEF Rounds
<1>. DEFINE Unfolds(f) == f = [m \in 0..n |->
               IF m = 0 THEN <<>>
               ELSE IF v[m] \in Range(f[m - 1]) THEN f[m - 1]
               ELSE Append(f[m - 1], v[m])]
<1>5. Unfolds(g)
  <2>1. \A m \in 0..n : m # 0 => m \in 1..n
    OBVIOUS
  <2>2. \A m \in 0..n : g[m] =
               IF m = 0 THEN <<>>
               ELSE IF v[m] \in Range(g[m - 1]) THEN g[m - 1]
               ELSE Append(g[m - 1], v[m])
    BY <1>4, <2>1
  <2>. QED BY <2>2
<1>6. PICK upTo : upTo = (CHOOSE f : Unfolds(f)) /\ KeysOf(rows, cols) = upTo[n]
  <2>1. \A f : Unfolds(f) <=> f = [m \in 0..n |->
               IF m = 0 THEN <<>>
               ELSE IF Pick(rows[m], cols) \in Range(f[m - 1]) THEN f[m - 1]
               ELSE Append(f[m - 1], Pick(rows[m], cols))]
    <3>1. \A m \in 0..n : m # 0 => v[m] = Pick(rows[m], cols)
      BY <1>1
    <3>. QED BY <3>1
  <2>2. (CHOOSE f : Unfolds(f)) = (CHOOSE f : f = [m \in 0..n |->
               IF m = 0 THEN <<>>
               ELSE IF Pick(rows[m], cols) \in Range(f[m - 1]) THEN f[m - 1]
               ELSE Append(f[m - 1], Pick(rows[m], cols))])
    <3>. HIDE DEF Unfolds
    <3>. QED BY <2>1
  <2>. HIDE DEF Unfolds
  <2>. QED BY <1>0, <2>2 DEF KeysOf
<1>7. Unfolds(upTo)
  <2>. HIDE DEF Unfolds
  <2>. QED BY <1>5, <1>6
<1>8. \A m \in 0..n : upTo[m] =
               IF m = 0 THEN <<>>
               ELSE IF v[m] \in Range(upTo[m - 1]) THEN upTo[m - 1]
               ELSE Append(upTo[m - 1], v[m])
  BY <1>7
<1>. DEFINE Q == {k \in 0..n : upTo[k] = g[k]}
<1>9. 0 \in Q
  BY <1>4, <1>8
<1>10. ASSUME NEW k \in 0..n, k \in Q, k < n PROVE k + 1 \in Q
  <2>1. k + 1 \in 1..n /\ (k + 1) - 1 = k /\ k + 1 \in 0..n /\ k + 1 # 0
    BY <1>10
  <2>2. g[k + 1] = IF v[k + 1] \in Range(g[k]) THEN g[k] ELSE Append(g[k], v[k + 1])
    BY <1>4, <2>1
  <2>3. upTo[k + 1] = IF v[k + 1] \in Range(upTo[k]) THEN upTo[k] ELSE Append(upTo[k], v[k + 1])
    BY <1>8, <2>1
  <2>. QED BY <1>10, <2>1, <2>2, <2>3
<1>11. upTo[n] = g[n]
  <2>1. 0..n \subseteq Q
    <3>. HIDE DEF Q
    <3>. QED BY <1>9, <1>10, UpToN
  <2>. QED BY <2>1
<1>. QED BY <1>0, <1>01, <1>2, <1>3, <1>6, <1>11

LEMMA KeysEmpty ==
    ASSUME NEW cols
    PROVE  KeysOf(<<>>, cols) = <<>>
<1>1. PICK none \in Seq({}) : none = <<>> /\ Len(none) = 0
  BY EmptySeq
<1>2. PICK f \in [0..Len(none) -> Seq(KeysIn({}, cols))] :
        Rounds(f, Len(none), <<>>, KeysStep(none, cols, {})) /\ KeysOf(none, cols) = f[Len(none)]
  BY KeysUnfold
<1>. QED BY <1>1, <1>2 DEF Rounds

LEMMA KeysType ==
    ASSUME NEW R, NEW cols, NEW rows \in Seq(R)
    PROVE  KeysOf(rows, cols) \in Seq(KeysIn(R, cols))
<1>1. PICK n \in Nat : n = Len(rows)
  BY LenProperties
<1>2. PICK f \in [0..n -> Seq(KeysIn(R, cols))] : KeysOf(rows, cols) = f[n]
  BY <1>1, KeysUnfold
<1>. QED BY <1>2

LEMMA KeysGrow ==
    ASSUME NEW R, NEW cols, NEW rows \in Seq(R), NEW row \in R
    PROVE  /\ Pick(row, cols) \in Range(KeysOf(rows, cols)) =>
                KeysOf(Append(rows, row), cols) = KeysOf(rows, cols)
           /\ Pick(row, cols) \notin Range(KeysOf(rows, cols)) =>
                KeysOf(Append(rows, row), cols) = Append(KeysOf(rows, cols), Pick(row, cols))
<1>1. PICK n \in Nat : n = Len(rows)
  BY LenProperties
<1>2. PICK more \in Seq(R) : /\ more = Append(rows, row) /\ Len(more) = n + 1
                             /\ \A i \in 1..n : more[i] = rows[i]
                             /\ more[n + 1] = row
  BY <1>1, AppendProperties
<1>3. PICK F : F = KeysStep(rows, cols, R)
  OBVIOUS
<1>4. PICK G : G = KeysStep(more, cols, R)
  OBVIOUS
<1>41. PICK S : S = Seq(KeysIn(R, cols))
  OBVIOUS
<1>5. PICK f \in [0..n -> S] : Rounds(f, n, <<>>, F) /\ KeysOf(rows, cols) = f[n]
  BY <1>1, <1>3, <1>41, KeysUnfold
<1>6. PICK g \in [0..n + 1 -> S] : Rounds(g, n + 1, <<>>, G) /\ KeysOf(more, cols) = g[n + 1]
  <2>1. \E g \in [0..Len(more) -> S] :
          Rounds(g, Len(more), <<>>, G) /\ KeysOf(more, cols) = g[Len(more)]
    BY <1>4, <1>41, KeysUnfold
  <2>2. Len(more) = n + 1
    BY <1>2
  <2>. QED BY <2>1, <2>2
<1>7. OneMore(n, n + 1, S, F, G)
  <2>1. \A k \in 1..n : k \in 1..Len(rows) /\ k \in 1..Len(more)
    BY <1>1, <1>2
  <2>. QED BY <1>2, <1>3, <1>4, <1>41, <2>1 DEF KeysStep, OneMore
<1>8. \A s \in S : G[n + 1][s] = IF Pick(row, cols) \in Range(s) THEN s ELSE Append(s, Pick(row, cols))
  <2>1. n + 1 \in 1..Len(more)
    BY <1>2
  <2>. QED BY <1>2, <1>4, <1>41, <2>1 DEF KeysStep
<1>9. Follows(g, n + 1, G, f, n)
  <2>1. Loop(f, n, S, <<>>, F) /\ Loop(g, n + 1, S, <<>>, G)
    BY <1>5, <1>6 DEF Loop
  <2>. QED BY <1>7, <2>1, LongerLoop
<1>10. f[n] \in S
  OBVIOUS
<1>. QED BY <1>2, <1>5, <1>6, <1>8, <1>9, <1>10 DEF Follows

LEMMA RangeKeys ==
    ASSUME NEW R, NEW cols, NEW rows \in Seq(R)
    PROVE  Range(KeysOf(rows, cols)) = KeysIn(Range(rows), cols)
<1>. DEFINE P == {s \in Seq(R) : Range(KeysOf(s, cols)) = KeysIn(Range(s), cols)}
<1>1. <<>> \in P
  BY EmptySeq, KeysEmpty, RangeOfNone DEF KeysIn
<1>2. ASSUME NEW s \in Seq(R), NEW x \in R, s \in P PROVE Append(s, x) \in P
  <2>1. PICK more \in Seq(R) : more = Append(s, x) /\ Range(more) = Range(s) \cup {x}
    BY AppendProperties, RangeGrows
  <2>2. PICK ks \in Seq(KeysIn(R, cols)) : ks = KeysOf(s, cols)
    BY KeysType
  <2>3. KeysIn(Range(more), cols) = KeysIn(Range(s), cols) \cup {Pick(x, cols)}
    BY <2>1 DEF KeysIn
  <2>4. Range(ks) = KeysIn(Range(s), cols)
    BY <1>2, <2>2
  <2>5. CASE Pick(x, cols) \in Range(ks)
    <3>1. KeysOf(more, cols) = ks
      BY <2>1, <2>2, <2>5, KeysGrow
    <3>. QED BY <2>1, <2>3, <2>4, <2>5, <3>1
  <2>6. CASE Pick(x, cols) \notin Range(ks)
    <3>1. KeysOf(more, cols) = Append(ks, Pick(x, cols))
      BY <2>1, <2>2, <2>6, KeysGrow
    <3>2. Pick(x, cols) \in KeysIn(R, cols)
      BY DEF KeysIn
    <3>3. Range(Append(ks, Pick(x, cols))) = Range(ks) \cup {Pick(x, cols)}
      BY <3>2, RangeGrows
    <3>. QED BY <2>1, <2>3, <2>4, <3>1, <3>3
  <2>. QED BY <2>5, <2>6
<1>3. rows \in P
  <2>. HIDE DEF P
  <2>. QED BY <1>1, <1>2, GrowingSequences
<1>. QED BY <1>3

LEMMA InjectiveGrows ==
    ASSUME NEW S, NEW s \in Seq(S), NEW x \in S, IsInjective(s), x \notin Range(s)
    PROVE  IsInjective(Append(s, x))
<1>1. PICK n \in Nat : n = Len(s) /\ DOMAIN s = 1..n
  BY LenProperties
<1>2. PICK more \in Seq(S) : /\ more = Append(s, x) /\ Len(more) = n + 1
                             /\ \A i \in 1..n : more[i] = s[i]
                             /\ more[n + 1] = x
  BY <1>1, AppendProperties
<1>3. DOMAIN more = 1..n + 1
  BY <1>2, LenProperties
<1>4. \A i \in 1..n : s[i] # x
  BY <1>1, RangeEquality
<1>5. \A i, k \in 1..n : s[i] = s[k] => i = k
  BY <1>1 DEF IsInjective
<1>6. ASSUME NEW i \in 1..n + 1, NEW k \in 1..n + 1, more[i] = more[k] PROVE i = k
  <2>1. CASE i = n + 1 /\ k # n + 1
    <3>1. k \in 1..n
      BY <2>1
    <3>. QED BY <1>2, <1>4, <1>6, <2>1, <3>1
  <2>2. CASE i # n + 1 /\ k = n + 1
    <3>1. i \in 1..n
      BY <2>2
    <3>. QED BY <1>2, <1>4, <1>6, <2>2, <3>1
  <2>3. CASE i # n + 1 /\ k # n + 1
    <3>1. i \in 1..n /\ k \in 1..n
      BY <2>3
    <3>. QED BY <1>2, <1>5, <1>6, <3>1
  <2>. QED BY <2>1, <2>2, <2>3
<1>. QED BY <1>2, <1>3, <1>6 DEF IsInjective

LEMMA KeysInjective ==
    ASSUME NEW R, NEW cols, NEW rows \in Seq(R)
    PROVE  IsInjective(KeysOf(rows, cols))
<1>. DEFINE P == {s \in Seq(R) : IsInjective(KeysOf(s, cols))}
<1>1. <<>> \in P
  <2>1. IsInjective(<<>>)
    BY DEF IsInjective
  <2>. QED BY <2>1, EmptySeq, KeysEmpty
<1>2. ASSUME NEW s \in Seq(R), NEW x \in R, s \in P PROVE Append(s, x) \in P
  <2>1. PICK more \in Seq(R) : more = Append(s, x)
    BY AppendProperties
  <2>2. PICK ks \in Seq(KeysIn(R, cols)) : ks = KeysOf(s, cols) /\ IsInjective(ks)
    BY <1>2, KeysType
  <2>3. CASE Pick(x, cols) \in Range(ks)
    <3>1. KeysOf(more, cols) = ks
      BY <2>1, <2>2, <2>3, KeysGrow
    <3>. QED BY <2>1, <2>2, <3>1
  <2>4. CASE Pick(x, cols) \notin Range(ks)
    <3>1. KeysOf(more, cols) = Append(ks, Pick(x, cols))
      BY <2>1, <2>2, <2>4, KeysGrow
    <3>2. PICK p \in KeysIn(R, cols) : p = Pick(x, cols)
      BY DEF KeysIn
    <3>3. IsInjective(Append(ks, p))
      BY <2>2, <2>4, <3>2, InjectiveGrows
    <3>. QED BY <2>1, <3>1, <3>2, <3>3
  <2>. QED BY <2>3, <2>4
<1>3. rows \in P
  <2>. HIDE DEF P
  <2>. QED BY <1>1, <1>2, GrowingSequences
<1>. QED BY <1>3

(* The keys of more rows are the keys there were and those that are new. *)
LEMMA KeysConcat ==
    ASSUME NEW R, NEW cols, NEW a \in Seq(R), NEW b \in Seq(R)
    PROVE  KeysOf(a \o b, cols) =
             KeysOf(a, cols) \o Where(KeysOf(b, cols), Range(KeysOf(b, cols)) \ Range(KeysOf(a, cols)))
<1>. DEFINE K == KeysIn(R, cols)
<1>0. PICK ka \in Seq(K) : ka = KeysOf(a, cols)
  BY KeysType
<1>01. PICK New : New = K \ Range(ka)
  OBVIOUS
<1>. DEFINE P == {s \in Seq(R) : KeysOf(a \o s, cols) = ka \o Where(KeysOf(s, cols), New)}
<1>1. <<>> \in P
  <2>1. a \o <<>> = a /\ ka \o <<>> = ka
    BY ConcatEmptySeq
  <2>. QED BY <1>0, <2>1, EmptySeq, KeysEmpty, WhereEmpty
<1>2. ASSUME NEW s \in Seq(R), NEW x \in R, s \in P PROVE Append(s, x) \in P
  <2>1. PICK as \in Seq(R), more \in Seq(R) : as = a \o s /\ more = Append(s, x)
    BY ConcatProperties, AppendProperties
  <2>2. PICK ks \in Seq(K), kas \in Seq(K) : ks = KeysOf(s, cols) /\ kas = KeysOf(as, cols)
    <3>1. KeysOf(s, cols) \in Seq(K)
      BY KeysType
    <3>2. KeysOf(as, cols) \in Seq(K)
      BY KeysType
    <3>. QED BY <3>1, <3>2
  <2>3. PICK w \in Seq(K) : w = Where(ks, New)
    BY WhereType
  <2>4. kas = ka \o w
    BY <1>2, <2>1, <2>2, <2>3
  <2>5. PICK p \in K : p = Pick(x, cols)
    BY DEF KeysIn
  <2>6. a \o more = Append(as, x)
    BY <2>1, AppendConcat
  <2>7. Range(kas) = Range(ka) \cup Range(ks)
    <3>1. Range(as) = Range(a) \cup Range(s)
      BY <2>1, RangeConcatenation
    <3>2. KeysIn(Range(as), cols) = KeysIn(Range(a), cols) \cup KeysIn(Range(s), cols)
      BY <3>1 DEF KeysIn
    <3>3. Range(KeysOf(a, cols)) = KeysIn(Range(a), cols)
      BY RangeKeys
    <3>4. Range(KeysOf(s, cols)) = KeysIn(Range(s), cols)
      BY RangeKeys
    <3>5. Range(KeysOf(as, cols)) = KeysIn(Range(as), cols)
      BY RangeKeys
    <3>. QED BY <1>0, <2>2, <3>2, <3>3, <3>4, <3>5
  <2>8. CASE p \in Range(ks)
    <3>1. KeysOf(more, cols) = ks
      BY <2>1, <2>2, <2>5, <2>8, KeysGrow
    <3>2. KeysOf(Append(as, x), cols) = kas
      BY <2>2, <2>5, <2>7, <2>8, KeysGrow
    <3>. QED BY <2>1, <2>3, <2>4, <2>6, <3>1, <3>2
  <2>9. CASE p \notin Range(ks) /\ p \in Range(ka)
    <3>1. KeysOf(more, cols) = Append(ks, p)
      BY <2>1, <2>2, <2>5, <2>9, KeysGrow
    <3>2. KeysOf(Append(as, x), cols) = kas
      <4>1. Pick(x, cols) \in Range(KeysOf(as, cols))
        BY <2>2, <2>5, <2>7, <2>9
      <4>2. KeysOf(Append(as, x), cols) = KeysOf(as, cols)
        BY <4>1, KeysGrow
      <4>. QED BY <2>2, <4>2
    <3>3. Where(Append(ks, p), New) = w
      <4>1. p \notin New
        BY <1>01, <2>9
      <4>. QED BY <2>3, <4>1, WhereGrows
    <3>. QED BY <2>1, <2>4, <2>6, <3>1, <3>2, <3>3
  <2>10. CASE p \notin Range(ks) /\ p \notin Range(ka)
    <3>1. KeysOf(more, cols) = Append(ks, p)
      BY <2>1, <2>2, <2>5, <2>10, KeysGrow
    <3>2. KeysOf(Append(as, x), cols) = Append(kas, p)
      <4>1. Pick(x, cols) \notin Range(KeysOf(as, cols))
        BY <2>2, <2>5, <2>7, <2>10
      <4>2. KeysOf(Append(as, x), cols) = Append(KeysOf(as, cols), Pick(x, cols))
        BY <4>1, KeysGrow
      <4>. QED BY <2>2, <2>5, <4>2
    <3>3. Where(Append(ks, p), New) = Append(w, p)
      <4>1. p \in New
        BY <1>01, <2>10
      <4>. QED BY <2>3, <4>1, WhereGrows
    <3>4. ka \o Append(w, p) = Append(kas, p)
      BY <2>4, AppendConcat
    <3>. QED BY <2>1, <2>6, <3>1, <3>2, <3>3, <3>4
  <2>. QED BY <2>8, <2>9, <2>10
<1>3. b \in P
  <2>. HIDE DEF P
  <2>. QED BY <1>1, <1>2, GrowingSequences
<1>4. PICK kb \in Seq(K) : kb = KeysOf(b, cols)
  BY KeysType
<1>5. Where(kb, Range(kb) \ Range(ka)) = Where(kb, New)
  <2>1. \A i \in 1..Len(kb) : kb[i] \in Range(kb) /\ kb[i] \in K
    BY RangeEquality, ElementOfSeq
  <2>2. \A i \in 1..Len(kb) : kb[i] \in Range(kb) \ Range(ka) <=> kb[i] \in New
    BY <1>01, <2>1
  <2>. QED BY <2>2, WhereAgrees
<1>. QED BY <1>0, <1>3, <1>4, <1>5

-----------------------------------------------------------------------------
(* The values of a column, and the least and greatest of them. *)

Bounded(S) == \E lo \in Int, hi \in Int : S \subseteq lo..hi

LEMMA BoundedUnion ==
    ASSUME NEW S, NEW T, Bounded(S), Bounded(T)
    PROVE  Bounded(S \cup T)
<1>1. PICK lo \in Int, hi \in Int : S \subseteq lo..hi
  BY DEF Bounded
<1>2. PICK low \in Int, high \in Int : T \subseteq low..high
  BY DEF Bounded
<1>3. PICK l \in Int : l <= lo /\ l <= low
  <2>1. CASE lo <= low
    BY <2>1
  <2>2. CASE low <= lo
    BY <2>2
  <2>. QED BY <2>1, <2>2
<1>4. PICK h \in Int : hi <= h /\ high <= h
  <2>1. CASE hi <= high
    BY <2>1
  <2>2. CASE high <= hi
    BY <2>2
  <2>. QED BY <2>1, <2>2
<1>5. lo..hi \subseteq l..h /\ low..high \subseteq l..h
  BY <1>3, <1>4
<1>6. S \cup T \subseteq l..h
  BY <1>1, <1>2, <1>5
<1>. QED BY <1>6 DEF Bounded

LEMMA BoundedSmall ==
    /\ Bounded({})
    /\ \A x \in Int : Bounded({x})
<1>1. {} \subseteq 0..0
  OBVIOUS
<1>2. \A x \in Int : {x} \subseteq x..x
  OBVIOUS
<1>. QED BY <1>1, <1>2 DEF Bounded

LEMMA LeastIs ==
    ASSUME NEW S, NEW x \in S, x \in Int, \A v \in S : v \in Int /\ x <= v
    PROVE  Min(S) = x
<1>1. Min(S) \in S /\ \A v \in S : Min(S) <= v
  BY DEF Min
<1>2. Min(S) <= x /\ x <= Min(S) /\ Min(S) \in Int
  BY <1>1
<1>. QED BY <1>2

LEMMA GreatestIs ==
    ASSUME NEW S, NEW x \in S, x \in Int, \A v \in S : v \in Int /\ v <= x
    PROVE  Max(S) = x
<1>1. Max(S) \in S /\ \A v \in S : v <= Max(S)
  BY DEF Max
<1>2. Max(S) <= x /\ x <= Max(S) /\ Max(S) \in Int
  BY <1>1
<1>. QED BY <1>2

LEMMA BoundedLeast ==
    ASSUME NEW S, Bounded(S), S # {}
    PROVE  Min(S) \in S /\ Min(S) \in Int /\ \A v \in S : v \in Int /\ Min(S) <= v
<1>1. PICK lo \in Int, hi \in Int : S \subseteq lo..hi
  BY DEF Bounded
<1>2. \A v \in S : v \in Int
  BY <1>1
<1>3. Min(S) \in S /\ \A v \in S : Min(S) <= v
  <2>1. S \in SUBSET (lo..hi)
    BY <1>1
  <2>. QED BY <2>1, LeastOf
<1>. QED BY <1>2, <1>3

LEMMA BoundedGreatest ==
    ASSUME NEW S, Bounded(S), S # {}
    PROVE  Max(S) \in S /\ Max(S) \in Int /\ \A v \in S : v \in Int /\ v <= Max(S)
<1>1. PICK lo \in Int, hi \in Int : S \subseteq lo..hi
  BY DEF Bounded
<1>2. \A v \in S : v \in Int
  BY <1>1
<1>3. Max(S) \in S /\ \A v \in S : v <= Max(S)
  <2>1. S \in SUBSET (lo..hi)
    BY <1>1
  <2>. QED BY <2>1, GreatestOf
<1>. QED BY <1>2, <1>3

(* The least of some values and of more of them. *)
LEMMA LeastOfLeast ==
    ASSUME NEW S, NEW T, Bounded(S), Bounded(T), S # {}
    PROVE  /\ Min({Min(S)} \cup T) = Min(S \cup T)
           /\ Max({Max(S)} \cup T) = Max(S \cup T)
<1>0. PICK U : U = S \cup T /\ Bounded(U) /\ U # {}
  BY BoundedUnion
<1>1. Min({Min(S)} \cup T) = Min(U)
  <2>1. PICK m \in Int : m = Min(S) /\ m \in S /\ \A v \in S : v \in Int /\ m <= v
    BY BoundedLeast
  <2>2. PICK l \in Int : l = Min(U) /\ l \in U /\ \A v \in U : v \in Int /\ l <= v
    BY <1>0, BoundedLeast
  <2>3. PICK V : V = {m} \cup T
    OBVIOUS
  <2>4. l \in V
    <3>1. CASE l \in T
      BY <2>3, <3>1
    <3>2. CASE l \in S
      <4>1. m <= l /\ l <= m
        BY <1>0, <2>1, <2>2, <3>2
      <4>. QED BY <2>3, <4>1
    <3>. QED BY <1>0, <2>2, <3>1, <3>2
  <2>5. \A v \in V : v \in Int /\ l <= v
    BY <1>0, <2>1, <2>2, <2>3
  <2>6. Min(V) = l
    BY <2>4, <2>5, LeastIs
  <2>. QED BY <2>1, <2>2, <2>3, <2>6
<1>2. Max({Max(S)} \cup T) = Max(U)
  <2>1. PICK m \in Int : m = Max(S) /\ m \in S /\ \A v \in S : v \in Int /\ v <= m
    BY BoundedGreatest
  <2>2. PICK l \in Int : l = Max(U) /\ l \in U /\ \A v \in U : v \in Int /\ v <= l
    BY <1>0, BoundedGreatest
  <2>3. PICK V : V = {m} \cup T
    OBVIOUS
  <2>4. l \in V
    <3>1. CASE l \in T
      BY <2>3, <3>1
    <3>2. CASE l \in S
      <4>1. m <= l /\ l <= m
        BY <1>0, <2>1, <2>2, <3>2
      <4>. QED BY <2>3, <4>1
    <3>. QED BY <1>0, <2>2, <3>1, <3>2
  <2>5. \A v \in V : v \in Int /\ v <= l
    BY <1>0, <2>1, <2>2, <2>3
  <2>6. Max(V) = l
    BY <2>4, <2>5, GreatestIs
  <2>. QED BY <2>1, <2>2, <2>3, <2>6
<1>. QED BY <1>0, <1>1, <1>2

LEMMA ValuesOfRange ==
    ASSUME NEW R, NEW rows \in Seq(R), NEW col
    PROVE  ValueSet(rows, col) = {row[col] : row \in Range(rows)}
BY RangeEquality DEF ValueSet

LEMMA ValuesOfNone ==
    ASSUME NEW col
    PROVE  ValueSet(<<>>, col) = {}
<1>1. Len(<<>>) = 0
  BY EmptySeq
<1>. QED BY <1>1 DEF ValueSet

LEMMA ValuesConcat ==
    ASSUME NEW R, NEW a \in Seq(R), NEW b \in Seq(R), NEW col
    PROVE  ValueSet(a \o b, col) = ValueSet(a, col) \cup ValueSet(b, col)
<1>1. PICK both \in Seq(R) : both = a \o b /\ Range(both) = Range(a) \cup Range(b)
  BY ConcatProperties, RangeConcatenation
<1>2. ValueSet(both, col) = {row[col] : row \in Range(both)}
  BY ValuesOfRange
<1>3. ValueSet(a, col) = {row[col] : row \in Range(a)}
  BY ValuesOfRange
<1>4. ValueSet(b, col) = {row[col] : row \in Range(b)}
  BY ValuesOfRange
<1>. QED BY <1>1, <1>2, <1>3, <1>4

Numeric(R, col) == \A row \in R : row[col] \in Int

LEMMA ValuesBounded ==
    ASSUME NEW R, NEW col, Numeric(R, col), NEW rows \in Seq(R)
    PROVE  Bounded(ValueSet(rows, col))
<1>. DEFINE P == {s \in Seq(R) : Bounded(ValueSet(s, col))}
<1>1. <<>> \in P
  BY EmptySeq, ValuesOfNone, BoundedSmall
<1>2. ASSUME NEW s \in Seq(R), NEW x \in R, s \in P PROVE Append(s, x) \in P
  <2>1. PICK more \in Seq(R) : more = Append(s, x) /\ Range(more) = Range(s) \cup {x}
    BY AppendProperties, RangeGrows
  <2>2. ValueSet(more, col) = {row[col] : row \in Range(more)}
    BY ValuesOfRange
  <2>3. ValueSet(s, col) = {row[col] : row \in Range(s)}
    BY ValuesOfRange
  <2>4. ValueSet(more, col) = ValueSet(s, col) \cup {x[col]}
    BY <2>1, <2>2, <2>3
  <2>5. Bounded({x[col]})
    BY BoundedSmall DEF Numeric
  <2>6. Bounded(ValueSet(more, col))
    BY <1>2, <2>4, <2>5, BoundedUnion
  <2>. QED BY <2>1, <2>6
<1>3. rows \in P
  <2>. HIDE DEF P
  <2>. QED BY <1>1, <1>2, GrowingSequences
<1>. QED BY <1>3

LEMMA ValuesFinite ==
    ASSUME NEW R, NEW rows \in Seq(R), NEW col
    PROVE  IsFiniteSet(ValueSet(rows, col)) /\ Cardinality(ValueSet(rows, col)) \in Nat
<1>1. PICK n \in Nat : n = Len(rows)
  BY LenProperties
<1>2. PICK f : f = [i \in 1..n |-> rows[i][col]]
  OBVIOUS
<1>3. IsFiniteSet(1..n)
  BY FS_Interval
<1>4. f \in Surjection(1..n, ValueSet(rows, col))
  <2>1. \A y \in ValueSet(rows, col) : \E i \in 1..n : f[i] = y
    BY <1>1, <1>2 DEF ValueSet
  <2>2. f \in [1..n -> ValueSet(rows, col)]
    BY <1>1, <1>2 DEF ValueSet
  <2>. QED BY <2>1, <2>2 DEF Surjection
<1>5. IsFiniteSet(ValueSet(rows, col))
  BY <1>3, <1>4, FS_Surjection
<1>. QED BY <1>5, FS_CardinalityType

-----------------------------------------------------------------------------
(* What a scan reads, a row group at a time. *)

PickedRows(group, cols) == [i \in 1..Len(group.rows) |-> Pick(group.rows[i], cols)]
RowsUpTo(groups, cols, k) == Scanned(SubSeq(groups, 1, k), cols)

LEMMA ScannedIsFlatMap ==
    ASSUME NEW groups, NEW S, groups \in Seq(S), NEW T,
           NEW cols, \A g \in S : PickedRows(g, cols) \in Seq(T)
    PROVE  Scanned(groups, cols) = FlatMap([group \in S |-> PickedRows(group, cols)], groups)
<1>1. PICK n \in Nat : n = Len(groups)
  BY LenProperties
<1>2. \A g \in 1..n : groups[g] \in S
  BY <1>1, ElementOfSeq
<1>3. PICK f : f = [group \in S |-> PickedRows(group, cols)]
  OBVIOUS
<1>4. \A g \in 1..n : f[groups[g]] = [i \in 1..Len(groups[g].rows) |-> Pick(groups[g].rows[i], cols)]
  BY <1>2, <1>3 DEF PickedRows
<1>5. Mapped(f, groups) =
        [g \in 1..n |-> [i \in 1..Len(groups[g].rows) |-> Pick(groups[g].rows[i], cols)]]
  BY <1>1, <1>4 DEF Mapped
<1>. QED BY <1>1, <1>3, <1>5 DEF Scanned, FlatMap

RowsFit(groups, cols, S, T) ==
    groups \in Seq(S) /\ \A g \in S : PickedRows(g, cols) \in Seq(T)

LEMMA RowsUpToGrow ==
    ASSUME NEW S, NEW groups, NEW T, NEW cols, RowsFit(groups, cols, S, T)
    PROVE  /\ RowsUpTo(groups, cols, 0) = <<>>
           /\ RowsUpTo(groups, cols, Len(groups)) = Scanned(groups, cols)
           /\ \A k \in 0..Len(groups) : RowsUpTo(groups, cols, k) \in Seq(T)
           /\ \A k \in 1..Len(groups) :
                RowsUpTo(groups, cols, k) = RowsUpTo(groups, cols, k - 1) \o PickedRows(groups[k], cols)
<1>0. groups \in Seq(S) /\ \A g \in S : PickedRows(g, cols) \in Seq(T)
  BY DEF RowsFit
<1>1. PICK n \in Nat : n = Len(groups)
  BY <1>0, LenProperties
<1>2. PICK f \in [S -> Seq(T)] : f = [group \in S |-> PickedRows(group, cols)]
  BY <1>0
<1>3. \A s \in Seq(S) : Scanned(s, cols) = FlatMap(f, s) /\ FlatMap(f, s) \in Seq(T)
  BY <1>0, <1>2, ScannedIsFlatMap, FlatMapType
<1>4. RowsUpTo(groups, cols, 0) = <<>>
  <2>1. SubSeq(groups, 1, 0) = <<>> /\ <<>> \in Seq(S)
    BY SubSeqEmpty, EmptySeq
  <2>. QED BY <1>3, <2>1, MappedEmpty DEF RowsUpTo
<1>5. RowsUpTo(groups, cols, Len(groups)) = Scanned(groups, cols)
  BY <1>0, SubSeqFull DEF RowsUpTo
<1>6. \A k \in 0..n : SubSeq(groups, 1, k) \in Seq(S)
  <2>1. ASSUME NEW k \in 0..n PROVE \A i \in 1..k : groups[i] \in S
    BY <1>0, <1>1, ElementOfSeq
  <2>. QED BY <2>1, SubSeqProperties
<1>7. ASSUME NEW k \in 1..n
      PROVE  RowsUpTo(groups, cols, k) = RowsUpTo(groups, cols, k - 1) \o PickedRows(groups[k], cols)
  <2>1. PICK j \in 0..n : j = k - 1
    OBVIOUS
  <2>2. PICK pre \in Seq(S) : pre = SubSeq(groups, 1, j)
    BY <1>6
  <2>3. PICK x \in S : x = groups[k]
    BY <1>0, <1>1, ElementOfSeq
  <2>4. SubSeq(groups, 1, k) = pre \o <<x>>
    <3>1. 1 \in 1..Len(groups) /\ k \in 1..Len(groups)
      BY <1>1
    <3>2. SubSeq(groups, 1, k) = SubSeq(groups, 1, k - 1) \o <<groups[k]>>
      BY <3>1, SubSeqRecursiveSecond
    <3>. QED BY <2>1, <2>2, <2>3, <3>2
  <2>5. SubSeq(groups, 1, k) = Append(pre, x)
    BY <2>4, AppendIsConcat
  <2>6. FlatMap(f, Append(pre, x)) = FlatMap(f, pre) \o f[x]
    BY FlatMapGrows
  <2>7. f[x] = PickedRows(groups[k], cols)
    BY <1>2, <2>3
  <2>8. Scanned(Append(pre, x), cols) = FlatMap(f, Append(pre, x))
    BY <1>3, AppendProperties
  <2>9. Scanned(pre, cols) = FlatMap(f, pre)
    BY <1>3
  <2>10. RowsUpTo(groups, cols, j) = FlatMap(f, pre)
    BY <2>2, <2>9 DEF RowsUpTo
  <2>11. RowsUpTo(groups, cols, k) = FlatMap(f, pre) \o f[x]
    BY <2>5, <2>6, <2>8 DEF RowsUpTo
  <2>. QED BY <2>1, <2>7, <2>10, <2>11
<1>8. \A k \in 0..n : RowsUpTo(groups, cols, k) \in Seq(T)
  BY <1>3, <1>6 DEF RowsUpTo
<1>. QED BY <1>1, <1>4, <1>5, <1>7, <1>8

-----------------------------------------------------------------------------
(* Sorting: there always is a sorted ordering of rows whose keys are        *)
(* numbers.                                                                 *)

NumericKeys(R, keys) ==
    /\ Len(keys) \in Nat
    /\ \A k \in 1..Len(keys) : keys[k].ascending \in BOOLEAN /\ Numeric(R, keys[k].col)

(* What the k-th key sorts by. *)
Rank(row, keys, k) == IF keys[k].ascending THEN row[keys[k].col] ELSE 0 - row[keys[k].col]

LEMMA RankType ==
    ASSUME NEW R, NEW keys, NumericKeys(R, keys), NEW row \in R, NEW k \in 1..Len(keys)
    PROVE  Rank(row, keys, k) \in Int
<1>1. row[keys[k].col] \in Int
  BY DEF NumericKeys, Numeric
<1>. QED BY <1>1 DEF Rank

LEMMA BeforeByRank ==
    ASSUME NEW R, NEW keys, NumericKeys(R, keys), NEW a \in R, NEW b \in R
    PROVE  Before(a, b, keys) <=>
             \E k \in 1..Len(keys) :
               /\ \A l \in 1..k-1 : Rank(a, keys, l) = Rank(b, keys, l)
               /\ Rank(a, keys, k) < Rank(b, keys, k)
<1>1. PICK n \in Nat : n = Len(keys)
  BY DEF NumericKeys
<1>2. \A k \in 1..n : a[keys[k].col] \in Int /\ b[keys[k].col] \in Int /\ keys[k].ascending \in BOOLEAN
  BY <1>1 DEF NumericKeys, Numeric
<1>3. ASSUME NEW k \in 1..n
      PROVE  /\ Rank(a, keys, k) = Rank(b, keys, k) <=> a[keys[k].col] = b[keys[k].col]
             /\ Rank(a, keys, k) < Rank(b, keys, k) <=>
                  IF keys[k].ascending THEN a[keys[k].col] < b[keys[k].col]
                                       ELSE a[keys[k].col] > b[keys[k].col]
  <2>1. PICK x \in Int, y \in Int : x = a[keys[k].col] /\ y = b[keys[k].col]
    BY <1>2
  <2>2. CASE keys[k].ascending
    BY <2>1, <2>2 DEF Rank
  <2>3. CASE ~keys[k].ascending
    <3>1. Rank(a, keys, k) = 0 - x /\ Rank(b, keys, k) = 0 - y
      BY <2>1, <2>3 DEF Rank
    <3>2. (0 - x = 0 - y <=> x = y) /\ (0 - x < 0 - y <=> x > y)
      OBVIOUS
    <3>. QED BY <2>1, <2>3, <3>1, <3>2
  <2>. QED BY <2>2, <2>3
<1>4. \A k \in 1..n : \A l \in 1..k-1 : l \in 1..n
  OBVIOUS
<1>. QED BY <1>1, <1>3, <1>4 DEF Before

LEMMA BeforeIsStrict ==
    ASSUME NEW R, NEW keys, NumericKeys(R, keys), NEW a \in R, NEW b \in R, Before(a, b, keys)
    PROVE  ~Before(b, a, keys)
<1>1. PICK n \in Nat : n = Len(keys)
  BY DEF NumericKeys
<1>2. PICK u \in [1..n -> Int], v \in [1..n -> Int] :
        \A k \in 1..n : u[k] = Rank(a, keys, k) /\ v[k] = Rank(b, keys, k)
  <2>1. [k \in 1..n |-> Rank(a, keys, k)] \in [1..n -> Int]
    BY <1>1, RankType
  <2>2. [k \in 1..n |-> Rank(b, keys, k)] \in [1..n -> Int]
    BY <1>1, RankType
  <2>. QED BY <2>1, <2>2
<1>3. PICK k \in 1..n : (\A l \in 1..k-1 : u[l] = v[l]) /\ u[k] < v[k]
  BY <1>1, <1>2, BeforeByRank
<1>4. ASSUME Before(b, a, keys) PROVE FALSE
  <2>1. PICK m \in 1..n : (\A l \in 1..m-1 : v[l] = u[l]) /\ v[m] < u[m]
    BY <1>1, <1>2, <1>4, BeforeByRank
  <2>2. CASE m < k
    BY <1>3, <2>1, <2>2
  <2>3. CASE k < m
    BY <1>3, <2>1, <2>3
  <2>4. CASE k = m
    BY <1>3, <2>1, <2>4
  <2>. QED BY <2>2, <2>3, <2>4
<1>. QED BY <1>4

(* A row between two others is before one of them, or after the other. *)
LEMMA BeforeSplits ==
    ASSUME NEW R, NEW keys, NumericKeys(R, keys), NEW a \in R, NEW b \in R, NEW c \in R,
           Before(c, a, keys)
    PROVE  Before(c, b, keys) \/ Before(b, a, keys)
<1>1. PICK n \in Nat : n = Len(keys)
  BY DEF NumericKeys
<1>2. PICK u \in [1..n -> Int], v \in [1..n -> Int], w \in [1..n -> Int] :
        \A k \in 1..n : u[k] = Rank(a, keys, k) /\ v[k] = Rank(b, keys, k) /\ w[k] = Rank(c, keys, k)
  <2>1. [k \in 1..n |-> Rank(a, keys, k)] \in [1..n -> Int]
    BY <1>1, RankType
  <2>2. [k \in 1..n |-> Rank(b, keys, k)] \in [1..n -> Int]
    BY <1>1, RankType
  <2>3. [k \in 1..n |-> Rank(c, keys, k)] \in [1..n -> Int]
    BY <1>1, RankType
  <2>. QED BY <2>1, <2>2, <2>3
<1>3. PICK k \in 1..n : (\A l \in 1..k-1 : w[l] = u[l]) /\ w[k] < u[k]
  BY <1>1, <1>2, BeforeByRank
<1>4. ASSUME NEW m \in 1..n, \A l \in 1..m-1 : w[l] = v[l], w[m] < v[m] PROVE Before(c, b, keys)
  BY <1>1, <1>2, <1>4, BeforeByRank
<1>5. ASSUME NEW m \in 1..n, \A l \in 1..m-1 : v[l] = u[l], v[m] < u[m] PROVE Before(b, a, keys)
  BY <1>1, <1>2, <1>5, BeforeByRank
<1>6. CASE \A l \in 1..k-1 : v[l] = u[l]
  <2>1. \A l \in 1..k-1 : w[l] = v[l]
    BY <1>3, <1>6
  <2>2. w[k] < v[k] \/ v[k] < u[k]
    BY <1>3
  <2>. QED BY <1>4, <1>5, <1>6, <2>1, <2>2
<1>7. CASE ~\A l \in 1..k-1 : v[l] = u[l]
  <2>1. PICK D : D = {l \in 1..k-1 : v[l] # u[l]}
    OBVIOUS
  <2>2. PICK m \in D : \A l \in D : m <= l
    <3>1. PICK hi \in Int : hi = k - 1
      OBVIOUS
    <3>2. D \subseteq 1..hi /\ D # {}
      BY <1>7, <2>1, <3>1
    <3>3. Bounded(D)
      <4>1. PICK lo \in Int : lo = 1
        OBVIOUS
      <4>2. D \subseteq lo..hi
        BY <3>2, <4>1
      <4>. QED BY <4>2 DEF Bounded
    <3>4. Min(D) \in D /\ \A l \in D : Min(D) <= l
      BY <3>2, <3>3, BoundedLeast
    <3>. QED BY <3>4
  <2>3. m \in 1..n /\ m \in 1..k-1 /\ v[m] # u[m] /\ w[m] = u[m]
    BY <1>3, <2>1
  <2>4. \A l \in 1..m-1 : v[l] = u[l] /\ w[l] = v[l]
    <3>1. \A l \in 1..m-1 : l \in 1..k-1 /\ l \notin D
      BY <2>2, <2>3
    <3>. QED BY <1>3, <2>1, <3>1
  <2>5. v[m] < u[m] \/ w[m] < v[m]
    BY <2>3
  <2>. QED BY <1>4, <1>5, <2>3, <2>4, <2>5
<1>. QED BY <1>6, <1>7

(* No row of s comes before an earlier one. *)
Sorted(s, keys) == \A i, j \in 1..Len(s) : i < j => ~Before(s[j], s[i], keys)

LEMMA SortedGrows ==
    ASSUME NEW R, NEW keys, NEW s \in Seq(R), NEW x \in R
    PROVE  Sorted(Append(s, x), keys) <=>
             Sorted(s, keys) /\ \A i \in 1..Len(s) : ~Before(x, s[i], keys)
<1>1. PICK n \in Nat : n = Len(s)
  BY LenProperties
<1>2. PICK more \in Seq(R) : /\ more = Append(s, x) /\ Len(more) = n + 1
                             /\ \A i \in 1..n : more[i] = s[i]
                             /\ more[n + 1] = x
  BY <1>1, AppendProperties
<1>3. Sorted(more, keys) <=>
        /\ \A i, j \in 1..n : i < j => ~Before(more[j], more[i], keys)
        /\ \A i \in 1..n : ~Before(more[n + 1], more[i], keys)
  BY <1>2 DEF Sorted
<1>4. (\A i, j \in 1..n : i < j => ~Before(more[j], more[i], keys)) <=> Sorted(s, keys)
  BY <1>1, <1>2 DEF Sorted
<1>. QED BY <1>1, <1>2, <1>3, <1>4

(* A row finds its place among sorted ones. *)
Inserted(s, x, t, R) == t \in Seq(R) /\ Alike(t, Append(s, x), R)

LEMMA InsertedFrom ==
    ASSUME NEW R, NEW s \in Seq(R), NEW x \in R, NEW t, Inserted(s, x, t, R), NEW i \in 1..Len(t)
    PROVE  t[i] \in R /\ (t[i] = x \/ \E j \in 1..Len(s) : s[j] = t[i])
<1>1. t \in Seq(R) /\ t[i] \in R
  BY ElementOfSeq DEF Inserted
<1>2. PICK row \in R : row = t[i]
  BY <1>1
<1>3. Often(t, row) # 0
  <2>1. SUFFICES ASSUME Often(t, row) = 0 PROVE FALSE
    OBVIOUS
  <2>2. PICK a \in Seq(R), b \in Seq(R) : SplitsAt(t, i, a, b)
    BY <1>1, SplitAt
  <2>3. PICK ar \in Seq(R) : ar = Append(a, row)
    BY AppendProperties
  <2>4. t = ar \o b
    BY <1>2, <2>2, <2>3 DEF SplitsAt
  <2>5. Often(t, row) = Often(ar, row) + Often(b, row)
    BY <2>4, OftenConcat
  <2>6. Often(ar, row) = Often(a, row) + 1
    BY <2>3, OftenGrows
  <2>7. Often(a, row) \in Nat
    BY OftenType
  <2>8. Often(b, row) \in Nat
    BY OftenType
  <2>. QED BY <2>1, <2>5, <2>6, <2>7, <2>8
<1>4. Often(Append(s, x), row) # 0
  BY <1>3 DEF Inserted, Alike
<1>5. CASE row = x
  BY <1>1, <1>2, <1>5
<1>6. CASE row # x
  <2>1. Often(s, row) # 0
    BY <1>4, <1>6, OftenGrows
  <2>2. \E j \in 1..Len(s) : s[j] = row
    BY <2>1, OftenNever
  <2>. QED BY <1>1, <1>2, <2>2
<1>. QED BY <1>5, <1>6

LEMMA SortedInsert ==
    ASSUME NEW R, NEW keys, NumericKeys(R, keys), NEW s \in Seq(R), NEW x \in R, Sorted(s, keys)
    PROVE  \E t : Inserted(s, x, t, R) /\ Sorted(t, keys)
<1>. DEFINE P == {r \in Seq(R) : Sorted(r, keys) => \E t : Inserted(r, x, t, R) /\ Sorted(t, keys)}
<1>1. <<>> \in P
  <2>1. PICK none : none = <<>> /\ none \in Seq(R) /\ Len(none) = 0
    BY EmptySeq
  <2>2. PICK one \in Seq(R) : one = Append(none, x)
    BY <2>1, AppendProperties
  <2>3. Sorted(none, keys)
    BY <2>1 DEF Sorted
  <2>31. \A i \in 1..Len(none) : ~Before(x, none[i], keys)
    BY <2>1
  <2>4. Sorted(one, keys)
    BY <2>1, <2>2, <2>3, <2>31, SortedGrows
  <2>5. Inserted(none, x, one, R)
    BY <2>2 DEF Inserted, Alike
  <2>. QED BY <2>1, <2>4, <2>5
<1>2. ASSUME NEW r \in Seq(R), NEW y \in R, r \in P PROVE Append(r, y) \in P
  <2>1. PICK ry \in Seq(R) : ry = Append(r, y)
    BY AppendProperties
  <2>2. SUFFICES ASSUME Sorted(ry, keys) PROVE \E t : Inserted(ry, x, t, R) /\ Sorted(t, keys)
    BY <2>1
  <2>3. Sorted(r, keys) /\ \A i \in 1..Len(r) : ~Before(y, r[i], keys)
    BY <2>1, <2>2, SortedGrows
  <2>4. PICK ryx \in Seq(R) : ryx = Append(ry, x)
    BY AppendProperties
  <2>5. CASE ~Before(x, y, keys)
    <3>1. \A i \in 1..Len(r) : ~Before(x, r[i], keys)
      <4>1. SUFFICES ASSUME NEW i \in 1..Len(r), Before(x, r[i], keys) PROVE FALSE
        OBVIOUS
      <4>2. PICK ri \in R : ri = r[i]
        BY ElementOfSeq
      <4>3. Before(x, y, keys) \/ Before(y, ri, keys)
        BY <4>1, <4>2, BeforeSplits
      <4>. QED BY <2>3, <2>5, <4>2, <4>3
    <3>2. \A i \in 1..Len(ry) : ~Before(x, ry[i], keys)
      <4>1. PICK n \in Nat : n = Len(r)
        BY LenProperties
      <4>2. Len(ry) = n + 1 /\ (\A i \in 1..n : ry[i] = r[i]) /\ ry[n + 1] = y
        BY <2>1, <4>1, AppendProperties
      <4>. QED BY <2>5, <3>1, <4>1, <4>2
    <3>3. Sorted(ryx, keys)
      BY <2>2, <2>4, <3>2, SortedGrows
    <3>4. Inserted(ry, x, ryx, R)
      BY <2>4 DEF Inserted, Alike
    <3>. QED BY <3>3, <3>4
  <2>6. CASE Before(x, y, keys)
    <3>1. PICK t : Inserted(r, x, t, R) /\ Sorted(t, keys)
      BY <1>2, <2>3
    <3>2. t \in Seq(R)
      BY <3>1 DEF Inserted
    <3>3. PICK ty \in Seq(R) : ty = Append(t, y)
      BY <3>2, AppendProperties
    <3>4. \A i \in 1..Len(t) : ~Before(y, t[i], keys)
      <4>1. SUFFICES ASSUME NEW i \in 1..Len(t) PROVE ~Before(y, t[i], keys)
        OBVIOUS
      <4>2. t[i] = x \/ \E j \in 1..Len(r) : r[j] = t[i]
        BY <3>1, InsertedFrom
      <4>3. ~Before(y, x, keys)
        BY <2>6, BeforeIsStrict
      <4>. QED BY <2>3, <4>2, <4>3
    <3>5. Sorted(ty, keys)
      BY <3>1, <3>2, <3>3, <3>4, SortedGrows
    <3>6. Alike(ty, ryx, R)
      <4>1. SUFFICES ASSUME NEW row \in R PROVE Often(ty, row) = Often(ryx, row)
        BY DEF Alike
      <4>2. PICK rx \in Seq(R) : rx = Append(r, x)
        BY AppendProperties
      <4>3. Often(t, row) = Often(rx, row)
        BY <3>1, <4>2 DEF Inserted, Alike
      <4>4. PICK n \in Nat : n = Often(r, row)
        BY OftenType
      <4>5. /\ row = x => Often(rx, row) = n + 1
            /\ row # x => Often(rx, row) = n
        BY <4>2, <4>4, OftenGrows
      <4>6. /\ row = y => Often(ry, row) = n + 1
            /\ row # y => Often(ry, row) = n
        BY <2>1, <4>4, OftenGrows
      <4>7. /\ row = x => Often(ryx, row) = Often(ry, row) + 1
            /\ row # x => Often(ryx, row) = Often(ry, row)
        BY <2>4, OftenGrows
      <4>8. /\ row = y => Often(ty, row) = Often(t, row) + 1
            /\ row # y => Often(ty, row) = Often(t, row)
        BY <3>2, <3>3, OftenGrows
      <4>. QED BY <4>3, <4>5, <4>6, <4>7, <4>8
    <3>7. Inserted(ry, x, ty, R)
      BY <2>4, <3>6 DEF Inserted
    <3>. QED BY <3>5, <3>7
  <2>. QED BY <2>5, <2>6
<1>3. Seq(R) \subseteq P
  <2>. HIDE DEF P
  <2>. QED BY <1>1, <1>2, GrowingSequences
<1>. QED BY <1>3

(* Every relation whose keys are numbers has a sorted ordering, whatever    *)
(* keys tie: SortOperator always has an answer.                             *)
THEOREM SortedOrderingExists ==
    ASSUME NEW R, NEW keys, NumericKeys(R, keys), NEW rows \in Seq(R)
    PROVE  SortedOrderings(rows, keys) # {}
<1>. DEFINE P == {r \in Seq(R) : \E s \in Seq(R) : Alike(s, r, R) /\ Sorted(s, keys)}
<1>1. <<>> \in P
  <2>1. PICK none : none = <<>> /\ none \in Seq(R) /\ Len(none) = 0
    BY EmptySeq
  <2>2. Sorted(none, keys)
    BY <2>1 DEF Sorted
  <2>3. Alike(none, none, R)
    BY DEF Alike
  <2>. QED BY <2>1, <2>2, <2>3
<1>2. ASSUME NEW r \in Seq(R), NEW x \in R, r \in P PROVE Append(r, x) \in P
  <2>1. PICK s \in Seq(R) : Alike(s, r, R) /\ Sorted(s, keys)
    BY <1>2
  <2>2. PICK t : Inserted(s, x, t, R) /\ Sorted(t, keys)
    BY <2>1, SortedInsert
  <2>3. t \in Seq(R)
    BY <2>2 DEF Inserted
  <2>4. PICK rx \in Seq(R) : rx = Append(r, x)
    BY AppendProperties
  <2>5. Alike(t, rx, R)
    <3>1. SUFFICES ASSUME NEW row \in R PROVE Often(t, row) = Often(rx, row)
      BY DEF Alike
    <3>2. Often(t, row) = Often(Append(s, x), row) /\ Often(s, row) = Often(r, row)
      BY <2>1, <2>2 DEF Inserted, Alike
    <3>3. /\ row = x => Often(Append(s, x), row) = Often(s, row) + 1
          /\ row # x => Often(Append(s, x), row) = Often(s, row)
      BY OftenGrows
    <3>4. /\ row = x => Often(rx, row) = Often(r, row) + 1
          /\ row # x => Often(rx, row) = Often(r, row)
      BY <2>4, OftenGrows
    <3>. QED BY <3>2, <3>3, <3>4
  <2>. QED BY <2>2, <2>3, <2>4, <2>5
<1>3. Seq(R) \subseteq P
  <2>. HIDE DEF P
  <2>. QED BY <1>1, <1>2, GrowingSequences
<1>4. PICK s \in Seq(R) : Alike(s, rows, R) /\ Sorted(s, keys)
  BY <1>3
<1>5. s \in Orderings(rows)
  BY <1>4, OrderingsAreAlike
<1>. QED BY <1>4, <1>5 DEF SortedOrderings, Sorted

-----------------------------------------------------------------------------
(* The accumulators of some rows. *)

KeepKey(R, cols, key) == {row \in R : Pick(row, cols) = key}

LEMMA OfKeyIsWhere ==
    ASSUME NEW R, NEW rows \in Seq(R), NEW cols, NEW key
    PROVE  /\ OfKey(rows, cols, key) = Where(rows, KeepKey(R, cols, key))
           /\ OfKey(rows, cols, key) \in Seq(R)
<1>1. Range(rows) \subseteq R
  BY RangeOfSeq
<1>2. {row \in Range(rows) : Pick(row, cols) = key} = {row \in Range(rows) : row \in KeepKey(R, cols, key)}
  BY <1>1 DEF KeepKey
<1>3. OfKey(rows, cols, key) = Where(rows, KeepKey(R, cols, key))
  BY <1>2, WhereWithin DEF OfKey
<1>. QED BY <1>3, WhereType

LEMMA OfKeyConcat ==
    ASSUME NEW R, NEW a \in Seq(R), NEW b \in Seq(R), NEW cols, NEW key
    PROVE  OfKey(a \o b, cols, key) = OfKey(a, cols, key) \o OfKey(b, cols, key)
<1>1. PICK both \in Seq(R) : both = a \o b
  BY ConcatProperties
<1>2. PICK keep : keep = KeepKey(R, cols, key)
  OBVIOUS
<1>3. OfKey(both, cols, key) = Where(both, keep)
  BY <1>2, OfKeyIsWhere
<1>4. OfKey(a, cols, key) = Where(a, keep)
  BY <1>2, OfKeyIsWhere
<1>5. OfKey(b, cols, key) = Where(b, keep)
  BY <1>2, OfKeyIsWhere
<1>6. Where(a \o b, keep) = Where(a, keep) \o Where(b, keep)
  BY WhereConcat
<1>. QED BY <1>1, <1>3, <1>4, <1>5, <1>6

LEMMA OfKeyNever ==
    ASSUME NEW R, NEW rows \in Seq(R), NEW cols, NEW key, key \notin Range(KeysOf(rows, cols))
    PROVE  OfKey(rows, cols, key) = <<>>
<1>1. \A i \in 1..Len(rows) : rows[i] \in Range(rows)
  BY RangeEquality
<1>2. \A i \in 1..Len(rows) : Pick(rows[i], cols) # key
  BY <1>1, RangeKeys DEF KeysIn
<1>3. \A i \in 1..Len(rows) : rows[i] \notin {row \in Range(rows) : Pick(row, cols) = key}
  BY <1>2
<1>. QED BY <1>3, WhereNone DEF OfKey

SpecFits(spec, R) ==
    /\ spec.kind \in AggKind
    /\ spec.kind # "CountStar" => Numeric(R, spec.col)

(* The accumulator n rows with sum t and values V leave, and n + m of two    *)
(* batches.                                                                  *)
Once(acc, spec, n, t, V) ==
    /\ spec.kind = "CountStar" => acc = Acc(n, 0, Int64Max, Int64Min, {})
    /\ spec.kind = "CountDistinct" => acc = Acc(0, 0, Int64Max, Int64Min, V)
    /\ spec.kind \notin {"CountStar", "CountDistinct"} /\ t \in Int =>
         acc = Acc(n, t, Min({Int64Max} \cup V), Max({Int64Min} \cup V), {})
Twice(acc, spec, n, m, s, t, V, W) ==
    /\ spec.kind = "CountStar" => acc = Acc(n + m, 0, Int64Max, Int64Min, {})
    /\ spec.kind = "CountDistinct" => acc = Acc(0, 0, Int64Max, Int64Min, V \cup W)
    /\ spec.kind \notin {"CountStar", "CountDistinct"} /\ s \in Int /\ t \in Int =>
         acc = Acc(n + m, s + t, Min({Min({Int64Max} \cup V)} \cup W),
                   Max({Max({Int64Min} \cup V)} \cup W), {})

LEMMA AccumulateOnce ==
    ASSUME NEW rows, NEW spec, Len(rows) \in Int
    PROVE  Once(Accumulate(NoAcc, rows, spec), spec, Len(rows), Total(rows, spec.col), ValueSet(rows, spec.col))
<1>0. PICK n, t, V : n \in Int /\ n = Len(rows) /\ t = Total(rows, spec.col) /\ V = ValueSet(rows, spec.col)
  OBVIOUS
<1>1. PICK a : a = NoAcc
  OBVIOUS
<1>2. a.count = 0 /\ a.sum = 0 /\ a.min = Int64Max /\ a.max = Int64Min /\ a.distinct = {}
  BY <1>1 DEF NoAcc, Acc
<1>3. 0 + n = n /\ (t \in Int => 0 + t = t) /\ {} \cup V = V
  BY <1>0
<1>4. spec.kind = "CountStar" => Accumulate(a, rows, spec) = Acc(a.count + n, a.sum, a.min, a.max, a.distinct)
  BY <1>0 DEF Accumulate
<1>5. spec.kind = "CountDistinct" => Accumulate(a, rows, spec) = Acc(a.count, a.sum, a.min, a.max, a.distinct \cup V)
  BY <1>0 DEF Accumulate
<1>6. spec.kind \notin {"CountStar", "CountDistinct"} =>
        Accumulate(a, rows, spec) = Acc(a.count + n, a.sum + t, Min({a.min} \cup V), Max({a.max} \cup V), a.distinct)
  BY <1>0 DEF Accumulate
<1>7. Once(Accumulate(NoAcc, rows, spec), spec, n, t, V)
  BY <1>1, <1>2, <1>3, <1>4, <1>5, <1>6 DEF Once
<1>. QED BY <1>0, <1>7

LEMMA AccumulateTwice ==
    ASSUME NEW a, NEW b, NEW spec, Len(a) \in Int, Len(b) \in Int
    PROVE  Twice(Accumulate(Accumulate(NoAcc, a, spec), b, spec), spec, Len(a), Len(b),
                 Total(a, spec.col), Total(b, spec.col), ValueSet(a, spec.col), ValueSet(b, spec.col))
<1>0. PICK n, m, s, t, V, W :
        /\ n \in Int /\ m \in Int /\ n = Len(a) /\ s = Total(a, spec.col) /\ V = ValueSet(a, spec.col)
        /\ m = Len(b) /\ t = Total(b, spec.col) /\ W = ValueSet(b, spec.col)
  OBVIOUS
<1>1. PICK first : first = Accumulate(NoAcc, a, spec)
  OBVIOUS
<1>11. PICK second : second = Accumulate(first, b, spec)
  OBVIOUS
<1>. SUFFICES Twice(second, spec, n, m, s, t, V, W)
  BY <1>0, <1>1, <1>11
<1>12. Once(first, spec, n, s, V)
  BY <1>0, <1>1, AccumulateOnce
<1>2. CASE spec.kind = "CountStar"
  <2>1. first = Acc(n, 0, Int64Max, Int64Min, {})
    BY <1>2, <1>12 DEF Once
  <2>2. first.count = n /\ first.sum = 0 /\ first.min = Int64Max /\ first.max = Int64Min /\ first.distinct = {}
    BY <2>1 DEF Acc
  <2>3. second = Acc(first.count + m, first.sum, first.min, first.max, first.distinct)
    BY <1>0, <1>11, <1>2 DEF Accumulate
  <2>. QED BY <1>2, <2>2, <2>3 DEF Twice
<1>3. CASE spec.kind = "CountDistinct"
  <2>1. first = Acc(0, 0, Int64Max, Int64Min, V)
    BY <1>3, <1>12 DEF Once
  <2>2. first.count = 0 /\ first.sum = 0 /\ first.min = Int64Max /\ first.max = Int64Min /\ first.distinct = V
    BY <2>1 DEF Acc
  <2>3. second = Acc(first.count, first.sum, first.min, first.max, first.distinct \cup W)
    BY <1>0, <1>11, <1>3 DEF Accumulate
  <2>. QED BY <1>3, <2>2, <2>3 DEF Twice
<1>4. CASE spec.kind \notin {"CountStar", "CountDistinct"} /\ s \in Int /\ t \in Int
  <2>0. PICK lm, gm : lm = Min({Int64Max} \cup V) /\ gm = Max({Int64Min} \cup V)
    OBVIOUS
  <2>1. first = Acc(n, s, lm, gm, {})
    BY <1>4, <2>0, <1>12 DEF Once
  <2>2. first.count = n /\ first.sum = s /\ first.min = lm /\ first.max = gm /\ first.distinct = {}
    BY <2>1 DEF Acc
  <2>3. second =
          Acc(first.count + m, first.sum + t, Min({first.min} \cup W), Max({first.max} \cup W), first.distinct)
    BY <1>0, <1>11, <1>4 DEF Accumulate
  <2>. QED BY <1>4, <2>0, <2>2, <2>3 DEF Twice
<1>. QED BY <1>2, <1>3, <1>4 DEF Twice

LEMMA AccumulateNothing ==
    ASSUME NEW spec, spec.kind \in AggKind
    PROVE  Accumulate(NoAcc, <<>>, spec) = NoAcc
<1>1. Int64Min \in Int /\ Int64Max \in Int
  BY CasesAssumption
<1>2. PICK none, zero, V : /\ none = <<>> /\ zero = 0 /\ V = {} /\ Len(none) = zero
                           /\ ValueSet(none, spec.col) = V /\ Total(none, spec.col) = zero
  BY EmptySeq, ValuesOfNone, TotalEmpty
<1>3. Min({Int64Max} \cup V) = Int64Max
  <2>1. \A v \in {Int64Max} : v \in Int /\ Int64Max <= v
    BY <1>1
  <2>2. Min({Int64Max}) = Int64Max
    BY <1>1, <2>1, LeastIs
  <2>3. {Int64Max} \cup V = {Int64Max}
    BY <1>2
  <2>. QED BY <2>2, <2>3
<1>4. Max({Int64Min} \cup V) = Int64Min
  <2>1. \A v \in {Int64Min} : v \in Int /\ v <= Int64Min
    BY <1>1
  <2>2. Max({Int64Min}) = Int64Min
    BY <1>1, <2>1, GreatestIs
  <2>3. {Int64Min} \cup V = {Int64Min}
    BY <1>2
  <2>. QED BY <2>2, <2>3
<1>5. Once(Accumulate(NoAcc, none, spec), spec, zero, zero, V)
  BY <1>2, AccumulateOnce
<1>6. zero \in Int
  BY <1>2
<1>. QED BY <1>2, <1>3, <1>4, <1>5, <1>6 DEF NoAcc, Once

(* What is accumulated over two batches is what is over both at once. *)
LEMMA AccumulateConcat ==
    ASSUME NEW R, NEW spec, SpecFits(spec, R), NEW a \in Seq(R), NEW b \in Seq(R)
    PROVE  Accumulate(Accumulate(NoAcc, a, spec), b, spec) = Accumulate(NoAcc, a \o b, spec)
<1>0. Int64Min \in Int /\ Int64Max \in Int
  BY CasesAssumption
<1>01. PICK both \in Seq(R) : both = a \o b
  BY ConcatProperties
<1>1. PICK n \in Int, m \in Int, nm \in Int : n = Len(a) /\ m = Len(b) /\ nm = Len(both) /\ nm = n + m
  BY <1>01, LenProperties, ConcatProperties
<1>2. PICK V, W, VW : /\ V = ValueSet(a, spec.col) /\ W = ValueSet(b, spec.col)
                      /\ VW = ValueSet(both, spec.col) /\ VW = V \cup W
  BY <1>01, ValuesConcat
<1>21. PICK s, t, st : s = Total(a, spec.col) /\ t = Total(b, spec.col) /\ st = Total(both, spec.col)
  OBVIOUS
<1>22. Twice(Accumulate(Accumulate(NoAcc, a, spec), b, spec), spec, n, m, s, t, V, W)
  BY <1>1, <1>2, <1>21, AccumulateTwice
<1>23. Once(Accumulate(NoAcc, both, spec), spec, nm, st, VW)
  BY <1>1, <1>2, <1>21, AccumulateOnce
<1>3. CASE spec.kind = "CountStar"
  BY <1>01, <1>1, <1>3, <1>22, <1>23 DEF Once, Twice
<1>4. CASE spec.kind = "CountDistinct"
  BY <1>01, <1>2, <1>4, <1>22, <1>23 DEF Once, Twice
<1>5. CASE spec.kind \notin {"CountStar", "CountDistinct"}
  <2>1. Numeric(R, spec.col)
    BY <1>5 DEF SpecFits
  <2>2. s \in Int /\ t \in Int /\ st \in Int /\ st = s + t
    <3>1. \A row \in R : row[spec.col] \in Int
      BY <2>1 DEF Numeric
    <3>2. Total(a, spec.col) \in Int
      BY <3>1, TotalType
    <3>3. Total(b, spec.col) \in Int
      BY <3>1, TotalType
    <3>4. Total(a \o b, spec.col) = Total(a, spec.col) + Total(b, spec.col)
      BY <3>1, TotalConcat
    <3>. QED BY <1>01, <1>21, <3>2, <3>3, <3>4
  <2>3. Bounded(V) /\ Bounded(W) /\ Bounded({Int64Max}) /\ Bounded({Int64Min})
    BY <1>0, <1>2, <2>1, ValuesBounded, BoundedSmall
  <2>4. Min({Min({Int64Max} \cup V)} \cup W) = Min({Int64Max} \cup VW)
    <3>1. Bounded({Int64Max} \cup V) /\ {Int64Max} \cup V # {}
      BY <2>3, BoundedUnion
    <3>2. Min({Min({Int64Max} \cup V)} \cup W) = Min(({Int64Max} \cup V) \cup W)
      BY <2>3, <3>1, LeastOfLeast
    <3>3. ({Int64Max} \cup V) \cup W = {Int64Max} \cup VW
      BY <1>2
    <3>. QED BY <3>2, <3>3
  <2>5. Max({Max({Int64Min} \cup V)} \cup W) = Max({Int64Min} \cup VW)
    <3>1. Bounded({Int64Min} \cup V) /\ {Int64Min} \cup V # {}
      BY <2>3, BoundedUnion
    <3>2. Max({Max({Int64Min} \cup V)} \cup W) = Max(({Int64Min} \cup V) \cup W)
      BY <2>3, <3>1, LeastOfLeast
    <3>3. ({Int64Min} \cup V) \cup W = {Int64Min} \cup VW
      BY <1>2
    <3>. QED BY <3>2, <3>3
  <2>. QED BY <1>01, <1>1, <1>5, <1>22, <1>23, <2>2, <2>4, <2>5 DEF Once, Twice
<1>. QED BY <1>3, <1>4, <1>5

(* The number an aggregate ends with, where its values are numbers a column *)
(* can hold.                                                                *)
WithinBounds(rows, spec) ==
    spec.kind # "CountStar" => ValueSet(rows, spec.col) \subseteq Int64Min..Int64Max

LEMMA ResultIsAggregate ==
    ASSUME NEW R, NEW rows \in Seq(R), NEW spec, SpecFits(spec, R), WithinBounds(rows, spec)
    PROVE  /\ Result(Accumulate(NoAcc, rows, spec), spec) = Aggregate(rows, spec)
           /\ Aggregate(rows, spec) \in Int
<1>0. Int64Min \in Int /\ Int64Max \in Int
  BY CasesAssumption
<1>1. PICK n \in Nat : n = Len(rows)
  BY LenProperties
<1>2. PICK V : V = ValueSet(rows, spec.col) /\ Cardinality(V) \in Nat
  BY ValuesFinite
<1>21. PICK t : t = Total(rows, spec.col)
  OBVIOUS
<1>22. Once(Accumulate(NoAcc, rows, spec), spec, n, t, V)
  BY <1>1, <1>2, <1>21, AccumulateOnce
<1>3. CASE spec.kind = "CountStar"
  <2>1. Acc(n, 0, Int64Max, Int64Min, {}).count = n
    BY DEF Acc
  <2>. QED BY <1>1, <1>3, <1>22, <2>1 DEF Once, Result, Aggregate
<1>4. CASE spec.kind = "CountDistinct"
  <2>1. Acc(0, 0, Int64Max, Int64Min, V).distinct = V
    BY DEF Acc
  <2>. QED BY <1>2, <1>4, <1>22, <2>1 DEF Once, Result, Aggregate
<1>5. CASE spec.kind \in {"Count", "Sum", "Avg", "Min", "Max"}
  <2>1. PICK a : /\ a = Accumulate(NoAcc, rows, spec)
                 /\ a.count = n /\ a.sum = Total(rows, spec.col)
                 /\ a.min = Min({Int64Max} \cup V) /\ a.max = Max({Int64Min} \cup V)
    <3>1. Total(rows, spec.col) \in Int
      <4>1. \A row \in R : row[spec.col] \in Int
        BY <1>5 DEF SpecFits, Numeric
      <4>. QED BY <4>1, TotalType
    <3>2. Accumulate(NoAcc, rows, spec) = Acc(n, t, Min({Int64Max} \cup V), Max({Int64Min} \cup V), {})
      BY <1>5, <1>21, <1>22, <3>1 DEF Once
    <3>3. PICK a : a = Accumulate(NoAcc, rows, spec)
      OBVIOUS
    <3>4. /\ a.count = n /\ a.sum = t
          /\ a.min = Min({Int64Max} \cup V) /\ a.max = Max({Int64Min} \cup V)
      BY <3>2, <3>3 DEF Acc
    <3>. QED BY <1>21, <3>3, <3>4
  <2>2. Total(rows, spec.col) \in Int
    <3>1. \A row \in R : row[spec.col] \in Int
      BY <1>5 DEF SpecFits, Numeric
    <3>. QED BY <3>1, TotalType
  <2>3. CASE rows = <<>>
    <3>1. n = 0
      BY <1>1, <2>3, EmptySeq
    <3>. QED BY <1>1, <1>5, <2>1, <2>3, <3>1 DEF Result, Aggregate
  <2>4. CASE rows # <<>>
    <3>1. n # 0
      BY <1>1, <2>4, EmptySeq
    <3>2. V # {} /\ V \subseteq Int64Min..Int64Max /\ Bounded(V)
      <4>1. rows[1][spec.col] \in V
        BY <1>1, <1>2, <3>1 DEF ValueSet
      <4>2. V \subseteq Int64Min..Int64Max
        BY <1>2, <1>5 DEF WithinBounds
      <4>. QED BY <1>0, <4>1, <4>2 DEF Bounded
    <3>3. Min(V) \in V /\ Min(V) \in Int /\ \A v \in V : v \in Int /\ Min(V) <= v
      BY <3>2, BoundedLeast
    <3>4. Max(V) \in V /\ Max(V) \in Int /\ \A v \in V : v \in Int /\ v <= Max(V)
      BY <3>2, BoundedGreatest
    <3>5. Min({Int64Max} \cup V) = Min(V)
      <4>1. PICK m \in V : m = Min(V) /\ m \in Int /\ m <= Int64Max /\ \A v \in V : v \in Int /\ m <= v
        BY <1>0, <3>2, <3>3
      <4>2. PICK U : U = {Int64Max} \cup V
        OBVIOUS
      <4>3. m \in U /\ \A v \in U : v \in Int /\ m <= v
        BY <1>0, <4>1, <4>2
      <4>4. Min(U) = m
        BY <4>1, <4>3, LeastIs
      <4>. QED BY <4>1, <4>2, <4>4
    <3>6. Max({Int64Min} \cup V) = Max(V)
      <4>1. PICK m \in V : m = Max(V) /\ m \in Int /\ Int64Min <= m /\ \A v \in V : v \in Int /\ v <= m
        BY <1>0, <3>2, <3>4
      <4>2. PICK U : U = {Int64Min} \cup V
        OBVIOUS
      <4>3. m \in U /\ \A v \in U : v \in Int /\ v <= m
        BY <1>0, <4>1, <4>2
      <4>4. Max(U) = m
        BY <4>1, <4>3, GreatestIs
      <4>. QED BY <4>1, <4>2, <4>4
    <3>7. Result(a, spec) = Aggregate(rows, spec)
      BY <1>1, <1>2, <1>5, <2>1, <2>4, <3>1, <3>5, <3>6 DEF Result, Aggregate
    <3>8. Aggregate(rows, spec) \in Int
      <4>1. CASE spec.kind = "Avg"
        <5>1. PICK total \in Int, k \in Nat \ {0} : total = Total(rows, spec.col) /\ k = n
          BY <2>2, <3>1
        <5>2. (12 * total) \div k \in Int
          OBVIOUS
        <5>. QED BY <1>1, <2>4, <4>1, <5>1, <5>2 DEF Aggregate, AvgScale
      <4>2. CASE spec.kind # "Avg"
        BY <1>1, <1>2, <1>5, <2>2, <2>4, <3>3, <3>4, <4>2 DEF Aggregate
      <4>. QED BY <4>1, <4>2
    <3>. QED BY <2>1, <3>7, <3>8
  <2>. QED BY <2>3, <2>4
<1>. QED BY <1>3, <1>4, <1>5 DEF SpecFits, AggKind

-----------------------------------------------------------------------------
(* The groups of some rows. *)

GroupOfKey(op, rows, key) ==
    [key  |-> key,
     accs |-> [s \in DOMAIN op.specs |->
                 Accumulate(NoAcc, OfKey(rows, op.cols, key), op.specs[s])]]
GroupsAfter(op, rows) ==
    LET keys == KeysOf(rows, op.cols)
    IN  [g \in DOMAIN keys |-> GroupOfKey(op, rows, keys[g])]

SpecsFit(op, R) == \A s \in DOMAIN op.specs : SpecFits(op.specs[s], R)

LEMMA GroupsAfterNone ==
    ASSUME NEW op
    PROVE  GroupsAfter(op, <<>>) = <<>>
<1>1. KeysOf(<<>>, op.cols) = <<>>
  BY KeysEmpty
<1>. QED BY <1>1 DEF GroupsAfter

(* A group that some rows do not have is one that was just made. *)
LEMMA NewGroup ==
    ASSUME NEW R, NEW op, SpecsFit(op, R), NEW rows \in Seq(R), NEW key,
           key \notin Range(KeysOf(rows, op.cols))
    PROVE  GroupOfKey(op, rows, key) = [key |-> key, accs |-> [s \in DOMAIN op.specs |-> NoAcc]]
<1>1. OfKey(rows, op.cols, key) = <<>>
  BY OfKeyNever
<1>2. \A s \in DOMAIN op.specs : Accumulate(NoAcc, <<>>, op.specs[s]) = NoAcc
  BY AccumulateNothing DEF SpecsFit, SpecFits
<1>. QED BY <1>1, <1>2 DEF GroupOfKey

LEMMA GroupGrows ==
    ASSUME NEW R, NEW op, SpecsFit(op, R), NEW a \in Seq(R), NEW b \in Seq(R), NEW key
    PROVE  GroupOfKey(op, a \o b, key) =
             [key  |-> key,
              accs |-> [s \in DOMAIN op.specs |->
                          Accumulate(GroupOfKey(op, a, key).accs[s], OfKey(b, op.cols, key), op.specs[s])]]
<1>1. PICK x \in Seq(R), y \in Seq(R) : x = OfKey(a, op.cols, key) /\ y = OfKey(b, op.cols, key)
  <2>1. OfKey(a, op.cols, key) \in Seq(R)
    BY OfKeyIsWhere
  <2>2. OfKey(b, op.cols, key) \in Seq(R)
    BY OfKeyIsWhere
  <2>. QED BY <2>1, <2>2
<1>2. OfKey(a \o b, op.cols, key) = x \o y
  <2>1. OfKey(a \o b, op.cols, key) = OfKey(a, op.cols, key) \o OfKey(b, op.cols, key)
    BY OfKeyConcat
  <2>. QED BY <1>1, <2>1
<1>3. \A s \in DOMAIN op.specs : GroupOfKey(op, a, key).accs[s] = Accumulate(NoAcc, x, op.specs[s])
  BY <1>1 DEF GroupOfKey
<1>4. ASSUME NEW s \in DOMAIN op.specs
      PROVE  Accumulate(Accumulate(NoAcc, x, op.specs[s]), y, op.specs[s])
               = Accumulate(NoAcc, x \o y, op.specs[s])
  <2>1. SpecFits(op.specs[s], R)
    BY DEF SpecsFit
  <2>. QED BY <2>1, AccumulateConcat
<1>5. [s \in DOMAIN op.specs |-> Accumulate(NoAcc, x \o y, op.specs[s])]
       = [s \in DOMAIN op.specs |-> Accumulate(GroupOfKey(op, a, key).accs[s], y, op.specs[s])]
  BY <1>3, <1>4
<1>. QED BY <1>1, <1>2, <1>5 DEF GroupOfKey

LEMMA ConcatElements ==
    ASSUME NEW S, NEW a \in Seq(S), NEW b \in Seq(S), NEW n \in Nat, NEW m \in Nat, n = Len(a), m = Len(b)
    PROVE  /\ DOMAIN (a \o b) = 1..n + m
           /\ \A i \in 1..n : (a \o b)[i] = a[i]
           /\ \A i \in n + 1..n + m : i - n \in 1..m /\ (a \o b)[i] = b[i - n]
<1>1. PICK c \in Seq(S) : c = a \o b /\ Len(c) = n + m
  BY ConcatProperties
<1>2. \A i \in 1..n + m : c[i] = IF i <= n THEN a[i] ELSE b[i - n]
  BY <1>1, ConcatProperties
<1>3. DOMAIN c = 1..n + m
  BY <1>1, LenProperties
<1>4. \A i \in 1..n : i \in 1..n + m /\ i <= n
  OBVIOUS
<1>5. \A i \in n + 1..n + m : i \in 1..n + m /\ ~(i <= n) /\ i - n \in 1..m
  OBVIOUS
<1>. QED BY <1>1, <1>2, <1>3, <1>4, <1>5

(* A batch makes of the groups of the rows before it those of all rows: the *)
(* accumulators HashAggregateOperator and GlobalAggregateOperator keep from *)
(* batch to batch say the same as a single look at all rows would.          *)
THEOREM GroupsGrow ==
    ASSUME NEW R, NEW op, SpecsFit(op, R), NEW a \in Seq(R), NEW b \in Seq(R)
    PROVE  WithBatch(op, GroupsAfter(op, a), b) = GroupsAfter(op, a \o b)
<1>. DEFINE K == KeysIn(R, op.cols)
<1>0. PICK both \in Seq(R) : both = a \o b
  BY ConcatProperties
<1>1. PICK ka \in Seq(K), kb \in Seq(K), kab \in Seq(K) :
        ka = KeysOf(a, op.cols) /\ kb = KeysOf(b, op.cols) /\ kab = KeysOf(both, op.cols)
  <2>1. KeysOf(a, op.cols) \in Seq(K)
    BY KeysType
  <2>2. KeysOf(b, op.cols) \in Seq(K)
    BY KeysType
  <2>3. KeysOf(both, op.cols) \in Seq(K)
    BY KeysType
  <2>. QED BY <2>1, <2>2, <2>3
<1>2. PICK w \in Seq(K) : w = Where(kb, Range(kb) \ Range(ka))
  BY WhereType
<1>3. kab = ka \o w
  BY <1>0, <1>1, <1>2, KeysConcat
<1>4. PICK n \in Nat, m \in Nat : n = Len(ka) /\ m = Len(w)
  BY LenProperties
<1>5. DOMAIN ka = 1..n /\ DOMAIN w = 1..m
  BY <1>4, LenProperties
<1>6. /\ DOMAIN kab = 1..n + m
      /\ \A i \in 1..n : kab[i] = ka[i]
      /\ \A i \in n + 1..n + m : i - n \in 1..m /\ kab[i] = w[i - n]
  BY <1>3, <1>4, ConcatElements
<1>7. \A i \in 1..m : w[i] \notin Range(ka)
  <2>1. w \in Seq(K \cap (Range(kb) \ Range(ka)))
    BY <1>2, WhereKeeps
  <2>2. \A i \in 1..m : w[i] \in K \cap (Range(kb) \ Range(ka))
    BY <1>4, <2>1, ElementOfSeq
  <2>. QED BY <2>2
<1>8. PICK groups : groups = GroupsAfter(op, a)
  OBVIOUS
<1>9. groups = [g \in 1..n |-> GroupOfKey(op, a, kab[g])]
  BY <1>1, <1>5, <1>6, <1>8 DEF GroupsAfter
<1>10. {groups[g].key : g \in DOMAIN groups} = Range(ka)
  <2>1. \A g \in 1..n : GroupOfKey(op, a, kab[g]).key = ka[g]
    BY <1>6 DEF GroupOfKey
  <2>2. \A g \in 1..n : groups[g].key = ka[g]
    BY <1>9, <2>1
  <2>3. Range(ka) = {ka[g] : g \in 1..n}
    BY <1>4, RangeEquality
  <2>4. DOMAIN groups = 1..n
    BY <1>9
  <2>. QED BY <2>2, <2>3, <2>4
<1>11. PICK new : new = NewGroups(op, w)
  OBVIOUS
<1>12. new = [g \in 1..m |-> GroupOfKey(op, a, w[g])]
  <2>1. \A g \in 1..m : GroupOfKey(op, a, w[g]) = [key |-> w[g], accs |-> [s \in DOMAIN op.specs |-> NoAcc]]
    BY <1>1, <1>7, NewGroup
  <2>. QED BY <1>5, <1>11, <2>1 DEF NewGroups
<1>13. PICK all : all = groups \o new
  OBVIOUS
<1>14. DOMAIN all = 1..n + m /\ \A g \in 1..n + m : all[g] = GroupOfKey(op, a, kab[g])
  <2>1. PICK G : G = {GroupOfKey(op, a, key) : key \in K}
    OBVIOUS
  <2>2. (\A g \in 1..n : kab[g] \in K) /\ (\A g \in 1..m : w[g] \in K)
    BY <1>4, <1>6, ElementOfSeq
  <2>21. (\A g \in 1..n : GroupOfKey(op, a, kab[g]) \in G) /\ (\A g \in 1..m : GroupOfKey(op, a, w[g]) \in G)
    BY <2>1, <2>2
  <2>3. groups \in Seq(G) /\ n = Len(groups)
    BY <1>9, <2>21
  <2>4. new \in Seq(G) /\ m = Len(new)
    BY <1>12, <2>21
  <2>5. /\ DOMAIN all = 1..n + m
        /\ \A i \in 1..n : all[i] = groups[i]
        /\ \A i \in n + 1..n + m : i - n \in 1..m /\ all[i] = new[i - n]
    BY <1>13, <2>3, <2>4, ConcatElements
  <2>6. \A g \in 1..n + m : g \in 1..n \/ g \in n + 1..n + m
    OBVIOUS
  <2>7. \A g \in 1..n : all[g] = GroupOfKey(op, a, kab[g])
    BY <1>9, <2>5
  <2>8. \A g \in n + 1..n + m : all[g] = GroupOfKey(op, a, kab[g])
    BY <1>6, <1>12, <2>5
  <2>. QED BY <2>5, <2>6, <2>7, <2>8
<1>15. WithBatch(op, groups, b) =
         [g \in 1..n + m |->
            [key  |-> all[g].key,
             accs |-> [s \in DOMAIN op.specs |->
                         Accumulate(all[g].accs[s], OfKey(b, op.cols, all[g].key), op.specs[s])]]]
  BY <1>1, <1>2, <1>10, <1>11, <1>13, <1>14 DEF WithBatch
<1>16. ASSUME NEW g \in 1..n + m
       PROVE  GroupOfKey(op, both, kab[g]) =
                [key  |-> all[g].key,
                 accs |-> [s \in DOMAIN op.specs |->
                             Accumulate(all[g].accs[s], OfKey(b, op.cols, all[g].key), op.specs[s])]]
  <2>1. PICK key : key = kab[g]
    OBVIOUS
  <2>2. all[g] = GroupOfKey(op, a, key) /\ all[g].key = key
    BY <1>14, <2>1 DEF GroupOfKey
  <2>3. GroupOfKey(op, both, key) =
             [key  |-> key,
              accs |-> [s \in DOMAIN op.specs |->
                          Accumulate(GroupOfKey(op, a, key).accs[s], OfKey(b, op.cols, key), op.specs[s])]]
    BY <1>0, GroupGrows
  <2>. QED BY <2>1, <2>2, <2>3
<1>17. GroupsAfter(op, both) = [g \in 1..n + m |-> GroupOfKey(op, both, kab[g])]
  BY <1>1, <1>6 DEF GroupsAfter
<1>. QED BY <1>0, <1>8, <1>15, <1>16, <1>17

LEMMA PickNothing ==
    ASSUME NEW row
    PROVE  Pick(row, <<>>) = <<>>
<1>1. Len(<<>>) = 0
  BY EmptySeq
<1>2. Pick(row, <<>>) = [i \in 1..0 |-> row[<<>>[i]]]
  BY <1>1 DEF Pick
<1>. QED BY <1>2

(* Without columns all rows have the same key. *)
LEMMA OneKey ==
    ASSUME NEW R, NEW rows \in Seq(R), rows # <<>>
    PROVE  KeysOf(rows, <<>>) = << <<>> >>
<1>1. KeysIn(R, <<>>) \subseteq {<<>>}
  BY PickNothing DEF KeysIn
<1>2. PICK keys \in Seq({<<>>}) : keys = KeysOf(rows, <<>>)
  BY <1>1, KeysType, SeqMonotonic
<1>3. IsInjective(keys) /\ Range(keys) = KeysIn(Range(rows), <<>>)
  BY <1>2, KeysInjective, RangeKeys
<1>4. PICK n \in Nat : n = Len(keys) /\ DOMAIN keys = 1..n
  BY LenProperties
<1>5. \A i \in 1..n : keys[i] = <<>>
  BY <1>4, ElementOfSeq
<1>6. n <= 1
  <2>1. ASSUME 1 < n PROVE FALSE
    <3>1. 1 \in 1..n /\ 2 \in 1..n /\ keys[1] = keys[2]
      BY <1>5, <2>1
    <3>2. 1 = 2
      BY <1>3, <1>4, <3>1 DEF IsInjective
    <3>. QED BY <3>2
  <2>. QED BY <2>1
<1>7. n # 0
  <2>1. Len(rows) \in Nat \ {0}
    BY EmptySeq
  <2>2. 1 \in 1..Len(rows)
    BY <2>1
  <2>3. rows[1] \in Range(rows)
    BY <2>2, RangeEquality
  <2>4. Pick(rows[1], <<>>) \in Range(keys)
    BY <1>3, <2>3 DEF KeysIn
  <2>5. Range(keys) = {keys[i] : i \in 1..n}
    BY <1>4, RangeEquality
  <2>. QED BY <2>4, <2>5
<1>8. n = 1
  BY <1>6, <1>7
<1>9. PICK one \in Seq({<<>>}) : one = << <<>> >> /\ Len(one) = 1 /\ one[1] = <<>>
  <2>1. PICK none : none = <<>>
    OBVIOUS
  <2>2. <<none>> \in Seq({none}) /\ Len(<<none>>) = 1 /\ <<none>>[1] = none
    OBVIOUS
  <2>. QED BY <2>1, <2>2
<1>10. \A i \in 1..Len(keys) : keys[i] = one[i]
  BY <1>4, <1>5, <1>8, <1>9
<1>11. keys = one
  BY <1>4, <1>8, <1>9, <1>10, SeqEqual
<1>. QED BY <1>2, <1>9, <1>11

GroupKeys(rows, cols) == IF cols = <<>> THEN << <<>> >> ELSE KeysOf(rows, cols)

LEMMA ResultGroups ==
    ASSUME NEW R, NEW op, SpecsFit(op, R), NEW rows \in Seq(R), NEW groups, groups = GroupsAfter(op, rows)
    PROVE  (IF groups = <<>> /\ op.cols = <<>> THEN NewGroups(op, << <<>> >>) ELSE groups)
             = [g \in DOMAIN GroupKeys(rows, op.cols) |-> GroupOfKey(op, rows, GroupKeys(rows, op.cols)[g])]
<1>1. CASE op.cols # <<>>
  BY <1>1 DEF GroupsAfter, GroupKeys
<1>2. CASE op.cols = <<>> /\ rows = <<>>
  <2>1. groups = <<>>
    BY <1>2, GroupsAfterNone
  <2>2. GroupKeys(rows, op.cols) = << <<>> >>
    BY <1>2 DEF GroupKeys
  <2>3. <<>> \notin Range(KeysOf(rows, op.cols))
    BY <1>2, KeysEmpty, RangeOfNone
  <2>4. GroupOfKey(op, rows, <<>>) = [key |-> <<>>, accs |-> [s \in DOMAIN op.specs |-> NoAcc]]
    BY <2>3, NewGroup
  <2>5. \A g \in DOMAIN << <<>> >> : << <<>> >>[g] = <<>>
    OBVIOUS
  <2>6. NewGroups(op, << <<>> >>) = [g \in DOMAIN << <<>> >> |-> GroupOfKey(op, rows, << <<>> >>[g])]
    BY <2>4, <2>5 DEF NewGroups
  <2>. QED BY <1>2, <2>1, <2>2, <2>6
<1>3. CASE op.cols = <<>> /\ rows # <<>>
  <2>1. KeysOf(rows, op.cols) = << <<>> >> /\ GroupKeys(rows, op.cols) = << <<>> >>
    BY <1>3, OneKey DEF GroupKeys
  <2>2. groups = [g \in DOMAIN << <<>> >> |-> GroupOfKey(op, rows, << <<>> >>[g])]
    BY <2>1 DEF GroupsAfter
  <2>3. groups # <<>>
    <3>1. DOMAIN groups # {}
      BY <2>2
    <3>. QED BY <3>1
  <2>. QED BY <2>1, <2>2, <2>3
<1>. QED BY <1>1, <1>2, <1>3

LEMMA WithinOfKey ==
    ASSUME NEW R, NEW rows \in Seq(R), NEW cols, NEW key, NEW spec, WithinBounds(rows, spec)
    PROVE  WithinBounds(OfKey(rows, cols, key), spec)
<1>1. PICK x \in Seq(R) : x = OfKey(rows, cols, key) /\ x = Where(rows, KeepKey(R, cols, key))
  BY OfKeyIsWhere
<1>2. Range(x) \subseteq Range(rows)
  BY <1>1, RangeWhere
<1>3. ValueSet(x, spec.col) = {row[spec.col] : row \in Range(x)}
  BY ValuesOfRange
<1>4. ValueSet(rows, spec.col) = {row[spec.col] : row \in Range(rows)}
  BY ValuesOfRange
<1>. QED BY <1>1, <1>2, <1>3, <1>4 DEF WithinBounds

AllWithinBounds(op, rows) == \A s \in DOMAIN op.specs : WithinBounds(rows, op.specs[s])

(* The rows an aggregate answers are those of its meaning, as long as the   *)
(* values are within what the extremes start from.                          *)
THEOREM ResultRowsAreGrouped ==
    ASSUME NEW R, NEW op, SpecsFit(op, R), DOMAIN op.specs = 1..Len(op.specs),
           NEW rows \in Seq(R), AllWithinBounds(op, rows)
    PROVE  ResultRows(op, GroupsAfter(op, rows)) = Grouped(rows, op.cols, op.specs)
<1>1. PICK keys : keys = GroupKeys(rows, op.cols)
  OBVIOUS
<1>2. DOMAIN keys = 1..Len(keys)
  <2>1. CASE op.cols = <<>>
    BY <1>1, <2>1 DEF GroupKeys
  <2>2. CASE op.cols # <<>>
    BY <1>1, <2>2, KeysType, LenProperties DEF GroupKeys
  <2>. QED BY <2>1, <2>2
<1>3. PICK all : all = [g \in DOMAIN keys |-> GroupOfKey(op, rows, keys[g])]
  OBVIOUS
<1>4. ResultRows(op, GroupsAfter(op, rows)) =
        [g \in DOMAIN all |-> all[g].key \o [s \in DOMAIN op.specs |-> Result(all[g].accs[s], op.specs[s])]]
  <2>1. PICK groups : groups = GroupsAfter(op, rows)
    OBVIOUS
  <2>2. (IF groups = <<>> /\ op.cols = <<>> THEN NewGroups(op, << <<>> >>) ELSE groups) = all
    BY <1>1, <1>3, <2>1, ResultGroups
  <2>. QED BY <2>1, <2>2 DEF ResultRows
<1>5. ASSUME NEW g \in DOMAIN keys
      PROVE  all[g].key \o [s \in DOMAIN op.specs |-> Result(all[g].accs[s], op.specs[s])]
               = keys[g] \o [s \in 1..Len(op.specs) |-> Aggregate(OfKey(rows, op.cols, keys[g]), op.specs[s])]
  <2>1. PICK key : key = keys[g]
    OBVIOUS
  <2>2. PICK x \in Seq(R) : x = OfKey(rows, op.cols, key)
    BY OfKeyIsWhere
  <2>3. all[g] = GroupOfKey(op, rows, key)
    BY <1>3, <2>1
  <2>4. all[g].key = key /\ \A s \in DOMAIN op.specs : all[g].accs[s] = Accumulate(NoAcc, x, op.specs[s])
    BY <2>2, <2>3 DEF GroupOfKey
  <2>5. ASSUME NEW s \in DOMAIN op.specs
        PROVE  Result(Accumulate(NoAcc, x, op.specs[s]), op.specs[s]) = Aggregate(x, op.specs[s])
    <3>1. SpecFits(op.specs[s], R) /\ WithinBounds(rows, op.specs[s])
      BY DEF SpecsFit, AllWithinBounds
    <3>2. WithinBounds(x, op.specs[s])
      BY <2>2, <3>1, WithinOfKey
    <3>. QED BY <3>1, <3>2, ResultIsAggregate
  <2>6. [s \in DOMAIN op.specs |-> Result(all[g].accs[s], op.specs[s])]
          = [s \in 1..Len(op.specs) |-> Aggregate(x, op.specs[s])]
    BY <2>4, <2>5
  <2>. QED BY <2>1, <2>2, <2>4, <2>6
<1>6. Grouped(rows, op.cols, op.specs) =
        [g \in 1..Len(keys) |->
           keys[g] \o [s \in 1..Len(op.specs) |-> Aggregate(OfKey(rows, op.cols, keys[g]), op.specs[s])]]
  BY <1>1 DEF Grouped, GroupKeys
<1>7. DOMAIN all = DOMAIN keys
  BY <1>3
<1>. QED BY <1>2, <1>4, <1>5, <1>6, <1>7

LEMMA GroupedType ==
    ASSUME NEW R, NEW op, SpecsFit(op, R), DOMAIN op.specs = 1..Len(op.specs),
           NEW rows \in Seq(R), AllWithinBounds(op, rows),
           NEW c \in Nat, NEW p \in Nat, p = Len(op.specs), op.cols = <<>> => c = 0,
           \A row \in R : Pick(row, op.cols) \in [1..c -> Int]
    PROVE  Grouped(rows, op.cols, op.specs) \in Seq([1..c + p -> Int])
<1>1. PICK keys \in Seq([1..c -> Int]) : keys = GroupKeys(rows, op.cols)
  <2>1. CASE op.cols = <<>>
    <3>1. PICK none : none = <<>> /\ none \in [1..c -> Int]
      BY <2>1
    <3>2. <<none>> \in Seq({none})
      OBVIOUS
    <3>21. PICK one, W : one \in Seq({none}) /\ one = <<none>> /\ W = [1..c -> Int] /\ none \in W
      BY <3>1, <3>2
    <3>22. one \in Seq(W)
      BY <3>21, SeqMonotonic
    <3>3. <<none>> \in Seq([1..c -> Int])
      BY <3>21, <3>22
    <3>. QED BY <2>1, <3>1, <3>3 DEF GroupKeys
  <2>2. CASE op.cols # <<>>
    <3>1. KeysIn(R, op.cols) \subseteq [1..c -> Int]
      BY DEF KeysIn
    <3>. QED BY <2>2, <3>1, KeysType, SeqMonotonic DEF GroupKeys
  <2>. QED BY <2>1, <2>2
<1>2. PICK n \in Nat : n = Len(keys)
  BY LenProperties
<1>3. ASSUME NEW g \in 1..n
      PROVE  keys[g] \o [s \in 1..p |-> Aggregate(OfKey(rows, op.cols, keys[g]), op.specs[s])]
               \in [1..c + p -> Int]
  <2>1. PICK x \in Seq(R) : x = OfKey(rows, op.cols, keys[g])
    BY OfKeyIsWhere
  <2>2. ASSUME NEW s \in 1..p PROVE Aggregate(x, op.specs[s]) \in Int
    <3>1. SpecFits(op.specs[s], R) /\ WithinBounds(rows, op.specs[s])
      BY DEF SpecsFit, AllWithinBounds
    <3>2. WithinBounds(x, op.specs[s])
      BY <2>1, <3>1, WithinOfKey
    <3>. QED BY <3>1, <3>2, ResultIsAggregate
  <2>3. PICK y : y = [s \in 1..p |-> Aggregate(x, op.specs[s])]
    OBVIOUS
  <2>4. y \in Seq(Int) /\ Len(y) = p
    BY <2>2, <2>3
  <2>5. PICK k \in [1..c -> Int] : k = keys[g]
    BY <1>2, ElementOfSeq
  <2>6. k \in Seq(Int) /\ Len(k) = c
    BY <2>5
  <2>7. PICK z \in Seq(Int) : z = keys[g] \o y /\ Len(z) = c + p
    <3>1. k \o y \in Seq(Int) /\ Len(k \o y) = Len(k) + Len(y)
      BY <2>4, <2>6, ConcatProperties
    <3>. QED BY <2>4, <2>5, <2>6, <3>1
  <2>8. z \in [1..c + p -> Int]
    BY <2>7, LenProperties
  <2>. QED BY <2>1, <2>3, <2>7, <2>8
<1>4. Grouped(rows, op.cols, op.specs) =
        [g \in 1..n |-> keys[g] \o [s \in 1..p |-> Aggregate(OfKey(rows, op.cols, keys[g]), op.specs[s])]]
  BY <1>1, <1>2 DEF Grouped, GroupKeys
<1>. QED BY <1>3, <1>4

(* A join of rows of any kind. *)
JoinAny(left, R, leftKey, rightKey) ==
    [row \in R |-> Beside(Matches(left, leftKey, row[rightKey]), row)]

LEMMA JoinAnyType ==
    ASSUME NEW L, NEW R, NEW T, \A x \in L, row \in R : x \o row \in T,
           NEW left \in Seq(L), NEW leftKey, NEW rightKey
    PROVE  JoinAny(left, R, leftKey, rightKey) \in [R -> Seq(T)]
<1>1. SUFFICES ASSUME NEW row \in R
               PROVE  Beside(Matches(left, leftKey, row[rightKey]), row) \in Seq(T)
  BY DEF JoinAny
<1>2. PICK rows \in Seq(L) : rows = Matches(left, leftKey, row[rightKey])
  BY WhereType DEF Matches
<1>3. PICK n \in Nat : n = Len(rows)
  BY LenProperties
<1>4. \A m \in 1..n : rows[m] \in L
  BY <1>3, ElementOfSeq
<1>. QED BY <1>2, <1>3, <1>4 DEF Beside

LEMMA JoinAnyJoins ==
    ASSUME NEW R, NEW left, NEW right \in Seq(R), NEW leftKey, NEW rightKey
    PROVE  Joined(left, right, leftKey, rightKey) = FlatMap(JoinAny(left, R, leftKey, rightKey), right)
<1>2. PICK n \in Nat : n = Len(right)
  BY LenProperties
<1>3. \A i \in 1..n : right[i] \in R
  BY <1>2, ElementOfSeq
<1>4. \A i \in 1..n : JoinAny(left, R, leftKey, rightKey)[right[i]] =
                          Beside(Matches(left, leftKey, right[i][rightKey]), right[i])
  BY <1>3 DEF JoinAny
<1>. QED BY <1>2, <1>4 DEF Joined, FlatMap, Mapped

LEMMA JoinAnyToNone ==
    ASSUME NEW R, NEW right \in Seq(R), NEW leftKey, NEW rightKey
    PROVE  Joined(<<>>, right, leftKey, rightKey) = <<>>
<1>0. PICK none : none = <<>> /\ none \in Seq({}) /\ Len(none) = 0
  BY EmptySeq
<1>1. PICK f \in [R -> Seq({})] : f = JoinAny(none, R, leftKey, rightKey)
  <2>1. \A x \in {}, row \in R : x \o row \in {}
    OBVIOUS
  <2>. QED BY <1>0, <2>1, JoinAnyType
<1>2. \A row \in R : f[row] = none
  <2>. SUFFICES ASSUME NEW row \in R PROVE f[row] = none
    OBVIOUS
  <2>1. f[row] \in Seq({}) 
    OBVIOUS
  <2>2. Len(f[row]) = 0
    <3>1. SUFFICES ASSUME Len(f[row]) # 0 PROVE FALSE
      OBVIOUS
    <3>2. PICK n \in Nat : n = Len(f[row])
      BY <2>1, LenProperties
    <3>3. n \in 1..n
      BY <3>1, <3>2
    <3>. QED BY <2>1, <3>2, <3>3, ElementOfSeq
  <2>. QED BY <1>0, <2>1, <2>2, EmptySeq
<1>. DEFINE P == {s \in Seq(R) : FlatMap(f, s) = none}
<1>3. <<>> \in P
  BY <1>0, MappedEmpty, EmptySeq
<1>4. ASSUME NEW s \in Seq(R), NEW x \in R, s \in P PROVE Append(s, x) \in P
  <2>1. FlatMap(f, Append(s, x)) = FlatMap(f, s) \o f[x]
    BY FlatMapGrows
  <2>2. none \o none = none
    BY <1>0, ConcatEmptySeq
  <2>3. FlatMap(f, Append(s, x)) = none
    BY <1>2, <1>4, <2>1, <2>2
  <2>. QED BY <2>3, AppendProperties
<1>5. right \in P
  <2>. HIDE DEF P
  <2>. QED BY <1>3, <1>4, GrowingSequences
<1>6. Joined(none, right, leftKey, rightKey) = none
  BY <1>1, <1>5, JoinAnyJoins
<1>. QED BY <1>0, <1>6

-----------------------------------------------------------------------------
(* What a plan answers, operator by operator. *)

JoinAnswers(op, A, r) ==
    \E l \in A[op.build], p \in A[op.probe] :
      r \in Orderings(Joined(l, p, op.build_key, op.probe_key))

LEMMA AnswersByJoin ==
    ASSUME NEW op, NEW sts, NEW A, op.kind = "join", NEW r
    PROVE  r \in AnswersBy(op, sts, A) <=> JoinAnswers(op, A, r)
BY DEF AnswersBy, JoinAnswers

SortAnswers(op, A, r) ==
    \E rows \in A[op.child] : \E s \in SortedOrderings(rows, op.keys) :
      r = Window(s, op.limit, op.offset)

LEMMA AnswersBySort ==
    ASSUME NEW op, NEW sts, NEW A, op.kind = "sort", NEW r
    PROVE  r \in AnswersBy(op, sts, A) <=> SortAnswers(op, A, r)
BY DEF AnswersBy, SortAnswers

LEMMA AnswersByKind ==
    ASSUME NEW op, NEW sts, NEW A, NEW X, X = AnswersBy(op, sts, A)
    PROVE  /\ op.kind = "scan" => X = {Scanned(sts[op.store], op.cols)}
           /\ op.kind = "filter" => X = {Where(rows, Passing(rows, op.preds)) : rows \in A[op.child]}
           /\ op.kind = "project" => X = {Evaluated(rows, op.exprs) : rows \in A[op.child]}
           /\ op.kind \in {"global", "hash"} =>
                X = {Grouped(rows, op.cols, op.specs) : rows \in A[op.child]}
<1>1. CASE op.kind = "scan"
  BY <1>1 DEF AnswersBy
<1>2. CASE op.kind = "filter"
  BY <1>2 DEF AnswersBy
<1>3. CASE op.kind = "project"
  BY <1>3 DEF AnswersBy
<1>4. CASE op.kind \in {"global", "hash"}
  BY <1>4 DEF AnswersBy
<1>. QED BY <1>1, <1>2, <1>3, <1>4

(* The answers of an operator come from those of its children only. *)
LEMMA AnswersByAgree ==
    ASSUME NEW op, NEW sts, NEW A, NEW B, \A o \in Children(op) : A[o] = B[o]
    PROVE  AnswersBy(op, sts, A) = AnswersBy(op, sts, B)
<1>1. CASE op.kind = "scan"
  BY <1>1 DEF AnswersBy
<1>2. CASE op.kind = "join"
  <2>1. A[op.build] = B[op.build] /\ A[op.probe] = B[op.probe]
    BY <1>2 DEF Children
  <2>. QED BY <1>2, <2>1 DEF AnswersBy
<1>3. CASE op.kind # "scan" /\ op.kind # "join"
  <2>1. A[op.child] = B[op.child]
    BY <1>3 DEF Children
  <2>. QED BY <1>3, <2>1 DEF AnswersBy
<1>. QED BY <1>1, <1>2, <1>3

(* A function of the operators up to n that gives each its answers. *)
Explains(A, n, pl, sts) ==
    /\ A = [o \in 1..n |-> A[o]]
    /\ \A o \in 1..n : A[o] = AnswersBy(pl[o], sts, A)

ChildrenFirst(pl, n) == \A o \in 1..n : Children(pl[o]) \subseteq 1..o-1

LEMMA OneMoreExplained ==
    ASSUME NEW pl, NEW sts, NEW n \in Nat, NEW k \in 0..n, k < n, ChildrenFirst(pl, n),
           NEW A, Explains(A, k, pl, sts)
    PROVE  \E B : Explains(B, k + 1, pl, sts)
<1>1. PICK next : next = AnswersBy(pl[k + 1], sts, A)
  OBVIOUS
<1>2. PICK B : B = [o \in 1..k + 1 |-> IF o = k + 1 THEN next ELSE A[o]]
  OBVIOUS
<1>3. B = [o \in 1..k + 1 |-> B[o]]
  BY <1>2
<1>4. \A o \in 1..k : B[o] = A[o]
  BY <1>2
<1>5. B[k + 1] = next
  BY <1>2
<1>6. ASSUME NEW o \in 1..k + 1 PROVE AnswersBy(pl[o], sts, A) = AnswersBy(pl[o], sts, B)
  <2>1. Children(pl[o]) \subseteq 1..o-1
    BY DEF ChildrenFirst
  <2>2. \A c \in Children(pl[o]) : A[c] = B[c]
    BY <1>4, <2>1
  <2>. QED BY <2>2, AnswersByAgree
<1>7. \A o \in 1..k + 1 : B[o] = AnswersBy(pl[o], sts, B)
  <2>. SUFFICES ASSUME NEW o \in 1..k + 1 PROVE B[o] = AnswersBy(pl[o], sts, B)
    OBVIOUS
  <2>1. CASE o \in 1..k
    <3>1. A[o] = AnswersBy(pl[o], sts, A)
      BY <2>1 DEF Explains
    <3>. QED BY <1>4, <1>6, <2>1, <3>1
  <2>2. CASE o = k + 1
    <3>1. B[o] = AnswersBy(pl[o], sts, A)
      BY <1>1, <1>5, <2>2
    <3>. QED BY <1>6, <3>1
  <2>. QED BY <2>1, <2>2
<1>. QED BY <1>3, <1>7 DEF Explains

LEMMA AnswersExplain ==
    ASSUME NEW pl, NEW sts, NEW n \in Nat, n = Len(pl), ChildrenFirst(pl, n)
    PROVE  Explains(AnswersOf(pl, sts), n, pl, sts)
<1>. DEFINE P == {k \in 0..n : \E A : Explains(A, k, pl, sts)}
<1>1. 0 \in P
  <2>1. PICK A : A = [o \in 1..0 |-> {}]
    OBVIOUS
  <2>2. A = [o \in 1..0 |-> A[o]] /\ \A o \in 1..0 : FALSE
    BY <2>1
  <2>3. Explains(A, 0, pl, sts)
    BY <2>2 DEF Explains
  <2>. QED BY <2>3
<1>2. ASSUME NEW k \in 0..n, k \in P, k < n PROVE k + 1 \in P
  BY <1>2, OneMoreExplained
<1>3. PICK A : Explains(A, n, pl, sts)
  <2>1. 0..n \subseteq P
    <3>. HIDE DEF P
    <3>. QED BY <1>1, <1>2, UpToN
  <2>. QED BY <2>1
<1>. DEFINE Unfolds(f) == f = [o \in 1..n |-> AnswersBy(pl[o], sts, f)]
<1>4. Unfolds(A)
  BY <1>3 DEF Explains
<1>5. PICK F : F = (CHOOSE f : Unfolds(f)) /\ F = AnswersOf(pl, sts)
  BY DEF AnswersOf
<1>6. Unfolds(F)
  <2>. HIDE DEF Unfolds
  <2>. QED BY <1>4, <1>5
<1>7. \A o \in 1..n : F[o] = AnswersBy(pl[o], sts, F)
  BY <1>6
<1>8. F = [o \in 1..n |-> F[o]]
  BY <1>6
<1>. QED BY <1>5, <1>7, <1>8 DEF Explains

-----------------------------------------------------------------------------
(* LIMIT and OFFSET. *)
LEMMA LeastOfTwo ==
    ASSUME NEW a \in Int, NEW b \in Int
    PROVE  Min({a, b}) = IF a <= b THEN a ELSE b
<1>1. CASE a <= b
  <2>1. \A v \in {a, b} : v \in Int /\ a <= v
    BY <1>1
  <2>. QED BY <1>1, <2>1, LeastIs
<1>2. CASE ~(a <= b)
  <2>1. \A v \in {a, b} : v \in Int /\ b <= v
    BY <1>2
  <2>. QED BY <1>2, <2>1, LeastIs
<1>. QED BY <1>1, <1>2

(* What SortOperator leaves of the sorted rows, by a start and an end that  *)
(* it keeps within them, is what LIMIT and OFFSET mean.                     *)
THEOREM WindowIsSubSeq ==
    ASSUME NEW R, NEW s \in Seq(R), NEW limit \in Nat, NEW offset \in Nat,
           NEW total, total = Len(s), NEW b, b = SortBounds(total, limit, offset)
    PROVE  SubSeq(s, b.start + 1, b.end) = Window(s, limit, offset)
<1>1. total \in Nat
  BY LenProperties
<1>2. b.start = IF offset <= total THEN offset ELSE total
  BY <1>1, LeastOfTwo DEF SortBounds
<1>3. b.end = IF limit > 0 /\ b.start + limit < total THEN b.start + limit ELSE total
  BY DEF SortBounds
<1>4. PICK last \in Int : last = IF limit = 0 THEN total
                                 ELSE IF total <= offset + limit THEN total ELSE offset + limit
  <2>1. PICK upper \in Int : upper = offset + limit
    OBVIOUS
  <2>2. CASE limit = 0 \/ total <= upper
    BY <1>1, <2>1, <2>2
  <2>3. CASE limit # 0 /\ ~(total <= upper)
    BY <1>1, <2>1, <2>3
  <2>. QED BY <2>2, <2>3
<1>5. Window(s, limit, offset) = SubSeq(s, offset + 1, last)
  BY <1>1, <1>4, LeastOfTwo DEF Window
<1>6. CASE offset <= total
  <2>1. CASE offset = total /\ limit > 0
    <3>1. b.start = total /\ b.end = total /\ last = total
      BY <1>1, <1>2, <1>3, <1>4, <2>1
    <3>. QED BY <1>5, <2>1, <3>1
  <2>2. CASE ~(offset = total /\ limit > 0)
    <3>1. b.start = offset /\ b.end = last
      BY <1>1, <1>2, <1>3, <1>4, <1>6, <2>2
    <3>. QED BY <1>5, <3>1
  <2>. QED BY <2>1, <2>2
<1>7. CASE ~(offset <= total)
  <2>1. b.start = total /\ b.end = total /\ last <= total
    BY <1>1, <1>2, <1>3, <1>4, <1>7
  <2>2. SubSeq(s, total + 1, total) = <<>>
    BY <1>1, SubSeqEmpty
  <2>3. SubSeq(s, offset + 1, last) = <<>>
    BY <1>1, <1>7, <2>1, SubSeqEmpty
  <2>. QED BY <1>5, <2>1, <2>2, <2>3
<1>. QED BY <1>6, <1>7

LEMMA WindowType ==
    ASSUME NEW R, NEW s \in Seq(R), NEW limit \in Nat, NEW offset \in Nat
    PROVE  Window(s, limit, offset) \in Seq(R)
<1>1. PICK total \in Nat : total = Len(s)
  BY LenProperties
<1>2. PICK last \in Int : last = (IF limit = 0 THEN Len(s) ELSE Min({Len(s), offset + limit})) /\ last <= total
  BY <1>1, LeastOfTwo
<1>3. \A i \in offset + 1..last : s[i] \in R
  <2>1. \A i \in offset + 1..last : i \in 1..total
    BY <1>2
  <2>. QED BY <1>1, <2>1, ElementOfSeq
<1>4. PICK first \in Int : first = offset + 1
  OBVIOUS
<1>5. SubSeq(s, first, last) \in Seq(R)
  BY <1>3, <1>4, SubSeqProperties
<1>. QED BY <1>2, <1>4, <1>5 DEF Window

-----------------------------------------------------------------------------
(* Every operator of a plan has an answer, and answers are sequences. *)

Relation(r)  == \E R : r \in Seq(R)
Relations(X) == X # {} /\ \A r \in X : Relation(r)

Elements(s) == {s[i] : i \in 1..Len(s)}
Line(n)     == [1..n -> Int]

(* The rows of every group of a store, in the columns of a scan. *)
StoreFits(groups, cols) ==
    /\ Len(cols) \in Nat
    /\ groups \in Seq(Elements(groups))
    /\ \A g \in Elements(groups) :
         g.rows \in Seq(Seq(Int)) /\ PickedRows(g, cols) \in Seq(Line(Len(cols)))

LEMMA StoreOfScanFits ==
    ASSUME NEW c \in Cases, NEW op, ScanOK(op, c.stores)
    PROVE  StoreFits(c.stores[op.store], op.cols)
<1>0. PICK groups, n, S, cols, T :
        groups = c.stores[op.store] /\ n = Len(op.cols) /\ S = Elements(groups) /\ cols = op.cols /\ T = Line(n)
  OBVIOUS
<1>1. /\ op.store \in DOMAIN c.stores /\ op.cols \in Seq(ColumnId)
      /\ \A g \in DOMAIN groups : Range(op.cols) \subseteq DOMAIN groups[g].mn
  BY <1>0 DEF ScanOK
<1>2. PICK m \in Nat : m = Len(groups)
  BY <1>0, <1>1, CasesAssumption
<1>3. groups = [g \in 1..m |-> groups[g]]
  BY <1>0, <1>1, <1>2, CasesAssumption
<1>4. groups \in Seq(S)
  <2>1. \A g \in 1..m : groups[g] \in S
    BY <1>0, <1>2 DEF Elements
  <2>. QED BY <1>3, <2>1
<1>5. n \in Nat /\ op.cols \in [1..n -> ColumnId]
  BY <1>0, <1>1, LenProperties
<1>6. ASSUME NEW g \in 1..m
      PROVE  groups[g].rows \in Seq(Seq(Int)) /\ PickedRows(groups[g], op.cols) \in Seq([1..n -> Int])
  <2>1. PICK group : group = groups[g]
    OBVIOUS
  <2>2. g \in DOMAIN groups
    BY <1>3
  <2>3. group.rows \in Seq(Seq(Int)) /\ StatsSound(group) /\ Range(op.cols) \subseteq DOMAIN group.mn
    BY <1>0, <1>1, <2>1, <2>2, CasesAssumption
  <2>4. PICK k \in Nat : k = Len(group.rows) /\ DOMAIN group.rows = 1..k
    BY <2>3, LenProperties
  <2>5. \A i \in 1..n : op.cols[i] \in DOMAIN group.mn
    BY <1>0, <1>1, <1>5, <2>3, RangeEquality
  <2>6. \A i \in 1..k : Pick(group.rows[i], op.cols) \in [1..n -> Int]
    <3>. SUFFICES ASSUME NEW i \in 1..k PROVE Pick(group.rows[i], op.cols) \in [1..n -> Int]
      OBVIOUS
    <3>1. \A x \in DOMAIN group.mn : group.rows[i][x] \in Int
      BY <2>3, <2>4 DEF StatsSound
    <3>. QED BY <1>0, <2>5, <3>1 DEF Pick
  <2>7. PickedRows(group, op.cols) \in Seq([1..n -> Int])
    BY <1>0, <2>4, <2>6 DEF PickedRows
  <2>. QED BY <2>1, <2>3, <2>7
<1>7. \A g \in S : g.rows \in Seq(Seq(Int)) /\ PickedRows(g, cols) \in Seq(T)
  BY <1>0, <1>2, <1>6 DEF Elements, Line
<1>. QED BY <1>0, <1>4, <1>5, <1>7 DEF StoreFits

LEMMA StoreRowsGrow ==
    ASSUME NEW groups, NEW cols, StoreFits(groups, cols), NEW n, n = Len(groups)
    PROVE  /\ n \in Nat /\ RowsUpTo(groups, cols, 0) = <<>>
           /\ RowsUpTo(groups, cols, n) = Scanned(groups, cols)
           /\ \A k \in 0..n : RowsUpTo(groups, cols, k) \in Seq(Line(Len(cols)))
           /\ \A k \in 1..n :
                RowsUpTo(groups, cols, k) = RowsUpTo(groups, cols, k - 1) \o PickedRows(groups[k], cols)
<1>1. PICK S, T : S = Elements(groups) /\ T = Line(Len(cols))
  OBVIOUS
<1>2. RowsFit(groups, cols, S, T) /\ groups \in Seq(S)
  BY <1>1 DEF StoreFits, RowsFit
<1>3. n \in Nat
  BY <1>2, LenProperties
<1>. QED BY <1>1, <1>2, <1>3, RowsUpToGrow

LEMMA ScannedIsRelation ==
    ASSUME NEW groups, NEW cols, StoreFits(groups, cols)
    PROVE  Relation(Scanned(groups, cols))
<1>1. PICK n : n = Len(groups)
  OBVIOUS
<1>2. n \in Nat /\ RowsUpTo(groups, cols, n) = Scanned(groups, cols)
      /\ \A k \in 0..n : RowsUpTo(groups, cols, k) \in Seq(Line(Len(cols)))
  BY <1>1, StoreRowsGrow
<1>. QED BY <1>2 DEF Relation

LEMMA ListIsRelation ==
    ASSUME NEW n \in Nat, NEW f, f = [i \in 1..n |-> f[i]]
    PROVE  Relation(f)
<1>1. PICK T : T = {f[i] : i \in 1..n}
  OBVIOUS
<1>2. \A i \in 1..n : f[i] \in T
  BY <1>1
<1>3. f \in Seq(T)
  BY <1>2
<1>. QED BY <1>3 DEF Relation

LEMMA GroupedIsRelation ==
    ASSUME NEW R, NEW rows \in Seq(R), NEW cols, NEW specs
    PROVE  Relation(Grouped(rows, cols, specs))
<1>1. PICK keys : keys = IF cols = <<>> THEN << <<>> >> ELSE KeysOf(rows, cols)
  OBVIOUS
<1>2. PICK n \in Nat : n = Len(keys)
  <2>1. CASE cols = <<>>
    BY <1>1, <2>1
  <2>2. CASE cols # <<>>
    BY <1>1, <2>2, KeysType, LenProperties
  <2>. QED BY <2>1, <2>2
<1>3. PICK f : f = [g \in 1..n |-> keys[g] \o [s \in 1..Len(specs) |-> Aggregate(OfKey(rows, cols, keys[g]), specs[s])]]
  OBVIOUS
<1>4. f = [g \in 1..n |-> f[g]]
  BY <1>3
<1>5. Grouped(rows, cols, specs) = f
  BY <1>1, <1>2, <1>3 DEF Grouped
<1>. QED BY <1>4, <1>5, ListIsRelation

LEMMA JoinedIsRelation ==
    ASSUME NEW L, NEW R, NEW left \in Seq(L), NEW right \in Seq(R), NEW leftKey, NEW rightKey
    PROVE  Relation(Joined(left, right, leftKey, rightKey))
<1>1. PICK T : T = {p[1] \o p[2] : p \in L \X R}
  OBVIOUS
<1>2. \A x \in L, row \in R : x \o row \in T
  <2>. SUFFICES ASSUME NEW x \in L, NEW row \in R PROVE x \o row \in T
    OBVIOUS
  <2>1. PICK p \in L \X R : p = <<x, row>>
    OBVIOUS
  <2>2. p[1] \o p[2] = x \o row
    BY <2>1
  <2>. QED BY <1>1, <2>2
<1>3. PICK f \in [R -> Seq(T)] : f = JoinAny(left, R, leftKey, rightKey)
  BY <1>2, JoinAnyType
<1>4. Joined(left, right, leftKey, rightKey) = FlatMap(f, right)
  BY <1>3, JoinAnyJoins
<1>5. FlatMap(f, right) \in Seq(T)
  BY FlatMapType
<1>. QED BY <1>4, <1>5 DEF Relation

LEMMA AnsweredByChildren ==
    ASSUME NEW c \in Cases, NEW A, A = AnswersOf(c.plan, c.stores), NEW o \in 1..Len(c.plan),
           A[o] = AnswersBy(c.plan[o], c.stores, A),
           \A child \in Children(c.plan[o]) : Relations(A[child])
    PROVE  Relations(A[o])
<1>01. PICK op : op = c.plan[o]
  OBVIOUS
<1>0. PlanOK(c) /\ NumbersOK(c) /\ OperatorOK(op, c.stores) /\ op = c.plan[o]
  BY <1>01, CasesAssumption DEF PlanOK
<1>02. A[o] = AnswersBy(op, c.stores, A) /\ \A child \in Children(op) : Relations(A[child])
  BY <1>01
<1>1. CASE op.kind = "scan"
  <2>1. ScanOK(op, c.stores)
    BY <1>0, <1>1 DEF OperatorOK
  <2>2. PICK groups, cols : groups = c.stores[op.store] /\ cols = op.cols
    OBVIOUS
  <2>3. StoreFits(groups, cols)
    BY <2>1, <2>2, StoreOfScanFits
  <2>9. Relation(Scanned(groups, cols))
    BY <2>3, ScannedIsRelation
  <2>10. A[o] = {Scanned(groups, cols)}
    BY <1>02, <1>1, <2>2, AnswersByKind
  <2>. QED BY <2>9, <2>10 DEF Relations
<1>2. CASE op.kind = "filter"
  <2>1. Relations(A[op.child])
    BY <1>02, <1>2 DEF Children
  <2>2. A[o] = {Where(rows, Passing(rows, op.preds)) : rows \in A[op.child]}
    BY <1>02, <1>2, AnswersByKind
  <2>3. ASSUME NEW rows \in A[op.child] PROVE Relation(Where(rows, Passing(rows, op.preds)))
    <3>1. PICK R : rows \in Seq(R)
      BY <2>1 DEF Relations, Relation
    <3>2. Where(rows, Passing(rows, op.preds)) \in Seq(R)
      BY <3>1, WhereType
    <3>. QED BY <3>2 DEF Relation
  <2>. QED BY <2>1, <2>2, <2>3 DEF Relations
<1>3. CASE op.kind = "project"
  <2>1. Relations(A[op.child])
    BY <1>02, <1>3 DEF Children
  <2>2. A[o] = {Evaluated(rows, op.exprs) : rows \in A[op.child]}
    BY <1>02, <1>3, AnswersByKind
  <2>3. ASSUME NEW rows \in A[op.child] PROVE Relation(Evaluated(rows, op.exprs))
    <3>1. PICK R : rows \in Seq(R)
      BY <2>1 DEF Relations, Relation
    <3>2. PICK n \in Nat : n = Len(rows)
      BY <3>1, LenProperties
    <3>3. PICK f : f = [i \in 1..n |-> [x \in 1..Len(op.exprs) |-> Eval(rows[i], op.exprs[x])]]
      OBVIOUS
    <3>4. f = [i \in 1..n |-> f[i]]
      BY <3>3
    <3>5. Evaluated(rows, op.exprs) = f
      BY <3>2, <3>3 DEF Evaluated
    <3>. QED BY <3>4, <3>5, ListIsRelation
  <2>. QED BY <2>1, <2>2, <2>3 DEF Relations
<1>4. CASE op.kind \in {"global", "hash"}
  <2>1. Relations(A[op.child])
    BY <1>02, <1>4 DEF Children
  <2>2. A[o] = {Grouped(rows, op.cols, op.specs) : rows \in A[op.child]}
    BY <1>02, <1>4, AnswersByKind
  <2>3. ASSUME NEW rows \in A[op.child] PROVE Relation(Grouped(rows, op.cols, op.specs))
    <3>1. PICK R : rows \in Seq(R)
      BY <2>1 DEF Relations, Relation
    <3>. QED BY <3>1, GroupedIsRelation
  <2>. QED BY <2>1, <2>2, <2>3 DEF Relations
<1>5. CASE op.kind = "sort"
  <2>1. Relations(A[op.child]) /\ op.child \in Children(op)
    BY <1>02, <1>5 DEF Children
  <2>2. \A r : r \in A[o] <=> \E rows \in A[op.child] : \E s \in SortedOrderings(rows, op.keys) :
                                r = Window(s, op.limit, op.offset)
    <3>. SUFFICES ASSUME NEW r
                  PROVE  r \in A[o] <=> \E rows \in A[op.child] : \E s \in SortedOrderings(rows, op.keys) :
                                          r = Window(s, op.limit, op.offset)
      OBVIOUS
    <3>1. r \in A[o] <=> SortAnswers(op, A, r)
      BY <1>02, <1>5, AnswersBySort
    <3>. QED BY <3>1 DEF SortAnswers
  <2>3. op.keys \in Seq([col : ColumnId, ascending : BOOLEAN]) /\ op.limit \in Nat /\ op.offset \in Nat
    BY <1>0, <1>5 DEF OperatorOK
  <2>4. ASSUME NEW rows \in A[op.child], NEW s \in SortedOrderings(rows, op.keys)
        PROVE  Relation(Window(s, op.limit, op.offset))
    <3>1. PICK R : rows \in Seq(R)
      BY <2>1 DEF Relations, Relation
    <3>2. s \in Seq(R)
      BY <3>1, OrderingsAreAlike DEF SortedOrderings
    <3>3. Window(s, op.limit, op.offset) \in Seq(R)
      BY <2>3, <3>2, WindowType
    <3>. QED BY <3>3 DEF Relation
  <2>5. PICK rows \in A[op.child] : TRUE
    BY <2>1 DEF Relations
  <2>6. SortedOrderings(rows, op.keys) # {}
    <3>1. PICK Q : rows \in Seq(Q)
      BY <2>1, <2>5 DEF Relations, Relation
    <3>2. PICK R : R = {rows[i] : i \in 1..Len(rows)}
      OBVIOUS
    <3>3. rows \in Seq(R) /\ DOMAIN rows = 1..Len(rows)
      BY <3>1, <3>2, LenProperties
    <3>4. Len(op.keys) \in Nat /\ \A k \in 1..Len(op.keys) : op.keys[k] \in [col : ColumnId, ascending : BOOLEAN]
      BY <2>3, LenProperties, ElementOfSeq
    <3>5. ASSUME NEW k \in 1..Len(op.keys), NEW row \in R PROVE row[op.keys[k].col] \in Int
      <4>1. PICK i \in 1..Len(rows) : row = rows[i]
        BY <3>2
      <4>2. op.keys[k].col \in Reckoned(op)
        <5>1. k \in DOMAIN op.keys
          BY <2>3, LenProperties
        <5>. QED BY <1>5, <5>1 DEF Reckoned
      <4>3. i \in DOMAIN rows
        BY <3>3
      <4>4. rows[i][op.keys[k].col] \in Int64Min..Int64Max
        BY <1>0, <2>1, <2>5, <4>2, <4>3 DEF NumbersOK
      <4>. QED BY <4>1, <4>4, CasesAssumption
    <3>6. NumericKeys(R, op.keys)
      BY <3>4, <3>5 DEF NumericKeys, Numeric
    <3>. QED BY <3>3, <3>6, SortedOrderingExists
  <2>7. A[o] # {}
    BY <2>2, <2>5, <2>6
  <2>. QED BY <2>2, <2>4, <2>7 DEF Relations
<1>6. CASE op.kind = "join"
  <2>1. Relations(A[op.build]) /\ Relations(A[op.probe])
    BY <1>02, <1>6 DEF Children
  <2>2. \A r : r \in A[o] <=> \E l \in A[op.build], p \in A[op.probe] :
                                r \in Orderings(Joined(l, p, op.build_key, op.probe_key))
    <3>. SUFFICES ASSUME NEW r
                  PROVE  r \in A[o] <=> \E l \in A[op.build], p \in A[op.probe] :
                                          r \in Orderings(Joined(l, p, op.build_key, op.probe_key))
      OBVIOUS
    <3>1. r \in A[o] <=> JoinAnswers(op, A, r)
      BY <1>02, <1>6, AnswersByJoin
    <3>. QED BY <3>1 DEF JoinAnswers
  <2>3. ASSUME NEW l \in A[op.build], NEW r \in A[op.probe]
        PROVE  Relation(Joined(l, r, op.build_key, op.probe_key))
    <3>1. PICK L : l \in Seq(L)
      BY <2>1 DEF Relations, Relation
    <3>2. PICK R : r \in Seq(R)
      BY <2>1 DEF Relations, Relation
    <3>. QED BY <3>1, <3>2, JoinedIsRelation
  <2>4. ASSUME NEW l \in A[op.build], NEW r \in A[op.probe], NEW s \in Orderings(Joined(l, r, op.build_key, op.probe_key))
        PROVE  Relation(s)
    <3>1. PICK T : Joined(l, r, op.build_key, op.probe_key) \in Seq(T)
      BY <2>3 DEF Relation
    <3>2. s \in Seq(T)
      BY <3>1, OrderingsAreAlike
    <3>. QED BY <3>2 DEF Relation
  <2>5. PICK l \in A[op.build], r \in A[op.probe] : TRUE
    BY <2>1 DEF Relations
  <2>6. PICK T : Joined(l, r, op.build_key, op.probe_key) \in Seq(T)
    BY <2>3 DEF Relation
  <2>7. Joined(l, r, op.build_key, op.probe_key) \in Orderings(Joined(l, r, op.build_key, op.probe_key))
    BY <2>6, OrderingSelf
  <2>. QED BY <2>2, <2>4, <2>5, <2>7 DEF Relations
<1>. QED BY <1>0, <1>1, <1>2, <1>3, <1>4, <1>5, <1>6 DEF OperatorOK

(* A plan whose operators come after their children has an answer at each   *)
(* of them, made of its children's, and every answer is a relation.         *)
THEOREM EveryOperatorAnswers ==
    ASSUME NEW c \in Cases, NEW A, A = AnswersOf(c.plan, c.stores), NEW n, n = Len(c.plan)
    PROVE  /\ n \in Nat \ {0} /\ ChildrenFirst(c.plan, n)
           /\ \A o \in 1..n : A[o] = AnswersBy(c.plan[o], c.stores, A) /\ Relations(A[o])
<1>1. n \in Nat \ {0} /\ ChildrenFirst(c.plan, n)
  BY CasesAssumption DEF PlanOK, ChildrenFirst
<1>2. Explains(A, n, c.plan, c.stores)
  BY <1>1, AnswersExplain
<1>3. \A o \in 1..n : A[o] = AnswersBy(c.plan[o], c.stores, A)
  BY <1>2 DEF Explains
<1>. DEFINE P == {k \in 0..n : \A o \in 1..k : Relations(A[o])}
<1>4. 0 \in P
  OBVIOUS
<1>5. ASSUME NEW k \in 0..n, k \in P, k < n PROVE k + 1 \in P
  <2>1. PICK o \in 1..n : o = k + 1
    BY <1>5
  <2>2. Children(c.plan[o]) \subseteq 1..o-1 /\ \A i \in 1..o-1 : i \in 1..k
    BY <1>1, <2>1 DEF ChildrenFirst
  <2>3. \A child \in Children(c.plan[o]) : Relations(A[child])
    BY <1>5, <2>2
  <2>4. o \in 1..Len(c.plan) /\ A[o] = AnswersBy(c.plan[o], c.stores, A)
    BY <1>3
  <2>5. Relations(A[o])
    BY <2>3, <2>4, AnsweredByChildren
  <2>6. \A i \in 1..k + 1 : i \in 1..k \/ i = o
    BY <2>1
  <2>. QED BY <1>5, <2>1, <2>5, <2>6
<1>6. n \in P
  <2>1. n \in Nat
    BY <1>1
  <2>2. 0..n \subseteq P
    <3>. HIDE DEF P
    <3>. QED BY <1>4, <1>5, <2>1, UpToN
  <2>. QED BY <2>1, <2>2
<1>. QED BY <1>1, <1>3, <1>6

(***************************************************************************)
(* The invariant of a run.  It speaks of three things no operator keeps:   *)
(* the rows each operator has returned so far (made), those of them its    *)
(* parent has worked on (taken), and the width of its batches (width), of  *)
(* which an operator that has not returned one has none yet.               *)
(***************************************************************************)
Unknown == -1
RowsFor(w, s) == IF w = Unknown THEN s = <<>> ELSE s \in Seq(Line(w))

(* The batches of one width, and those a sort or a join has kept. *)
BatchesOf(w) == [tag : {"batch"}, width : {w}, rows : Seq(Line(w))]
Kept(bs, rows, w) ==
    bs \in Seq(BatchesOf(w)) /\ (w = Unknown => bs = <<>>) /\ AllRows(bs) = rows

(* A scan that skips groups returns the same rows but for some its parent   *)
(* would not let pass.                                                      *)
Useful(op, keep) ==
    \E p \in DOMAIN op.cols :
      op.cols[p] = op.skip.col /\ \A row \in keep : apply_cmp(row[p], op.skip.op, op.skip.value)
Skips(op) == op.kind = "scan" /\ op.skip.col # 0
Near(op, s, r) ==
    /\ Skips(op) => \A keep : Useful(op, keep) => Where(s, keep) = Where(r, keep)
    /\ ~Skips(op) => s = r

PassRows(preds) == {row \in Row : Passes(row, preds)}

(* The rows an aggregate can work on. *)
Needed(op)  == Reckoned(op) \cup Range(op.cols)
Fitting(op) == {row \in Row : Needed(op) \subseteq DOMAIN row}

-----------------------------------------------------------------------------
LEMMA LinesAreRows ==
    ASSUME NEW n \in Nat
    PROVE  Line(n) \subseteq Row
BY DEF Line, Row

LEMMA RowsForAreRows ==
    ASSUME NEW w \in Nat \cup {Unknown}, NEW s, RowsFor(w, s)
    PROVE  s \in Seq(Row)
<1>1. CASE w = Unknown
  BY <1>1, EmptySeq DEF RowsFor
<1>2. CASE w # Unknown
  <2>1. w \in Nat /\ s \in Seq(Line(w))
    BY <1>2 DEF RowsFor
  <2>. QED BY <2>1, LinesAreRows, SeqMonotonic
<1>. QED BY <1>1, <1>2

LEMMA BesideLines ==
    ASSUME NEW n \in Nat, NEW m \in Nat, NEW x \in Line(n), NEW y \in Line(m)
    PROVE  x \o y \in Line(n + m)
<1>1. x \in Seq(Int) /\ y \in Seq(Int) /\ Len(x) = n /\ Len(y) = m
  BY DEF Line
<1>2. PICK z \in Seq(Int) : z = x \o y /\ Len(z) = n + m
  BY <1>1, ConcatProperties
<1>3. z \in [1..n + m -> Int]
  BY <1>2, LenProperties
<1>. QED BY <1>2, <1>3 DEF Line

LEMMA JoinedLines ==
    ASSUME NEW n \in Nat, NEW m \in Nat, NEW left \in Seq(Line(n)), NEW right \in Seq(Line(m)),
           NEW leftKey, NEW rightKey
    PROVE  Joined(left, right, leftKey, rightKey) \in Seq(Line(n + m))
<1>1. PICK L, R, T : L = Line(n) /\ R = Line(m) /\ T = Line(n + m)
  OBVIOUS
<1>2. \A x \in L, row \in R : x \o row \in T
  BY <1>1, BesideLines
<1>3. left \in Seq(L) /\ right \in Seq(R)
  BY <1>1
<1>4. JoinAny(left, R, leftKey, rightKey) \in [R -> Seq(T)]
  BY <1>2, <1>3, JoinAnyType
<1>5. Joined(left, right, leftKey, rightKey) = FlatMap(JoinAny(left, R, leftKey, rightKey), right)
  BY <1>3, JoinAnyJoins
<1>6. FlatMap(JoinAny(left, R, leftKey, rightKey), right) \in Seq(T)
  BY <1>3, <1>4, FlatMapType
<1>. QED BY <1>1, <1>5, <1>6

(* Batches are kept as they come. *)
RowsOfBatch(w) == [b \in BatchesOf(w) |-> b.rows]

LEMMA AllRowsIsFlatMap ==
    ASSUME NEW w, NEW bs \in Seq(BatchesOf(w))
    PROVE  /\ RowsOfBatch(w) \in [BatchesOf(w) -> Seq(Line(w))]
           /\ AllRows(bs) = FlatMap(RowsOfBatch(w), bs)
<1>1. RowsOfBatch(w) \in [BatchesOf(w) -> Seq(Line(w))]
  BY DEF RowsOfBatch, BatchesOf
<1>2. PICK n \in Nat : n = Len(bs) /\ DOMAIN bs = 1..n
  BY LenProperties
<1>3. \A i \in 1..n : bs[i] \in BatchesOf(w)
  BY <1>2, ElementOfSeq
<1>4. \A i \in 1..n : RowsOfBatch(w)[bs[i]] = bs[i].rows
  BY <1>3 DEF RowsOfBatch
<1>5. AllRows(bs) = FlatMap(RowsOfBatch(w), bs)
  BY <1>2, <1>4 DEF AllRows, FlatMap, Mapped
<1>. QED BY <1>1, <1>5

LEMMA AllRowsOfNone == AllRows(<<>>) = <<>>
<1>1. <<>> \in Seq(BatchesOf(0))
  BY EmptySeq
<1>. QED BY <1>1, AllRowsIsFlatMap, MappedEmpty

LEMMA KeptRows ==
    ASSUME NEW bs, NEW rows, NEW w, Kept(bs, rows, w)
    PROVE  rows \in Seq(Line(w)) /\ RowsFor(w, rows)
<1>1. bs \in Seq(BatchesOf(w)) /\ rows = AllRows(bs)
  BY DEF Kept
<1>2. rows \in Seq(Line(w))
  BY <1>1, AllRowsIsFlatMap, FlatMapType
<1>3. w = Unknown => rows = <<>>
  BY AllRowsOfNone DEF Kept
<1>. QED BY <1>2, <1>3 DEF RowsFor

LEMMA KeepOneMore ==
    ASSUME NEW bs, NEW rows, NEW w, Kept(bs, rows, w), w # Unknown, NEW b \in BatchesOf(w)
    PROVE  Kept(Append(bs, b), rows \o b.rows, w)
<1>1. bs \in Seq(BatchesOf(w)) /\ rows = AllRows(bs)
  BY DEF Kept
<1>2. PICK f \in [BatchesOf(w) -> Seq(Line(w))] : f = RowsOfBatch(w)
  BY <1>1, AllRowsIsFlatMap
<1>3. PICK more \in Seq(BatchesOf(w)) : more = Append(bs, b)
  BY <1>1, AppendProperties
<1>4. FlatMap(f, more) = FlatMap(f, bs) \o f[b]
  BY <1>1, <1>3, FlatMapGrows
<1>5. AllRows(more) = FlatMap(f, more)
  BY <1>2, AllRowsIsFlatMap
<1>6. AllRows(bs) = FlatMap(f, bs)
  BY <1>1, <1>2, AllRowsIsFlatMap
<1>7. f[b] = b.rows
  BY <1>2 DEF RowsOfBatch
<1>. QED BY <1>1, <1>3, <1>4, <1>5, <1>6, <1>7 DEF Kept

LEMMA KeptNothing ==
    ASSUME NEW w
    PROVE  Kept(<<>>, <<>>, w)
BY EmptySeq, AllRowsOfNone DEF Kept

(* The one batch the build side becomes. *)
LEMMA KeptOnce ==
    ASSUME NEW w, w # Unknown, NEW b \in BatchesOf(w)
    PROVE  Kept(<<b>>, b.rows, w)
<1>1. Kept(Append(<<>>, b), <<>> \o b.rows, w)
  BY KeptNothing, KeepOneMore
<1>2. Append(<<>>, b) = <<b>>
  OBVIOUS
<1>3. <<>> \o b.rows = b.rows
  <2>1. b.rows \in Seq(Line(w))
    BY DEF BatchesOf
  <2>. QED BY <2>1, ConcatEmptySeq
<1>. QED BY <1>1, <1>2, <1>3

LEMMA WidthOfKept ==
    ASSUME NEW bs, NEW rows, NEW w, Kept(bs, rows, w)
    PROVE  /\ bs = <<>> => WidthOf(bs) = 0 /\ rows = <<>>
           /\ bs # <<>> => WidthOf(bs) = w /\ w # Unknown
<1>1. CASE bs = <<>>
  BY <1>1, AllRowsOfNone DEF Kept, WidthOf
<1>2. CASE bs # <<>>
  <2>1. bs \in Seq(BatchesOf(w)) /\ w # Unknown
    BY <1>2 DEF Kept
  <2>2. 1 \in 1..Len(bs)
    BY <1>2, <2>1, EmptySeq
  <2>3. bs[1] \in BatchesOf(w)
    BY <2>1, <2>2, ElementOfSeq
  <2>. QED BY <1>2, <2>1, <2>3 DEF WidthOf, BatchesOf
<1>. QED BY <1>1, <1>2

-----------------------------------------------------------------------------
(* More rows of a scan. *)
LEMMA NearItself ==
    ASSUME NEW op, NEW s
    PROVE  Near(op, s, s)
BY DEF Near

LEMMA NearWithMore ==
    ASSUME NEW op, NEW s \in Seq(Row), NEW r \in Seq(Row), NEW more \in Seq(Row), Near(op, s, r)
    PROVE  Near(op, s \o more, r \o more)
<1>1. ASSUME Skips(op), NEW keep, Useful(op, keep)
      PROVE  Where(s \o more, keep) = Where(r \o more, keep)
  <2>1. Where(s, keep) = Where(r, keep)
    BY <1>1 DEF Near
  <2>2. Where(s \o more, keep) = Where(s, keep) \o Where(more, keep)
    BY WhereConcat
  <2>3. Where(r \o more, keep) = Where(r, keep) \o Where(more, keep)
    BY WhereConcat
  <2>. QED BY <2>1, <2>2, <2>3
<1>. QED BY <1>1 DEF Near

LEMMA NearWithoutMore ==
    ASSUME NEW op, Skips(op), NEW s \in Seq(Row), NEW r \in Seq(Row), NEW more \in Seq(Row), Near(op, s, r),
           \A keep : Useful(op, keep) => \A i \in 1..Len(more) : more[i] \notin keep
    PROVE  Near(op, s, r \o more)
<1>1. ASSUME NEW keep, Useful(op, keep)
      PROVE  Where(s, keep) = Where(r \o more, keep)
  <2>1. Where(s, keep) = Where(r, keep)
    BY <1>1 DEF Near
  <2>2. Where(r \o more, keep) = Where(r, keep) \o Where(more, keep)
    BY WhereConcat
  <2>3. \A i \in 1..Len(more) : more[i] \notin keep
    BY <1>1
  <2>4. Where(more, keep) = <<>>
    BY <2>3, WhereNone
  <2>5. Where(r, keep) \o <<>> = Where(r, keep)
    BY WhereType, ConcatEmptySeq
  <2>. QED BY <2>1, <2>2, <2>4, <2>5
<1>. QED BY <1>1 DEF Near

(* A filter by the predicate the scan skips by lets no other row pass. *)
LEMMA FilterIsUseful ==
    ASSUME NEW op, NEW scan, FilteredBy(op, scan), scan.skip.op \in CompareOp
    PROVE  Useful(scan, PassRows(op.preds))
<1>1. PICK p \in Range(op.preds) :
        /\ p.op = scan.skip.op /\ p.value = scan.skip.value
        /\ p.col \in DOMAIN scan.cols /\ scan.cols[p.col] = scan.skip.col
  BY DEF FilteredBy
<1>2. p.op # "In" /\ p.op # "NotIn"
  BY <1>1 DEF CompareOp
<1>3. ASSUME NEW row \in PassRows(op.preds) PROVE apply_cmp(row[p.col], scan.skip.op, scan.skip.value)
  <2>1. Accepts(p, row[p.col])
    BY <1>1 DEF PassRows, Passes
  <2>. QED BY <1>1, <1>2, <2>1 DEF Accepts
<1>. QED BY <1>1, <1>3 DEF Useful

LEMMA PassingIsPassRows ==
    ASSUME NEW rows \in Seq(Row), NEW preds
    PROVE  Where(rows, Passing(rows, preds)) = Where(rows, PassRows(preds))
<1>1. Range(rows) \subseteq Row
  BY RangeOfSeq
<1>2. Passing(rows, preds) = {row \in Range(rows) : row \in PassRows(preds)}
  BY <1>1 DEF Passing, PassRows
<1>. QED BY <1>2, WhereWithin

-----------------------------------------------------------------------------
(* The plan that runs. *)
PlanIsGiven == \E c \in Cases : plan = c.plan /\ stores = c.stores
Ans == AnswersOf(plan, stores)
Root == Len(plan)

LEMMA PlanFacts ==
    ASSUME PlanIsGiven
    PROVE  /\ Root \in Nat \ {0} /\ Ops = 1..Root /\ Root \in Ops
           /\ \A o \in Ops :
                /\ OperatorOK(plan[o], stores)
                /\ Children(plan[o]) \subseteq Ops /\ \A child \in Children(plan[o]) : child < o
                /\ \A p \in Ops : o # p => Children(plan[o]) \cap Children(plan[p]) = {}
                /\ Skips(plan[o]) => o # Root /\ \A p \in Ops : o \in Children(plan[p]) => FilteredBy(plan[p], plan[o])
<1>1. PICK c \in Cases : plan = c.plan /\ stores = c.stores
  BY DEF PlanIsGiven
<1>2. PlanOK(c)
  BY CasesAssumption
<1>3. Root \in Nat \ {0} /\ Ops = 1..Root /\ Root \in Ops
  BY <1>1, <1>2 DEF PlanOK, Root, Ops
<1>4. ASSUME NEW o \in Ops
      PROVE  Children(plan[o]) \subseteq Ops /\ \A child \in Children(plan[o]) : child < o
  <2>1. Children(plan[o]) \subseteq 1..o-1
    BY <1>1, <1>2, <1>3 DEF PlanOK, Root
  <2>. QED BY <1>3, <2>1
<1>5. ASSUME NEW o \in Ops
      PROVE  /\ OperatorOK(plan[o], stores)
             /\ \A p \in Ops : o # p => Children(plan[o]) \cap Children(plan[p]) = {}
             /\ Skips(plan[o]) => o # Root /\ \A p \in Ops : o \in Children(plan[p]) => FilteredBy(plan[p], plan[o])
  BY <1>1, <1>2, <1>3 DEF PlanOK, Root, Skips
<1>. QED BY <1>3, <1>4, <1>5

LEMMA AnswerFacts ==
    ASSUME PlanIsGiven, NEW o \in Ops
    PROVE  Ans[o] = AnswersBy(plan[o], stores, Ans) /\ Relations(Ans[o])
<1>1. PICK c \in Cases : plan = c.plan /\ stores = c.stores
  BY DEF PlanIsGiven
<1>2. PICK A, n : A = AnswersOf(c.plan, c.stores) /\ n = Len(c.plan)
  OBVIOUS
<1>3. \A k \in 1..n : A[k] = AnswersBy(c.plan[k], c.stores, A) /\ Relations(A[k])
  BY <1>2, EveryOperatorAnswers
<1>4. Ans = A /\ o \in 1..n
  BY <1>1, <1>2 DEF Ans, Ops
<1>. QED BY <1>1, <1>3, <1>4

(* Numbers are within bounds where an aggregate reckons with them. *)
LEMMA NumbersAreBounded ==
    ASSUME PlanIsGiven, NEW o \in Ops, NEW child \in Children(plan[o]), NEW rows \in Ans[child],
           NEW i \in DOMAIN rows, NEW col \in Reckoned(plan[o])
    PROVE  rows[i][col] \in Int64Min..Int64Max
<1>1. PICK c \in Cases : plan = c.plan /\ stores = c.stores
  BY DEF PlanIsGiven
<1>2. NumbersOK(c)
  BY CasesAssumption
<1>. QED BY <1>1, <1>2 DEF NumbersOK, Ans, Ops

LEMMA ScanFacts ==
    ASSUME PlanIsGiven, NEW o \in Ops, plan[o].kind = "scan"
    PROVE  ScanOK(plan[o], stores) /\ StoreFits(Groups(o), plan[o].cols)
<1>1. PICK c \in Cases : plan = c.plan /\ stores = c.stores
  BY DEF PlanIsGiven
<1>2. ScanOK(plan[o], stores)
  BY PlanFacts DEF OperatorOK
<1>3. PICK op : op = plan[o]
  OBVIOUS
<1>4. StoreFits(c.stores[op.store], op.cols)
  BY <1>1, <1>2, <1>3, StoreOfScanFits
<1>. QED BY <1>1, <1>2, <1>3, <1>4 DEF Groups

-----------------------------------------------------------------------------
(* Who waits for whom.                                                      *)

Awaited(o) ==
    IF plan[o].kind # "join" THEN plan[o].child
    ELSE IF phase[o] = "building" THEN plan[o].build ELSE plan[o].probe

(* The operator that ret comes from, once it has been called. *)
Source == IF stack = <<>> THEN Root ELSE Awaited(Top)

(* A call that waits for its child, or has just heard from it. *)
Waiting(o) == \E i \in 1..Len(stack) : stack[i] = o /\ (i < Len(stack) \/ ret # Calling)

StackInv ==
    /\ stack \in Seq(Ops)
    /\ stack # <<>> => stack[1] = Root
    /\ \A i \in 1..Len(stack) : i < Len(stack) =>
         plan[stack[i]].kind # "scan" /\ stack[i + 1] = Awaited(stack[i])
    /\ \A i, j \in 1..Len(stack) : i < j => stack[j] < stack[i]
    /\ stack = <<>> => ret # Calling
    /\ stack # <<>> /\ ret # Calling => Me.kind # "scan"

LEMMA AwaitedIsChild ==
    ASSUME NEW o, plan[o].kind # "scan"
    PROVE  Awaited(o) \in Children(plan[o])
BY DEF Awaited, Children

LEMMA TopOfStack ==
    ASSUME PlanIsGiven, StackInv, stack # <<>>
    PROVE  /\ Len(stack) \in Nat \ {0} /\ Top = stack[Len(stack)] /\ Top \in Ops
           /\ \A i \in 1..Len(stack) : i < Len(stack) => stack[i] # Top
           /\ Waiting(Top) <=> ret # Calling
<1>1. stack \in Seq(Ops) /\ Len(stack) \in Nat \ {0}
  BY EmptySeq DEF StackInv
<1>2. PICK n \in Nat \ {0} : n = Len(stack)
  BY <1>1
<1>3. Top = stack[n]
  BY <1>2 DEF Top, Last
<1>4. n \in 1..Len(stack)
  BY <1>2
<1>5. stack[n] \in Ops
  BY <1>1, <1>4, ElementOfSeq
<1>6. Ops \subseteq Nat
  BY PlanFacts
<1>7. ASSUME NEW i \in 1..Len(stack), i < Len(stack) PROVE stack[i] # stack[n]
  <2>1. stack[n] < stack[i]
    BY <1>2, <1>4, <1>7 DEF StackInv
  <2>2. stack[n] \in Nat
    BY <1>5, <1>6
  <2>. QED BY <2>1, <2>2
<1>8. Waiting(Top) <=> ret # Calling
  BY <1>2, <1>3, <1>4, <1>7 DEF Waiting
<1>. QED BY <1>1, <1>2, <1>3, <1>5, <1>7, <1>8

(* The topmost operator calls a child. *)
LEMMA CallStack ==
    ASSUME PlanIsGiven, StackInv, stack # <<>>, UNCHANGED <<plan, stores>>,
           NEW t, t = Top, NEW child, Call(child),
           \A o \in Ops : o # t => phase'[o] = phase[o],
           plan[t].kind # "scan", child = Awaited(t)'
    PROVE  /\ StackInv'
           /\ \A o \in Ops : Waiting(o)' <=> (Waiting(o) \/ o = t)
<1>1. PICK n \in Nat \ {0} : n = Len(stack)
  BY TopOfStack
<1>2. t \in Ops /\ t = stack[n] /\ \A i \in 1..n : i < n => stack[i] # t
  BY <1>1, TopOfStack
<1>3. child \in Children(plan[t])
  BY DEF Awaited, Children
<1>4. child \in Ops /\ child < t /\ Ops \subseteq Nat
  BY <1>2, <1>3, PlanFacts
<1>5. stack \in Seq(Ops)
  BY DEF StackInv
<1>6. PICK more : more = stack'
  OBVIOUS
<1>7. /\ more \in Seq(Ops) /\ more # <<>> /\ Len(more) = n + 1
      /\ \A i \in 1..n : more[i] = stack[i]
      /\ more[n + 1] = child
  BY <1>1, <1>4, <1>5, <1>6, AppendProperties DEF Call
<1>8. \A i \in 1..n : stack[i] \in Ops
  BY <1>1, <1>5, ElementOfSeq
<1>9. more[1] = Root
  BY <1>1, <1>7 DEF StackInv
<1>10. ASSUME NEW i \in 1..n + 1, i < n + 1
       PROVE  plan[more[i]].kind # "scan" /\ more[i + 1] = Awaited(more[i])'
  <2>1. CASE i < n
    <3>1. i \in 1..n /\ i + 1 \in 1..n
      BY <2>1
    <3>2. plan[stack[i]].kind # "scan" /\ stack[i + 1] = Awaited(stack[i])
      BY <1>1, <2>1, <3>1 DEF StackInv
    <3>3. stack[i] # t /\ stack[i] \in Ops
      BY <1>2, <1>8, <2>1, <3>1
    <3>4. PICK p : p = stack[i] /\ p = more[i]
      BY <1>7, <3>1
    <3>5. phase'[p] = phase[p]
      BY <3>3, <3>4
    <3>6. Awaited(p)' = Awaited(p)
      BY <3>5 DEF Awaited
    <3>7. plan[p].kind # "scan" /\ more[i + 1] = Awaited(p)
      BY <1>7, <3>1, <3>2, <3>4
    <3>. QED BY <3>4, <3>6, <3>7 DEF Awaited
  <2>2. CASE i = n
    <3>1. more[i] = t /\ more[i + 1] = child
      BY <1>1, <1>2, <1>7, <2>2
    <3>2. PICK p : p = more[i] /\ p = t
      BY <3>1
    <3>3. plan[p].kind # "scan"
      BY <3>2
    <3>4. Awaited(p)' = child
      BY <3>2 DEF Awaited
    <3>5. plan[more[i]].kind # "scan"
      BY <3>2, <3>3
    <3>6. more[i + 1] = Awaited(more[i])'
      BY <3>1, <3>2, <3>4 DEF Awaited
    <3>. QED BY <3>5, <3>6
  <2>3. i < n \/ i = n
    BY <1>10
  <2>. QED BY <2>1, <2>2, <2>3
<1>11. ASSUME NEW i \in 1..n + 1, NEW j \in 1..n + 1, i < j PROVE more[j] < more[i]
  <2>1. CASE j \in 1..n
    <3>1. i \in 1..n
      BY <1>11, <2>1
    <3>. QED BY <1>1, <1>7, <1>11, <2>1, <3>1 DEF StackInv
  <2>2. CASE j = n + 1
    <3>1. i \in 1..n
      BY <1>11, <2>2
    <3>2. CASE i = n
      BY <1>2, <1>4, <1>7, <2>2, <3>2
    <3>3. CASE i < n
      <4>1. n \in 1..n /\ t < stack[i]
        BY <1>1, <1>2, <3>1, <3>3 DEF StackInv
      <4>2. stack[i] \in Nat /\ t \in Nat /\ child \in Nat
        BY <1>2, <1>4, <1>8, <3>1
      <4>. QED BY <1>4, <1>7, <2>2, <3>1, <4>1, <4>2
    <3>. QED BY <3>1, <3>2, <3>3
  <2>. QED BY <2>1, <2>2
<1>12. ret' = Calling
  BY DEF Call
<1>13. StackInv'
  BY <1>6, <1>7, <1>9, <1>10, <1>11, <1>12 DEF StackInv, Ops, Root
<1>14. ASSUME NEW o \in Ops PROVE Waiting(o)' <=> (Waiting(o) \/ o = t)
  <2>1. Waiting(o)' <=> \E i \in 1..n + 1 : more[i] = o /\ i < n + 1
    BY <1>6, <1>7, <1>12 DEF Waiting
  <2>2. Waiting(o)' <=> \E i \in 1..n : stack[i] = o
    <3>1. \A i \in 1..n + 1 : i < n + 1 <=> i \in 1..n
      OBVIOUS
    <3>. QED BY <1>7, <2>1, <3>1
  <2>3. Waiting(o) \/ o = t <=> \E i \in 1..n : stack[i] = o
    <3>1. n \in 1..n
      OBVIOUS
    <3>2. Waiting(o) <=> \E i \in 1..n : stack[i] = o /\ (i < n \/ ret # Calling)
      BY <1>1 DEF Waiting
    <3>3. \A i \in 1..n : i < n \/ i = n
      OBVIOUS
    <3>. QED BY <1>2, <3>1, <3>2, <3>3
  <2>. QED BY <2>2, <2>3
<1>. QED BY <1>13, <1>14

(* The topmost operator returns. *)
LEMMA ReturnStack ==
    ASSUME PlanIsGiven, StackInv, stack # <<>>, UNCHANGED <<plan, stores>>,
           NEW t, t = Top, NEW b, Return(b), b # Calling,
           \A o \in Ops : o # t => phase'[o] = phase[o]
    PROVE  /\ StackInv' /\ Source' = t
           /\ \A o \in Ops : Waiting(o)' <=> (Waiting(o) /\ o # t)
<1>1. PICK n \in Nat \ {0} : n = Len(stack)
  BY TopOfStack
<1>2. t \in Ops /\ t = stack[n] /\ \A i \in 1..n : i < n => stack[i] # t
  BY <1>1, TopOfStack
<1>3. stack \in Seq(Ops)
  BY DEF StackInv
<1>4. PICK less, m : less = stack' /\ m = n - 1
  OBVIOUS
<1>5. m \in Nat /\ n = m + 1 /\ \A i \in 1..m : i \in 1..n /\ i < n
  BY <1>4
<1>6. less \in Seq(Ops) /\ Len(less) = m /\ \A i \in 1..m : less[i] = stack[i]
  BY <1>1, <1>3, <1>4 DEF Return, Front
<1>7. \A i \in 1..n : stack[i] \in Ops
  BY <1>1, <1>3, ElementOfSeq
<1>81. PICK old : old = stack
  OBVIOUS
<1>8. ASSUME NEW i \in 1..m PROVE old[i] # t /\ old[i] \in Ops /\ Awaited(old[i])' = Awaited(old[i])
  <2>1. old[i] # t /\ old[i] \in Ops
    BY <1>2, <1>5, <1>7, <1>81
  <2>2. phase'[old[i]] = phase[old[i]]
    BY <2>1
  <2>. QED BY <2>1, <2>2 DEF Awaited
<1>9. ASSUME NEW i \in 1..m PROVE plan[old[i]].kind # "scan" /\ old[i + 1] = Awaited(old[i])'
  <2>1. i \in 1..n /\ i < n
    BY <1>5
  <2>2. plan[stack[i]].kind # "scan" /\ stack[i + 1] = Awaited(stack[i])
    BY <1>1, <2>1 DEF StackInv
  <2>. QED BY <1>8, <1>81, <2>2
<1>10. ret' # Calling
  BY DEF Return
<1>11. CASE m = 0
  <2>1. less = <<>>
    BY <1>6, <1>11, EmptySeq
  <2>2. t = Root
    BY <1>1, <1>2, <1>5, <1>11 DEF StackInv
  <2>3. StackInv'
    BY <1>4, <1>6, <1>10, <1>11, <2>1 DEF StackInv, Ops
  <2>4. Source' = t
    BY <1>4, <2>1, <2>2 DEF Source, Root
  <2>5. \A o \in Ops : ~Waiting(o)'
    BY <1>4, <1>6, <1>11 DEF Waiting
  <2>6. \A o \in Ops : Waiting(o) => o = t
    <3>1. n = 1 /\ \A i \in 1..1 : i = 1
      BY <1>5, <1>11
    <3>. QED BY <1>1, <1>2, <3>1 DEF Waiting
  <2>. QED BY <2>3, <2>4, <2>5, <2>6
<1>12. CASE m # 0
  <2>1. m \in 1..m /\ less # <<>> /\ 1 \in 1..m
    BY <1>5, <1>6, <1>12
  <2>2. Top' = old[m]
    BY <1>4, <1>6, <1>81, <2>1 DEF Top, Last
  <2>3. plan[old[m]].kind # "scan" /\ t = Awaited(old[m])'
    BY <1>2, <1>5, <1>9, <1>81, <2>1
  <2>4. Source' = t
    BY <1>4, <2>1, <2>2, <2>3 DEF Source, Awaited
  <2>5. less[1] = Root
    BY <1>1, <1>5, <1>6, <2>1 DEF StackInv
  <2>6. ASSUME NEW i \in 1..m, i < m
        PROVE  plan[less[i]].kind # "scan" /\ less[i + 1] = Awaited(less[i])'
    <3>1. i + 1 \in 1..m
      BY <2>6, <1>5
    <3>. QED BY <1>6, <1>81, <1>9, <3>1
  <2>7. ASSUME NEW i \in 1..m, NEW j \in 1..m, i < j PROVE less[j] < less[i]
    BY <1>1, <1>5, <1>6, <2>7 DEF StackInv
  <2>8. plan[Top'].kind # "scan"
    BY <2>2, <2>3
  <2>9. StackInv'
    BY <1>4, <1>6, <1>10, <2>1, <2>5, <2>6, <2>7, <2>8 DEF StackInv, Ops, Root, Me
  <2>10. ASSUME NEW o \in Ops PROVE Waiting(o)' <=> (Waiting(o) /\ o # t)
    <3>1. Waiting(o)' <=> \E i \in 1..m : stack[i] = o
      BY <1>4, <1>6, <1>10 DEF Waiting
    <3>2. Waiting(o) <=> \E i \in 1..n : stack[i] = o /\ (i < n \/ ret # Calling)
      BY <1>1 DEF Waiting
    <3>3. \A i \in 1..n : i \in 1..m \/ i = n
      BY <1>5
    <3>. QED BY <1>2, <1>5, <1>8, <1>81, <3>1, <3>2, <3>3
  <2>. QED BY <2>4, <2>9, <2>10
<1>. QED BY <1>11, <1>12

-----------------------------------------------------------------------------
(* What each operator keeps, given the rows s it has returned, the width w  *)
(* of its batches, the rows in that it has worked on and their width v.     *)

ScanAt(o, s, w) ==
    /\ rg[o] \in 1..Len(Groups(o)) + 1
    /\ Near(plan[o], s, RowsUpTo(Groups(o), plan[o].cols, rg[o] - 1))
    /\ w \in {Unknown, Len(plan[o].cols)}

FilterAt(o, s, w, in, v) == s = Where(in, PassRows(plan[o].preds)) /\ w \in {Unknown, v}
ProjectAt(o, s, w, in)   == s = Evaluated(in, plan[o].exprs) /\ w \in {Unknown, Len(plan[o].exprs)}

(* Aggregates and sorts. *)
Collecting(o) == phase[o] = "new" \/ Waiting(o)
OneAnswer(o, s, w) ==
    /\ phase[o] \in {"new", "done"}
    /\ phase[o] = "new" => ~Waiting(o)
    /\ Collecting(o) => s = <<>> /\ w = Unknown
    /\ ~Collecting(o) => s \in Ans[o]

Grouping(o, in) ==
    /\ in \in Seq(Fitting(plan[o]))
    /\ states[o] = GroupsAfter(plan[o], in)
    /\ in # <<>> => inited[o]

AggregateAt(o, s, w, in) == OneAnswer(o, s, w) /\ (Collecting(o) => Grouping(o, in))
SortAt(o, s, w, in, v)   == OneAnswer(o, s, w) /\ (Collecting(o) => Kept(batches[o], in, v))

(* The build side of a join becomes one batch, its rows in any order. *)
Joining(o, s, w, left, v, right, u) ==
    /\ left \in Ans[plan[o].build]
    /\ Kept(batches[o], AllRows(batches[o]), v)
    /\ AllRows(batches[o]) \in Orderings(left)
    /\ s = Joined(AllRows(batches[o]), right, plan[o].build_key, plan[o].probe_key)
    /\ w # Unknown => batches[o] # <<>> /\ u # Unknown /\ w = v + u
JoinAt(o, s, w, left, v, right, u) ==
    /\ phase[o] \in {"new", "building", "done"}
    /\ phase[o] # "done" => s = <<>> /\ w = Unknown /\ right = <<>> /\ Kept(batches[o], left, v)
    /\ phase[o] = "done" => Joining(o, s, w, left, v, right, u)

LocalAt(o, made, taken, width) ==
    LET op == plan[o]
    IN  /\ op.kind = "scan"    => ScanAt(o, made[o], width[o])
        /\ op.kind = "filter"  => FilterAt(o, made[o], width[o], taken[op.child], width[op.child])
        /\ op.kind = "project" => ProjectAt(o, made[o], width[o], taken[op.child])
        /\ op.kind \in {"global", "hash"} => AggregateAt(o, made[o], width[o], taken[op.child])
        /\ op.kind = "sort"    => SortAt(o, made[o], width[o], taken[op.child], width[op.child])
        /\ op.kind = "join"    =>
             JoinAt(o, made[o], width[o], taken[op.build], width[op.build],
                    taken[op.probe], width[op.probe])

Typed(made, taken, width) ==
    \A o \in Ops : /\ width[o] \in Nat \cup {Unknown}
                   /\ RowsFor(width[o], made[o]) /\ RowsFor(width[o], taken[o])

(* Rows that an answer explains. *)
Explained(o, s) == \E r \in Ans[o] : Near(plan[o], s, r)

(* Only the batch that is handed over has been made and not been taken.     *)
Linked(made, taken, width) ==
    /\ ret \in {Calling, End} \/
         /\ ret.tag = "batch" /\ ret.width \in Nat /\ ret \in BatchesOf(ret.width)
         /\ width[Source] = ret.width /\ made[Source] = taken[Source] \o ret.rows
    /\ \A o \in Ops : made[o] = taken[o] \/ (ret.tag = "batch" /\ o = Source)
    /\ ret = End => Explained(Source, made[Source])

InvOf(made, taken, width) ==
    /\ StackInv
    /\ Typed(made, taken, width)
    /\ Linked(made, taken, width)
    /\ \A o \in Ops : LocalAt(o, made, taken, width)
    /\ out = taken[Root]
    /\ outcome = "done" => out \in Ans[Root]

-----------------------------------------------------------------------------
SameMemory(o) ==
    /\ rg'[o] = rg[o] /\ phase'[o] = phase[o] /\ batches'[o] = batches[o]
    /\ states'[o] = states[o] /\ inited'[o] = inited[o]

LEMMA KeptByMore ==
    ASSUME NEW bs, NEW rows, NEW v, NEW w, Kept(bs, rows, v), w = v \/ v = Unknown
    PROVE  Kept(bs, rows, w)
<1>1. CASE w = v
  BY <1>1
<1>2. CASE v = Unknown
  <2>1. bs = <<>> /\ rows = <<>>
    BY <1>2, AllRowsOfNone DEF Kept
  <2>. QED BY <2>1, KeptNothing
<1>. QED BY <1>1, <1>2

(* What the parts of LocalAt say does not change with the rest of the state. *)
LEMMA SamePlan ==
    ASSUME UNCHANGED <<plan, stores>>
    PROVE  Ops' = Ops /\ Ans' = Ans /\ Root' = Root /\ PlanIsGiven' = PlanIsGiven
BY DEF Ops, Ans, Root, PlanIsGiven

LEMMA OthersStay ==
    ASSUME PlanIsGiven, UNCHANGED <<plan, stores>>, NEW o \in Ops, SameMemory(o),
           Waiting(o)' <=> Waiting(o),
           NEW made, NEW taken, NEW width, NEW made2, NEW taken2, NEW width2,
           LocalAt(o, made, taken, width),
           made2[o] = made[o], width2[o] = width[o],
           \A c \in Children(plan[o]) :
             taken2[c] = taken[c] /\ (width2[c] = width[c] \/ width[c] = Unknown)
    PROVE  LocalAt(o, made2, taken2, width2)'
<1>1. Ans' = Ans
  BY SamePlan
<1>2. PICK op : op = plan[o] /\ op = plan'[o]
  OBVIOUS
<1>3. PICK s, w : s = made[o] /\ s = made2[o] /\ w = width[o] /\ w = width2[o]
  OBVIOUS
<1>4. OneAnswer(o, s, w)' <=> OneAnswer(o, s, w)
  BY <1>1 DEF OneAnswer, Collecting, SameMemory
<1>5. Collecting(o)' <=> Collecting(o)
  BY DEF Collecting, SameMemory
<1>6. CASE op.kind = "scan"
  <2>1. ScanAt(o, s, w)
    BY <1>2, <1>3, <1>6 DEF LocalAt
  <2>2. ScanAt(o, s, w)'
    BY <2>1 DEF ScanAt, SameMemory, Groups
  <2>. QED BY <1>2, <1>3, <1>6, <2>2 DEF LocalAt
<1>7. CASE op.kind = "join"
  <2>1. op.build \in Children(op) /\ op.probe \in Children(op)
    BY <1>7 DEF Children
  <2>2. PICK left, right, v, u, v2, u2 :
          /\ left = taken[op.build] /\ left = taken2[op.build]
          /\ right = taken[op.probe] /\ right = taken2[op.probe]
          /\ v = width[op.build] /\ v2 = width2[op.build]
          /\ u = width[op.probe] /\ u2 = width2[op.probe]
    BY <1>2, <2>1
  <2>3. (v2 = v \/ v = Unknown) /\ (u2 = u \/ u = Unknown)
    BY <1>2, <2>1, <2>2
  <2>4. JoinAt(o, s, w, left, v, right, u)
    BY <1>2, <1>3, <1>7, <2>2 DEF LocalAt
  <2>5. batches'[o] = batches[o] /\ phase'[o] = phase[o]
    BY DEF SameMemory
  <2>6. JoinAt(o, s, w, left, v2, right, u2)'
    <3>1. CASE phase[o] # "done"
      <4>1. Kept(batches[o], left, v) /\ s = <<>> /\ w = Unknown /\ right = <<>>
        BY <2>4, <3>1 DEF JoinAt
      <4>2. Kept(batches[o], left, v2)
        BY <2>3, <4>1, KeptByMore
      <4>3. PICK bs : bs = batches[o] /\ bs = batches'[o]
        BY <2>5
      <4>4. Kept(bs, left, v2)
        BY <4>2, <4>3
      <4>5. Kept(batches[o], left, v2)'
        BY <4>3, <4>4
      <4>. QED BY <2>4, <2>5, <3>1, <4>1, <4>5 DEF JoinAt
    <3>2. CASE phase[o] = "done"
      <4>1. Joining(o, s, w, left, v, right, u)
        BY <2>4, <3>2 DEF JoinAt
      <4>2. PICK bs : bs = batches[o] /\ bs = batches'[o]
        BY <2>5
      <4>3. Kept(bs, AllRows(bs), v2)
        BY <2>3, <4>1, <4>2, KeptByMore DEF Joining
      <4>4. w # Unknown => bs # <<>> /\ u2 # Unknown /\ w = v2 + u2
        <5>1. bs # <<>> => v # Unknown
          BY <4>1, <4>2 DEF Joining, Kept
        <5>. QED BY <2>3, <4>1, <4>2, <5>1 DEF Joining
      <4>5. Joining(o, s, w, left, v2, right, u2)'
        BY <1>1, <4>1, <4>2, <4>3, <4>4 DEF Joining
      <4>. QED BY <2>5, <3>2, <4>5 DEF JoinAt
    <3>. QED BY <3>1, <3>2
  <2>. QED BY <1>2, <1>3, <1>7, <2>2, <2>6 DEF LocalAt
<1>8. CASE op.kind \notin {"scan", "join"}
  <2>1. op.child \in Children(op)
    BY <1>8 DEF Children
  <2>2. PICK in, v, v2 : /\ in = taken[op.child] /\ in = taken2[op.child]
                         /\ v = width[op.child] /\ v2 = width2[op.child]
    BY <1>2, <2>1
  <2>3. v2 = v \/ v = Unknown
    BY <1>2, <2>1, <2>2
  <2>4. CASE op.kind = "filter"
    <3>1. FilterAt(o, s, w, in, v)
      BY <1>2, <1>3, <2>2, <2>4 DEF LocalAt
    <3>2. FilterAt(o, s, w, in, v2)'
      BY <2>3, <3>1 DEF FilterAt
    <3>. QED BY <1>2, <1>3, <2>2, <2>4, <3>2 DEF LocalAt
  <2>5. CASE op.kind = "project"
    <3>1. ProjectAt(o, s, w, in)
      BY <1>2, <1>3, <2>2, <2>5 DEF LocalAt
    <3>2. ProjectAt(o, s, w, in)'
      BY <3>1 DEF ProjectAt
    <3>. QED BY <1>2, <1>3, <2>2, <2>5, <3>2 DEF LocalAt
  <2>6. CASE op.kind \in {"global", "hash"}
    <3>1. AggregateAt(o, s, w, in)
      BY <1>2, <1>3, <2>2, <2>6 DEF LocalAt
    <3>2. Grouping(o, in)' <=> Grouping(o, in)
      BY DEF Grouping, SameMemory
    <3>3. AggregateAt(o, s, w, in)'
      BY <1>4, <1>5, <3>1, <3>2 DEF AggregateAt
    <3>. QED BY <1>2, <1>3, <2>2, <2>6, <3>3 DEF LocalAt
  <2>7. CASE op.kind = "sort"
    <3>1. SortAt(o, s, w, in, v)
      BY <1>2, <1>3, <2>2, <2>7 DEF LocalAt
    <3>2. PICK bs : bs = batches[o] /\ bs = batches'[o]
      BY DEF SameMemory
    <3>3. Collecting(o) => Kept(bs, in, v2)
      BY <2>3, <3>1, <3>2, KeptByMore DEF SortAt
    <3>4. SortAt(o, s, w, in, v2)'
      BY <1>4, <1>5, <3>1, <3>2, <3>3 DEF SortAt
    <3>. QED BY <1>2, <1>3, <2>2, <2>7, <3>4 DEF LocalAt
  <2>8. CASE op.kind \notin {"scan", "filter", "project", "global", "hash", "sort", "join"}
    BY <1>2, <2>8 DEF LocalAt
  <2>. QED BY <1>8, <2>4, <2>5, <2>6, <2>7, <2>8
<1>. QED BY <1>6, <1>7, <1>8

-----------------------------------------------------------------------------
(* One call or one return of the topmost operator. *)
Changed(f, t, v) == [o \in Ops |-> IF o = t THEN v ELSE f[o]]

(* A step of the topmost operator t: nobody else's memory changes. *)
StepOf(t) ==
    /\ outcome = "running" /\ stack # <<>> /\ t = Top
    /\ \A o \in Ops : o # t => SameMemory(o)
    /\ UNCHANGED <<plan, stores, out, outcome>>

LEMMA RootIsNoChild ==
    ASSUME PlanIsGiven, NEW o \in Ops
    PROVE  Root \notin Children(plan[o])
<1>1. \A child \in Children(plan[o]) : child < o
  BY PlanFacts
<1>2. Root \in Nat /\ o \in 1..Root
  BY PlanFacts
<1>. QED BY <1>1, <1>2

(* Who hands the batch over. *)
LEMMA SourceOfTop ==
    ASSUME PlanIsGiven, StackInv, stack # <<>>, ret # Calling
    PROVE  Source \in Children(Me) /\ Source \in Ops /\ Source # Root /\ Source # Top
           /\ \A o \in Ops : o # Top => Source \notin Children(plan[o])
<1>1. PICK t : t = Top
  OBVIOUS
<1>2. t \in Ops
  BY <1>1, TopOfStack
<1>3. plan[t].kind # "scan"
  BY <1>1 DEF StackInv, Me
<1>4. Source = Awaited(t)
  BY <1>1 DEF Source
<1>5. PICK c : c = Source
  OBVIOUS
<1>6. c \in Children(plan[t])
  BY <1>3, <1>4, <1>5, AwaitedIsChild
<1>7. c \in Ops /\ c < t /\ Ops \subseteq Nat
  BY <1>2, <1>6, PlanFacts
<1>8. c # t /\ c # Root
  BY <1>2, <1>6, <1>7, RootIsNoChild
<1>9. ASSUME NEW o \in Ops, o # t PROVE c \notin Children(plan[o])
  <2>1. Children(plan[t]) \cap Children(plan[o]) = {}
    BY <1>2, <1>9, PlanFacts
  <2>. QED BY <1>6, <2>1
<1>. QED BY <1>1, <1>5, <1>6, <1>7, <1>8, <1>9 DEF Me

(* Everything but what the topmost operator is handed has been taken. *)
LEMMA OnlyTopTakes ==
    ASSUME PlanIsGiven, NEW made, NEW taken, NEW width, InvOf(made, taken, width), stack # <<>>
    PROVE  /\ made[Root] = taken[Root]
           /\ \A o \in Ops : o # Top => \A c \in Children(plan[o]) : made[c] = taken[c]
           /\ ret.tag # "batch" => \A o \in Ops : made[o] = taken[o]
<1>1. StackInv /\ Root \in Ops
  BY PlanFacts DEF InvOf
<1>2. \A o \in Ops : made[o] = taken[o] \/ (ret.tag = "batch" /\ o = Source)
  BY DEF InvOf, Linked
<1>3. ret.tag = "batch" => ret # Calling
  BY DEF Calling
<1>4. CASE ret.tag # "batch"
  <2>1. \A o \in Ops : Children(plan[o]) \subseteq Ops
    BY PlanFacts
  <2>. QED BY <1>1, <1>2, <1>4, <2>1
<1>5. CASE ret.tag = "batch"
  <2>1. Source # Root /\ \A o \in Ops : o # Top => Source \notin Children(plan[o])
    BY <1>1, <1>3, <1>5, SourceOfTop
  <2>2. \A o \in Ops : Children(plan[o]) \subseteq Ops
    BY PlanFacts
  <2>3. ASSUME NEW o \in Ops, o # Top, NEW c \in Children(plan[o]) PROVE made[c] = taken[c]
    <3>1. c # Source /\ c \in Ops
      BY <2>1, <2>2, <2>3
    <3>. QED BY <1>2, <3>1
  <2>4. made[Root] = taken[Root]
    BY <1>1, <1>2, <2>1
  <2>. QED BY <1>5, <2>3, <2>4
<1>. QED BY <1>4, <1>5

(* What the others keep, and what is printed. *)
LEMMA AfterStep ==
    ASSUME PlanIsGiven, NEW made, NEW taken, NEW width, InvOf(made, taken, width),
           NEW t, StepOf(t), NEW made2, NEW width2,
           \A o \in Ops : o # t => made2[o] = made[o] /\ width2[o] = width[o],
           width2[t] = width[t] \/ width[t] = Unknown,
           \A o \in Ops : o # t => (Waiting(o)' <=> Waiting(o)),
           LocalAt(t, made2, made, width2)'
    PROVE  /\ \A o \in Ops' : LocalAt(o, made2, made, width2)'
           /\ out' = made[Root']
           /\ outcome' = "done" => out' \in Ans'[Root']
<1>1. UNCHANGED <<plan, stores, out, outcome>> /\ outcome = "running" /\ t = Top /\ stack # <<>>
  BY DEF StepOf
<1>2. Ops' = Ops /\ Root' = Root
  BY <1>1, SamePlan
<1>3. ASSUME NEW o \in Ops, o # t PROVE LocalAt(o, made2, made, width2)'
  <2>1. SameMemory(o) /\ (Waiting(o)' <=> Waiting(o))
    BY <1>3 DEF StepOf
  <2>2. LocalAt(o, made, taken, width)
    BY DEF InvOf
  <2>3. \A c \in Children(plan[o]) : c \in Ops
    BY PlanFacts
  <2>4. \A c \in Children(plan[o]) : made[c] = taken[c]
    BY <1>1, <1>3, OnlyTopTakes
  <2>5. \A c \in Children(plan[o]) : width2[c] = width[c] \/ width[c] = Unknown
    BY <2>3
  <2>6. made2[o] = made[o] /\ width2[o] = width[o]
    BY <1>3
  <2>7. UNCHANGED <<plan, stores>>
    BY <1>1
  <2>. QED BY <2>1, <2>2, <2>4, <2>5, <2>6, <2>7, OthersStay
<1>4. out' = made[Root']
  BY <1>1, <1>2, OnlyTopTakes DEF InvOf
<1>. QED BY <1>1, <1>2, <1>3, <1>4

LEMMA MoveCall ==
    ASSUME PlanIsGiven, NEW made, NEW taken, NEW width, InvOf(made, taken, width),
           NEW t, StepOf(t), plan[t].kind # "scan", NEW child, Call(child), child = Awaited(t)',
           LocalAt(t, made, made, width)'
    PROVE  InvOf(made, made, width)'
<1>1. UNCHANGED <<plan, stores, out, outcome>> /\ t = Top /\ stack # <<>>
  BY DEF StepOf
<1>2. Ops' = Ops /\ Root' = Root
  BY <1>1, SamePlan
<1>3. StackInv
  BY DEF InvOf
<1>4. \A o \in Ops : o # t => phase'[o] = phase[o]
  BY DEF StepOf, SameMemory
<1>5. StackInv' /\ \A o \in Ops : Waiting(o)' <=> (Waiting(o) \/ o = t)
  BY <1>1, <1>3, <1>4, CallStack
<1>6. /\ \A o \in Ops' : LocalAt(o, made, made, width)'
      /\ out' = made[Root'] /\ (outcome' = "done" => out' \in Ans'[Root'])
  BY <1>5, AfterStep
<1>7. Typed(made, made, width)'
  BY <1>2 DEF InvOf, Typed
<1>8. ret' = Calling
  BY DEF Call
<1>9. Linked(made, made, width)'
  BY <1>8 DEF Linked, Calling, End
<1>. QED BY <1>5, <1>6, <1>7, <1>9 DEF InvOf

LEMMA MoveEnd ==
    ASSUME PlanIsGiven, NEW made, NEW taken, NEW width, InvOf(made, taken, width),
           NEW t, StepOf(t), Return(End), Explained(t, made[t]),
           LocalAt(t, made, made, width)'
    PROVE  InvOf(made, made, width)'
<1>1. UNCHANGED <<plan, stores, out, outcome>> /\ t = Top /\ stack # <<>>
  BY DEF StepOf
<1>2. Ops' = Ops /\ Root' = Root /\ Ans' = Ans
  BY <1>1, SamePlan
<1>3. StackInv
  BY DEF InvOf
<1>4. \A o \in Ops : o # t => phase'[o] = phase[o]
  BY DEF StepOf, SameMemory
<1>5. End # Calling
  BY DEF End, Calling
<1>6. StackInv' /\ Source' = t /\ \A o \in Ops : Waiting(o)' <=> (Waiting(o) /\ o # t)
  BY <1>1, <1>3, <1>4, <1>5, ReturnStack
<1>7. /\ \A o \in Ops' : LocalAt(o, made, made, width)'
      /\ out' = made[Root'] /\ (outcome' = "done" => out' \in Ans'[Root'])
  BY <1>6, AfterStep
<1>8. Typed(made, made, width)'
  BY <1>2 DEF InvOf, Typed
<1>9. ret' = End
  BY DEF Return
<1>10. Explained(t, made[t])'
  BY <1>1, <1>2 DEF Explained
<1>11. Linked(made, made, width)'
  <2>1. Explained(Source, made[Source])'
    BY <1>6, <1>10 DEF Explained
  <2>. QED BY <1>9, <2>1 DEF Linked
<1>. QED BY <1>6, <1>7, <1>8, <1>11 DEF InvOf

(* A batch of the width of all before it. *)
LEMMA TypedReturn ==
    ASSUME NEW v \in Nat \cup {Unknown}, NEW w \in Nat, v \in {Unknown, w},
           NEW s, RowsFor(v, s), NEW rows \in Seq(Line(w))
    PROVE  RowsFor(w, s \o rows) /\ RowsFor(w, s)
<1>1. w # Unknown
  BY DEF Unknown
<1>2. s \in Seq(Line(w))
  BY EmptySeq DEF RowsFor
<1>3. s \o rows \in Seq(Line(w))
  BY <1>2, ConcatProperties
<1>. QED BY <1>1, <1>2, <1>3 DEF RowsFor

LEMMA MoveBatch ==
    ASSUME PlanIsGiven, NEW made, NEW taken, NEW width, InvOf(made, taken, width),
           NEW t, StepOf(t), NEW w \in Nat, NEW rows \in Seq(Line(w)), Return(Batch(w, rows)),
           width[t] \in {Unknown, w},
           NEW made2, made2 = Changed(made, t, made[t] \o rows),
           NEW width2, width2 = Changed(width, t, w),
           LocalAt(t, made2, made, width2)'
    PROVE  InvOf(made2, made, width2)'
<1>1. UNCHANGED <<plan, stores, out, outcome>> /\ t = Top /\ stack # <<>>
  BY DEF StepOf
<1>2. Ops' = Ops /\ Root' = Root /\ Ans' = Ans
  BY <1>1, SamePlan
<1>3. StackInv
  BY DEF InvOf
<1>4. \A o \in Ops : o # t => phase'[o] = phase[o]
  BY DEF StepOf, SameMemory
<1>5. PICK b : b = Batch(w, rows) /\ b = ret'
  BY DEF Return
<1>6. b.tag = "batch" /\ b.width = w /\ b.rows = rows /\ b \in BatchesOf(w) /\ b # Calling /\ b # End
  BY <1>5 DEF Batch, BatchesOf, Calling, End
<1>7. t \in Ops
  BY <1>1, <1>3, TopOfStack
<1>8. StackInv' /\ Source' = t /\ \A o \in Ops : Waiting(o)' <=> (Waiting(o) /\ o # t)
  BY <1>1, <1>3, <1>4, <1>5, <1>6, ReturnStack
<1>9. /\ made2[t] = made[t] \o rows /\ width2[t] = w
      /\ \A o \in Ops : o # t => made2[o] = made[o] /\ width2[o] = width[o]
  BY <1>7 DEF Changed
<1>10. width2[t] = width[t] \/ width[t] = Unknown
  BY <1>9
<1>11. /\ \A o \in Ops' : LocalAt(o, made2, made, width2)'
       /\ out' = made[Root'] /\ (outcome' = "done" => out' \in Ans'[Root'])
  BY <1>8, <1>9, <1>10, AfterStep
<1>12. ASSUME NEW o \in Ops
       PROVE  width2[o] \in Nat \cup {Unknown} /\ RowsFor(width2[o], made2[o]) /\ RowsFor(width2[o], made[o])
  <2>1. width[o] \in Nat \cup {Unknown} /\ RowsFor(width[o], made[o])
    BY DEF InvOf, Typed
  <2>2. CASE o = t
    <3>1. PICK v, s : v = width[t] /\ s = made[t]
      OBVIOUS
    <3>2. RowsFor(w, s \o rows) /\ RowsFor(w, s)
      BY <2>1, <2>2, <3>1, TypedReturn
    <3>. QED BY <1>9, <2>2, <3>1, <3>2
  <2>3. CASE o # t
    BY <1>9, <2>1, <2>3
  <2>. QED BY <2>2, <2>3
<1>13. Typed(made2, made, width2)'
  BY <1>2, <1>12 DEF Typed
<1>14. Linked(made2, made, width2)'
  <2>1. /\ ret'.tag = "batch" /\ ret'.width \in Nat /\ ret' \in BatchesOf(ret'.width) /\ ret' # End
        /\ width2[Source'] = ret'.width /\ made2[Source'] = made[Source'] \o ret'.rows
    BY <1>5, <1>6, <1>8, <1>9
  <2>2. \A o \in Ops' : made2[o] = made[o] \/ (ret'.tag = "batch" /\ o = Source')
    BY <1>2, <1>8, <1>9, <2>1
  <2>. QED BY <2>1, <2>2 DEF Linked
<1>. QED BY <1>8, <1>11, <1>13, <1>14 DEF InvOf

-----------------------------------------------------------------------------
SomeInv == \E made, taken, width : InvOf(made, taken, width)

Memories ==
    /\ DOMAIN rg = Ops /\ DOMAIN phase = Ops /\ DOMAIN batches = Ops
    /\ DOMAIN states = Ops /\ DOMAIN inited = Ops

ScanStep   == SkipGroup \/ ReadGroup \/ ScanEnd
PassStep   == AskChild \/ FilterBatch \/ ProjectBatch \/ PassEnd
GatherStep == Consume \/ AggregateBatch \/ AggregateResult \/ SortBatch \/ SortResult
JoinStep   == JoinBuild \/ JoinBuildBatch \/ JoinBuilt \/ JoinProbe \/ JoinBatch \/ JoinEnd

LEMMA TopSteps ==
    ASSUME Memories, ScanStep \/ PassStep \/ GatherStep \/ JoinStep
    PROVE  StepOf(Top)
<1>. USE DEF StepOf, SameMemory, Memories, memory, Silent, Called, Ended, Handed, Active
<1>1. CASE ScanStep
  BY <1>1 DEF ScanStep, SkipGroup, ReadGroup, ScanEnd
<1>2. CASE PassStep
  BY <1>2 DEF PassStep, AskChild, FilterBatch, ProjectBatch, PassEnd
<1>3. CASE Consume
  BY <1>3 DEF Consume
<1>4. CASE AggregateBatch
  BY <1>4 DEF AggregateBatch
<1>5. CASE AggregateResult \/ SortBatch \/ SortResult
  BY <1>5 DEF AggregateResult, SortBatch, SortResult, Keep
<1>6. CASE JoinBuild
  BY <1>6 DEF JoinBuild
<1>7. CASE JoinBuildBatch
  BY <1>7 DEF JoinBuildBatch, Keep
<1>8. CASE JoinBuilt
  BY <1>8 DEF JoinBuilt
<1>9. CASE JoinProbe \/ JoinBatch \/ JoinEnd
  BY <1>9 DEF JoinProbe, JoinBatch, JoinEnd
<1>. QED BY <1>1, <1>2, <1>3, <1>4, <1>5, <1>6, <1>7, <1>8, <1>9 DEF GatherStep, JoinStep

(* A batch is handed to the topmost operator by the child it waits for. *)
Handing(t, c, rows, n, made, taken, width) ==
    /\ t \in Ops /\ c \in Ops /\ c # t /\ c \in Children(plan[t])
    /\ n \in Nat /\ width[c] = n
    /\ rows \in Seq(Line(n)) /\ taken[c] \in Seq(Line(n))
    /\ made[c] = taken[c] \o rows
    /\ \A o \in Ops : o # c => made[o] = taken[o]

LEMMA HandedOver ==
    ASSUME PlanIsGiven, NEW made, NEW taken, NEW width, InvOf(made, taken, width),
           NEW t, t = Top, stack # <<>>, ret.tag = "batch", NEW c, c = Awaited(t)
    PROVE  Handing(t, c, ret.rows, ret.width, made, taken, width)
<1>1. StackInv /\ ret # Calling /\ ret # End
  BY DEF InvOf, Calling, End
<1>2. t \in Ops /\ c = Source
  BY <1>1, TopOfStack DEF Source
<1>3. c \in Children(plan[t]) /\ c \in Ops /\ c # t
  BY <1>1, <1>2, SourceOfTop DEF Me
<1>4. /\ ret.width \in Nat /\ ret \in BatchesOf(ret.width)
      /\ width[c] = ret.width /\ made[c] = taken[c] \o ret.rows
      /\ \A o \in Ops : o # c => made[o] = taken[o]
  BY <1>1, <1>2 DEF InvOf, Linked
<1>5. ret.rows \in Seq(Line(ret.width))
  BY <1>4 DEF BatchesOf
<1>6. RowsFor(ret.width, taken[c]) /\ ret.width # Unknown
  BY <1>3, <1>4 DEF InvOf, Typed, Unknown
<1>7. taken[c] \in Seq(Line(ret.width))
  BY <1>6 DEF RowsFor
<1>. QED BY <1>2, <1>3, <1>4, <1>5, <1>7 DEF Handing

(* A child that has answered End has returned all it was to return. *)
LEMMA HasEnded ==
    ASSUME PlanIsGiven, NEW made, NEW taken, NEW width, InvOf(made, taken, width),
           NEW t, t = Top, stack # <<>>, ret = End, NEW c, c = Awaited(t)
    PROVE  /\ t \in Ops /\ c \in Ops /\ c # t /\ c \in Children(plan[t])
           /\ \A o \in Ops : made[o] = taken[o]
           /\ Explained(c, made[c])
           /\ plan[t].kind # "filter" => made[c] \in Ans[c]
<1>1. StackInv /\ ret # Calling /\ ret.tag # "batch"
  BY DEF InvOf, Calling, End
<1>2. t \in Ops /\ c = Source
  BY <1>1, TopOfStack DEF Source
<1>3. c \in Children(plan[t]) /\ c \in Ops /\ c # t
  BY <1>1, <1>2, SourceOfTop DEF Me
<1>4. \A o \in Ops : made[o] = taken[o]
  BY <1>1, OnlyTopTakes
<1>5. Explained(c, made[c])
  BY <1>2 DEF InvOf, Linked
<1>6. ASSUME plan[t].kind # "filter" PROVE made[c] \in Ans[c]
  <2>1. ~Skips(plan[c])
    <3>1. Skips(plan[c]) => FilteredBy(plan[t], plan[c])
      BY <1>2, <1>3, PlanFacts
    <3>. QED BY <1>6, <3>1 DEF FilteredBy
  <2>. QED BY <1>5, <2>1 DEF Explained, Near
<1>. QED BY <1>2, <1>3, <1>4, <1>5, <1>6

LEMMA IsCalled ==
    ASSUME PlanIsGiven, NEW made, NEW taken, NEW width, InvOf(made, taken, width),
           NEW t, t = Top, stack # <<>>, ret = Calling
    PROVE  t \in Ops /\ (\A o \in Ops : made[o] = taken[o]) /\ ~Waiting(t)
<1>1. StackInv /\ ret.tag # "batch"
  BY DEF InvOf, Calling
<1>. QED BY <1>1, TopOfStack, OnlyTopTakes

(* The rows an operator has returned are rows. *)
LEMMA TypedRows ==
    ASSUME NEW made, NEW taken, NEW width, Typed(made, taken, width), NEW o \in Ops
    PROVE  /\ width[o] \in Nat \cup {Unknown} /\ RowsFor(width[o], made[o])
           /\ made[o] \in Seq(Row) /\ taken[o] \in Seq(Row)
BY RowsForAreRows DEF Typed

-----------------------------------------------------------------------------
(* Scan. *)
LEMMA ScanAtTop ==
    ASSUME PlanIsGiven, NEW made, NEW taken, NEW width, InvOf(made, taken, width),
           NEW t, t = Top, Called({"scan"}), NEW k, k = rg[t], NEW n, n = Len(Groups(t)),
           NEW cols, cols = plan[t].cols, NEW w, w = Len(cols)
    PROVE  /\ t \in Ops /\ plan[t].kind = "scan" /\ StoreFits(Groups(t), cols) /\ ScanOK(plan[t], stores)
           /\ w \in Nat /\ n \in Nat /\ k \in 1..n + 1 /\ width[t] \in {Unknown, w}
           /\ made[t] \in Seq(Row) /\ Near(plan[t], made[t], RowsUpTo(Groups(t), cols, k - 1))
           /\ \A i \in 0..n : RowsUpTo(Groups(t), cols, i) \in Seq(Row)
<1>1. t \in Ops /\ plan[t].kind = "scan"
  BY IsCalled DEF Called, Active, Me
<1>2. StoreFits(Groups(t), cols) /\ ScanOK(plan[t], stores)
  BY <1>1, ScanFacts
<1>3. w \in Nat
  BY <1>2 DEF StoreFits
<1>4. ScanAt(t, made[t], width[t])
  BY <1>1 DEF InvOf, LocalAt
<1>5. n \in Nat /\ \A i \in 0..n : RowsUpTo(Groups(t), cols, i) \in Seq(Line(w))
  BY <1>2, StoreRowsGrow
<1>6. Seq(Line(w)) \subseteq Seq(Row)
  BY <1>3, LinesAreRows, SeqMonotonic
<1>7. made[t] \in Seq(Row)
  BY <1>1, TypedRows DEF InvOf
<1>. QED BY <1>1, <1>2, <1>3, <1>4, <1>5, <1>6, <1>7 DEF ScanAt

LEMMA DoReadGroup ==
    ASSUME PlanIsGiven, Memories, NEW made, NEW taken, NEW width, InvOf(made, taken, width), ReadGroup
    PROVE  SomeInv'
<1>1. PICK t, k, n, cols, w, groups, g :
        /\ t = Top /\ k = rg[t] /\ groups = Groups(t) /\ n = Len(groups)
        /\ cols = plan[t].cols /\ w = Len(cols) /\ g = groups[k]
  OBVIOUS
<1>2. StepOf(t)
  BY <1>1, TopSteps DEF ScanStep
<1>3. Called({"scan"})
  BY DEF ReadGroup
<1>4. /\ t \in Ops /\ plan[t].kind = "scan" /\ StoreFits(groups, cols)
      /\ w \in Nat /\ n \in Nat /\ k \in 1..n + 1 /\ width[t] \in {Unknown, w}
      /\ made[t] \in Seq(Row) /\ Near(plan[t], made[t], RowsUpTo(groups, cols, k - 1))
      /\ \A i \in 0..n : RowsUpTo(groups, cols, i) \in Seq(Row)
  BY <1>1, <1>3, ScanAtTop
<1>5. k \in 1..n
  BY <1>1, <1>4 DEF ReadGroup
<1>6. g.rows \in Seq(Seq(Int)) /\ PickedRows(g, cols) \in Seq(Line(w))
  BY <1>1, <1>4, <1>5 DEF StoreFits, Elements
<1>7. PICK rows \in Seq(Line(w)) : rows = PickedRows(g, cols)
  BY <1>6
<1>8. DOMAIN g.rows = 1..Len(g.rows)
  BY <1>6, LenProperties
<1>9. Return(Batch(w, rows)) /\ rg' = [rg EXCEPT ![t] = k + 1]
  BY <1>1, <1>7, <1>8 DEF ReadGroup, PickedRows, Group, Me
<1>10. RowsUpTo(groups, cols, k) = RowsUpTo(groups, cols, k - 1) \o rows
  <2>1. \A i \in 1..n : RowsUpTo(groups, cols, i) = RowsUpTo(groups, cols, i - 1) \o PickedRows(groups[i], cols)
    <3>1. n = Len(groups)
      BY <1>1
    <3>2. StoreFits(groups, cols)
      BY <1>4
    <3>. QED BY <3>1, <3>2, StoreRowsGrow
  <2>. QED BY <1>1, <1>5, <1>7, <2>1
<1>11. Near(plan[t], made[t] \o rows, RowsUpTo(groups, cols, k))
  <2>1. rows \in Seq(Row)
    BY <1>4, LinesAreRows, SeqMonotonic
  <2>2. RowsUpTo(groups, cols, k - 1) \in Seq(Row)
    BY <1>4, <1>5
  <2>. QED BY <1>4, <1>10, <2>1, <2>2, NearWithMore
<1>12. PICK made2, width2 : made2 = Changed(made, t, made[t] \o rows) /\ width2 = Changed(width, t, w)
  OBVIOUS
<1>13. made2[t] = made[t] \o rows /\ width2[t] = w
  BY <1>4, <1>12 DEF Changed
<1>14. UNCHANGED <<plan, stores>>
  BY <1>2 DEF StepOf
<1>15. rg'[t] = k + 1
  BY <1>4, <1>9 DEF Memories
<1>16. PICK op : op = plan[t] /\ op = plan'[t]
  BY <1>14
<1>17. PICK s : s = made[t] \o rows
  OBVIOUS
<1>18. k + 1 \in 1..n + 1 /\ (k + 1) - 1 = k
  BY <1>4, <1>5
<1>19. ScanAt(t, s, w)'
  BY <1>1, <1>11, <1>14, <1>15, <1>16, <1>17, <1>18 DEF ScanAt, Groups
<1>20. LocalAt(t, made2, made, width2)'
  BY <1>4, <1>13, <1>14, <1>17, <1>19 DEF LocalAt
<1>21. InvOf(made2, made, width2)'
  BY <1>2, <1>4, <1>9, <1>12, <1>20, MoveBatch
<1>. QED BY <1>21 DEF SomeInv

(* What range_can_match rejects, apply_cmp rejects for every value between  *)
(* the bounds: the two switch statements of expression.hpp agree.           *)
THEOREM RangeCanMatchSound ==
    ASSUME NEW op \in CompareOp, NEW v \in Int, NEW mn \in Int, NEW mx \in Int,
           NEW x \in Int, mn <= x, x <= mx, apply_cmp(x, op, v)
    PROVE  range_can_match(op, v, mn, mx)
BY DEF CompareOp, apply_cmp, range_can_match

(* And it rejects no more than it must, for every operator: a group it      *)
(* keeps has a value between its bounds that passes.                        *)
THEOREM RangeCanMatchTight ==
    ASSUME NEW op \in CompareOp, NEW v \in Int, NEW mn \in Int, NEW mx \in Int,
           mn <= mx, range_can_match(op, v, mn, mx)
    PROVE  \E x \in mn..mx : apply_cmp(x, op, v)
<1>1. CASE op = "Eq"
  BY <1>1 DEF apply_cmp, range_can_match
<1>2. CASE op # "Eq"
  <2>1. apply_cmp(mn, op, v) \/ apply_cmp(mx, op, v)
    BY <1>2 DEF CompareOp, apply_cmp, range_can_match
  <2>. QED BY <2>1
<1>. QED BY <1>1, <1>2

(* A group the footer's bounds rule out has no row that passes. *)
LEMMA RuledOutGroupHoldsNoMatch ==
    ASSUME PlanIsGiven, NEW o \in Ops, plan[o].kind = "scan",
           NEW g \in 1..Len(Groups(o)), CannotMatch(plan[o].skip, Groups(o)[g])
    PROVE  \A i \in DOMAIN Groups(o)[g].rows :
             ~apply_cmp(Groups(o)[g].rows[i][plan[o].skip.col], plan[o].skip.op,
                        plan[o].skip.value)
<1>1. PICK c \in Cases : plan = c.plan /\ stores = c.stores
  BY DEF PlanIsGiven
<1>2. PICK group, skip, groups, n :
        groups = Groups(o) /\ group = groups[g] /\ skip = plan[o].skip /\ n = Len(groups)
  OBVIOUS
<1>3. ScanOK(plan[o], stores)
  BY ScanFacts
<1>4. /\ plan[o].store \in DOMAIN stores
      /\ skip.op \in CompareOp /\ skip.value \in Int
      /\ skip.col # 0 => \A h \in DOMAIN groups : skip.col \in DOMAIN groups[h].mn
  BY <1>2, <1>3 DEF ScanOK, Groups
<1>5. groups = [h \in 1..n |-> groups[h]] /\ n \in Nat
  BY <1>1, <1>2, <1>4, CasesAssumption DEF Groups
<1>6. g \in DOMAIN groups
  BY <1>2, <1>5
<1>7. StatsSound(group)
  BY <1>1, <1>2, <1>4, <1>6, CasesAssumption DEF Groups
<1>8. /\ skip.col \in DOMAIN group.mn
      /\ ~range_can_match(skip.op, skip.value, group.mn[skip.col], group.mx[skip.col])
  BY <1>2, <1>4, <1>6 DEF CannotMatch
<1>9. ASSUME NEW i \in DOMAIN group.rows, apply_cmp(group.rows[i][skip.col], skip.op, skip.value)
      PROVE  FALSE
  <2>1. /\ group.rows[i][skip.col] \in Int
        /\ group.mn[skip.col] \in Int /\ group.mx[skip.col] \in Int
        /\ group.mn[skip.col] <= group.rows[i][skip.col]
        /\ group.rows[i][skip.col] <= group.mx[skip.col]
    BY <1>7, <1>8 DEF StatsSound
  <2>. QED BY <1>4, <1>8, <1>9, <2>1, RangeCanMatchSound
<1>. QED BY <1>2, <1>9

LEMMA DoSkipGroup ==
    ASSUME PlanIsGiven, Memories, NEW made, NEW taken, NEW width, InvOf(made, taken, width), SkipGroup
    PROVE  SomeInv'
<1>1. PICK t, k, n, cols, w, groups, g, skip :
        /\ t = Top /\ k = rg[t] /\ groups = Groups(t) /\ n = Len(groups)
        /\ cols = plan[t].cols /\ w = Len(cols) /\ g = groups[k] /\ skip = plan[t].skip
  OBVIOUS
<1>2. StepOf(t)
  BY <1>1, TopSteps DEF ScanStep
<1>3. Called({"scan"})
  BY DEF SkipGroup
<1>4. /\ t \in Ops /\ plan[t].kind = "scan" /\ StoreFits(groups, cols) /\ ScanOK(plan[t], stores)
      /\ w \in Nat /\ n \in Nat /\ k \in 1..n + 1 /\ width[t] \in {Unknown, w}
      /\ made[t] \in Seq(Row) /\ Near(plan[t], made[t], RowsUpTo(groups, cols, k - 1))
      /\ \A i \in 0..n : RowsUpTo(groups, cols, i) \in Seq(Row)
  BY <1>1, <1>3, ScanAtTop
<1>5. k \in 1..n /\ CannotMatch(skip, g)
  BY <1>1, <1>4 DEF SkipGroup, Group, Me
<1>6. g.rows \in Seq(Seq(Int)) /\ PickedRows(g, cols) \in Seq(Line(w))
  BY <1>1, <1>4, <1>5 DEF StoreFits, Elements
<1>7. PICK rows \in Seq(Line(w)) : rows = PickedRows(g, cols)
  BY <1>6
<1>8. PICK m \in Nat : m = Len(g.rows) /\ DOMAIN g.rows = 1..m
  BY <1>6, LenProperties
<1>9. Len(rows) = m /\ \A i \in 1..m : rows[i] = Pick(g.rows[i], cols)
  BY <1>7, <1>8 DEF PickedRows
<1>10. RowsUpTo(groups, cols, k) = RowsUpTo(groups, cols, k - 1) \o rows
  <2>1. \A i \in 1..n : RowsUpTo(groups, cols, i) = RowsUpTo(groups, cols, i - 1) \o PickedRows(groups[i], cols)
    <3>1. n = Len(groups)
      BY <1>1
    <3>2. StoreFits(groups, cols)
      BY <1>4
    <3>. QED BY <3>1, <3>2, StoreRowsGrow
  <2>. QED BY <1>1, <1>5, <1>7, <2>1
<1>11. Skips(plan[t])
  BY <1>1, <1>4, <1>5 DEF Skips, CannotMatch
<1>12. \A i \in 1..m : ~apply_cmp(g.rows[i][skip.col], skip.op, skip.value)
  BY <1>1, <1>4, <1>5, <1>8, RuledOutGroupHoldsNoMatch
<1>13. ASSUME NEW keep, Useful(plan[t], keep), NEW i \in 1..Len(rows) PROVE rows[i] \notin keep
  <2>1. PICK p \in DOMAIN cols :
          cols[p] = skip.col /\ \A row \in keep : apply_cmp(row[p], skip.op, skip.value)
    BY <1>1, <1>13 DEF Useful
  <2>2. DOMAIN cols = 1..w
    <3>1. cols \in Seq(ColumnId)
      BY <1>1, <1>4 DEF ScanOK
    <3>. QED BY <1>1, <3>1, LenProperties
  <2>3. rows[i][p] = g.rows[i][skip.col]
    BY <1>1, <1>9, <2>1, <2>2 DEF Pick
  <2>. QED BY <1>9, <1>12, <2>1, <2>3
<1>14. Near(plan[t], made[t], RowsUpTo(groups, cols, k))
  <2>1. rows \in Seq(Row)
    BY <1>4, LinesAreRows, SeqMonotonic
  <2>2. RowsUpTo(groups, cols, k - 1) \in Seq(Row)
    BY <1>4, <1>5
  <2>. QED BY <1>4, <1>10, <1>11, <1>13, <2>1, <2>2, NearWithoutMore
<1>15. UNCHANGED <<plan, stores, stack, ret, out, outcome>> /\ Ops' = Ops
  BY DEF SkipGroup, Ops
<1>16. rg'[t] = k + 1
  BY <1>1, <1>4 DEF Memories, SkipGroup
<1>17. k + 1 \in 1..n + 1 /\ (k + 1) - 1 = k
  BY <1>4, <1>5
<1>18. PICK s, v : s = made[t] /\ v = width[t]
  OBVIOUS
<1>19. ScanAt(t, s, v)'
  BY <1>1, <1>4, <1>14, <1>15, <1>16, <1>17, <1>18 DEF ScanAt, Groups
<1>20. LocalAt(t, made, made, width)'
  BY <1>4, <1>15, <1>18, <1>19 DEF LocalAt
<1>21. \A o \in Ops : Waiting(o)' <=> Waiting(o)
  BY <1>15 DEF Waiting
<1>22. /\ \A o \in Ops' : LocalAt(o, made, made, width)'
       /\ out' = made[Root'] /\ (outcome' = "done" => out' \in Ans'[Root'])
  BY <1>2, <1>20, <1>21, AfterStep
<1>23. StackInv'
  <2>1. StackInv
    BY DEF InvOf
  <2>2. \A o \in Ops : Awaited(o)' = Awaited(o)
    BY <1>15 DEF Awaited, SkipGroup
  <2>3. phase' = phase
    BY DEF SkipGroup
  <2>. QED BY <1>15, <2>1, <2>3 DEF StackInv, Root, Me, Top, Awaited
<1>24. Typed(made, made, width)'
  BY <1>15 DEF InvOf, Typed
<1>25. ret' = Calling
  BY <1>15 DEF SkipGroup, Called
<1>26. Linked(made, made, width)'
  BY <1>25 DEF Linked, Calling, End
<1>27. InvOf(made, made, width)'
  BY <1>22, <1>23, <1>24, <1>26 DEF InvOf
<1>. QED BY <1>27 DEF SomeInv

LEMMA DoScanEnd ==
    ASSUME PlanIsGiven, Memories, NEW made, NEW taken, NEW width, InvOf(made, taken, width), ScanEnd
    PROVE  SomeInv'
<1>1. PICK t, k, n, cols, w, groups, op :
        /\ t = Top /\ k = rg[t] /\ groups = Groups(t) /\ n = Len(groups)
        /\ op = plan[t] /\ cols = op.cols /\ w = Len(cols)
  OBVIOUS
<1>2. StepOf(t)
  BY <1>1, TopSteps DEF ScanStep
<1>3. Called({"scan"})
  BY DEF ScanEnd
<1>4. /\ t \in Ops /\ op.kind = "scan" /\ StoreFits(groups, cols)
      /\ w \in Nat /\ n \in Nat /\ k \in 1..n + 1 /\ width[t] \in {Unknown, w}
      /\ made[t] \in Seq(Row) /\ Near(op, made[t], RowsUpTo(groups, cols, k - 1))
  BY <1>1, <1>3, ScanAtTop
<1>5. k - 1 = n
  BY <1>1, <1>4 DEF ScanEnd
<1>6. RowsUpTo(groups, cols, n) = Scanned(groups, cols)
  <2>1. n = Len(groups)
    BY <1>1
  <2>2. StoreFits(groups, cols)
    BY <1>4
  <2>. QED BY <2>1, <2>2, StoreRowsGrow
<1>7. Scanned(groups, cols) \in Ans[t]
  <2>1. PICK X, sts, A : X = Ans[t] /\ sts = stores /\ A = Ans
    OBVIOUS
  <2>2. X = AnswersBy(op, sts, A)
    BY <1>1, <1>4, <2>1, AnswerFacts
  <2>3. X = {Scanned(sts[op.store], op.cols)}
    BY <1>4, <2>2, AnswersByKind
  <2>. QED BY <1>1, <2>1, <2>3 DEF Groups
<1>8. Explained(t, made[t])
  BY <1>1, <1>4, <1>5, <1>6, <1>7 DEF Explained
<1>9. UNCHANGED <<plan, stores, rg>>
  BY DEF ScanEnd, Silent, memory
<1>10. PICK s, v : s = made[t] /\ v = width[t]
  OBVIOUS
<1>11. ScanAt(t, s, v)'
  BY <1>1, <1>4, <1>9, <1>10 DEF ScanAt, Groups
<1>12. LocalAt(t, made, made, width)'
  BY <1>1, <1>4, <1>9, <1>10, <1>11 DEF LocalAt
<1>13. Return(End)
  BY DEF ScanEnd
<1>14. InvOf(made, made, width)'
  BY <1>2, <1>8, <1>12, <1>13, MoveEnd
<1>. QED BY <1>14 DEF SomeInv

-----------------------------------------------------------------------------
(* Filters and projections. *)
LEMMA DoAskChild ==
    ASSUME PlanIsGiven, Memories, NEW made, NEW taken, NEW width, InvOf(made, taken, width), AskChild
    PROVE  SomeInv'
<1>1. PICK t, op, c : t = Top /\ op = plan[t] /\ c = op.child
  OBVIOUS
<1>2. StepOf(t)
  BY <1>1, TopSteps DEF PassStep
<1>3. /\ op.kind \in {"filter", "project"} /\ stack # <<>> /\ ret = Calling
      /\ Call(c) /\ UNCHANGED <<plan, stores>>
  BY <1>1 DEF AskChild, Called, Active, Me, Silent
<1>4. t \in Ops /\ \A o \in Ops : made[o] = taken[o]
  BY <1>1, <1>3, IsCalled
<1>5. c \in Ops
  <2>1. c \in Children(plan[t])
    BY <1>1, <1>3 DEF Children
  <2>. QED BY <1>4, <2>1, PlanFacts
<1>6. LocalAt(t, made, taken, width)
  BY <1>4 DEF InvOf
<1>7. PICK s, w, in, v : s = made[t] /\ w = width[t] /\ in = made[c] /\ v = width[c] /\ in = taken[c]
  BY <1>4, <1>5
<1>8. LocalAt(t, made, made, width)'
  <2>1. CASE op.kind = "filter"
    <3>1. FilterAt(t, s, w, in, v)
      BY <1>1, <1>6, <1>7, <2>1 DEF LocalAt
    <3>2. FilterAt(t, s, w, in, v)'
      BY <1>3, <3>1 DEF FilterAt
    <3>. QED BY <1>1, <1>3, <1>7, <2>1, <3>2 DEF LocalAt
  <2>2. CASE op.kind = "project"
    <3>1. ProjectAt(t, s, w, in)
      BY <1>1, <1>6, <1>7, <2>2 DEF LocalAt
    <3>2. ProjectAt(t, s, w, in)'
      BY <1>3, <3>1 DEF ProjectAt
    <3>. QED BY <1>1, <1>3, <1>7, <2>2, <3>2 DEF LocalAt
  <2>. QED BY <1>3, <2>1, <2>2
<1>9. c = Awaited(t)'
  BY <1>1, <1>3 DEF Awaited
<1>10. InvOf(made, made, width)'
  BY <1>1, <1>2, <1>3, <1>8, <1>9, MoveCall
<1>. QED BY <1>10 DEF SomeInv

LEMMA DoFilterBatch ==
    ASSUME PlanIsGiven, Memories, NEW made, NEW taken, NEW width, InvOf(made, taken, width), FilterBatch
    PROVE  SomeInv'
<1>1. PICK t, op, c, rows, n, pass, sel :
        /\ t = Top /\ op = plan[t] /\ c = op.child /\ rows = ret.rows /\ n = ret.width
        /\ pass = PassRows(op.preds) /\ sel = Where(rows, Passing(rows, op.preds))
  OBVIOUS
<1>2. StepOf(t)
  BY <1>1, TopSteps DEF PassStep
<1>3. /\ op.kind = "filter" /\ stack # <<>> /\ ret.tag = "batch" /\ UNCHANGED <<plan, stores>>
      /\ sel = <<>> => Call(c)
      /\ sel # <<>> => Return(Batch(n, sel))
  BY <1>1 DEF FilterBatch, Handed, Active, Me, Silent
<1>4. c = Awaited(t) /\ c = Awaited(t)'
  BY <1>1, <1>3 DEF Awaited
<1>5. /\ t \in Ops /\ c \in Ops /\ c # t
      /\ n \in Nat /\ width[c] = n
      /\ rows \in Seq(Line(n)) /\ taken[c] \in Seq(Line(n))
      /\ made[c] = taken[c] \o rows /\ \A o \in Ops : o # c => made[o] = taken[o]
  <2>1. t = Top /\ c = Awaited(t) /\ stack # <<>> /\ ret.tag = "batch"
    BY <1>1, <1>3, <1>4
  <2>2. Handing(t, c, rows, n, made, taken, width)
    BY <1>1, <2>1, HandedOver
  <2>. QED BY <2>2 DEF Handing
<1>6. FilterAt(t, made[t], width[t], taken[c], n)
  BY <1>1, <1>3, <1>5 DEF InvOf, LocalAt
<1>7. sel = Where(rows, pass) /\ sel \in Seq(Line(n))
  <2>1. rows \in Seq(Row)
    BY <1>5, LinesAreRows, SeqMonotonic
  <2>2. sel = Where(rows, pass)
    BY <1>1, <2>1, PassingIsPassRows
  <2>. QED BY <1>5, <2>2, WhereType
<1>8. made[t] \o sel = Where(made[c], pass)
  <2>1. Where(taken[c] \o rows, pass) = Where(taken[c], pass) \o Where(rows, pass)
    BY <1>5, WhereConcat
  <2>. QED BY <1>1, <1>5, <1>6, <1>7, <2>1 DEF FilterAt
<1>9. CASE sel = <<>>
  <2>1. made[t] = Where(made[c], pass)
    <3>1. made[t] \in Seq(Row)
      BY <1>5, TypedRows DEF InvOf
    <3>. QED BY <1>8, <1>9, <3>1, ConcatEmptySeq
  <2>2. PICK s, w, in : s = made[t] /\ w = width[t] /\ in = made[c]
    OBVIOUS
  <2>3. FilterAt(t, s, w, in, n)'
    BY <1>1, <1>3, <1>6, <2>1, <2>2 DEF FilterAt
  <2>4. LocalAt(t, made, made, width)'
    BY <1>1, <1>3, <1>5, <2>2, <2>3 DEF LocalAt
  <2>5. InvOf(made, made, width)'
    BY <1>1, <1>2, <1>3, <1>4, <1>9, <2>4, MoveCall
  <2>. QED BY <2>5 DEF SomeInv
<1>10. CASE sel # <<>>
  <2>1. PICK made2, width2 : made2 = Changed(made, t, made[t] \o sel) /\ width2 = Changed(width, t, n)
    OBVIOUS
  <2>2. made2[t] = made[t] \o sel /\ width2[t] = n /\ width2[c] = n
    BY <1>5, <2>1 DEF Changed
  <2>3. PICK s, in : s = made2[t] /\ in = made[c]
    OBVIOUS
  <2>4. FilterAt(t, s, n, in, n)'
    BY <1>1, <1>3, <1>8, <2>2, <2>3 DEF FilterAt
  <2>5. LocalAt(t, made2, made, width2)'
    BY <1>1, <1>3, <2>2, <2>3, <2>4 DEF LocalAt
  <2>6. width[t] \in {Unknown, n}
    BY <1>6 DEF FilterAt
  <2>7. InvOf(made2, made, width2)'
    BY <1>2, <1>3, <1>5, <1>7, <1>10, <2>1, <2>5, <2>6, MoveBatch
  <2>. QED BY <2>7 DEF SomeInv
<1>. QED BY <1>9, <1>10

(* A projection of rows that have the columns it reads. *)
LEMMA WholeQuotient ==
    ASSUME NEW v \in Int
    PROVE  Quotient(v, 60) \in Int /\ Remainder(v, 60) \in Int
<1>1. Magnitude(v) \in Nat /\ Magnitude(60) = 60
  BY DEF Magnitude
<1>2. Magnitude(v) \div 60 \in Int
  BY <1>1
<1>3. Quotient(v, 60) \in Int
  BY <1>1, <1>2 DEF Quotient
<1>. QED BY <1>3 DEF Remainder

LEMMA EvaluatedLine ==
    ASSUME NEW n \in Nat, NEW row \in Line(n), NEW e, ExprOK(e), ColumnsOf(e) \subseteq 1..n
    PROVE  Eval(row, e) \in Int
<1>1. e.f # "lit" => e.col \in 1..n /\ row[e.col] \in Int
  BY DEF ExprOK, ColumnsOf, ColumnId, Line
<1>2. CASE e.f = "case"
  BY <1>1, <1>2 DEF Eval
<1>3. CASE e.f \in {"col", "lit", "add", "sub"}
  BY <1>1, <1>3 DEF Eval, ExprOK
<1>4. CASE e.f = "length"
  <2>1. StringLength(row[e.col]) \in Int
    BY DEF StringLength
  <2>. QED BY <1>4, <2>1 DEF Eval
<1>5. CASE e.f = "minute"
  <2>1. Remainder(Quotient(row[e.col], 60), 60) \in Int
    BY <1>1, <1>5, WholeQuotient
  <2>. QED BY <1>5, <2>1 DEF Eval
<1>6. CASE e.f = "trunc"
  <2>1. Remainder(row[e.col], 60) \in Int
    BY <1>1, <1>6, WholeQuotient
  <2>. QED BY <1>1, <1>6, <2>1 DEF Eval
<1>. QED BY <1>2, <1>3, <1>4, <1>5, <1>6 DEF ExprOK

LEMMA EvaluatedLines ==
    ASSUME NEW n \in Nat, NEW rows \in Seq(Line(n)), NEW exprs, NEW m \in Nat, m = Len(exprs),
           \A c \in 1..m : ExprOK(exprs[c]) /\ ColumnsOf(exprs[c]) \subseteq 1..n
    PROVE  Evaluated(rows, exprs) \in Seq(Line(m))
<1>1. PICK k \in Nat : k = Len(rows) /\ DOMAIN rows = 1..k
  BY LenProperties
<1>2. \A i \in 1..k : rows[i] \in Line(n)
  BY <1>1, ElementOfSeq
<1>3. \A i \in 1..k : [c \in 1..m |-> Eval(rows[i], exprs[c])] \in Line(m)
  BY <1>2, EvaluatedLine DEF Line
<1>4. Evaluated(rows, exprs) = [i \in 1..k |-> [c \in 1..m |-> Eval(rows[i], exprs[c])]]
  BY <1>1 DEF Evaluated
<1>. QED BY <1>3, <1>4

LEMMA DoProjectBatch ==
    ASSUME PlanIsGiven, Memories, NEW made, NEW taken, NEW width, InvOf(made, taken, width), ProjectBatch
    PROVE  SomeInv'
<1>1. PICK t, op, c, rows, n, exprs, m, sel :
        /\ t = Top /\ op = plan[t] /\ c = op.child /\ rows = ret.rows /\ n = ret.width
        /\ exprs = op.exprs /\ m = Len(exprs) /\ sel = Evaluated(rows, exprs)
  OBVIOUS
<1>2. StepOf(t)
  BY <1>1, TopSteps DEF PassStep
<1>3. /\ op.kind = "project" /\ stack # <<>> /\ ret.tag = "batch" /\ UNCHANGED <<plan, stores>>
      /\ Return(Batch(m, sel)) /\ Touched(t, ret) \subseteq 1..n
  BY <1>1 DEF ProjectBatch, Handed, Active, Me, Silent
<1>4. c = Awaited(t)
  BY <1>1, <1>3 DEF Awaited
<1>5. /\ t \in Ops /\ c \in Ops /\ c # t /\ n \in Nat
      /\ rows \in Seq(Line(n)) /\ taken[c] \in Seq(Line(n)) /\ made[c] = taken[c] \o rows
  <2>1. t = Top /\ c = Awaited(t) /\ stack # <<>> /\ ret.tag = "batch"
    BY <1>1, <1>3, <1>4
  <2>2. Handing(t, c, rows, n, made, taken, width)
    BY <1>1, <2>1, HandedOver
  <2>. QED BY <2>2 DEF Handing
<1>6. ProjectAt(t, made[t], width[t], taken[c])
  BY <1>1, <1>3, <1>5 DEF InvOf, LocalAt
<1>7. m \in Nat /\ DOMAIN exprs = 1..m /\ \A x \in 1..m : ExprOK(exprs[x])
  BY <1>1, <1>3, <1>5, PlanFacts DEF OperatorOK
<1>8. \A x \in 1..m : ColumnsOf(exprs[x]) \subseteq 1..n
  <2>1. Touched(t, ret) = UNION {ColumnsOf(e) : e \in Range(exprs)}
    BY <1>1, <1>3 DEF Touched
  <2>2. \A x \in 1..m : exprs[x] \in Range(exprs)
    BY <1>7 DEF Range
  <2>. QED BY <1>3, <2>1, <2>2
<1>9. sel \in Seq(Line(m))
  BY <1>1, <1>5, <1>7, <1>8, EvaluatedLines
<1>10. made[t] \o sel = Evaluated(made[c], exprs)
  <2>1. PICK R, before : R = Line(n) /\ before = taken[c]
    OBVIOUS
  <2>2. before \in Seq(R) /\ rows \in Seq(R)
    BY <1>5, <2>1
  <2>3. Evaluated(before \o rows, exprs) = Evaluated(before, exprs) \o Evaluated(rows, exprs)
    BY <2>2, EvaluatedConcat
  <2>. QED BY <1>1, <1>5, <1>6, <2>1, <2>3 DEF ProjectAt
<1>11. PICK made2, width2 : made2 = Changed(made, t, made[t] \o sel) /\ width2 = Changed(width, t, m)
  OBVIOUS
<1>12. made2[t] = made[t] \o sel /\ width2[t] = m
  BY <1>5, <1>11 DEF Changed
<1>13. PICK s, in : s = made2[t] /\ in = made[c]
  OBVIOUS
<1>14. ProjectAt(t, s, m, in)'
  BY <1>1, <1>3, <1>10, <1>12, <1>13 DEF ProjectAt
<1>15. LocalAt(t, made2, made, width2)'
  BY <1>1, <1>3, <1>12, <1>13, <1>14 DEF LocalAt
<1>16. width[t] \in {Unknown, m}
  BY <1>1, <1>6 DEF ProjectAt
<1>17. InvOf(made2, made, width2)'
  BY <1>2, <1>3, <1>7, <1>9, <1>11, <1>15, <1>16, MoveBatch
<1>. QED BY <1>17 DEF SomeInv

LEMMA DoPassEnd ==
    ASSUME PlanIsGiven, Memories, NEW made, NEW taken, NEW width, InvOf(made, taken, width), PassEnd
    PROVE  SomeInv'
<1>1. PICK t, op, c : t = Top /\ op = plan[t] /\ c = op.child
  OBVIOUS
<1>2. StepOf(t)
  BY <1>1, TopSteps DEF PassStep
<1>3. /\ op.kind \in {"filter", "project"} /\ stack # <<>> /\ ret = End
      /\ Return(End) /\ UNCHANGED <<plan, stores>>
  BY <1>1 DEF PassEnd, Ended, Active, Me, Silent
<1>4. c = Awaited(t)
  BY <1>1, <1>3 DEF Awaited
<1>5. /\ t \in Ops /\ c \in Ops /\ c \in Children(plan[t]) /\ \A o \in Ops : made[o] = taken[o]
      /\ Explained(c, made[c]) /\ (op.kind # "filter" => made[c] \in Ans[c])
  BY <1>1, <1>3, <1>4, HasEnded
<1>6. LocalAt(t, made, taken, width)
  BY <1>5 DEF InvOf
<1>7. PICK s, w, in, v : s = made[t] /\ w = width[t] /\ in = made[c] /\ v = width[c] /\ in = taken[c]
  BY <1>5
<1>8. PICK X, sts, A : X = Ans[t] /\ sts = stores /\ A = Ans
  OBVIOUS
<1>9. X = AnswersBy(op, sts, A)
  BY <1>1, <1>5, <1>8, AnswerFacts
<1>10. CASE op.kind = "filter"
  <2>1. FilterAt(t, s, w, in, v)
    BY <1>1, <1>6, <1>7, <1>10 DEF LocalAt
  <2>2. FilterAt(t, s, w, in, v)'
    BY <1>3, <2>1 DEF FilterAt
  <2>3. LocalAt(t, made, made, width)'
    BY <1>1, <1>3, <1>7, <1>10, <2>2 DEF LocalAt
  <2>4. X = {Where(rows, Passing(rows, op.preds)) : rows \in A[op.child]}
    BY <1>9, <1>10, AnswersByKind
  <2>5. PICK r \in Ans[c] : Near(plan[c], in, r)
    BY <1>5, <1>7 DEF Explained
  <2>6. r \in Seq(Row) /\ Where(in, PassRows(op.preds)) = Where(r, PassRows(op.preds))
    <3>1. CASE Skips(plan[c])
      <4>1. FilteredBy(op, plan[c])
        BY <1>1, <1>5, <3>1, PlanFacts
      <4>2. plan[c].kind = "scan"
        BY <3>1 DEF Skips
      <4>3. StoreFits(Groups(c), plan[c].cols) /\ plan[c].skip.op \in CompareOp
        BY <1>5, <4>2, ScanFacts DEF ScanOK
      <4>4. Useful(plan[c], PassRows(op.preds))
        BY <4>1, <4>3, FilterIsUseful
      <4>5. r = Scanned(Groups(c), plan[c].cols)
        <5>1. PICK Y, d : Y = Ans[c] /\ d = plan[c]
          OBVIOUS
        <5>2. Y = AnswersBy(d, sts, A)
          BY <1>5, <1>8, <5>1, AnswerFacts
        <5>3. Y = {Scanned(sts[d.store], d.cols)}
          BY <4>2, <5>1, <5>2, AnswersByKind
        <5>. QED BY <1>8, <2>5, <5>1, <5>3 DEF Groups
      <4>6. Scanned(Groups(c), plan[c].cols) \in Seq(Row)
        <5>1. PICK groups, cols, n, l :
                groups = Groups(c) /\ cols = plan[c].cols /\ n = Len(groups) /\ l = Len(cols)
          OBVIOUS
        <5>2. StoreFits(groups, cols)
          BY <4>3, <5>1
        <5>3. /\ n \in Nat /\ RowsUpTo(groups, cols, n) = Scanned(groups, cols)
              /\ \A k \in 0..n : RowsUpTo(groups, cols, k) \in Seq(Line(l))
          BY <5>1, <5>2, StoreRowsGrow
        <5>4. l \in Nat
          BY <5>1, <5>2 DEF StoreFits
        <5>5. n \in 0..n
          BY <5>3
        <5>6. Scanned(groups, cols) \in Seq(Line(l))
          BY <5>3, <5>5
        <5>. QED BY <5>1, <5>4, <5>6, LinesAreRows, SeqMonotonic
      <4>. QED BY <2>5, <3>1, <4>4, <4>5, <4>6 DEF Near
    <3>2. CASE ~Skips(plan[c])
      <4>1. in \in Seq(Row)
        BY <1>5, <1>7, TypedRows DEF InvOf
      <4>. QED BY <2>5, <3>2, <4>1 DEF Near
    <3>. QED BY <3>1, <3>2
  <2>7. s = Where(r, Passing(r, op.preds))
    <3>1. Where(r, Passing(r, op.preds)) = Where(r, PassRows(op.preds))
      BY <2>6, PassingIsPassRows
    <3>. QED BY <1>1, <2>1, <2>6, <3>1 DEF FilterAt
  <2>8. s \in Ans[t]
    BY <1>1, <1>8, <2>4, <2>5, <2>7
  <2>9. Explained(t, made[t])
    BY <1>7, <2>8, NearItself DEF Explained
  <2>10. InvOf(made, made, width)'
    BY <1>2, <1>3, <2>3, <2>9, MoveEnd
  <2>. QED BY <2>10 DEF SomeInv
<1>11. CASE op.kind = "project"
  <2>1. ProjectAt(t, s, w, in)
    BY <1>1, <1>6, <1>7, <1>11 DEF LocalAt
  <2>2. ProjectAt(t, s, w, in)'
    BY <1>3, <2>1 DEF ProjectAt
  <2>3. LocalAt(t, made, made, width)'
    BY <1>1, <1>3, <1>7, <1>11, <2>2 DEF LocalAt
  <2>4. X = {Evaluated(rows, op.exprs) : rows \in A[op.child]}
    BY <1>9, <1>11, AnswersByKind
  <2>5. s \in Ans[t]
    BY <1>1, <1>5, <1>7, <1>8, <1>11, <2>1, <2>4 DEF ProjectAt
  <2>6. Explained(t, made[t])
    BY <1>7, <2>5, NearItself DEF Explained
  <2>7. InvOf(made, made, width)'
    BY <1>2, <1>3, <2>3, <2>6, MoveEnd
  <2>. QED BY <2>7 DEF SomeInv
<1>. QED BY <1>3, <1>10, <1>11

-----------------------------------------------------------------------------
(* Aggregates and sorts. *)
LEMMA CallWaits ==
    ASSUME PlanIsGiven, NEW made, NEW taken, NEW width, InvOf(made, taken, width),
           NEW t, StepOf(t), plan[t].kind # "scan", NEW child, Call(child), child = Awaited(t)'
    PROVE  Waiting(t)'
<1>1. UNCHANGED <<plan, stores>> /\ t = Top /\ stack # <<>> /\ StackInv
  BY DEF StepOf, InvOf
<1>2. \A o \in Ops : o # t => phase'[o] = phase[o]
  BY DEF StepOf, SameMemory
<1>3. \A o \in Ops : Waiting(o)' <=> (Waiting(o) \/ o = t)
  BY <1>1, <1>2, CallStack
<1>4. t \in Ops
  BY <1>1, TopOfStack
<1>. QED BY <1>3, <1>4

LEMMA ReturnStops ==
    ASSUME PlanIsGiven, NEW made, NEW taken, NEW width, InvOf(made, taken, width),
           NEW t, StepOf(t), NEW b, Return(b), b # Calling
    PROVE  ~Waiting(t)'
<1>1. UNCHANGED <<plan, stores>> /\ t = Top /\ stack # <<>> /\ StackInv
  BY DEF StepOf, InvOf
<1>2. \A o \in Ops : o # t => phase'[o] = phase[o]
  BY DEF StepOf, SameMemory
<1>3. \A o \in Ops : Waiting(o)' <=> (Waiting(o) /\ o # t)
  BY <1>1, <1>2, ReturnStack
<1>4. t \in Ops
  BY <1>1, TopOfStack
<1>. QED BY <1>3, <1>4

LEMMA TopWaits ==
    ASSUME PlanIsGiven, NEW made, NEW taken, NEW width, InvOf(made, taken, width),
           NEW t, t = Top, stack # <<>>, ret # Calling
    PROVE  Waiting(t)
<1>1. StackInv
  BY DEF InvOf
<1>. QED BY <1>1, TopOfStack

LEMMA NotCalling ==
    /\ End # Calling
    /\ ret.tag = "batch" => ret # Calling /\ ret # End
    /\ \A w, rows : Batch(w, rows) # Calling
BY DEF Calling, End, Batch

LEMMA DoConsume ==
    ASSUME PlanIsGiven, Memories, NEW made, NEW taken, NEW width, InvOf(made, taken, width), Consume
    PROVE  SomeInv'
<1>1. PICK t, op, c : t = Top /\ op = plan[t] /\ c = op.child
  OBVIOUS
<1>2. StepOf(t)
  BY <1>1, TopSteps DEF GatherStep
<1>3. /\ op.kind \in {"global", "hash", "sort"} /\ stack # <<>> /\ ret = Calling
      /\ UNCHANGED <<plan, stores, batches, states, inited>>
      /\ phase[t] = "new" => phase' = [phase EXCEPT ![t] = "done"] /\ Call(c)
      /\ phase[t] # "new" => phase' = phase /\ Return(End)
  BY <1>1 DEF Consume, Called, Active, Me, Silent
<1>4. t \in Ops /\ ~Waiting(t) /\ \A o \in Ops : made[o] = taken[o]
  BY <1>1, <1>3, IsCalled
<1>5. c \in Ops
  <2>1. c \in Children(plan[t])
    BY <1>1, <1>3 DEF Children
  <2>. QED BY <1>4, <2>1, PlanFacts
<1>6. LocalAt(t, made, taken, width)
  BY <1>4 DEF InvOf
<1>7. PICK s, w, in, v : s = made[t] /\ w = width[t] /\ in = made[c] /\ v = width[c] /\ in = taken[c]
  BY <1>4, <1>5
<1>8. /\ op.kind # "sort" => AggregateAt(t, s, w, in)
      /\ op.kind = "sort" => SortAt(t, s, w, in, v)
  BY <1>1, <1>3, <1>6, <1>7 DEF LocalAt
<1>9. OneAnswer(t, s, w)
  BY <1>8 DEF AggregateAt, SortAt
<1>10. Ans' = Ans
  BY <1>3, SamePlan
<1>11. ASSUME OneAnswer(t, s, w)', Collecting(t)' => Collecting(t)
       PROVE  LocalAt(t, made, made, width)'
  <2>1. CASE op.kind # "sort"
    <3>1. Grouping(t, in)' <=> Grouping(t, in)
      BY <1>3 DEF Grouping
    <3>2. AggregateAt(t, s, w, in)'
      BY <1>8, <1>11, <2>1, <3>1 DEF AggregateAt
    <3>. QED BY <1>1, <1>3, <1>7, <2>1, <3>2 DEF LocalAt
  <2>2. CASE op.kind = "sort"
    <3>1. PICK bs : bs = batches[t] /\ bs = batches'[t]
      BY <1>3
    <3>2. Collecting(t)' => Kept(bs, in, v)
      BY <1>8, <1>11, <2>2, <3>1 DEF SortAt
    <3>3. SortAt(t, s, w, in, v)'
      BY <1>11, <3>1, <3>2 DEF SortAt
    <3>. QED BY <1>1, <1>3, <1>7, <2>2, <3>3 DEF LocalAt
  <2>. QED BY <2>1, <2>2
<1>12. CASE phase[t] = "new"
  <2>1. c = Awaited(t)' /\ Call(c) /\ plan[t].kind # "scan"
    BY <1>1, <1>3, <1>12 DEF Awaited
  <2>2. Waiting(t)'
    BY <1>2, <2>1, CallWaits
  <2>3. phase'[t] = "done"
    BY <1>3, <1>4, <1>12 DEF Memories
  <2>4. Collecting(t)
    BY <1>12 DEF Collecting
  <2>5. Collecting(t)'
    BY <2>2 DEF Collecting
  <2>6. OneAnswer(t, s, w)'
    BY <1>9, <2>2, <2>3, <2>4, <2>5 DEF OneAnswer
  <2>7. InvOf(made, made, width)'
    BY <1>2, <1>11, <2>1, <2>4, <2>6, MoveCall
  <2>. QED BY <2>7 DEF SomeInv
<1>13. CASE phase[t] # "new"
  <2>1. Return(End) /\ phase' = phase
    BY <1>3, <1>13
  <2>2. ~Waiting(t)'
    BY <1>2, <2>1, ReturnStops, NotCalling
  <2>3. ~Collecting(t)
    BY <1>4, <1>13 DEF Collecting
  <2>4. ~Collecting(t)'
    BY <1>13, <2>1, <2>2 DEF Collecting
  <2>5. OneAnswer(t, s, w)'
    BY <1>9, <1>10, <1>13, <2>1, <2>3, <2>4 DEF OneAnswer
  <2>6. Explained(t, made[t])
    BY <1>7, <1>9, <2>3, NearItself DEF OneAnswer, Explained
  <2>7. InvOf(made, made, width)'
    BY <1>2, <1>11, <2>1, <2>4, <2>5, <2>6, MoveEnd
  <2>. QED BY <2>7 DEF SomeInv
<1>. QED BY <1>12, <1>13

(* The rows an aggregate is handed have the columns it works on. *)
AggregateOK(op) ==
    /\ op.kind \in {"global", "hash"}
    /\ op.cols \in Seq(ColumnId) /\ (op.kind = "global" => op.cols = <<>>)
    /\ op.specs \in Seq([kind : AggKind, col : ColumnId])

LEMMA AggregateFits ==
    ASSUME NEW op, AggregateOK(op)
    PROVE  SpecsFit(op, Fitting(op)) /\ DOMAIN op.specs = 1..Len(op.specs) /\ Len(op.specs) \in Nat
<1>1. Len(op.specs) \in Nat /\ DOMAIN op.specs = 1..Len(op.specs)
  BY LenProperties DEF AggregateOK
<1>2. ASSUME NEW s \in DOMAIN op.specs PROVE SpecFits(op.specs[s], Fitting(op))
  <2>1. op.specs[s] \in [kind : AggKind, col : ColumnId]
    BY <1>1, <1>2, ElementOfSeq DEF AggregateOK
  <2>2. ASSUME op.specs[s].kind # "CountStar", NEW row \in Fitting(op)
        PROVE  row[op.specs[s].col] \in Int
    <3>1. op.specs[s].col \in Reckoned(op)
      BY <1>2, <2>2 DEF Reckoned, AggregateOK
    <3>2. row \in Seq(Int) /\ op.specs[s].col \in DOMAIN row
      BY <2>2, <3>1 DEF Fitting, Needed, Row
    <3>. QED BY <3>2, ElementOfSeq, LenProperties
  <2>. QED BY <2>1, <2>2 DEF SpecFits, Numeric
<1>. QED BY <1>1, <1>2 DEF SpecsFit

LEMMA HandedRowsFit ==
    ASSUME NEW t, t \in Ops, AggregateOK(plan[t]), ret.width \in Nat, ret.rows \in Seq(Line(ret.width)),
           Touched(t, ret) \subseteq 1..ret.width
    PROVE  ret.rows \in Seq(Fitting(plan[t]))
<1>1. PICK op, rows, n : op = plan[t] /\ rows = ret.rows /\ n = ret.width
  OBVIOUS
<1>2. CASE rows = <<>>
  BY <1>1, <1>2, EmptySeq
<1>3. CASE rows # <<>>
  <2>1. Needed(op) \subseteq 1..n
    <3>1. Needed(op) = Range(op.cols) \cup
             {op.specs[s].col : s \in {x \in DOMAIN op.specs : op.specs[x].kind # "CountStar"}}
      BY <1>1 DEF Needed, Reckoned, AggregateOK
    <3>2. op.kind = "global" => Range(op.cols) = {}
      BY <1>1, RangeOfNone DEF AggregateOK
    <3>3. Needed(op) = Touched(t, ret)
      BY <1>1, <1>3, <3>1, <3>2 DEF Touched, AggregateOK
    <3>. QED BY <1>1, <3>3
  <2>2. Line(n) \subseteq Fitting(op)
    <3>1. \A row \in Line(n) : DOMAIN row = 1..n
      BY DEF Line
    <3>2. Line(n) \subseteq Row
      BY <1>1, LinesAreRows
    <3>. QED BY <2>1, <3>1, <3>2 DEF Fitting
  <2>. QED BY <1>1, <2>2, SeqMonotonic
<1>. QED BY <1>2, <1>3

LEMMA DoAggregateBatch ==
    ASSUME PlanIsGiven, Memories, NEW made, NEW taken, NEW width, InvOf(made, taken, width), AggregateBatch
    PROVE  SomeInv'
<1>1. PICK t, op, c, rows, n, before :
        /\ t = Top /\ op = plan[t] /\ c = op.child /\ rows = ret.rows /\ n = ret.width /\ before = states[t]
  OBVIOUS
<1>2. StepOf(t)
  BY <1>1, TopSteps DEF GatherStep
<1>3. /\ op.kind \in {"global", "hash"} /\ stack # <<>> /\ ret.tag = "batch" /\ UNCHANGED <<plan, stores, phase>>
      /\ Call(c) /\ Touched(t, ret) \subseteq 1..n
      /\ states' = [states EXCEPT ![t] = WithBatch(op, before, rows)]
      /\ inited' = [inited EXCEPT ![t] = TRUE]
  BY <1>1 DEF AggregateBatch, Handed, Active, Me, Silent
<1>4. c = Awaited(t) /\ c = Awaited(t)' /\ plan[t].kind # "scan"
  BY <1>1, <1>3 DEF Awaited
<1>5. Handing(t, c, rows, n, made, taken, width)
  <2>1. t = Top /\ c = Awaited(t) /\ stack # <<>> /\ ret.tag = "batch"
    BY <1>1, <1>3, <1>4
  <2>. QED BY <1>1, <2>1, HandedOver
<1>6. t \in Ops /\ rows \in Seq(Line(n)) /\ n \in Nat /\ made[c] = taken[c] \o rows
  BY <1>5 DEF Handing
<1>7. AggregateOK(op)
  BY <1>1, <1>3, <1>6, EmptySeq, PlanFacts DEF OperatorOK, AggregateOK
<1>8. PICK s, w, in, more : s = made[t] /\ w = width[t] /\ in = taken[c] /\ more = made[c]
  OBVIOUS
<1>9. AggregateAt(t, s, w, in)
  BY <1>1, <1>3, <1>6, <1>8 DEF InvOf, LocalAt
<1>10. Waiting(t)
  BY <1>1, <1>3, TopWaits, NotCalling
<1>11. Collecting(t) /\ phase[t] = "done" /\ s = <<>> /\ w = Unknown /\ Grouping(t, in)
  BY <1>9, <1>10 DEF AggregateAt, OneAnswer, Collecting
<1>12. rows \in Seq(Fitting(op)) /\ in \in Seq(Fitting(op)) /\ before = GroupsAfter(op, in)
  <2>1. ret.width \in Nat /\ ret.rows \in Seq(Line(ret.width)) /\ Touched(t, ret) \subseteq 1..ret.width
    BY <1>1, <1>3, <1>6
  <2>2. ret.rows \in Seq(Fitting(plan[t]))
    BY <1>1, <1>6, <1>7, <2>1, HandedRowsFit
  <2>. QED BY <1>1, <1>11, <2>2 DEF Grouping
<1>13. more \in Seq(Fitting(op)) /\ WithBatch(op, before, rows) = GroupsAfter(op, more)
  <2>1. SpecsFit(op, Fitting(op))
    BY <1>7, AggregateFits
  <2>2. WithBatch(op, GroupsAfter(op, in), rows) = GroupsAfter(op, in \o rows)
    BY <1>12, <2>1, GroupsGrow
  <2>3. in \o rows \in Seq(Fitting(op))
    BY <1>12, ConcatProperties
  <2>. QED BY <1>6, <1>8, <1>12, <2>2, <2>3
<1>14. Grouping(t, more)'
  BY <1>1, <1>3, <1>6, <1>13 DEF Grouping, Memories
<1>15. Waiting(t)'
  BY <1>2, <1>3, <1>4, CallWaits
<1>16. OneAnswer(t, s, w)'
  BY <1>3, <1>11, <1>15 DEF OneAnswer, Collecting
<1>17. AggregateAt(t, s, w, more)'
  BY <1>14, <1>16 DEF AggregateAt
<1>18. LocalAt(t, made, made, width)'
  BY <1>1, <1>3, <1>8, <1>17 DEF LocalAt
<1>19. InvOf(made, made, width)'
  BY <1>2, <1>3, <1>4, <1>18, MoveCall
<1>. QED BY <1>19 DEF SomeInv

(* The rows of an aggregate's answer. *)
LEMMA AggregateLines ==
    ASSUME NEW op, AggregateOK(op), NEW rows \in Seq(Fitting(op)), AllWithinBounds(op, rows),
           NEW w, NEW ready \in BOOLEAN, rows # <<>> => ready,
           w = (IF ready THEN Len(op.cols) ELSE 0) + Len(op.specs)
    PROVE  w \in Nat /\ Grouped(rows, op.cols, op.specs) \in Seq(Line(w))
<1>1. SpecsFit(op, Fitting(op)) /\ DOMAIN op.specs = 1..Len(op.specs) /\ Len(op.specs) \in Nat
  BY AggregateFits
<1>2. PICK n \in Nat, p \in Nat : n = Len(op.cols) /\ p = Len(op.specs) /\ DOMAIN op.cols = 1..n
  BY <1>1, LenProperties DEF AggregateOK
<1>3. op.cols = <<>> => n = 0
  BY <1>2
<1>4. w \in Nat
  <2>1. CASE ready
    <3>1. PICK k \in Nat : k = n + p
      OBVIOUS
    <3>2. w = k
      BY <1>2, <2>1, <3>1
    <3>. QED BY <3>2
  <2>2. CASE ~ready
    <3>1. PICK k \in Nat : k = 0 + p
      OBVIOUS
    <3>2. w = k
      BY <1>2, <2>2, <3>1
    <3>. QED BY <3>2
  <2>. QED BY <2>1, <2>2
<1>5. CASE ready \/ n = 0
  <2>1. w = n + p
    BY <1>2, <1>5
  <2>2. ASSUME NEW row \in Fitting(op) PROVE Pick(row, op.cols) \in [1..n -> Int]
    <3>1. row \in Seq(Int) /\ Range(op.cols) \subseteq DOMAIN row
      BY <2>2 DEF Fitting, Needed, Row
    <3>2. \A i \in 1..n : op.cols[i] \in DOMAIN row
      BY <1>2, <3>1 DEF Range
    <3>3. \A i \in 1..n : row[op.cols[i]] \in Int
      BY <3>1, <3>2, LenProperties, ElementOfSeq
    <3>. QED BY <1>2, <3>3 DEF Pick
  <2>3. PICK R : R = Fitting(op)
    OBVIOUS
  <2>4. \A row \in R : Pick(row, op.cols) \in [1..n -> Int]
    BY <2>2, <2>3
  <2>5. SpecsFit(op, R) /\ rows \in Seq(R)
    BY <1>1, <2>3
  <2>6. Grouped(rows, op.cols, op.specs) \in Seq([1..n + p -> Int])
    BY <1>1, <1>2, <1>3, <2>4, <2>5, GroupedType
  <2>. QED BY <1>4, <2>1, <2>6 DEF Line
<1>6. CASE ~ready /\ n # 0
  <2>1. rows = <<>> /\ op.cols # <<>>
    BY <1>2, <1>6
  <2>2. Grouped(rows, op.cols, op.specs) = <<>>
    BY <2>1, KeysEmpty DEF Grouped
  <2>. QED BY <1>4, <2>2, EmptySeq
<1>. QED BY <1>5, <1>6

LEMMA DoAggregateResult ==
    ASSUME PlanIsGiven, Memories, NEW made, NEW taken, NEW width, InvOf(made, taken, width), AggregateResult
    PROVE  SomeInv'
<1>1. PICK t, op, c, before, n, rows :
        /\ t = Top /\ op = plan[t] /\ c = op.child /\ before = states[t]
        /\ n = AggregateWidth(t) /\ rows = ResultRows(op, before)
  OBVIOUS
<1>2. StepOf(t)
  BY <1>1, TopSteps DEF GatherStep
<1>3. /\ op.kind \in {"global", "hash"} /\ stack # <<>> /\ ret = End
      /\ UNCHANGED <<plan, stores, phase, states, inited>> /\ Return(Batch(n, rows))
  BY <1>1 DEF AggregateResult, Ended, Active, Me, Silent, memory
<1>4. c = Awaited(t)
  BY <1>1, <1>3 DEF Awaited
<1>5. /\ t \in Ops /\ c \in Ops /\ c # t /\ c \in Children(plan[t])
      /\ \A o \in Ops : made[o] = taken[o]
      /\ plan[t].kind # "filter" => made[c] \in Ans[c]
  BY <1>1, <1>3, <1>4, HasEnded
<1>6. AggregateOK(op)
  BY <1>1, <1>3, <1>5, EmptySeq, PlanFacts DEF OperatorOK, AggregateOK
<1>7. PICK s, w, in : s = made[t] /\ w = width[t] /\ in = taken[c] /\ in = made[c]
  BY <1>5
<1>8. AggregateAt(t, s, w, in)
  BY <1>1, <1>3, <1>5, <1>7 DEF InvOf, LocalAt
<1>9. Waiting(t)
  BY <1>1, <1>3, TopWaits, NotCalling
<1>10. Collecting(t) /\ phase[t] = "done" /\ s = <<>> /\ w = Unknown /\ Grouping(t, in)
  BY <1>8, <1>9 DEF AggregateAt, OneAnswer, Collecting
<1>11. in \in Ans[c]
  BY <1>1, <1>3, <1>5, <1>7
<1>12. AllWithinBounds(op, in)
  <2>1. ASSUME NEW x \in DOMAIN op.specs, op.specs[x].kind # "CountStar"
        PROVE  ValueSet(in, op.specs[x].col) \subseteq Int64Min..Int64Max
    <3>1. op.specs[x].col \in Reckoned(plan[t])
      BY <1>1, <1>3, <2>1 DEF Reckoned
    <3>2. DOMAIN in = 1..Len(in)
      BY <1>10, LenProperties DEF Grouping
    <3>3. \A i \in DOMAIN in : in[i][op.specs[x].col] \in Int64Min..Int64Max
      BY <1>5, <1>11, <3>1, NumbersAreBounded
    <3>. QED BY <3>2, <3>3 DEF ValueSet
  <2>. QED BY <2>1 DEF AllWithinBounds, WithinBounds
<1>13. rows = Grouped(in, op.cols, op.specs)
  <2>1. SpecsFit(op, Fitting(op)) /\ DOMAIN op.specs = 1..Len(op.specs)
    BY <1>6, AggregateFits
  <2>2. in \in Seq(Fitting(op)) /\ before = GroupsAfter(op, in)
    BY <1>1, <1>10 DEF Grouping
  <2>3. ResultRows(op, GroupsAfter(op, in)) = Grouped(in, op.cols, op.specs)
    BY <1>12, <2>1, <2>2, ResultRowsAreGrouped
  <2>. QED BY <1>1, <2>2, <2>3
<1>14. n \in Nat /\ rows \in Seq(Line(n))
  <2>1. in \in Seq(Fitting(op)) /\ (in # <<>> => inited[t])
    BY <1>1, <1>10 DEF Grouping
  <2>2. PICK ready \in BOOLEAN : ready <=> inited[t]
    OBVIOUS
  <2>3. n = (IF ready THEN Len(op.cols) ELSE 0) + Len(op.specs)
    BY <1>1, <2>2 DEF AggregateWidth
  <2>4. in # <<>> => ready
    BY <2>1, <2>2
  <2>5. n \in Nat /\ Grouped(in, op.cols, op.specs) \in Seq(Line(n))
    BY <1>6, <1>12, <2>1, <2>3, <2>4, AggregateLines
  <2>. QED BY <1>13, <2>5
<1>15. rows \in Ans[t]
  <2>1. PICK X, sts, A : X = Ans[t] /\ sts = stores /\ A = Ans
    OBVIOUS
  <2>2. X = AnswersBy(op, sts, A)
    BY <1>1, <1>5, <2>1, AnswerFacts
  <2>3. X = {Grouped(r, op.cols, op.specs) : r \in A[op.child]}
    BY <1>3, <2>2, AnswersByKind
  <2>. QED BY <1>1, <1>11, <1>13, <2>1, <2>3
<1>16. PICK made2, width2 : made2 = Changed(made, t, made[t] \o rows) /\ width2 = Changed(width, t, n)
  OBVIOUS
<1>17. made2[t] = rows /\ width2[t] = n
  <2>1. <<>> \o rows = rows
    BY <1>14, ConcatEmptySeq
  <2>. QED BY <1>5, <1>7, <1>10, <1>16, <2>1 DEF Changed
<1>18. ~Waiting(t)'
  BY <1>2, <1>3, ReturnStops, NotCalling
<1>19. OneAnswer(t, rows, n)' /\ ~Collecting(t)'
  <2>1. Ans' = Ans
    BY <1>3, SamePlan
  <2>. QED BY <1>3, <1>10, <1>15, <1>18, <2>1 DEF OneAnswer, Collecting
<1>20. LocalAt(t, made2, made, width2)'
  <2>1. AggregateAt(t, rows, n, in)'
    BY <1>19 DEF AggregateAt
  <2>. QED BY <1>1, <1>3, <1>7, <1>17, <2>1 DEF LocalAt
<1>21. width[t] \in {Unknown, n}
  BY <1>7, <1>10
<1>22. InvOf(made2, made, width2)'
  BY <1>2, <1>3, <1>14, <1>16, <1>20, <1>21, MoveBatch
<1>. QED BY <1>22 DEF SomeInv

(* A batch that is kept. *)
LEMMA HandedBatch ==
    ASSUME NEW made, NEW taken, NEW width, InvOf(made, taken, width), ret.tag = "batch",
           NEW bs, NEW rows, Kept(bs, rows, ret.width)
    PROVE  Kept(Append(bs, ret), rows \o ret.rows, ret.width)
<1>1. ret \in BatchesOf(ret.width) /\ ret.width \in Nat
  BY NotCalling DEF InvOf, Linked
<1>2. PICK b, w : b = ret /\ w = ret.width
  OBVIOUS
<1>3. b \in BatchesOf(w) /\ w # Unknown
  BY <1>1, <1>2 DEF Unknown
<1>4. Kept(Append(bs, b), rows \o b.rows, w)
  BY <1>2, <1>3, KeepOneMore
<1>. QED BY <1>2, <1>4

LEMMA DoSortBatch ==
    ASSUME PlanIsGiven, Memories, NEW made, NEW taken, NEW width, InvOf(made, taken, width), SortBatch
    PROVE  SomeInv'
<1>1. PICK t, op, c, rows, n, bs :
        /\ t = Top /\ op = plan[t] /\ c = op.child /\ rows = ret.rows /\ n = ret.width /\ bs = batches[t]
  OBVIOUS
<1>2. StepOf(t)
  BY <1>1, TopSteps DEF GatherStep
<1>3. /\ op.kind = "sort" /\ stack # <<>> /\ ret.tag = "batch" /\ UNCHANGED <<plan, stores, phase>>
      /\ Call(c) /\ batches' = [batches EXCEPT ![t] = Append(bs, ret)]
  BY <1>1 DEF SortBatch, Keep, Handed, Active, Me, Silent
<1>4. c = Awaited(t) /\ c = Awaited(t)' /\ plan[t].kind # "scan"
  BY <1>1, <1>3 DEF Awaited
<1>5. Handing(t, c, rows, n, made, taken, width)
  <2>1. t = Top /\ c = Awaited(t) /\ stack # <<>> /\ ret.tag = "batch"
    BY <1>1, <1>3, <1>4
  <2>. QED BY <1>1, <2>1, HandedOver
<1>6. t \in Ops /\ n \in Nat /\ width[c] = n /\ made[c] = taken[c] \o rows
  BY <1>5 DEF Handing
<1>7. PICK s, w, in, more : s = made[t] /\ w = width[t] /\ in = taken[c] /\ more = made[c]
  OBVIOUS
<1>8. SortAt(t, s, w, in, n)
  BY <1>1, <1>3, <1>6, <1>7 DEF InvOf, LocalAt
<1>9. Waiting(t)
  BY <1>1, <1>3, TopWaits, NotCalling
<1>10. phase[t] = "done" /\ s = <<>> /\ w = Unknown /\ Kept(bs, in, n)
  BY <1>1, <1>8, <1>9 DEF SortAt, OneAnswer, Collecting
<1>11. PICK bs2 : bs2 = Append(bs, ret) /\ bs2 = batches'[t]
  BY <1>3, <1>6 DEF Memories
<1>12. Kept(bs2, more, n)
  <2>1. Kept(Append(bs, ret), in \o ret.rows, ret.width)
    BY <1>1, <1>3, <1>10, HandedBatch
  <2>. QED BY <1>1, <1>6, <1>7, <1>11, <2>1
<1>13. Waiting(t)'
  BY <1>2, <1>3, <1>4, CallWaits
<1>14. OneAnswer(t, s, w)'
  BY <1>3, <1>10, <1>13 DEF OneAnswer, Collecting
<1>15. SortAt(t, s, w, more, n)'
  BY <1>11, <1>12, <1>14 DEF SortAt
<1>16. LocalAt(t, made, made, width)'
  BY <1>1, <1>3, <1>6, <1>7, <1>15 DEF LocalAt
<1>17. InvOf(made, made, width)'
  BY <1>2, <1>3, <1>4, <1>16, MoveCall
<1>. QED BY <1>17 DEF SomeInv

LEMMA DoSortResult ==
    ASSUME PlanIsGiven, Memories, NEW made, NEW taken, NEW width, InvOf(made, taken, width), SortResult
    PROVE  SomeInv'
<1>1. PICK t, op, c, bs, all, total, b, n :
        /\ t = Top /\ op = plan[t] /\ c = op.child /\ bs = batches[t] /\ all = AllRows(bs)
        /\ total = Len(all) /\ b = SortBounds(total, op.limit, op.offset) /\ n = WidthOf(bs)
  OBVIOUS
<1>2. StepOf(t)
  BY <1>1, TopSteps DEF GatherStep
<1>3. /\ op.kind = "sort" /\ stack # <<>> /\ ret = End /\ UNCHANGED <<plan, stores, phase>>
      /\ \E x \in SortedOrderings(all, op.keys) : Return(Batch(n, SubSeq(x, b.start + 1, b.end)))
  BY <1>1 DEF SortResult, Ended, Active, Me, Silent, memory
<1>4. PICK x \in SortedOrderings(all, op.keys) : Return(Batch(n, SubSeq(x, b.start + 1, b.end)))
  BY <1>3
<1>5. c = Awaited(t)
  BY <1>1, <1>3 DEF Awaited
<1>6. /\ t \in Ops /\ c \in Ops /\ c # t /\ c \in Children(plan[t])
      /\ \A o \in Ops : made[o] = taken[o]
      /\ plan[t].kind # "filter" => made[c] \in Ans[c]
  BY <1>1, <1>3, <1>5, HasEnded
<1>7. PICK s, w, in, v : s = made[t] /\ w = width[t] /\ in = taken[c] /\ in = made[c] /\ v = width[c]
  BY <1>6
<1>8. SortAt(t, s, w, in, v)
  BY <1>1, <1>3, <1>6, <1>7 DEF InvOf, LocalAt
<1>9. Waiting(t)
  BY <1>1, <1>3, TopWaits, NotCalling
<1>10. Collecting(t) /\ phase[t] = "done" /\ s = <<>> /\ w = Unknown /\ Kept(bs, in, v)
  BY <1>1, <1>8, <1>9 DEF SortAt, OneAnswer, Collecting
<1>11. all = in /\ in \in Ans[c]
  BY <1>1, <1>3, <1>6, <1>7, <1>10 DEF Kept
<1>12. n \in Nat /\ all \in Seq(Line(n))
  <2>1. v \in Nat \cup {Unknown}
    BY <1>6, <1>7 DEF InvOf, Typed
  <2>2. all \in Seq(Line(v)) /\ (bs = <<>> => n = 0 /\ all = <<>>) /\ (bs # <<>> => n = v /\ v # Unknown)
    BY <1>1, <1>10, <1>11, KeptRows, WidthOfKept
  <2>3. CASE bs = <<>>
    BY <2>2, <2>3, EmptySeq
  <2>4. CASE bs # <<>>
    BY <2>1, <2>2, <2>4
  <2>. QED BY <2>3, <2>4
<1>13. x \in Seq(Line(n)) /\ Len(x) = total
  <2>1. x \in Orderings(all)
    BY <1>4 DEF SortedOrderings
  <2>2. PICK R : R = Line(n)
    OBVIOUS
  <2>3. all \in Seq(R)
    BY <1>12, <2>2
  <2>4. x \in Seq(R) /\ Alike(x, all, R)
    BY <2>1, <2>3, OrderingsAreAlike
  <2>5. Len(x) = Len(all)
    BY <2>3, <2>4, AlikeLength
  <2>. QED BY <1>1, <2>2, <2>4, <2>5
<1>14. op.limit \in Nat /\ op.offset \in Nat
  BY <1>1, <1>3, <1>6, PlanFacts DEF OperatorOK
<1>15. PICK rows : rows = Window(x, op.limit, op.offset) /\ rows = SubSeq(x, b.start + 1, b.end)
  BY <1>1, <1>13, <1>14, WindowIsSubSeq
<1>16. rows \in Seq(Line(n))
  BY <1>13, <1>14, <1>15, WindowType
<1>17. rows \in Ans[t]
  <2>1. PICK X, sts, A : X = Ans[t] /\ sts = stores /\ A = Ans
    OBVIOUS
  <2>2. X = AnswersBy(op, sts, A)
    BY <1>1, <1>6, <2>1, AnswerFacts
  <2>3. SortAnswers(op, A, rows)
    BY <1>1, <1>4, <1>11, <1>15, <2>1 DEF SortAnswers
  <2>. QED BY <1>3, <2>1, <2>2, <2>3, AnswersBySort
<1>18. PICK made2, width2 : made2 = Changed(made, t, made[t] \o rows) /\ width2 = Changed(width, t, n)
  OBVIOUS
<1>19. made2[t] = rows /\ width2[t] = n
  <2>1. <<>> \o rows = rows
    BY <1>16, ConcatEmptySeq
  <2>. QED BY <1>6, <1>7, <1>10, <1>18, <2>1 DEF Changed
<1>20. Return(Batch(n, rows))
  BY <1>4, <1>15
<1>21. ~Waiting(t)'
  BY <1>2, <1>20, ReturnStops, NotCalling
<1>22. OneAnswer(t, rows, n)' /\ ~Collecting(t)'
  <2>1. Ans' = Ans
    BY <1>3, SamePlan
  <2>. QED BY <1>3, <1>10, <1>17, <1>21, <2>1 DEF OneAnswer, Collecting
<1>23. LocalAt(t, made2, made, width2)'
  <2>1. PICK u : u = width2[c]
    OBVIOUS
  <2>2. SortAt(t, rows, n, in, u)'
    BY <1>22 DEF SortAt
  <2>. QED BY <1>1, <1>3, <1>7, <1>19, <2>1, <2>2 DEF LocalAt
<1>24. width[t] \in {Unknown, n}
  BY <1>7, <1>10
<1>25. InvOf(made2, made, width2)'
  BY <1>2, <1>12, <1>16, <1>18, <1>20, <1>23, <1>24, MoveBatch
<1>. QED BY <1>25 DEF SomeInv

-----------------------------------------------------------------------------
(* Joins. *)
LEMMA JoinFacts ==
    ASSUME PlanIsGiven, NEW t \in Ops, plan[t].kind = "join", NEW l, NEW r,
           l = plan[t].build, r = plan[t].probe
    PROVE  l \in Ops /\ r \in Ops /\ l # r /\ l # t /\ r # t
<1>1. l \in Children(plan[t]) /\ r \in Children(plan[t])
  BY DEF Children
<1>2. l \in Ops /\ r \in Ops /\ l < t /\ r < t /\ Ops \subseteq Nat
  BY <1>1, PlanFacts
<1>3. l # r
  BY PlanFacts DEF OperatorOK
<1>4. l # t /\ r # t
  BY <1>2
<1>. QED BY <1>2, <1>3, <1>4

(* The build side becomes one batch. *)
LEMMA BuildSide ==
    ASSUME NEW bs, NEW left, NEW v \in Nat \cup {Unknown}, Kept(bs, left, v),
           NEW x \in Orderings(left), NEW bs2, bs2 = IF bs = <<>> THEN bs ELSE <<Batch(WidthOf(bs), x)>>
    PROVE  Kept(bs2, AllRows(bs2), v) /\ AllRows(bs2) \in Orderings(left)
<1>1. CASE bs = <<>>
  <2>1. left = <<>> /\ AllRows(bs2) = <<>> /\ bs2 = <<>>
    BY <1>1, AllRowsOfNone DEF Kept
  <2>2. <<>> \in Orderings(<<>>)
    <3>1. <<>> \in Seq(Row)
      BY EmptySeq
    <3>. QED BY <3>1, OrderingSelf
  <2>. QED BY <2>1, <2>2, KeptNothing
<1>2. CASE bs # <<>>
  <2>1. WidthOf(bs) = v /\ v # Unknown
    BY <1>2, WidthOfKept
  <2>2. PICK R : R = Line(v)
    OBVIOUS
  <2>3. left \in Seq(R)
    BY <2>2, KeptRows
  <2>4. x \in Seq(R)
    BY <2>3, OrderingsAreAlike
  <2>5. PICK b : b = Batch(v, x)
    OBVIOUS
  <2>6. b \in BatchesOf(v) /\ b.rows = x
    BY <2>2, <2>4, <2>5 DEF Batch, BatchesOf
  <2>7. Kept(<<b>>, x, v)
    BY <2>1, <2>6, KeptOnce
  <2>8. bs2 = <<b>> /\ AllRows(bs2) = x
    BY <1>2, <2>1, <2>5, <2>7 DEF Kept
  <2>. QED BY <2>7, <2>8
<1>. QED BY <1>1, <1>2

(* Where the build side has no row, neither has the join. *)
LEMMA JoinNothing ==
    ASSUME PlanIsGiven, NEW t \in Ops, plan[t].kind = "join", NEW left \in Ans[plan[t].build],
           <<>> \in Orderings(left)
    PROVE  <<>> \in Ans[t]
<1>1. PICK op, l, r, A, X, sts :
        op = plan[t] /\ l = op.build /\ r = op.probe /\ A = Ans /\ X = Ans[t] /\ sts = stores
  OBVIOUS
<1>2. l \in Ops /\ r \in Ops
  BY <1>1, JoinFacts
<1>3. X = AnswersBy(op, sts, A)
  BY <1>1, AnswerFacts
<1>4. Relations(A[l])
  BY <1>1, <1>2, AnswerFacts
<1>5. Relations(A[r])
  BY <1>1, <1>2, AnswerFacts
<1>6. PICK R : left \in Seq(R)
  BY <1>1, <1>4 DEF Relations, Relation
<1>7. left = <<>>
  <2>1. <<>> \in Seq(R) /\ Alike(<<>>, left, R)
    BY <1>6, OrderingsAreAlike
  <2>2. Len(left) = Len(<<>>)
    BY <1>6, <2>1, AlikeLength
  <2>. QED BY <1>6, <2>2, EmptySeq
<1>8. PICK p \in A[r] : Relation(p)
  BY <1>5 DEF Relations
<1>9. PICK S : p \in Seq(S)
  BY <1>8 DEF Relation
<1>10. Joined(<<>>, p, op.build_key, op.probe_key) = <<>>
  BY <1>9, JoinAnyToNone
<1>11. \A q : q \in X <=> \E a \in A[op.build], b \in A[op.probe] :
                             q \in Orderings(Joined(a, b, op.build_key, op.probe_key))
  <2>1. op.kind = "join"
    BY <1>1
  <2>. SUFFICES ASSUME NEW q
                PROVE  q \in X <=> \E a \in A[op.build], b \in A[op.probe] :
                                     q \in Orderings(Joined(a, b, op.build_key, op.probe_key))
    OBVIOUS
  <2>2. q \in X <=> JoinAnswers(op, A, q)
    BY <1>3, <2>1, AnswersByJoin
  <2>. QED BY <2>2 DEF JoinAnswers
<1>12. <<>> \in Orderings(<<>>)
  BY <1>7
<1>. QED BY <1>1, <1>7, <1>8, <1>10, <1>11, <1>12

LEMMA DoJoinBuild ==
    ASSUME PlanIsGiven, Memories, NEW made, NEW taken, NEW width, InvOf(made, taken, width), JoinBuild
    PROVE  SomeInv'
<1>1. PICK t, op, l, r : t = Top /\ op = plan[t] /\ l = op.build /\ r = op.probe
  OBVIOUS
<1>2. StepOf(t)
  BY <1>1, TopSteps DEF JoinStep
<1>3. /\ op.kind = "join" /\ stack # <<>> /\ ret = Calling /\ phase[t] = "new"
      /\ UNCHANGED <<plan, stores, batches>>
      /\ phase' = [phase EXCEPT ![t] = "building"] /\ Call(l)
  BY <1>1 DEF JoinBuild, Called, Active, Me, Silent
<1>4. t \in Ops /\ \A o \in Ops : made[o] = taken[o]
  BY <1>1, <1>3, IsCalled
<1>5. l \in Ops /\ r \in Ops
  BY <1>1, <1>3, <1>4, JoinFacts
<1>6. PICK s, w, left, v, right, u :
        /\ s = made[t] /\ w = width[t] /\ left = made[l] /\ v = width[l] /\ right = made[r] /\ u = width[r]
        /\ left = taken[l] /\ right = taken[r]
  BY <1>4, <1>5
<1>7. JoinAt(t, s, w, left, v, right, u)
  BY <1>1, <1>3, <1>4, <1>6 DEF InvOf, LocalAt
<1>8. phase'[t] = "building"
  BY <1>3, <1>4 DEF Memories
<1>9. PICK bs : bs = batches[t] /\ bs = batches'[t]
  BY <1>3
<1>10. s = <<>> /\ w = Unknown /\ right = <<>> /\ Kept(bs, left, v)
  BY <1>3, <1>7, <1>9 DEF JoinAt
<1>11. JoinAt(t, s, w, left, v, right, u)'
  BY <1>8, <1>9, <1>10 DEF JoinAt
<1>12. LocalAt(t, made, made, width)'
  BY <1>1, <1>3, <1>6, <1>11 DEF LocalAt
<1>13. l = Awaited(t)' /\ plan[t].kind # "scan"
  BY <1>1, <1>3, <1>8 DEF Awaited
<1>14. InvOf(made, made, width)'
  BY <1>2, <1>3, <1>12, <1>13, MoveCall
<1>. QED BY <1>14 DEF SomeInv

LEMMA DoJoinBuildBatch ==
    ASSUME PlanIsGiven, Memories, NEW made, NEW taken, NEW width, InvOf(made, taken, width), JoinBuildBatch
    PROVE  SomeInv'
<1>1. PICK t, op, l, r, rows, n, bs :
        /\ t = Top /\ op = plan[t] /\ l = op.build /\ r = op.probe
        /\ rows = ret.rows /\ n = ret.width /\ bs = batches[t]
  OBVIOUS
<1>2. StepOf(t)
  BY <1>1, TopSteps DEF JoinStep
<1>3. /\ op.kind = "join" /\ stack # <<>> /\ ret.tag = "batch" /\ phase[t] = "building"
      /\ UNCHANGED <<plan, stores, phase>>
      /\ batches' = [batches EXCEPT ![t] = Append(bs, ret)] /\ Call(l)
  BY <1>1 DEF JoinBuildBatch, Keep, Handed, Active, Me, Silent
<1>4. l = Awaited(t) /\ l = Awaited(t)' /\ plan[t].kind # "scan"
  BY <1>1, <1>3 DEF Awaited
<1>5. Handing(t, l, rows, n, made, taken, width)
  <2>1. t = Top /\ l = Awaited(t) /\ stack # <<>> /\ ret.tag = "batch"
    BY <1>1, <1>3, <1>4
  <2>. QED BY <1>1, <2>1, HandedOver
<1>6. /\ t \in Ops /\ n \in Nat /\ width[l] = n /\ made[l] = taken[l] \o rows
      /\ \A o \in Ops : o # l => made[o] = taken[o]
  BY <1>5 DEF Handing
<1>7. r \in Ops /\ l # r
  BY <1>1, <1>3, <1>6, JoinFacts
<1>8. PICK s, w, left, more, right, u :
        /\ s = made[t] /\ w = width[t] /\ left = taken[l] /\ more = made[l]
        /\ right = made[r] /\ right = taken[r] /\ u = width[r]
  BY <1>6, <1>7
<1>9. JoinAt(t, s, w, left, n, right, u)
  BY <1>1, <1>3, <1>6, <1>8 DEF InvOf, LocalAt
<1>10. s = <<>> /\ w = Unknown /\ right = <<>> /\ Kept(bs, left, n)
  BY <1>1, <1>3, <1>9 DEF JoinAt
<1>11. PICK bs2 : bs2 = Append(bs, ret) /\ bs2 = batches'[t]
  BY <1>3, <1>6 DEF Memories
<1>12. Kept(bs2, more, n)
  <2>1. Kept(Append(bs, ret), left \o ret.rows, ret.width)
    BY <1>1, <1>3, <1>10, HandedBatch
  <2>. QED BY <1>1, <1>6, <1>8, <1>11, <2>1
<1>13. phase'[t] = "building"
  BY <1>3
<1>14. JoinAt(t, s, w, more, n, right, u)'
  BY <1>10, <1>11, <1>12, <1>13 DEF JoinAt
<1>15. LocalAt(t, made, made, width)'
  BY <1>1, <1>3, <1>6, <1>8, <1>14 DEF LocalAt
<1>16. InvOf(made, made, width)'
  BY <1>2, <1>3, <1>4, <1>15, MoveCall
<1>. QED BY <1>16 DEF SomeInv

LEMMA DoJoinBuilt ==
    ASSUME PlanIsGiven, Memories, NEW made, NEW taken, NEW width, InvOf(made, taken, width), JoinBuilt
    PROVE  SomeInv'
<1>1. PICK t, op, l, r, bs :
        t = Top /\ op = plan[t] /\ l = op.build /\ r = op.probe /\ bs = batches[t]
  OBVIOUS
<1>2. StepOf(t)
  BY <1>1, TopSteps DEF JoinStep
<1>3. /\ op.kind = "join" /\ stack # <<>> /\ ret = End /\ phase[t] = "building"
      /\ UNCHANGED <<plan, stores>> /\ phase' = [phase EXCEPT ![t] = "done"]
      /\ bs = <<>> => Return(End)
      /\ bs # <<>> => Call(r)
  BY <1>1 DEF JoinBuilt, Probe, Ended, Active, Me, Silent
<1>4. l = Awaited(t)
  BY <1>1, <1>3 DEF Awaited
<1>5. /\ t \in Ops /\ l \in Ops /\ \A o \in Ops : made[o] = taken[o]
      /\ plan[t].kind # "filter" => made[l] \in Ans[l]
  BY <1>1, <1>3, <1>4, HasEnded
<1>6. r \in Ops
  BY <1>1, <1>3, <1>5, JoinFacts
<1>7. PICK s, w, left, v, right, u :
        /\ s = made[t] /\ w = width[t] /\ left = made[l] /\ v = width[l] /\ right = made[r] /\ u = width[r]
        /\ left = taken[l] /\ right = taken[r]
  BY <1>5, <1>6
<1>8. JoinAt(t, s, w, left, v, right, u)
  BY <1>1, <1>3, <1>5, <1>7 DEF InvOf, LocalAt
<1>9. s = <<>> /\ w = Unknown /\ right = <<>> /\ Kept(bs, left, v) /\ AllRows(bs) = left
  BY <1>1, <1>3, <1>8 DEF JoinAt, Kept
<1>10. PICK x \in Orderings(left) :
         batches' = [batches EXCEPT ![t] = IF @ = <<>> THEN @ ELSE <<Batch(WidthOf(@), x)>>]
  BY <1>1, <1>9 DEF JoinBuilt
<1>11. PICK bs2 : bs2 = batches'[t] /\ bs2 = IF bs = <<>> THEN bs ELSE <<Batch(WidthOf(bs), x)>>
  BY <1>1, <1>5, <1>10 DEF Memories
<1>12. phase'[t] = "done"
  BY <1>3, <1>5 DEF Memories
<1>13. PICK all : all = AllRows(bs2)
  OBVIOUS
<1>14. Kept(bs2, all, v) /\ all \in Orderings(left) /\ v \in Nat \cup {Unknown}
  <2>1. v \in Nat \cup {Unknown}
    BY <1>5, <1>7 DEF InvOf, Typed
  <2>2. Kept(bs2, AllRows(bs2), v) /\ AllRows(bs2) \in Orderings(left)
    BY <1>9, <1>11, <2>1, BuildSide
  <2>. QED BY <1>13, <2>1, <2>2
<1>15. Joined(all, <<>>, op.build_key, op.probe_key) = <<>>
  <2>1. all \in Seq(Row)
    <3>1. RowsFor(v, all)
      BY <1>14, KeptRows
    <3>. QED BY <1>14, <3>1, RowsForAreRows
  <2>. QED BY <2>1, JoinedEmpty
<1>16. left \in Ans[l]
  BY <1>1, <1>3, <1>5, <1>7
<1>17. Joining(t, s, w, left, v, right, u)'
  <2>1. Ans' = Ans /\ plan'[t] = op
    BY <1>1, <1>3, SamePlan
  <2>. QED BY <1>1, <1>9, <1>11, <1>13, <1>14, <1>15, <1>16, <2>1 DEF Joining
<1>18. JoinAt(t, s, w, left, v, right, u)'
  BY <1>12, <1>17 DEF JoinAt
<1>19. LocalAt(t, made, made, width)'
  BY <1>1, <1>3, <1>7, <1>18 DEF LocalAt
<1>20. CASE bs = <<>>
  <2>1. all = <<>>
    BY <1>11, <1>13, <1>20, AllRowsOfNone
  <2>2. <<>> \in Ans[t]
    BY <1>1, <1>3, <1>5, <1>14, <1>16, <2>1, JoinNothing
  <2>3. Explained(t, made[t])
    BY <1>7, <1>9, <2>2, NearItself DEF Explained
  <2>4. InvOf(made, made, width)'
    BY <1>2, <1>3, <1>19, <1>20, <2>3, MoveEnd
  <2>. QED BY <2>4 DEF SomeInv
<1>21. CASE bs # <<>>
  <2>1. r = Awaited(t)' /\ plan[t].kind # "scan" /\ Call(r)
    BY <1>1, <1>3, <1>12, <1>21 DEF Awaited
  <2>2. InvOf(made, made, width)'
    BY <1>2, <1>19, <2>1, MoveCall
  <2>. QED BY <2>2 DEF SomeInv
<1>. QED BY <1>20, <1>21
LEMMA DoJoinProbe ==
    ASSUME PlanIsGiven, Memories, NEW made, NEW taken, NEW width, InvOf(made, taken, width), JoinProbe
    PROVE  SomeInv'
<1>1. PICK t, op, l, r, bs :
        t = Top /\ op = plan[t] /\ l = op.build /\ r = op.probe /\ bs = batches[t]
  OBVIOUS
<1>2. StepOf(t)
  BY <1>1, TopSteps DEF JoinStep
<1>3. /\ op.kind = "join" /\ stack # <<>> /\ ret = Calling /\ phase[t] = "done"
      /\ UNCHANGED <<plan, stores, phase, batches>>
      /\ bs = <<>> => Return(End)
      /\ bs # <<>> => Call(r)
  BY <1>1 DEF JoinProbe, Probe, Called, Active, Me, Silent, memory
<1>4. t \in Ops /\ \A o \in Ops : made[o] = taken[o]
  BY <1>1, <1>3, IsCalled
<1>5. l \in Ops /\ r \in Ops
  BY <1>1, <1>3, <1>4, JoinFacts
<1>6. PICK s, w, left, v, right, u :
        /\ s = made[t] /\ w = width[t] /\ left = made[l] /\ v = width[l] /\ right = made[r] /\ u = width[r]
        /\ left = taken[l] /\ right = taken[r]
  BY <1>4, <1>5
<1>7. JoinAt(t, s, w, left, v, right, u)
  BY <1>1, <1>3, <1>4, <1>6 DEF InvOf, LocalAt
<1>8. Joining(t, s, w, left, v, right, u)
  BY <1>3, <1>7 DEF JoinAt
<1>9. Joining(t, s, w, left, v, right, u)'
  <2>1. Ans' = Ans
    BY <1>3, SamePlan
  <2>. QED BY <1>3, <1>8, <2>1 DEF Joining
<1>10. JoinAt(t, s, w, left, v, right, u)'
  BY <1>3, <1>9 DEF JoinAt
<1>11. LocalAt(t, made, made, width)'
  BY <1>1, <1>3, <1>6, <1>10 DEF LocalAt
<1>12. CASE bs = <<>>
  <2>1. AllRows(bs) = <<>>
    BY <1>12, AllRowsOfNone
  <2>2. left \in Ans[l] /\ <<>> \in Orderings(left)
    BY <1>1, <1>8, <2>1 DEF Joining
  <2>3. <<>> \in Ans[t]
    BY <1>1, <1>3, <1>4, <2>2, JoinNothing
  <2>4. s = <<>>
    <3>1. right \in Seq(Row)
      BY <1>5, <1>6, TypedRows DEF InvOf
    <3>2. Joined(<<>>, right, op.build_key, op.probe_key) = <<>>
      BY <3>1, JoinedToNone
    <3>. QED BY <1>1, <1>8, <2>1, <3>2 DEF Joining
  <2>5. Explained(t, made[t])
    BY <1>6, <2>3, <2>4, NearItself DEF Explained
  <2>6. InvOf(made, made, width)'
    BY <1>2, <1>3, <1>11, <1>12, <2>5, MoveEnd
  <2>. QED BY <2>6 DEF SomeInv
<1>13. CASE bs # <<>>
  <2>1. r = Awaited(t)' /\ plan[t].kind # "scan" /\ Call(r)
    BY <1>1, <1>3, <1>13 DEF Awaited
  <2>2. InvOf(made, made, width)'
    BY <1>2, <1>11, <2>1, MoveCall
  <2>. QED BY <2>2 DEF SomeInv
<1>. QED BY <1>12, <1>13

LEMMA DoJoinBatch ==
    ASSUME PlanIsGiven, Memories, NEW made, NEW taken, NEW width, InvOf(made, taken, width), JoinBatch
    PROVE  SomeInv'
<1>1. PICK t, op, l, r, rows, n, bs, all, sel, z :
        /\ t = Top /\ op = plan[t] /\ l = op.build /\ r = op.probe
        /\ rows = ret.rows /\ n = ret.width /\ bs = batches[t] /\ all = AllRows(bs)
        /\ sel = Joined(all, rows, op.build_key, op.probe_key) /\ z = WidthOf(bs)
  OBVIOUS
<1>2. StepOf(t)
  BY <1>1, TopSteps DEF JoinStep
<1>3. /\ op.kind = "join" /\ stack # <<>> /\ ret.tag = "batch" /\ phase[t] = "done"
      /\ UNCHANGED <<plan, stores, phase, batches>>
      /\ sel = <<>> => Call(r)
      /\ sel # <<>> => Return(Batch(z + n, sel))
  BY <1>1 DEF JoinBatch, Handed, Active, Me, Silent, memory
<1>4. r = Awaited(t) /\ r = Awaited(t)' /\ plan[t].kind # "scan"
  BY <1>1, <1>3 DEF Awaited
<1>5. Handing(t, r, rows, n, made, taken, width)
  <2>1. t = Top /\ r = Awaited(t) /\ stack # <<>> /\ ret.tag = "batch"
    BY <1>1, <1>3, <1>4
  <2>. QED BY <1>1, <2>1, HandedOver
<1>6. /\ t \in Ops /\ r # t /\ n \in Nat /\ width[r] = n /\ made[r] = taken[r] \o rows
      /\ rows \in Seq(Line(n)) /\ taken[r] \in Seq(Line(n))
      /\ \A o \in Ops : o # r => made[o] = taken[o]
  BY <1>5 DEF Handing
<1>7. l \in Ops /\ l # r /\ l # t
  BY <1>1, <1>3, <1>6, JoinFacts
<1>8. PICK s, w, left, v, right, more :
        /\ s = made[t] /\ w = width[t] /\ left = taken[l] /\ left = made[l] /\ v = width[l]
        /\ right = taken[r] /\ more = made[r]
  BY <1>6, <1>7
<1>9. JoinAt(t, s, w, left, v, right, n)
  BY <1>1, <1>3, <1>6, <1>8 DEF InvOf, LocalAt
<1>10. Joining(t, s, w, left, v, right, n)
  BY <1>3, <1>9 DEF JoinAt
<1>11. /\ left \in Ans[l] /\ Kept(bs, all, v) /\ all \in Orderings(left)
       /\ s = Joined(all, right, op.build_key, op.probe_key)
       /\ w # Unknown => bs # <<>> /\ w = v + n
  BY <1>1, <1>10 DEF Joining
<1>12. all \in Seq(Row) /\ v \in Nat \cup {Unknown}
  <2>1. v \in Nat \cup {Unknown}
    BY <1>7, <1>8 DEF InvOf, Typed
  <2>2. RowsFor(v, all)
    BY <1>11, KeptRows
  <2>. QED BY <2>1, <2>2, RowsForAreRows
<1>13. s \o sel = Joined(all, more, op.build_key, op.probe_key)
  <2>1. right \in Seq(Row) /\ rows \in Seq(Row)
    BY <1>6, <1>8, LinesAreRows, SeqMonotonic
  <2>2. Joined(all, right \o rows, op.build_key, op.probe_key) =
          Joined(all, right, op.build_key, op.probe_key) \o Joined(all, rows, op.build_key, op.probe_key)
    BY <1>12, <2>1, JoinedConcat
  <2>. QED BY <1>1, <1>6, <1>8, <1>11, <2>2
<1>14. Ans' = Ans
  BY <1>3, SamePlan
<1>15. CASE sel = <<>>
  <2>1. s = Joined(all, more, op.build_key, op.probe_key)
    <3>1. s \in Seq(Row)
      BY <1>6, <1>8, TypedRows DEF InvOf
    <3>. QED BY <1>13, <1>15, <3>1, ConcatEmptySeq
  <2>2. Joining(t, s, w, left, v, more, n)'
    BY <1>1, <1>3, <1>10, <1>14, <2>1 DEF Joining
  <2>3. JoinAt(t, s, w, left, v, more, n)'
    BY <1>3, <2>2 DEF JoinAt
  <2>4. LocalAt(t, made, made, width)'
    BY <1>1, <1>3, <1>6, <1>8, <2>3 DEF LocalAt
  <2>5. InvOf(made, made, width)'
    BY <1>2, <1>3, <1>4, <1>15, <2>4, MoveCall
  <2>. QED BY <2>5 DEF SomeInv
<1>16. CASE sel # <<>>
  <2>1. bs # <<>> /\ z = v /\ v # Unknown
    <3>1. bs = <<>> => all = <<>>
      BY <1>1, AllRowsOfNone
    <3>2. rows \in Seq(Row)
      BY <1>6, LinesAreRows, SeqMonotonic
    <3>3. Joined(<<>>, rows, op.build_key, op.probe_key) = <<>>
      BY <3>2, JoinedToNone
    <3>4. bs # <<>>
      BY <1>1, <1>16, <3>1, <3>3
    <3>. QED BY <1>1, <1>11, <3>4, WidthOfKept
  <2>2. v \in Nat
    BY <1>12, <2>1
  <2>3. PICK sum \in Nat : sum = v + n
    BY <1>6, <2>2
  <2>4. sel \in Seq(Line(sum))
    <3>1. all \in Seq(Line(v))
      BY <1>11, KeptRows
    <3>. QED BY <1>1, <1>6, <2>2, <2>3, <3>1, JoinedLines
  <2>5. Return(Batch(sum, sel))
    BY <1>3, <1>16, <2>1, <2>3
  <2>6. PICK made2, width2 : made2 = Changed(made, t, made[t] \o sel) /\ width2 = Changed(width, t, sum)
    OBVIOUS
  <2>7. made2[t] = s \o sel /\ width2[t] = sum /\ width2[l] = v /\ width2[r] = n
    <3>1. r \in Ops
      BY <1>5 DEF Handing
    <3>. QED BY <1>6, <1>7, <1>8, <2>6, <3>1 DEF Changed
  <2>8. PICK s2 : s2 = s \o sel
    OBVIOUS
  <2>9. n # Unknown /\ sum = v + n
    BY <1>6, <2>3 DEF Unknown
  <2>10. Joining(t, s2, sum, left, v, more, n)'
    BY <1>1, <1>3, <1>10, <1>13, <1>14, <2>1, <2>8, <2>9 DEF Joining
  <2>11. JoinAt(t, s2, sum, left, v, more, n)'
    BY <1>3, <2>10 DEF JoinAt
  <2>12. LocalAt(t, made2, made, width2)'
    BY <1>1, <1>3, <1>8, <2>7, <2>8, <2>11 DEF LocalAt
  <2>13. width[t] \in {Unknown, sum}
    BY <1>8, <1>11, <2>3
  <2>14. InvOf(made2, made, width2)'
    BY <1>2, <2>3, <2>4, <2>5, <2>6, <2>12, <2>13, MoveBatch
  <2>. QED BY <2>14 DEF SomeInv
<1>. QED BY <1>15, <1>16

LEMMA DoJoinEnd ==
    ASSUME PlanIsGiven, Memories, NEW made, NEW taken, NEW width, InvOf(made, taken, width), JoinEnd
    PROVE  SomeInv'
<1>1. PICK t, op, l, r, bs, all :
        t = Top /\ op = plan[t] /\ l = op.build /\ r = op.probe /\ bs = batches[t] /\ all = AllRows(bs)
  OBVIOUS
<1>2. StepOf(t)
  BY <1>1, TopSteps DEF JoinStep
<1>3. /\ op.kind = "join" /\ stack # <<>> /\ ret = End /\ phase[t] = "done"
      /\ UNCHANGED <<plan, stores, phase, batches>> /\ Return(End)
  BY <1>1 DEF JoinEnd, Ended, Active, Me, Silent, memory
<1>4. r = Awaited(t)
  BY <1>1, <1>3 DEF Awaited
<1>5. /\ t \in Ops /\ r \in Ops /\ \A o \in Ops : made[o] = taken[o]
      /\ plan[t].kind # "filter" => made[r] \in Ans[r]
  BY <1>1, <1>3, <1>4, HasEnded
<1>6. l \in Ops
  BY <1>1, <1>3, <1>5, JoinFacts
<1>7. PICK s, w, left, v, right, u :
        /\ s = made[t] /\ w = width[t] /\ left = made[l] /\ v = width[l] /\ right = made[r] /\ u = width[r]
        /\ left = taken[l] /\ right = taken[r]
  BY <1>5, <1>6
<1>8. JoinAt(t, s, w, left, v, right, u)
  BY <1>1, <1>3, <1>5, <1>7 DEF InvOf, LocalAt
<1>9. Joining(t, s, w, left, v, right, u)
  BY <1>3, <1>8 DEF JoinAt
<1>10. Joining(t, s, w, left, v, right, u)'
  <2>1. Ans' = Ans
    BY <1>3, SamePlan
  <2>. QED BY <1>3, <1>9, <2>1 DEF Joining
<1>11. JoinAt(t, s, w, left, v, right, u)'
  BY <1>3, <1>10 DEF JoinAt
<1>12. LocalAt(t, made, made, width)'
  BY <1>1, <1>3, <1>7, <1>11 DEF LocalAt
<1>13. /\ left \in Ans[l] /\ right \in Ans[r] /\ all \in Orderings(left)
       /\ s = Joined(all, right, op.build_key, op.probe_key)
  BY <1>1, <1>3, <1>5, <1>7, <1>9 DEF Joining
<1>14. left \in Seq(Row) /\ right \in Seq(Row)
  BY <1>5, <1>6, <1>7, TypedRows DEF InvOf
<1>15. all \in Seq(Row) /\ Alike(all, left, Row)
  BY <1>13, <1>14, OrderingsAreAlike
<1>16. PICK whole : whole = Joined(left, right, op.build_key, op.probe_key)
  OBVIOUS
<1>17. s \in Orderings(whole)
  <2>1. s \in Seq(Row)
    BY <1>5, <1>7, TypedRows DEF InvOf
  <2>2. whole \in Seq(Row)
    BY <1>14, <1>16, JoinedIsFlatMap
  <2>3. Alike(s, whole, Row)
    BY <1>13, <1>14, <1>15, <1>16, JoinedAlike
  <2>. QED BY <2>1, <2>2, <2>3, OrderingsAreAlike
<1>18. s \in Ans[t]
  <2>1. PICK X, sts, A : X = Ans[t] /\ sts = stores /\ A = Ans
    OBVIOUS
  <2>2. X = AnswersBy(op, sts, A)
    BY <1>1, <1>5, <2>1, AnswerFacts
  <2>3. JoinAnswers(op, A, s)
    BY <1>1, <1>13, <1>16, <1>17, <2>1 DEF JoinAnswers
  <2>. QED BY <1>3, <2>1, <2>2, <2>3, AnswersByJoin
<1>19. Explained(t, made[t])
  BY <1>7, <1>18, NearItself DEF Explained
<1>20. InvOf(made, made, width)'
  BY <1>2, <1>3, <1>12, <1>19, MoveEnd
<1>. QED BY <1>20 DEF SomeInv

LEMMA OneElement ==
    ASSUME NEW S, NEW x \in S
    PROVE  <<x>> \in Seq(S) /\ Len(<<x>>) = 1 /\ <<x>>[1] = x /\ <<x>> # <<>>
OBVIOUS

-----------------------------------------------------------------------------
(* run_query. *)
LEMMA NothingMoves ==
    ASSUME PlanIsGiven, NEW made, NEW taken, NEW width, InvOf(made, taken, width),
           UNCHANGED <<plan, stores, stack, ret, memory, out>>,
           outcome' = "done" => out \in Ans[Root]
    PROVE  InvOf(made, taken, width)'
<1>1. Ops' = Ops /\ Ans' = Ans /\ Root' = Root
  BY SamePlan
<1>2. StackInv'
  BY DEF InvOf, StackInv, Ops, Root, Me, Top, Awaited, memory
<1>3. Typed(made, taken, width)'
  BY <1>1 DEF InvOf, Typed
<1>4. Source' = Source
  BY DEF Source, Root, Top, Awaited, memory
<1>5. PICK src : src = Source /\ src = Source'
  BY <1>4
<1>6. Explained(src, made[src])' <=> Explained(src, made[src])
  BY <1>1 DEF Explained
<1>7. Linked(made, taken, width)'
  <2>1. Linked(made, taken, width)
    BY DEF InvOf
  <2>2. ret = End => Explained(src, made[src])
    BY <1>5, <2>1 DEF Linked
  <2>3. ret' = End => Explained(Source, made[Source])'
    BY <1>5, <1>6, <2>2 DEF Explained
  <2>. QED BY <1>1, <1>5, <2>1, <2>3 DEF Linked
<1>8. ASSUME NEW o \in Ops PROVE LocalAt(o, made, taken, width)'
  <2>1. SameMemory(o)
    BY DEF SameMemory, memory
  <2>2. Waiting(o)' <=> Waiting(o)
    BY DEF Waiting
  <2>3. LocalAt(o, made, taken, width)
    BY DEF InvOf
  <2>. QED BY <2>1, <2>2, <2>3, OthersStay
<1>. QED BY <1>1, <1>2, <1>3, <1>7, <1>8 DEF InvOf

LEMMA DoFinish ==
    ASSUME PlanIsGiven, NEW made, NEW taken, NEW width, InvOf(made, taken, width), Finish
    PROVE  SomeInv'
<1>1. stack = <<>> /\ ret = End /\ ret.tag # "batch"
  BY DEF Finish, End
<1>2. Source = Root /\ Root \in Ops
  BY <1>1, PlanFacts DEF Source
<1>3. made[Root] = taken[Root] /\ Explained(Root, made[Root])
  BY <1>1, <1>2 DEF InvOf, Linked
<1>4. ~Skips(plan[Root])
  BY <1>2, PlanFacts
<1>5. made[Root] \in Ans[Root]
  BY <1>3, <1>4 DEF Explained, Near
<1>6. out \in Ans[Root]
  BY <1>3, <1>5 DEF InvOf
<1>7. InvOf(made, taken, width)'
  BY <1>6, NothingMoves DEF Finish
<1>. QED BY <1>7 DEF SomeInv

LEMMA DoMissingColumn ==
    ASSUME PlanIsGiven, NEW made, NEW taken, NEW width, InvOf(made, taken, width),
           MissingColumn \/ UNCHANGED vars
    PROVE  SomeInv'
<1>1. UNCHANGED <<plan, stores, stack, ret, memory, out>>
  BY DEF MissingColumn, vars, memory
<1>2. outcome' = "done" => out \in Ans[Root]
  BY DEF MissingColumn, vars, InvOf
<1>3. InvOf(made, taken, width)'
  BY <1>1, <1>2, NothingMoves
<1>. QED BY <1>3 DEF SomeInv

LEMMA DoDeliver ==
    ASSUME PlanIsGiven, NEW made, NEW taken, NEW width, InvOf(made, taken, width), Deliver
    PROVE  SomeInv'
<1>1. /\ stack = <<>> /\ ret.tag = "batch" /\ outcome = "running"
      /\ stack' = <<Root>> /\ ret' = Calling /\ out' = out \o ret.rows
      /\ UNCHANGED <<plan, stores, memory, outcome>>
  BY DEF Deliver, Root
<1>2. Ops' = Ops /\ Root' = Root /\ Ans' = Ans
  BY <1>1, SamePlan
<1>3. Source = Root /\ Root \in Ops
  BY <1>1, PlanFacts DEF Source
<1>4. /\ made[Root] = taken[Root] \o ret.rows
      /\ \A o \in Ops : o # Root => made[o] = taken[o]
  BY <1>1, <1>3, NotCalling DEF InvOf, Linked
<1>5. out' = made[Root']
  BY <1>1, <1>2, <1>4 DEF InvOf
<1>6. PICK one : one = stack'
  OBVIOUS
<1>7. one \in Seq(Ops) /\ Len(one) = 1 /\ one[1] = Root /\ one # <<>>
  BY <1>1, <1>3, <1>6, OneElement
<1>8. StackInv'
  <2>1. \A i \in 1..1 : ~(i < 1)
    OBVIOUS
  <2>2. \A i, j \in 1..1 : ~(i < j)
    OBVIOUS
  <2>. QED BY <1>1, <1>2, <1>6, <1>7, <2>1, <2>2 DEF StackInv
<1>9. Typed(made, made, width)'
  BY <1>2 DEF InvOf, Typed
<1>10. Linked(made, made, width)'
  BY <1>1 DEF Linked, Calling, End
<1>11. ASSUME NEW o \in Ops PROVE LocalAt(o, made, made, width)'
  <2>1. SameMemory(o)
    BY <1>1 DEF SameMemory, memory
  <2>2. ~Waiting(o)
    <3>1. Len(stack) = 0
      BY <1>1
    <3>. QED BY <3>1 DEF Waiting
  <2>3. ~Waiting(o)'
    <3>1. \A i \in 1..1 : ~(i < 1)
      OBVIOUS
    <3>. QED BY <1>1, <1>6, <1>7, <3>1 DEF Waiting
  <2>4. LocalAt(o, made, taken, width)
    BY DEF InvOf
  <2>5. \A c \in Children(plan[o]) : made[c] = taken[c]
    <3>1. \A c \in Children(plan[o]) : c \in Ops /\ c # Root
      BY PlanFacts, RootIsNoChild
    <3>. QED BY <1>4, <3>1
  <2>6. UNCHANGED <<plan, stores>>
    BY <1>1
  <2>. QED BY <2>1, <2>2, <2>3, <2>4, <2>5, <2>6, OthersStay
<1>12. InvOf(made, made, width)'
  BY <1>1, <1>2, <1>5, <1>8, <1>9, <1>10, <1>11 DEF InvOf
<1>. QED BY <1>12 DEF SomeInv

-----------------------------------------------------------------------------
LEMMA FirstPlan == Init => PlanIsGiven /\ Memories
BY DEF Init, PlanIsGiven, Memories

LEMMA FirstInv ==
    ASSUME PlanIsGiven, Init
    PROVE  SomeInv
<1>1. PICK none, unknown : none = [o \in Ops |-> <<>>] /\ unknown = [o \in Ops |-> Unknown]
  OBVIOUS
<1>2. /\ stack = <<Root>> /\ ret = Calling /\ out = <<>> /\ outcome = "running"
      /\ \A o \in Ops : /\ rg[o] = 1 /\ phase[o] = "new" /\ batches[o] = <<>>
                        /\ states[o] = <<>> /\ inited[o] = FALSE
  BY DEF Init, Root
<1>3. Root \in Ops
  BY PlanFacts
<1>4. stack \in Seq(Ops) /\ Len(stack) = 1 /\ stack[1] = Root /\ stack # <<>>
  BY <1>2, <1>3, OneElement
<1>5. StackInv
  <2>1. \A i \in 1..1 : ~(i < 1)
    OBVIOUS
  <2>2. \A i, j \in 1..1 : ~(i < j)
    OBVIOUS
  <2>. QED BY <1>2, <1>4, <2>1, <2>2 DEF StackInv
<1>6. Typed(none, none, unknown)
  BY <1>1 DEF Typed, RowsFor
<1>7. Linked(none, none, unknown)
  BY <1>2 DEF Linked, Calling, End
<1>8. ASSUME NEW o \in Ops PROVE LocalAt(o, none, none, unknown)
  <2>1. ~Waiting(o)
    <3>1. \A i \in 1..1 : ~(i < 1)
      OBVIOUS
    <3>. QED BY <1>2, <1>4, <3>1 DEF Waiting
  <2>2. PICK op : op = plan[o]
    OBVIOUS
  <2>3. \A c \in Children(op) : none[c] = <<>> /\ unknown[c] = Unknown
    <3>1. Children(op) \subseteq Ops
      BY <2>2, PlanFacts
    <3>. QED BY <1>1, <3>1
  <2>4. none[o] = <<>> /\ unknown[o] = Unknown
    BY <1>1
  <2>5. OneAnswer(o, <<>>, Unknown) /\ Collecting(o)
    BY <1>2, <2>1 DEF OneAnswer, Collecting
  <2>6. CASE op.kind = "scan"
    <3>1. PICK groups, cols, n : groups = Groups(o) /\ cols = op.cols /\ n = Len(groups)
      OBVIOUS
    <3>2. StoreFits(groups, cols)
      BY <2>2, <2>6, <3>1, ScanFacts
    <3>3. n \in Nat /\ RowsUpTo(groups, cols, 0) = <<>>
      BY <3>1, <3>2, StoreRowsGrow
    <3>4. 1 \in 1..n + 1 /\ 1 - 1 = 0
      BY <3>3
    <3>5. ScanAt(o, <<>>, Unknown)
      BY <1>2, <2>2, <3>1, <3>3, <3>4, NearItself DEF ScanAt
    <3>. QED BY <2>2, <2>4, <2>6, <3>5 DEF LocalAt
  <2>7. CASE op.kind = "filter"
    <3>1. op.child \in Children(op)
      BY <2>7 DEF Children
    <3>2. FilterAt(o, <<>>, Unknown, <<>>, Unknown)
      BY WhereEmpty DEF FilterAt
    <3>. QED BY <2>2, <2>3, <2>4, <2>7, <3>1, <3>2 DEF LocalAt
  <2>8. CASE op.kind = "project"
    <3>1. op.child \in Children(op)
      BY <2>8 DEF Children
    <3>2. ProjectAt(o, <<>>, Unknown, <<>>)
      BY EvaluatedEmpty DEF ProjectAt
    <3>. QED BY <2>2, <2>3, <2>4, <2>8, <3>1, <3>2 DEF LocalAt
  <2>9. CASE op.kind \in {"global", "hash"}
    <3>1. op.child \in Children(op)
      BY <2>9 DEF Children
    <3>2. Grouping(o, <<>>)
      BY <1>2, GroupsAfterNone, EmptySeq DEF Grouping
    <3>3. AggregateAt(o, <<>>, Unknown, <<>>)
      BY <2>5, <3>2 DEF AggregateAt
    <3>. QED BY <2>2, <2>3, <2>4, <2>9, <3>1, <3>3 DEF LocalAt
  <2>10. CASE op.kind = "sort"
    <3>1. op.child \in Children(op)
      BY <2>10 DEF Children
    <3>2. SortAt(o, <<>>, Unknown, <<>>, Unknown)
      BY <1>2, <2>5, KeptNothing DEF SortAt
    <3>. QED BY <2>2, <2>3, <2>4, <2>10, <3>1, <3>2 DEF LocalAt
  <2>11. CASE op.kind = "join"
    <3>1. op.build \in Children(op) /\ op.probe \in Children(op)
      BY <2>11 DEF Children
    <3>2. JoinAt(o, <<>>, Unknown, <<>>, Unknown, <<>>, Unknown)
      BY <1>2, KeptNothing DEF JoinAt
    <3>. QED BY <2>2, <2>3, <2>4, <2>11, <3>1, <3>2 DEF LocalAt
  <2>12. CASE op.kind \notin {"scan", "filter", "project", "global", "hash", "sort", "join"}
    BY <2>2, <2>12 DEF LocalAt
  <2>. QED BY <2>6, <2>7, <2>8, <2>9, <2>10, <2>11, <2>12
<1>9. InvOf(none, none, unknown)
  BY <1>1, <1>2, <1>3, <1>5, <1>6, <1>7, <1>8 DEF InvOf
<1>. QED BY <1>9 DEF SomeInv

Inv == PlanIsGiven /\ Memories /\ SomeInv

LEMMA NextKeepsInv ==
    ASSUME Inv, [Next]_vars
    PROVE  Inv'
<1>1. PICK made, taken, width : InvOf(made, taken, width)
  BY DEF Inv, SomeInv
<1>2. PlanIsGiven /\ Memories
  BY DEF Inv
<1>3. UNCHANGED <<plan, stores>>
  BY DEF Next, vars, Silent, MissingColumn, SkipGroup, ReadGroup, ScanEnd, AskChild, FilterBatch,
         ProjectBatch, PassEnd, Consume, AggregateBatch, AggregateResult, SortBatch, SortResult, Keep,
         JoinBuild, JoinBuildBatch, JoinBuilt, JoinProbe, JoinBatch, JoinEnd, Deliver, Finish
<1>4. PlanIsGiven' /\ Ops' = Ops
  BY <1>2, <1>3, SamePlan
<1>5. Memories'
  <2>1. \/ rg' = rg
        \/ \E x, v : rg' = [rg EXCEPT ![x] = v]
    BY DEF Next, vars, memory, MissingColumn, SkipGroup, ReadGroup, ScanEnd, AskChild, FilterBatch,
         ProjectBatch, PassEnd, Consume, AggregateBatch, AggregateResult, SortBatch, SortResult, Keep,
         JoinBuild, JoinBuildBatch, JoinBuilt, JoinProbe, JoinBatch, JoinEnd, Deliver, Finish
  <2>2. \/ phase' = phase
        \/ \E x, v : phase' = [phase EXCEPT ![x] = v]
    BY DEF Next, vars, memory, MissingColumn, SkipGroup, ReadGroup, ScanEnd, AskChild, FilterBatch,
         ProjectBatch, PassEnd, Consume, AggregateBatch, AggregateResult, SortBatch, SortResult, Keep,
         JoinBuild, JoinBuildBatch, JoinBuilt, JoinProbe, JoinBatch, JoinEnd, Deliver, Finish
  <2>3. \/ batches' = batches
        \/ \E x, v : batches' = [batches EXCEPT ![x] = v]
    BY DEF Next, vars, memory, MissingColumn, SkipGroup, ReadGroup, ScanEnd, AskChild, FilterBatch,
         ProjectBatch, PassEnd, Consume, AggregateBatch, AggregateResult, SortBatch, SortResult, Keep,
         JoinBuild, JoinBuildBatch, JoinBuilt, JoinProbe, JoinBatch, JoinEnd, Deliver, Finish
  <2>4. \/ states' = states
        \/ \E x, v : states' = [states EXCEPT ![x] = v]
    BY DEF Next, vars, memory, MissingColumn, SkipGroup, ReadGroup, ScanEnd, AskChild, FilterBatch,
         ProjectBatch, PassEnd, Consume, AggregateBatch, AggregateResult, SortBatch, SortResult, Keep,
         JoinBuild, JoinBuildBatch, JoinBuilt, JoinProbe, JoinBatch, JoinEnd, Deliver, Finish
  <2>5. \/ inited' = inited
        \/ \E x, v : inited' = [inited EXCEPT ![x] = v]
    BY DEF Next, vars, memory, MissingColumn, SkipGroup, ReadGroup, ScanEnd, AskChild, FilterBatch,
         ProjectBatch, PassEnd, Consume, AggregateBatch, AggregateResult, SortBatch, SortResult, Keep,
         JoinBuild, JoinBuildBatch, JoinBuilt, JoinProbe, JoinBatch, JoinEnd, Deliver, Finish
  <2>. QED BY <1>2, <1>4, <2>1, <2>2, <2>3, <2>4, <2>5 DEF Memories
<1>6. SomeInv'
  <2>1. CASE MissingColumn \/ UNCHANGED vars
    BY <1>1, <1>2, <2>1, DoMissingColumn
  <2>2. CASE SkipGroup
    BY <1>1, <1>2, <2>2, DoSkipGroup
  <2>3. CASE ReadGroup
    BY <1>1, <1>2, <2>3, DoReadGroup
  <2>4. CASE ScanEnd
    BY <1>1, <1>2, <2>4, DoScanEnd
  <2>5. CASE AskChild
    BY <1>1, <1>2, <2>5, DoAskChild
  <2>6. CASE FilterBatch
    BY <1>1, <1>2, <2>6, DoFilterBatch
  <2>7. CASE ProjectBatch
    BY <1>1, <1>2, <2>7, DoProjectBatch
  <2>8. CASE PassEnd
    BY <1>1, <1>2, <2>8, DoPassEnd
  <2>9. CASE Consume
    BY <1>1, <1>2, <2>9, DoConsume
  <2>10. CASE AggregateBatch
    BY <1>1, <1>2, <2>10, DoAggregateBatch
  <2>11. CASE AggregateResult
    BY <1>1, <1>2, <2>11, DoAggregateResult
  <2>12. CASE SortBatch
    BY <1>1, <1>2, <2>12, DoSortBatch
  <2>13. CASE SortResult
    BY <1>1, <1>2, <2>13, DoSortResult
  <2>14. CASE JoinBuild
    BY <1>1, <1>2, <2>14, DoJoinBuild
  <2>15. CASE JoinBuildBatch
    BY <1>1, <1>2, <2>15, DoJoinBuildBatch
  <2>16. CASE JoinBuilt
    BY <1>1, <1>2, <2>16, DoJoinBuilt
  <2>17. CASE JoinProbe
    BY <1>1, <1>2, <2>17, DoJoinProbe
  <2>18. CASE JoinBatch
    BY <1>1, <1>2, <2>18, DoJoinBatch
  <2>19. CASE JoinEnd
    BY <1>1, <1>2, <2>19, DoJoinEnd
  <2>20. CASE Deliver
    BY <1>1, <1>2, <2>20, DoDeliver
  <2>21. CASE Finish
    BY <1>1, <1>2, <2>21, DoFinish
  <2>. QED
    BY <2>1, <2>2, <2>3, <2>4, <2>5, <2>6, <2>7, <2>8, <2>9, <2>10, <2>11, <2>12, <2>13, <2>14,
       <2>15, <2>16, <2>17, <2>18, <2>19, <2>20, <2>21 DEF Next
<1>. QED BY <1>4, <1>5, <1>6 DEF Inv

LEMMA InvHolds == Spec => []Inv
<1>1. Init => Inv
  BY FirstPlan, FirstInv DEF Inv
<1>2. Inv /\ [Next]_vars => Inv'
  BY NextKeepsInv
<1>. QED BY <1>1, <1>2, PTL DEF Spec

(* Whatever run_query has printed when it is done is an answer its plan has *)
(* on the whole table: neither the row groups, nor those that a scan skips, *)
(* nor batches, accumulators and the order of calls can be seen.            *)
THEOREM PipelineRefinesPlan == Spec => []ResultIsAnAnswer
<1>1. Inv => ResultIsAnAnswer
  <2>1. ASSUME NEW made, NEW taken, NEW width, InvOf(made, taken, width) PROVE ResultIsAnAnswer
    BY <2>1 DEF InvOf, ResultIsAnAnswer, Answers, Ans, Root
  <2>. QED BY <2>1 DEF Inv, SomeInv
<1>. QED BY <1>1, InvHolds, PTL

(* Predicate pushdown is safe: whatever plan runs on whatever store with    *)
(* sound statistics (StoreProofs proves the writer's are), no row of a      *)
(* group that ScanOperator::Next leaves out would have passed its predicate.*)
THEOREM SkippingIsSafe == Spec => []SkippedGroupsHoldNoMatch
<1>1. Init => SkippedGroupsHoldNoMatch
  BY DEF Init, SkippedGroupsHoldNoMatch
<1>2. ASSUME Inv, SkippedGroupsHoldNoMatch, [Next]_vars PROVE SkippedGroupsHoldNoMatch'
  <2>1. CASE SkipGroup
    <3>1. PICK made, taken, width : InvOf(made, taken, width)
      BY <1>2 DEF Inv, SomeInv
    <3>2. PICK t, k, n, cols, w :
            t = Top /\ k = rg[t] /\ n = Len(Groups(t)) /\ cols = plan[t].cols /\ w = Len(cols)
      OBVIOUS
    <3>3. Called({"scan"})
      BY <2>1 DEF SkipGroup
    <3>4. t \in Ops /\ plan[t].kind = "scan" /\ k \in 1..n + 1 /\ n \in Nat
      BY <1>2, <3>1, <3>2, <3>3, ScanAtTop DEF Inv
    <3>5. k \in 1..n /\ CannotMatch(plan[t].skip, Groups(t)[k])
      BY <2>1, <3>2, <3>4 DEF SkipGroup, Group, Me
    <3>6. \A i \in DOMAIN Groups(t)[k].rows :
            ~apply_cmp(Groups(t)[k].rows[i][plan[t].skip.col], plan[t].skip.op, plan[t].skip.value)
      BY <1>2, <3>2, <3>4, <3>5, RuledOutGroupHoldsNoMatch DEF Inv
    <3>7. skipped' = skipped \cup {<<t, k>>} /\ UNCHANGED <<plan, stores>>
      BY <2>1, <3>2 DEF SkipGroup
    <3>8. /\ plan' = plan /\ stores' = stores
          /\ \A o : Groups(o)' = Groups(o)
      BY <3>7 DEF Groups
    <3>. SUFFICES ASSUME NEW s \in skipped', NEW i \in DOMAIN Groups(s[1])[s[2]].rows
         PROVE  LET skip == plan[s[1]].skip
                IN  ~apply_cmp(Groups(s[1])[s[2]].rows[i][skip.col], skip.op, skip.value)
      BY <3>8 DEF SkippedGroupsHoldNoMatch, Groups
    <3>9. CASE s \in skipped
      BY <1>2, <3>9 DEF SkippedGroupsHoldNoMatch
    <3>10. CASE s = <<t, k>>
      <4>1. s[1] = t /\ s[2] = k
        BY <3>10
      <4>. QED BY <3>6, <4>1
    <3>. QED BY <3>7, <3>9, <3>10
  <2>2. CASE ~SkipGroup
    <3>1. UNCHANGED <<plan, stores, skipped>>
      BY <1>2, <2>2
         DEF Next, vars, Silent, MissingColumn, ReadGroup, ScanEnd, AskChild, FilterBatch,
         ProjectBatch, PassEnd, Consume, AggregateBatch, AggregateResult, SortBatch, SortResult, Keep,
         JoinBuild, JoinBuildBatch, JoinBuilt, JoinProbe, JoinBatch, JoinEnd, Deliver, Finish
    <3>. QED BY <1>2, <3>1 DEF SkippedGroupsHoldNoMatch, Groups
  <2>. QED BY <2>1, <2>2
<1>. QED BY <1>1, <1>2, InvHolds, PTL DEF Spec

-----------------------------------------------------------------------------
(* What the operators keep has its type. *)
KeysDiffer(groups) == IsInjective([g \in DOMAIN groups |-> groups[g].key])
MemoryOK ==
    \A o \in Ops :
      /\ phase[o] \in {"new", "building", "done"}
      /\ plan[o].kind # "scan" => rg[o] = 1
      /\ batches[o] # <<>> => plan[o].kind \in {"sort", "join"}
      /\ states[o] # <<>> => plan[o].kind \in {"global", "hash"}
      /\ KeysDiffer(states[o])

LEMMA FirstMemory == Init => MemoryOK
BY DEF Init, MemoryOK, KeysDiffer, IsInjective

LEMMA GroupsAfterDiffer ==
    ASSUME NEW R, NEW op, NEW rows \in Seq(R)
    PROVE  KeysDiffer(GroupsAfter(op, rows))
<1>1. PICK keys : keys = KeysOf(rows, op.cols)
  OBVIOUS
<1>2. IsInjective(keys) /\ keys = [g \in DOMAIN keys |-> keys[g]]
  <2>1. IsInjective(keys)
    BY <1>1, KeysInjective
  <2>2. keys \in Seq(KeysIn(R, op.cols))
    BY <1>1, KeysType
  <2>. QED BY <2>1, <2>2, LenProperties
<1>3. GroupsAfter(op, rows) = [g \in DOMAIN keys |-> GroupOfKey(op, rows, keys[g])]
  BY <1>1 DEF GroupsAfter
<1>4. \A g \in DOMAIN keys : GroupOfKey(op, rows, keys[g]).key = keys[g]
  BY DEF GroupOfKey
<1>5. [g \in DOMAIN GroupsAfter(op, rows) |-> GroupsAfter(op, rows)[g].key] = keys
  BY <1>2, <1>3, <1>4
<1>. QED BY <1>2, <1>5 DEF KeysDiffer

LEMMA BatchedKeysDiffer ==
    ASSUME PlanIsGiven, Memories, SomeInv, AggregateBatch
    PROVE  Top \in Ops /\ KeysDiffer(states'[Top])
<1>1. PICK made, taken, width : InvOf(made, taken, width)
  BY DEF SomeInv
<1>2. PICK t, op, c, rows, n, before :
        /\ t = Top /\ op = plan[t] /\ c = op.child /\ rows = ret.rows /\ n = ret.width /\ before = states[t]
  OBVIOUS
<1>3. /\ op.kind \in {"global", "hash"} /\ stack # <<>> /\ ret.tag = "batch"
      /\ Touched(t, ret) \subseteq 1..n
      /\ states' = [states EXCEPT ![t] = WithBatch(op, before, rows)]
  BY <1>2 DEF AggregateBatch, Handed, Active, Me
<1>4. c = Awaited(t)
  BY <1>2, <1>3 DEF Awaited
<1>5. Handing(t, c, rows, n, made, taken, width)
  <2>1. t = Top /\ c = Awaited(t) /\ stack # <<>> /\ ret.tag = "batch"
    BY <1>2, <1>3, <1>4
  <2>. QED BY <1>1, <1>2, <2>1, HandedOver
<1>6. t \in Ops /\ rows \in Seq(Line(n)) /\ n \in Nat
  BY <1>5 DEF Handing
<1>7. AggregateOK(op)
  BY <1>2, <1>3, <1>6, EmptySeq, PlanFacts DEF OperatorOK, AggregateOK
<1>8. Waiting(t)
  BY <1>1, <1>2, <1>3, TopWaits, NotCalling
<1>9. PICK s, w, in : AggregateAt(t, s, w, in)
  BY <1>1, <1>2, <1>3, <1>6 DEF InvOf, LocalAt
<1>10. Grouping(t, in)
  BY <1>8, <1>9 DEF AggregateAt, Collecting
<1>11. rows \in Seq(Fitting(op)) /\ in \in Seq(Fitting(op)) /\ before = GroupsAfter(op, in)
  <2>1. ret.width \in Nat /\ ret.rows \in Seq(Line(ret.width)) /\ Touched(t, ret) \subseteq 1..ret.width
    BY <1>2, <1>3, <1>6
  <2>2. ret.rows \in Seq(Fitting(plan[t]))
    BY <1>2, <1>6, <1>7, <2>1, HandedRowsFit
  <2>. QED BY <1>2, <1>10, <2>2 DEF Grouping
<1>12. SpecsFit(op, Fitting(op))
  BY <1>7, AggregateFits
<1>13. WithBatch(op, before, rows) = GroupsAfter(op, in \o rows)
  BY <1>11, <1>12, GroupsGrow
<1>14. in \o rows \in Seq(Fitting(op))
  BY <1>11, ConcatProperties
<1>15. KeysDiffer(WithBatch(op, before, rows))
  BY <1>13, <1>14, GroupsAfterDiffer
<1>16. states'[t] = WithBatch(op, before, rows)
  BY <1>3, <1>6 DEF Memories
<1>. QED BY <1>2, <1>6, <1>15, <1>16

LEMMA NextKeepsMemory ==
    ASSUME Inv, MemoryOK, [Next]_vars
    PROVE  MemoryOK'
<1>1. UNCHANGED <<plan, stores>> /\ Ops' = Ops
  BY SamePlan
     DEF Next, vars, Silent, MissingColumn, SkipGroup, ReadGroup, ScanEnd, AskChild, FilterBatch,
         ProjectBatch, PassEnd, Consume, AggregateBatch, AggregateResult, SortBatch, SortResult, Keep,
         JoinBuild, JoinBuildBatch, JoinBuilt, JoinProbe, JoinBatch, JoinEnd, Deliver, Finish
<1>2. Memories
  BY DEF Inv
<1>3. ASSUME NEW o \in Ops PROVE phase'[o] \in {"new", "building", "done"}
  <2>1. \/ phase' = phase
        \/ \E x, v : v \in {"building", "done"} /\ phase' = [phase EXCEPT ![x] = v]
    BY DEF Next, vars, memory, MissingColumn, SkipGroup, ReadGroup, ScanEnd, AskChild, FilterBatch,
         ProjectBatch, PassEnd, Consume, AggregateBatch, AggregateResult, SortBatch, SortResult, Keep,
         JoinBuild, JoinBuildBatch, JoinBuilt, JoinProbe, JoinBatch, JoinEnd, Deliver, Finish
  <2>2. phase[o] \in {"new", "building", "done"}
    BY DEF MemoryOK
  <2>. QED BY <1>2, <2>1, <2>2 DEF Memories
<1>4. ASSUME NEW o \in Ops, plan[o].kind # "scan" PROVE rg'[o] = 1
  <2>1. \/ rg' = rg
        \/ Me.kind = "scan" /\ \E v : rg' = [rg EXCEPT ![Top] = v]
    BY DEF Next, vars, memory, MissingColumn, SkipGroup, ReadGroup, ScanEnd, AskChild, FilterBatch,
         ProjectBatch, PassEnd, Consume, AggregateBatch, AggregateResult, SortBatch, SortResult, Keep,
         JoinBuild, JoinBuildBatch, JoinBuilt, JoinProbe, JoinBatch, JoinEnd, Deliver, Finish,
         Called, Active
  <2>2. rg[o] = 1
    BY <1>4 DEF MemoryOK
  <2>. QED BY <1>2, <1>4, <2>1, <2>2 DEF Memories, Me
<1>5. ASSUME NEW o \in Ops, batches'[o] # <<>> PROVE plan[o].kind \in {"sort", "join"}
  <2>1. \/ batches' = batches
        \/ Me.kind \in {"sort", "join"} /\ \E v : batches' = [batches EXCEPT ![Top] = v]
    BY DEF Next, vars, memory, MissingColumn, SkipGroup, ReadGroup, ScanEnd, AskChild, FilterBatch,
         ProjectBatch, PassEnd, Consume, AggregateBatch, AggregateResult, SortBatch, SortResult, Keep,
         JoinBuild, JoinBuildBatch, JoinBuilt, JoinProbe, JoinBatch, JoinEnd, Deliver, Finish,
         Handed, Ended, Active
  <2>2. batches[o] # <<>> => plan[o].kind \in {"sort", "join"}
    BY DEF MemoryOK
  <2>. QED BY <1>2, <1>5, <2>1, <2>2 DEF Memories, Me
<1>6. states' = states \/ AggregateBatch
  BY DEF Next, vars, memory, MissingColumn, SkipGroup, ReadGroup, ScanEnd, AskChild, FilterBatch,
         ProjectBatch, PassEnd, Consume, AggregateBatch, AggregateResult, SortBatch, SortResult, Keep,
         JoinBuild, JoinBuildBatch, JoinBuilt, JoinProbe, JoinBatch, JoinEnd, Deliver, Finish
<1>7. ASSUME NEW o \in Ops
      PROVE  (states'[o] # <<>> => plan[o].kind \in {"global", "hash"}) /\ KeysDiffer(states'[o])
  <2>1. (states[o] # <<>> => plan[o].kind \in {"global", "hash"}) /\ KeysDiffer(states[o])
    BY DEF MemoryOK
  <2>2. CASE states' = states
    BY <2>1, <2>2
  <2>3. CASE AggregateBatch
    <3>1. /\ plan[Top].kind \in {"global", "hash"}
          /\ \E v : states' = [states EXCEPT ![Top] = v]
      BY <2>3 DEF AggregateBatch, Handed, Active, Me
    <3>2. KeysDiffer(states'[Top])
      BY <2>3, BatchedKeysDiffer DEF Inv
    <3>. QED BY <1>2, <2>1, <3>1, <3>2 DEF Memories
  <2>. QED BY <1>6, <2>2, <2>3
<1>. QED BY <1>1, <1>3, <1>4, <1>5, <1>7 DEF MemoryOK, KeysDiffer

LEMMA TypesFollow ==
    ASSUME Inv, MemoryOK, outcome \in {"running", "done", "undefined"}
    PROVE  TypeOK
<1>1. PICK made, taken, width : InvOf(made, taken, width)
  BY DEF Inv, SomeInv
<1>2. stack \in Seq(Ops)
  BY <1>1 DEF InvOf, StackInv
<1>3. \/ ret \in {Calling, End}
      \/ ret.tag = "batch" /\ \A i \in DOMAIN ret.rows : Len(ret.rows[i]) = ret.width
  <2>1. CASE ret \in {Calling, End}
    BY <2>1
  <2>2. CASE ret.tag = "batch" /\ ret.width \in Nat /\ ret \in BatchesOf(ret.width)
    <3>1. PICK n, rows : n = ret.width /\ rows = ret.rows
      OBVIOUS
    <3>2. n \in Nat /\ rows \in Seq(Line(n))
      BY <2>2, <3>1 DEF BatchesOf
    <3>3. ASSUME NEW i \in DOMAIN rows PROVE Len(rows[i]) = n
      <4>1. PICK line : line = rows[i]
        OBVIOUS
      <4>2. line \in Line(n)
        BY <3>2, <3>3, <4>1, LenProperties, ElementOfSeq
      <4>3. DOMAIN line = 1..n
        BY <4>2 DEF Line
      <4>4. line \in Seq(Int) /\ Len(line) = n
        BY <3>2, <4>2, SeqDef, LenProperties DEF Line
      <4>. QED BY <4>1, <4>4
    <3>. QED BY <2>2, <3>1, <3>3
  <2>. QED BY <1>1, <2>1, <2>2 DEF InvOf, Linked
<1>4. ASSUME NEW o \in Ops
      PROVE  rg[o] \in 1..(IF plan[o].kind = "scan" THEN Len(Groups(o)) + 1 ELSE 1)
  <2>1. CASE plan[o].kind = "scan"
    BY <1>1, <2>1 DEF InvOf, LocalAt, ScanAt
  <2>2. CASE plan[o].kind # "scan"
    BY <2>2 DEF MemoryOK
  <2>. QED BY <2>1, <2>2
<1>. QED BY <1>2, <1>3, <1>4 DEF TypeOK, MemoryOK, KeysDiffer

(* Calls, batches and what operators keep have their types in every run:    *)
(* only operators of the plan are called, a batch is as wide as it says, a  *)
(* scan never stands beyond its groups, only sorts and joins keep batches   *)
(* and only aggregates groups, of which no two have one key.                *)
THEOREM PipelineTypes == Spec => []TypeOK
<1>. DEFINE Ends == outcome \in {"running", "done", "undefined"}
<1>1. Init => MemoryOK /\ Ends
  BY FirstMemory DEF Init
<1>2. Inv /\ MemoryOK /\ Ends /\ [Next]_vars => (MemoryOK /\ Ends)'
  <2>1. ASSUME Inv, Ends, [Next]_vars PROVE Ends'
    BY <2>1 DEF Next, vars, Silent, MissingColumn, SkipGroup, ReadGroup, ScanEnd, AskChild, FilterBatch,
         ProjectBatch, PassEnd, Consume, AggregateBatch, AggregateResult, SortBatch, SortResult, Keep,
         JoinBuild, JoinBuildBatch, JoinBuilt, JoinProbe, JoinBatch, JoinEnd, Deliver, Finish
  <2>. QED BY <2>1, NextKeepsMemory
<1>3. Inv /\ MemoryOK /\ Ends => TypeOK
  BY TypesFollow
<1>. QED BY <1>1, <1>2, <1>3, InvHolds, PTL DEF Spec

-----------------------------------------------------------------------------
(* The columns of a plan's operators. *)
WidthsFit(W, n, pl) ==
    /\ W = [o \in 1..n |-> W[o]]
    /\ \A o \in 1..n : W[o] = WidthBy(pl[o], W)

LEMMA WidthByAgree ==
    ASSUME NEW op, NEW V, NEW W, \A o \in Children(op) : V[o] = W[o]
    PROVE  WidthBy(op, V) = WidthBy(op, W)
<1>1. CASE op.kind = "scan"
  BY <1>1 DEF WidthBy
<1>2. CASE op.kind = "join"
  <2>1. V[op.build] = W[op.build] /\ V[op.probe] = W[op.probe]
    BY <1>2 DEF Children
  <2>. QED BY <1>2, <2>1 DEF WidthBy
<1>3. CASE op.kind # "scan" /\ op.kind # "join"
  <2>1. V[op.child] = W[op.child]
    BY <1>3 DEF Children
  <2>. QED BY <1>3, <2>1 DEF WidthBy
<1>. QED BY <1>1, <1>2, <1>3

LEMMA OneMoreWidth ==
    ASSUME NEW pl, NEW n \in Nat, NEW k \in 0..n, k < n, ChildrenFirst(pl, n),
           NEW V, WidthsFit(V, k, pl)
    PROVE  \E W : WidthsFit(W, k + 1, pl)
<1>1. PICK next : next = WidthBy(pl[k + 1], V)
  OBVIOUS
<1>2. PICK W : W = [o \in 1..k + 1 |-> IF o = k + 1 THEN next ELSE V[o]]
  OBVIOUS
<1>3. W = [o \in 1..k + 1 |-> W[o]]
  BY <1>2
<1>4. \A o \in 1..k : W[o] = V[o]
  BY <1>2
<1>5. W[k + 1] = next
  BY <1>2
<1>6. ASSUME NEW o \in 1..k + 1 PROVE WidthBy(pl[o], V) = WidthBy(pl[o], W)
  <2>1. Children(pl[o]) \subseteq 1..o-1
    BY DEF ChildrenFirst
  <2>2. \A c \in Children(pl[o]) : V[c] = W[c]
    BY <1>4, <2>1
  <2>. QED BY <2>2, WidthByAgree
<1>7. \A o \in 1..k + 1 : W[o] = WidthBy(pl[o], W)
  <2>. SUFFICES ASSUME NEW o \in 1..k + 1 PROVE W[o] = WidthBy(pl[o], W)
    OBVIOUS
  <2>1. CASE o \in 1..k
    <3>1. V[o] = WidthBy(pl[o], V)
      BY <2>1 DEF WidthsFit
    <3>. QED BY <1>4, <1>6, <2>1, <3>1
  <2>2. CASE o = k + 1
    <3>1. W[o] = WidthBy(pl[o], V)
      BY <1>1, <1>5, <2>2
    <3>. QED BY <1>6, <3>1
  <2>. QED BY <2>1, <2>2
<1>. QED BY <1>3, <1>7 DEF WidthsFit

LEMMA WidthsAreFit ==
    ASSUME NEW pl, NEW n \in Nat, n = Len(pl), ChildrenFirst(pl, n)
    PROVE  \A o \in 1..n : WidthsOf(pl)[o] = WidthBy(pl[o], WidthsOf(pl))
<1>. DEFINE P == {k \in 0..n : \E W : WidthsFit(W, k, pl)}
<1>1. 0 \in P
  <2>1. PICK W : W = [o \in 1..0 |-> {}]
    OBVIOUS
  <2>2. W = [o \in 1..0 |-> W[o]] /\ \A o \in 1..0 : FALSE
    BY <2>1
  <2>3. WidthsFit(W, 0, pl)
    BY <2>2 DEF WidthsFit
  <2>. QED BY <2>3
<1>2. ASSUME NEW k \in 0..n, k \in P, k < n PROVE k + 1 \in P
  BY <1>2, OneMoreWidth
<1>3. PICK W : WidthsFit(W, n, pl)
  <2>1. 0..n \subseteq P
    <3>. HIDE DEF P
    <3>. QED BY <1>1, <1>2, UpToN
  <2>. QED BY <2>1
<1>. DEFINE Unfolds(f) == f = [o \in 1..n |-> WidthBy(pl[o], f)]
<1>4. Unfolds(W)
  BY <1>3 DEF WidthsFit
<1>5. PICK F : F = (CHOOSE f : Unfolds(f)) /\ F = WidthsOf(pl)
  BY DEF WidthsOf
<1>6. Unfolds(F)
  <2>. HIDE DEF Unfolds
  <2>. QED BY <1>4, <1>5
<1>7. \A o \in 1..n : F[o] = WidthBy(pl[o], F)
  BY <1>6
<1>. QED BY <1>5, <1>7

(* Of the plan that runs.  A batch is wide enough unless it comes from an   *)
(* operator that answers no rows whatever it is given.                      *)
Widths    == WidthsOf(plan)
Early(o)  == KindsUpTo(plan, o) \subseteq {"scan", "filter", "project"}
Barren(o) == Ans[o] = {<<>>}
Fine(o, w) == w = Widths[o] \/ (~Early(o) /\ Barren(o))

LEMMA PlanColumns ==
    ASSUME PlanIsGiven, NEW o \in Ops, NEW op, op = plan[o]
    PROVE  /\ Widths[o] = WidthBy(op, Widths)
           /\ \A child \in Children(op) : Asked(op, child) \subseteq 1..Widths[child]
           /\ op.kind \in {"global", "hash"} /\ op.cols = <<>> => Early(o - 1)
           /\ op.kind \in {"hash", "sort"} => KindsUpTo(plan, o - 1) \cap {"sort", "join"} = {}
<1>1. PICK c \in Cases : plan = c.plan /\ stores = c.stores
  BY DEF PlanIsGiven
<1>2. PlanOK(c) /\ ColumnsOK(c)
  BY CasesAssumption
<1>3. PICK pl, n : pl = plan /\ pl = c.plan /\ n = Len(pl)
  BY <1>1
<1>4. n \in Nat /\ ChildrenFirst(pl, n) /\ o \in 1..n
  BY <1>2, <1>3 DEF PlanOK, ChildrenFirst, Ops
<1>5. WidthsOf(pl)[o] = WidthBy(pl[o], WidthsOf(pl))
  BY <1>3, <1>4, WidthsAreFit
<1>6. /\ \A child \in Children(op) : Asked(op, child) \subseteq 1..WidthsOf(pl)[child]
      /\ op.kind \in {"global", "hash"} /\ op.cols = <<>> =>
           KindsUpTo(pl, o - 1) \subseteq {"scan", "filter", "project"}
      /\ op.kind \in {"hash", "sort"} => KindsUpTo(pl, o - 1) \cap {"sort", "join"} = {}
  BY <1>2, <1>3, <1>4 DEF ColumnsOK
<1>. QED BY <1>3, <1>5, <1>6 DEF Widths, Early

LEMMA KindsGrow ==
    ASSUME NEW i \in Int, NEW j \in Int, i <= j
    PROVE  KindsUpTo(plan, i) \subseteq KindsUpTo(plan, j)
BY DEF KindsUpTo

LEMMA EarlyChild ==
    ASSUME PlanIsGiven, NEW o \in Ops, NEW c \in Children(plan[o])
    PROVE  /\ Early(o) => Early(c) /\ plan[o].kind \in {"scan", "filter", "project"}
           /\ Early(o - 1) => Early(c)
           /\ c \in Ops /\ c < o
<1>1. c \in Ops /\ c < o /\ o \in Nat /\ c \in Nat /\ o \in 1..o
  BY PlanFacts
<1>2. plan[o].kind \in KindsUpTo(plan, o)
  BY <1>1 DEF KindsUpTo
<1>3. KindsUpTo(plan, c) \subseteq KindsUpTo(plan, o) /\ KindsUpTo(plan, c) \subseteq KindsUpTo(plan, o - 1)
  BY <1>1, KindsGrow
<1>. QED BY <1>1, <1>2, <1>3 DEF Early

(* Without sorts and joins an operator has one answer. *)
LEMMA OneAnswerOnly ==
    ASSUME PlanIsGiven, NEW o \in Ops, KindsUpTo(plan, o) \cap {"sort", "join"} = {}
    PROVE  \E r : Ans[o] = {r}
<1>1. Root \in Nat /\ Ops = 1..Root
  BY PlanFacts
<1>2. o \in Nat
  BY <1>1
<1>. DEFINE Ones == {p \in Ops : \E r : Ans[p] = {r}}
            P    == {k \in 0..o : 1..k \subseteq Ones}
<1>3. 0 \in P
  BY <1>2
<1>4. ASSUME NEW k \in 0..o, k \in P, k < o PROVE k + 1 \in P
  <2>1. PICK p : p = k + 1 /\ p \in 1..o /\ p \in Ops
    BY <1>1, <1>4
  <2>2. PICK op : op = plan[p]
    OBVIOUS
  <2>3. op.kind \in KindsUpTo(plan, o)
    BY <2>1, <2>2 DEF KindsUpTo
  <2>4. op.kind \notin {"sort", "join"}
    BY <2>3
  <2>5. OperatorOK(op, stores) /\ \A child \in Children(op) : child \in Ops /\ child < p
    BY <2>1, <2>2, PlanFacts
  <2>6. Ans[p] = AnswersBy(op, stores, Ans)
    BY <2>1, <2>2, AnswerFacts
  <2>9. p \in Ones => k + 1 \in P
    <3>. HIDE DEF Ones
    <3>1. 1..k \subseteq Ones /\ \A i \in 1..k + 1 : i \in 1..k \/ i = p
      BY <1>4, <2>1
    <3>. QED BY <1>4, <2>1, <3>1
  <2>7. CASE op.kind = "scan"
    <3>1. Ans[p] = {Scanned(stores[op.store], op.cols)}
      BY <2>6, <2>7, AnswersByKind
    <3>2. p \in Ones
      BY <2>1, <3>1
    <3>. QED BY <2>9, <3>2
  <2>8. CASE op.kind # "scan"
    <3>1. op.child \in Children(op)
      BY <2>4, <2>8 DEF Children
    <3>2. op.child \in 1..k
      BY <1>1, <2>1, <2>5, <3>1
    <3>3. PICK r : Ans[op.child] = {r}
      <4>1. op.child \in Ones
        <5>. HIDE DEF Ones
        <5>. QED BY <1>4, <3>2
      <4>. QED BY <4>1
    <3>4. op.kind \in {"filter", "project", "global", "hash"}
      BY <2>4, <2>5, <2>8 DEF OperatorOK
    <3>5. \E x : Ans[p] = {x}
      <4>1. CASE op.kind = "filter"
        <5>1. Ans[p] = {Where(rows, Passing(rows, op.preds)) : rows \in {r}}
          BY <2>6, <3>3, <4>1, AnswersByKind
        <5>. QED BY <5>1
      <4>2. CASE op.kind = "project"
        <5>1. Ans[p] = {Evaluated(rows, op.exprs) : rows \in {r}}
          BY <2>6, <3>3, <4>2, AnswersByKind
        <5>. QED BY <5>1
      <4>3. CASE op.kind \in {"global", "hash"}
        <5>1. Ans[p] = {Grouped(rows, op.cols, op.specs) : rows \in {r}}
          BY <2>6, <3>3, <4>3, AnswersByKind
        <5>. QED BY <5>1
      <4>. QED BY <3>4, <4>1, <4>2, <4>3
    <3>6. p \in Ones
      BY <2>1, <3>5
    <3>. QED BY <2>9, <3>6
  <2>. QED BY <2>7, <2>8
<1>5. 0..o \subseteq P
  <2>. HIDE DEF P
  <2>. QED BY <1>2, <1>3, <1>4, UpToN
<1>6. o \in 0..o /\ o \in 1..o
  BY <1>1
<1>7. o \in Ones
  <2>. HIDE DEF Ones
  <2>. QED BY <1>5, <1>6
<1>. QED BY <1>7

(* So what is grouped or sorted has no rows in any answer, or in none. *)
LEMMA NoRowsOnce ==
    ASSUME PlanIsGiven, NEW o \in Ops, plan[o].kind \in {"hash", "sort"},
           NEW c, c = plan[o].child, <<>> \in Ans[c]
    PROVE  Barren(c)
<1>1. c \in Children(plan[o])
  BY DEF Children
<1>2. c \in Ops /\ c < o /\ o \in Nat /\ c \in Nat
  BY <1>1, PlanFacts
<1>3. KindsUpTo(plan, o - 1) \cap {"sort", "join"} = {}
  BY PlanColumns
<1>4. KindsUpTo(plan, c) \subseteq KindsUpTo(plan, o - 1)
  BY <1>2, KindsGrow
<1>5. \E r : Ans[c] = {r}
  BY <1>2, <1>3, <1>4, OneAnswerOnly
<1>. QED BY <1>5 DEF Barren

LEMMA OrderingsOfNone ==
    ASSUME NEW s \in Orderings(<<>>)
    PROVE  s = <<>>
<1>1. PICK R, none : R = Row /\ none = <<>> /\ none \in Seq(R) /\ Len(none) = 0
  BY EmptySeq
<1>2. s \in Seq(R) /\ Alike(s, none, R)
  BY <1>1, OrderingsAreAlike
<1>3. Len(s) = 0
  BY <1>1, <1>2, AlikeLength
<1>. QED BY <1>2, <1>3, EmptySeq

LEMMA JoinedAnyEmpty ==
    ASSUME NEW left, NEW leftKey, NEW rightKey
    PROVE  Joined(left, <<>>, leftKey, rightKey) = <<>>
<1>1. PICK none : none = <<>> /\ none \in Seq({}) /\ Len(none) = 0
  BY EmptySeq
<1>2. Joined(left, none, leftKey, rightKey) = FlatMap(JoinAny(left, {}, leftKey, rightKey), none)
  BY <1>1, JoinAnyJoins
<1>. QED BY <1>1, <1>2, MappedEmpty

LEMMA WindowOfNone ==
    ASSUME NEW limit \in Nat, NEW offset \in Nat
    PROVE  Window(<<>>, limit, offset) = <<>>
<1>1. <<>> \in Seq({})
  BY EmptySeq
<1>2. PICK s \in Seq({}) : s = Window(<<>>, limit, offset)
  BY <1>1, WindowType
<1>3. s = <<>>
  <2>1. \A i \in 1..Len(s) : s[i] \in {}
    BY ElementOfSeq
  <2>2. Len(s) = 0
    BY <2>1, LenProperties
  <2>. QED BY <2>2, EmptySeq
<1>. QED BY <1>2, <1>3

(* Who works on the rows of a child that answers none, answers none.        *)
LEMMA BarrenAbove ==
    ASSUME PlanIsGiven, NEW o \in Ops, NEW c \in Children(plan[o]), Barren(c),
           plan[o].kind \in {"global", "hash"} => plan[o].cols # <<>>
    PROVE  Barren(o)
<1>2. PICK op, X, A, sts : op = plan[o] /\ X = Ans[o] /\ A = Ans /\ sts = stores
  OBVIOUS
<1>3. X = AnswersBy(op, sts, A) /\ Relations(X) /\ OperatorOK(op, sts)
  BY <1>2, AnswerFacts, PlanFacts
<1>4. X # {}
  BY <1>3 DEF Relations
<1>5. c \in Ops /\ Relations(A[c]) /\ A[c] = {<<>>}
  BY <1>2, PlanFacts, AnswerFacts DEF Barren
<1>6. op.kind # "scan"
  BY <1>2 DEF Children
<1>7. op.kind # "join" => c = op.child
  BY <1>2, <1>6 DEF Children
<1>8. ASSUME NEW r \in X PROVE r = <<>>
  <2>1. CASE op.kind = "filter"
    <3>1. X = {Where(rows, Passing(rows, op.preds)) : rows \in A[op.child]}
      BY <1>3, <2>1, AnswersByKind
    <3>. QED BY <1>5, <1>7, <1>8, <2>1, <3>1, WhereEmpty
  <2>2. CASE op.kind = "project"
    <3>1. X = {Evaluated(rows, op.exprs) : rows \in A[op.child]}
      BY <1>3, <2>2, AnswersByKind
    <3>. QED BY <1>5, <1>7, <1>8, <2>2, <3>1, EvaluatedEmpty
  <2>3. CASE op.kind \in {"global", "hash"}
    <3>1. X = {Grouped(rows, op.cols, op.specs) : rows \in A[op.child]}
      BY <1>3, <2>3, AnswersByKind
    <3>2. r = Grouped(<<>>, op.cols, op.specs)
      BY <1>5, <1>7, <1>8, <2>3, <3>1
    <3>3. op.cols # <<>>
      BY <1>2, <2>3
    <3>4. Grouped(<<>>, op.cols, op.specs) = <<>>
      BY <3>3, KeysEmpty DEF Grouped
    <3>. QED BY <3>2, <3>4
  <2>4. CASE op.kind = "sort"
    <3>1. SortAnswers(op, A, r)
      BY <1>3, <1>8, <2>4, AnswersBySort
    <3>2. PICK s \in SortedOrderings(<<>>, op.keys) : r = Window(s, op.limit, op.offset)
      BY <1>5, <1>7, <2>4, <3>1 DEF SortAnswers
    <3>3. s = <<>>
      BY <3>2, OrderingsOfNone DEF SortedOrderings
    <3>4. op.limit \in Nat /\ op.offset \in Nat
      BY <1>3, <2>4 DEF OperatorOK
    <3>. QED BY <3>2, <3>3, <3>4, WindowOfNone
  <2>5. CASE op.kind = "join"
    <3>1. JoinAnswers(op, A, r)
      BY <1>3, <1>8, <2>5, AnswersByJoin
    <3>2. PICK l \in A[op.build], p \in A[op.probe] :
            r \in Orderings(Joined(l, p, op.build_key, op.probe_key))
      BY <3>1 DEF JoinAnswers
    <3>3. op.build \in Children(op) /\ op.probe \in Children(op) /\ (c = op.build \/ c = op.probe)
      BY <1>2, <2>5 DEF Children
    <3>4. op.build \in Ops /\ op.probe \in Ops
      BY <1>2, <3>3, PlanFacts
    <3>6. Relations(A[op.probe])
      BY <1>2, <3>4, AnswerFacts
    <3>8. PICK R : p \in Seq(R)
      BY <3>2, <3>6 DEF Relations, Relation
    <3>9. Joined(l, p, op.build_key, op.probe_key) = <<>>
      <4>1. CASE c = op.build
        <5>1. l = <<>>
          BY <1>5, <3>2, <4>1
        <5>. QED BY <3>8, <5>1, JoinAnyToNone
      <4>2. CASE c = op.probe
        <5>1. p = <<>>
          BY <1>5, <3>2, <4>2
        <5>2. Joined(l, <<>>, op.build_key, op.probe_key) = <<>>
          BY JoinedAnyEmpty
        <5>. QED BY <5>1, <5>2
      <4>. QED BY <3>3, <4>1, <4>2
    <3>. QED BY <3>2, <3>9, OrderingsOfNone
  <2>. QED BY <1>3, <1>6, <2>1, <2>2, <2>3, <2>4, <2>5 DEF OperatorOK
<1>9. X = {<<>>}
  BY <1>4, <1>8
<1>. QED BY <1>2, <1>9 DEF Barren

(* If that child is not an early one, so is its parent not.                 *)
LEMMA BarrenParent ==
    ASSUME PlanIsGiven, NEW o \in Ops, NEW c \in Children(plan[o]), ~Early(c), Barren(c)
    PROVE  ~Early(o) /\ Barren(o)
<1>1. ~Early(o) /\ ~Early(o - 1)
  BY EarlyChild
<1>2. plan[o].kind \in {"global", "hash"} => plan[o].cols # <<>>
  BY <1>1, PlanColumns
<1>3. Barren(o)
  BY <1>2, BarrenAbove
<1>. QED BY <1>1, <1>3

-----------------------------------------------------------------------------
(* What is handed over, or was kept, is wide enough.                        *)
KeptFrom(op) == IF op.kind = "join" THEN op.build ELSE op.child
HandedWide == ret.tag = "batch" => Fine(Source, ret.width)
KeptWide   == \A o \in Ops : batches[o] # <<>> => Fine(KeptFrom(plan[o]), WidthOf(batches[o]))

LEMMA SameWidths ==
    ASSUME UNCHANGED <<plan, stores>>
    PROVE  /\ Widths' = Widths
           /\ \A o : Early(o)' = Early(o) /\ Barren(o)' = Barren(o)
           /\ \A o, w : Fine(o, w)' = Fine(o, w)
<1>1. Ans' = Ans /\ Widths' = Widths
  BY SamePlan DEF Widths
<1>2. \A o : Early(o)' = Early(o) /\ Barren(o)' = Barren(o)
  BY <1>1 DEF Early, Barren
<1>. QED BY <1>1, <1>2 DEF Fine

LEMMA FineParent ==
    ASSUME PlanIsGiven, NEW o \in Ops, NEW c \in Children(plan[o]), NEW w, Fine(c, w),
           Widths[o] = Widths[c]
    PROVE  Fine(o, w)
BY BarrenParent DEF Fine

(* The topmost operator returns a batch that is wide enough. *)
LEMMA WideReturn ==
    ASSUME PlanIsGiven, NEW made, NEW taken, NEW width, InvOf(made, taken, width),
           NEW t, StepOf(t), NEW w, NEW rows, Return(Batch(w, rows)), Fine(t, w)
    PROVE  HandedWide'
<1>1. UNCHANGED <<plan, stores>> /\ t = Top /\ stack # <<>> /\ StackInv
  BY DEF StepOf, InvOf
<1>2. \A o \in Ops : o # t => phase'[o] = phase[o]
  BY DEF StepOf, SameMemory
<1>3. PICK b : b = Batch(w, rows) /\ b = ret'
  BY DEF Return
<1>4. b # Calling /\ b.width = w
  BY <1>3, NotCalling DEF Batch
<1>5. Source' = t
  BY <1>1, <1>2, <1>3, <1>4, ReturnStack
<1>6. Fine(t, w)'
  BY <1>1, SameWidths
<1>7. PICK c : c = Source' /\ c = t
  BY <1>5
<1>8. Fine(c, w)' /\ ret'.width = w
  BY <1>3, <1>4, <1>6, <1>7
<1>. QED BY <1>7, <1>8 DEF HandedWide, Fine

LEMMA WideScan ==
    ASSUME PlanIsGiven, Memories, NEW made, NEW taken, NEW width, InvOf(made, taken, width), ReadGroup
    PROVE  HandedWide'
<1>1. PICK t, op, w : t = Top /\ op = plan[t] /\ w = Len(op.cols)
  OBVIOUS
<1>2. StepOf(t)
  BY <1>1, TopSteps DEF ScanStep
<1>3. op.kind = "scan" /\ stack # <<>> /\ \E rows : Return(Batch(w, rows))
  BY <1>1 DEF ReadGroup, Called, Active, Me
<1>4. t \in Ops
  BY <1>1, <1>3, TopOfStack DEF InvOf
<1>5. Widths[t] = w
  BY <1>1, <1>3, <1>4, PlanColumns DEF WidthBy
<1>. QED BY <1>2, <1>3, <1>5, WideReturn DEF Fine

LEMMA WidePass ==
    ASSUME PlanIsGiven, Memories, NEW made, NEW taken, NEW width, InvOf(made, taken, width),
           HandedWide, FilterBatch \/ ProjectBatch, ret'.tag = "batch"
    PROVE  HandedWide'
<1>1. PICK t, op, c, n : t = Top /\ op = plan[t] /\ c = op.child /\ n = ret.width
  OBVIOUS
<1>2. StepOf(t)
  BY <1>1, TopSteps DEF PassStep
<1>3. op.kind \in {"filter", "project"} /\ stack # <<>> /\ ret.tag = "batch"
  BY <1>1 DEF FilterBatch, ProjectBatch, Handed, Active, Me
<1>4. t \in Ops
  BY <1>1, <1>3, TopOfStack DEF InvOf
<1>5. Source = c /\ c \in Children(plan[t])
  BY <1>1, <1>3 DEF Source, Awaited, Children
<1>6. CASE FilterBatch
  <2>1. op.kind = "filter" /\ \E rows : Return(Batch(n, rows))
    BY <1>1, <1>6, NotCalling DEF FilterBatch, Handed, Active, Me, Call, Calling
  <2>2. Widths[t] = Widths[c]
    BY <1>1, <1>4, <2>1, PlanColumns DEF WidthBy
  <2>3. Fine(t, n)
    BY <1>1, <1>3, <1>4, <1>5, <2>2, FineParent DEF HandedWide
  <2>. QED BY <1>2, <2>1, <2>3, WideReturn
<1>7. CASE ProjectBatch
  <2>1. op.kind = "project" /\ \E rows : Return(Batch(Len(op.exprs), rows))
    BY <1>1, <1>7 DEF ProjectBatch, Handed, Active, Me
  <2>2. Widths[t] = Len(op.exprs)
    BY <1>1, <1>4, <2>1, PlanColumns DEF WidthBy
  <2>. QED BY <1>2, <2>1, <2>2, WideReturn DEF Fine
<1>. QED BY <1>6, <1>7

(* Without a batch an aggregate has no columns to group by, and no rows.    *)
LEMMA WideAggregate ==
    ASSUME PlanIsGiven, Memories, NEW made, NEW taken, NEW width, InvOf(made, taken, width),
           AggregateResult
    PROVE  HandedWide'
<1>1. PICK t, op, c, n : t = Top /\ op = plan[t] /\ c = op.child /\ n = AggregateWidth(t)
  OBVIOUS
<1>2. StepOf(t)
  BY <1>1, TopSteps DEF GatherStep
<1>3. /\ op.kind \in {"global", "hash"} /\ stack # <<>> /\ ret = End
      /\ \E rows : Return(Batch(n, rows))
  BY <1>1 DEF AggregateResult, Ended, Active, Me
<1>4. c = Awaited(t) /\ c \in Children(plan[t])
  BY <1>1, <1>3 DEF Awaited, Children
<1>5. /\ t \in Ops /\ c \in Ops /\ made[c] = taken[c] /\ made[c] \in Ans[c]
  BY <1>1, <1>3, <1>4, HasEnded
<1>6. AggregateOK(op) /\ (op.kind = "global" => op.cols = <<>>)
  BY <1>1, <1>3, <1>5, EmptySeq, PlanFacts DEF OperatorOK, AggregateOK
<1>7. Widths[t] = Len(op.cols) + Len(op.specs)
  BY <1>1, <1>3, <1>5, PlanColumns DEF WidthBy
<1>8. n = (IF inited[t] THEN Len(op.cols) ELSE 0) + Len(op.specs)
  BY <1>1 DEF AggregateWidth
<1>9. CASE inited[t] \/ op.cols = <<>>
  <2>1. n = Len(op.cols) + Len(op.specs)
    <3>1. op.cols = <<>> => Len(op.cols) = 0
      OBVIOUS
    <3>2. CASE inited[t]
      BY <1>8, <3>2
    <3>3. CASE op.cols = <<>>
      BY <1>8, <3>1, <3>3
    <3>. QED BY <1>9, <3>2, <3>3
  <2>. QED BY <1>2, <1>3, <1>7, <2>1, WideReturn DEF Fine
<1>10. CASE ~inited[t] /\ op.cols # <<>>
  <2>1. op.kind = "hash"
    BY <1>3, <1>6, <1>10
  <2>2. PICK s, w, in : s = made[t] /\ w = width[t] /\ in = taken[c]
    OBVIOUS
  <2>3. AggregateAt(t, s, w, in)
    BY <1>1, <1>3, <1>5, <2>2 DEF InvOf, LocalAt
  <2>4. Waiting(t)
    BY <1>1, <1>3, TopWaits, NotCalling
  <2>5. in = <<>>
    BY <1>10, <2>3, <2>4 DEF AggregateAt, Grouping, Collecting
  <2>6. Barren(c)
    BY <1>1, <1>5, <2>1, <2>2, <2>5, NoRowsOnce
  <2>7. Barren(t)
    BY <1>1, <1>4, <1>5, <1>10, <2>6, BarrenAbove
  <2>8. ~Early(t)
    <3>1. plan[t].kind \in KindsUpTo(plan, t)
      BY <1>5, PlanFacts DEF KindsUpTo
    <3>. QED BY <1>1, <2>1, <3>1 DEF Early
  <2>. QED BY <1>2, <1>3, <2>7, <2>8, WideReturn DEF Fine
<1>. QED BY <1>9, <1>10

(* A sort of rows has their columns; without a batch it has none. *)
LEMMA WideSort ==
    ASSUME PlanIsGiven, Memories, NEW made, NEW taken, NEW width, InvOf(made, taken, width),
           KeptWide, SortResult
    PROVE  HandedWide'
<1>1. PICK t, op, c, bs, n : t = Top /\ op = plan[t] /\ c = op.child /\ bs = batches[t] /\ n = WidthOf(bs)
  OBVIOUS
<1>2. StepOf(t)
  BY <1>1, TopSteps DEF GatherStep
<1>3. op.kind = "sort" /\ stack # <<>> /\ ret = End /\ \E rows : Return(Batch(n, rows))
  BY <1>1 DEF SortResult, Ended, Active, Me
<1>4. c = Awaited(t) /\ c \in Children(plan[t])
  BY <1>1, <1>3 DEF Awaited, Children
<1>5. t \in Ops /\ c \in Ops /\ made[c] = taken[c] /\ made[c] \in Ans[c]
  BY <1>1, <1>3, <1>4, HasEnded
<1>41. c = KeptFrom(plan[t])
  BY <1>1, <1>3 DEF KeptFrom
<1>6. CASE bs # <<>>
  <2>1. Widths[t] = Widths[c]
    BY <1>1, <1>3, <1>5, PlanColumns DEF WidthBy
  <2>2. Fine(c, n)
    BY <1>1, <1>41, <1>5, <1>6 DEF KeptWide
  <2>3. Fine(t, n)
    BY <1>4, <1>5, <2>1, <2>2, FineParent
  <2>. QED BY <1>2, <1>3, <2>3, WideReturn
<1>7. CASE bs = <<>>
  <2>1. PICK s, w, in, v : s = made[t] /\ w = width[t] /\ in = taken[c] /\ v = width[c]
    OBVIOUS
  <2>2. SortAt(t, s, w, in, v)
    BY <1>1, <1>3, <1>5, <2>1 DEF InvOf, LocalAt
  <2>3. Waiting(t)
    BY <1>1, <1>3, TopWaits, NotCalling
  <2>4. in = <<>>
    BY <1>1, <1>7, <2>2, <2>3, AllRowsOfNone DEF SortAt, Collecting, Kept
  <2>5. Barren(c)
    BY <1>1, <1>3, <1>5, <2>1, <2>4, NoRowsOnce
  <2>6. Barren(t)
    BY <1>1, <1>3, <1>4, <1>5, <2>5, BarrenAbove
  <2>7. ~Early(t)
    <3>1. plan[t].kind \in KindsUpTo(plan, t)
      BY <1>5, PlanFacts DEF KindsUpTo
    <3>. QED BY <1>1, <1>3, <3>1 DEF Early
  <2>. QED BY <1>2, <1>3, <2>6, <2>7, WideReturn DEF Fine
<1>. QED BY <1>6, <1>7

(* The matches of a join have the columns of both sides. *)
LEMMA WideJoin ==
    ASSUME PlanIsGiven, Memories, NEW made, NEW taken, NEW width, InvOf(made, taken, width),
           HandedWide, KeptWide, JoinBatch, ret'.tag = "batch"
    PROVE  HandedWide'
<1>1. PICK t, op, l, r, n, bs, z :
        /\ t = Top /\ op = plan[t] /\ l = op.build /\ r = op.probe
        /\ n = ret.width /\ bs = batches[t] /\ z = WidthOf(bs)
  OBVIOUS
<1>2. StepOf(t)
  BY <1>1, TopSteps DEF JoinStep
<1>3. PICK sel : sel = Joined(AllRows(bs), ret.rows, op.build_key, op.probe_key)
  OBVIOUS
<1>4. /\ op.kind = "join" /\ stack # <<>> /\ ret.tag = "batch" /\ phase[t] = "done"
      /\ sel = <<>> => Call(r)
      /\ sel # <<>> => Return(Batch(z + n, sel))
  BY <1>1, <1>3 DEF JoinBatch, Handed, Active, Me
<1>5. sel # <<>>
  BY <1>4 DEF Call, Calling
<1>6. r = Awaited(t) /\ r = Source
  BY <1>1, <1>4 DEF Awaited, Source
<1>7. Handing(t, r, ret.rows, n, made, taken, width)
  BY <1>1, <1>4, <1>6, HandedOver
<1>8. t \in Ops /\ ret.rows \in Seq(Line(n))
  BY <1>7 DEF Handing
<1>9. l \in Children(plan[t]) /\ r \in Children(plan[t]) /\ l = KeptFrom(plan[t])
  BY <1>1, <1>4 DEF Children, KeptFrom
<1>10. bs # <<>>
  <2>1. Joined(<<>>, ret.rows, op.build_key, op.probe_key) = <<>>
    BY <1>8, JoinAnyToNone
  <2>. QED BY <1>3, <1>5, <2>1, AllRowsOfNone
<1>11. Fine(l, z)
  BY <1>1, <1>8, <1>9, <1>10 DEF KeptWide
<1>12. Fine(r, n)
  BY <1>1, <1>4, <1>6 DEF HandedWide
<1>13. Widths[t] = Widths[l] + Widths[r]
  BY <1>1, <1>4, <1>8, PlanColumns DEF WidthBy
<1>14. Fine(t, z + n)
  <2>1. CASE z = Widths[l] /\ n = Widths[r]
    BY <1>13, <2>1 DEF Fine
  <2>2. CASE ~Early(l) /\ Barren(l)
    BY <1>8, <1>9, <2>2, BarrenParent DEF Fine
  <2>3. CASE ~Early(r) /\ Barren(r)
    BY <1>8, <1>9, <2>3, BarrenParent DEF Fine
  <2>. QED BY <1>11, <1>12, <2>1, <2>2, <2>3 DEF Fine
<1>. QED BY <1>2, <1>4, <1>5, <1>14, WideReturn

(* No other step hands a batch over. *)
LEMMA WideHanded ==
    ASSUME Inv, HandedWide, KeptWide, [Next]_vars
    PROVE  HandedWide'
<1>1. PICK made, taken, width : InvOf(made, taken, width)
  BY DEF Inv, SomeInv
<1>2. PlanIsGiven /\ Memories
  BY DEF Inv
<1>3. SUFFICES ASSUME ret'.tag = "batch" PROVE HandedWide'
  BY DEF HandedWide
<1>4. ret' # Calling /\ ret' # End
  BY <1>3 DEF Calling, End
<1>5. CASE UNCHANGED <<plan, stores, stack, ret, phase>>
  <2>1. Source' = Source
    BY <1>5 DEF Source, Root, Top, Awaited
  <2>2. PICK src : src = Source /\ src = Source'
    BY <2>1
  <2>3. Fine(src, ret.width)
    BY <1>3, <1>5, <2>2 DEF HandedWide
  <2>4. Fine(src, ret.width)'
    BY <1>5, <2>3, SameWidths
  <2>. QED BY <2>2, <2>4 DEF HandedWide, Fine
<1>6. CASE ReadGroup
  BY <1>1, <1>2, <1>6, WideScan
<1>7. CASE FilterBatch \/ ProjectBatch
  BY <1>1, <1>2, <1>3, <1>7, WidePass
<1>8. CASE AggregateResult
  BY <1>1, <1>2, <1>8, WideAggregate
<1>9. CASE SortResult
  BY <1>1, <1>2, <1>9, WideSort
<1>10. CASE JoinBatch
  BY <1>1, <1>2, <1>3, <1>10, WideJoin
<1>11. CASE MissingColumn \/ SkipGroup \/ Finish \/ UNCHANGED vars
  BY <1>5, <1>11 DEF MissingColumn, SkipGroup, Finish, vars, memory
<1>12. CASE ScanEnd \/ AskChild \/ PassEnd \/ Consume \/ AggregateBatch \/ Deliver
  BY <1>4, <1>12 DEF ScanEnd, AskChild, PassEnd, Consume, AggregateBatch, Deliver, Call, Return
<1>13. CASE SortBatch \/ JoinBuildBatch \/ JoinBuild \/ JoinBuilt \/ JoinProbe \/ JoinEnd
  BY <1>4, <1>13 DEF SortBatch, JoinBuildBatch, JoinBuild, JoinBuilt, JoinProbe, JoinEnd, Keep, Probe,
                     Call, Return
<1>. QED BY <1>6, <1>7, <1>8, <1>9, <1>10, <1>11, <1>12, <1>13 DEF Next

(* The first batch kept is the one that was handed over. *)
LEMMA FirstKept ==
    ASSUME NEW bs, NEW rows, NEW w, Kept(bs, rows, w), NEW b
    PROVE  WidthOf(Append(bs, b)) = IF bs = <<>> THEN b.width ELSE WidthOf(bs)
<1>1. PICK B : bs \in Seq(B)
  BY DEF Kept
<1>2. CASE bs = <<>>
  BY <1>2 DEF WidthOf
<1>3. CASE bs # <<>>
  <2>0. PICK C : C = B \cup {b}
    OBVIOUS
  <2>1. PICK more : bs \in Seq(C) /\ b \in C /\ more = Append(bs, b)
    <3>1. B \subseteq C /\ b \in C
      BY <2>0
    <3>. QED BY <1>1, <3>1, SeqMonotonic
  <2>2. 1 \in 1..Len(bs)
    BY <1>3, <2>1, EmptySeq
  <2>3. more # <<>> /\ more[1] = bs[1]
    BY <2>1, <2>2, AppendProperties
  <2>. QED BY <1>3, <2>1, <2>3 DEF WidthOf
<1>. QED BY <1>2, <1>3

(* What is kept by the topmost operator. *)
LEMMA WideKeep ==
    ASSUME PlanIsGiven, Memories, NEW made, NEW taken, NEW width, InvOf(made, taken, width),
           HandedWide, KeptWide, NEW t \in Ops, t = Top, stack # <<>>, ret.tag = "batch",
           Awaited(t) = KeptFrom(plan[t]), NEW rows, NEW v, Kept(batches[t], rows, v),
           NEW bs, bs = Append(batches[t], ret)
    PROVE  Fine(KeptFrom(plan[t]), WidthOf(bs))
<1>1. PICK c, b, old : c = KeptFrom(plan[t]) /\ b = ret /\ old = batches[t]
  OBVIOUS
<1>2. Source = c
  BY <1>1 DEF Source
<1>3. Fine(c, b.width)
  BY <1>1, <1>2 DEF HandedWide
<1>4. WidthOf(bs) = IF old = <<>> THEN b.width ELSE WidthOf(old)
  BY <1>1, FirstKept
<1>5. old # <<>> => Fine(c, WidthOf(old))
  BY <1>1 DEF KeptWide
<1>6. CASE old = <<>>
  BY <1>1, <1>3, <1>4, <1>6
<1>7. CASE old # <<>>
  BY <1>1, <1>4, <1>5, <1>7
<1>. QED BY <1>6, <1>7

(* So a kept batch stays wide enough when another comes, and when the build *)
(* side becomes one.                                                        *)
LEMMA WideKept ==
    ASSUME Inv, HandedWide, KeptWide, [Next]_vars
    PROVE  KeptWide'
<1>1. PICK made, taken, width : InvOf(made, taken, width)
  BY DEF Inv, SomeInv
<1>2. PlanIsGiven /\ Memories
  BY DEF Inv
<1>3. UNCHANGED <<plan, stores>>
  BY DEF Next, vars, Silent, MissingColumn, SkipGroup, ReadGroup, ScanEnd, AskChild, FilterBatch,
         ProjectBatch, PassEnd, Consume, AggregateBatch, AggregateResult, SortBatch, SortResult, Keep,
         JoinBuild, JoinBuildBatch, JoinBuilt, JoinProbe, JoinBatch, JoinEnd, Deliver, Finish
<1>4. Ops' = Ops
  BY <1>3, SamePlan
<1>5. SUFFICES ASSUME NEW o \in Ops, batches'[o] # <<>>
               PROVE  Fine(KeptFrom(plan[o]), WidthOf(batches'[o]))
  <2>1. \A o, w : Fine(o, w)' = Fine(o, w)
    BY <1>3, SameWidths
  <2>2. ASSUME NEW o \in Ops, batches'[o] # <<>>
        PROVE  Fine(KeptFrom(plan[o]), WidthOf(batches[o]))'
    <3>1. PICK c, w : c = KeptFrom(plan[o]) /\ w = WidthOf(batches'[o])
      OBVIOUS
    <3>2. Fine(c, w)
      BY <1>5, <2>2, <3>1
    <3>3. Fine(c, w)'
      BY <2>1, <3>2
    <3>4. KeptFrom(plan'[o]) = c
      BY <1>3, <3>1
    <3>. QED BY <3>1, <3>3, <3>4 DEF Fine
  <2>. QED BY <1>4, <2>2 DEF KeptWide
<1>6. CASE batches'[o] = batches[o]
  BY <1>5, <1>6 DEF KeptWide
<1>7. PICK t, op : t = Top /\ op = plan[t]
  OBVIOUS
<1>8. CASE SortBatch
  <2>1. /\ op.kind = "sort" /\ stack # <<>> /\ ret.tag = "batch"
        /\ batches' = [batches EXCEPT ![t] = Append(@, ret)]
    BY <1>7, <1>8 DEF SortBatch, Keep, Handed, Active, Me
  <2>2. o # t => batches'[o] = batches[o]
    BY <1>2, <2>1 DEF Memories
  <2>3. CASE o = t
    <3>1. Awaited(t) = KeptFrom(plan[t])
      BY <1>7, <2>1 DEF Awaited, KeptFrom
    <3>2. batches'[t] = Append(batches[t], ret)
      BY <1>2, <1>5, <2>1, <2>3 DEF Memories
    <3>3. Waiting(t)
      BY <1>1, <1>2, <1>7, <2>1, TopWaits, NotCalling
    <3>4. PICK rows, v : Kept(batches[t], rows, v)
      BY <1>1, <1>5, <1>7, <2>1, <2>3, <3>3 DEF InvOf, LocalAt, SortAt, Collecting
    <3>. QED BY <1>1, <1>2, <1>5, <1>7, <2>1, <2>3, <3>1, <3>2, <3>4, WideKeep
  <2>. QED BY <1>6, <2>2, <2>3
<1>9. CASE JoinBuildBatch
  <2>1. /\ op.kind = "join" /\ stack # <<>> /\ ret.tag = "batch" /\ phase[t] = "building"
        /\ batches' = [batches EXCEPT ![t] = Append(@, ret)]
    BY <1>7, <1>9 DEF JoinBuildBatch, Keep, Handed, Active, Me
  <2>2. o # t => batches'[o] = batches[o]
    BY <1>2, <2>1 DEF Memories
  <2>3. CASE o = t
    <3>1. Awaited(t) = KeptFrom(plan[t])
      BY <1>7, <2>1 DEF Awaited, KeptFrom
    <3>2. batches'[t] = Append(batches[t], ret)
      BY <1>2, <1>5, <2>1, <2>3 DEF Memories
    <3>4. PICK rows, v : Kept(batches[t], rows, v)
      BY <1>1, <1>5, <1>7, <2>1, <2>3 DEF InvOf, LocalAt, JoinAt
    <3>. QED BY <1>1, <1>2, <1>5, <1>7, <2>1, <2>3, <3>1, <3>2, <3>4, WideKeep
  <2>. QED BY <1>6, <2>2, <2>3
<1>10. CASE JoinBuilt
  <2>1. PICK x : batches' = [batches EXCEPT ![t] = IF @ = <<>> THEN @ ELSE <<Batch(WidthOf(@), x)>>]
    BY <1>7, <1>10 DEF JoinBuilt
  <2>2. o # t => batches'[o] = batches[o]
    BY <1>2, <2>1 DEF Memories
  <2>3. CASE o = t
    <3>1. PICK old, bs : old = batches[o] /\ bs = batches'[o]
                         /\ bs = IF old = <<>> THEN old ELSE <<Batch(WidthOf(old), x)>>
      BY <1>2, <1>5, <2>1, <2>3 DEF Memories
    <3>2. old # <<>> /\ bs = <<Batch(WidthOf(old), x)>>
      BY <1>5, <3>1
    <3>3. WidthOf(bs) = WidthOf(old)
      <4>1. PICK b, w : b = Batch(w, x) /\ w = WidthOf(old)
        OBVIOUS
      <4>2. bs = <<b>> /\ bs # <<>> /\ bs[1] = b
        BY <3>2, <4>1
      <4>3. b.width = w
        BY <4>1 DEF Batch
      <4>4. WidthOf(bs) = b.width
        BY <4>2 DEF WidthOf
      <4>. QED BY <4>1, <4>3, <4>4
    <3>. QED BY <1>5, <3>1, <3>2, <3>3 DEF KeptWide
  <2>. QED BY <1>6, <2>2, <2>3
<1>11. CASE ~(SortBatch \/ JoinBuildBatch \/ JoinBuilt)
  <2>1. batches' = batches
    BY <1>11 DEF Next, vars, memory, MissingColumn, SkipGroup, ReadGroup, ScanEnd, AskChild, FilterBatch,
         ProjectBatch, PassEnd, Consume, AggregateBatch, AggregateResult, SortResult,
         JoinBuild, JoinProbe, JoinBatch, JoinEnd, Deliver, Finish
  <2>. QED BY <1>6, <2>1
<1>. QED BY <1>8, <1>9, <1>10, <1>11

(* Up the stack, whoever waits for no rows answers none. *)
LEMMA BarrenStack ==
    ASSUME PlanIsGiven, StackInv, stack # <<>>, ~Early(Top), Barren(Top)
    PROVE  Barren(Root)
<1>1. PICK n \in Nat \ {0} : n = Len(stack) /\ stack[n] = Top
  BY TopOfStack
<1>2. stack \in Seq(Ops) /\ stack[1] = Root
  BY DEF StackInv
<1>3. n - 1 \in Nat
  BY <1>1
<1>. DEFINE P == {k \in 0..n - 1 : ~Early(stack[n - k]) /\ Barren(stack[n - k])}
<1>4. 0 \in P
  <2>1. 0 \in 0..n - 1 /\ n - 0 = n
    BY <1>1
  <2>2. ~Early(stack[n - 0]) /\ Barren(stack[n - 0])
    BY <1>1, <2>1
  <2>. QED BY <2>1, <2>2
<1>5. ASSUME NEW k \in 0..n - 1, k \in P, k < n - 1 PROVE k + 1 \in P
  <2>1. PICK i : i = n - (k + 1) /\ i \in 1..n /\ i < n /\ n - k = i + 1
    BY <1>1, <1>5
  <2>2. PICK o, c : o = stack[i] /\ c = stack[i + 1]
    OBVIOUS
  <2>3. plan[o].kind # "scan" /\ c = Awaited(o)
    BY <1>1, <2>1, <2>2 DEF StackInv
  <2>4. o \in Ops
    BY <1>1, <1>2, <2>1, <2>2, ElementOfSeq
  <2>5. c \in Children(plan[o])
    BY <2>3, AwaitedIsChild
  <2>6. ~Early(c) /\ Barren(c)
    BY <1>5, <2>1, <2>2
  <2>7. ~Early(o) /\ Barren(o)
    BY <2>4, <2>5, <2>6, BarrenParent
  <2>8. k + 1 \in 0..n - 1
    BY <1>1, <1>5
  <2>. QED BY <2>1, <2>2, <2>7, <2>8
<1>6. 0..n - 1 \subseteq P
  <2>. HIDE DEF P
  <2>. QED BY <1>3, <1>4, <1>5, UpToN
<1>7. n - 1 \in P
  <2>. HIDE DEF P
  <2>. QED BY <1>3, <1>6
<1>8. n - (n - 1) = 1
  BY <1>1
<1>. QED BY <1>2, <1>7, <1>8

(* The topmost operator indexes none but columns its child has. *)
LEMMA TouchedIsThere ==
    ASSUME PlanIsGiven, NEW t \in Ops, plan[t].kind # "scan", NEW c, c = Awaited(t), NEW b
    PROVE  Touched(t, b) \subseteq 1..Widths[c]
<1>1. PICK op : op = plan[t]
  OBVIOUS
<1>2. c \in Children(op)
  BY <1>1, AwaitedIsChild
<1>3. Asked(op, c) \subseteq 1..Widths[c]
  BY <1>1, <1>2, PlanColumns
<1>4. OperatorOK(op, stores)
  BY <1>1, PlanFacts
<1>5. Touched(t, b) \subseteq Asked(op, c)
  <2>1. CASE op.kind \in {"filter", "project"}
    BY <1>1, <2>1 DEF Touched, Asked
  <2>2. CASE op.kind \in {"global", "hash"}
    BY <1>1, <2>2 DEF Touched, Asked, Reckoned
  <2>3. CASE op.kind = "sort"
    BY <1>1, <2>3 DEF Touched, Asked, Reckoned
  <2>4. CASE op.kind = "join"
    <3>1. op.build # op.probe
      BY <1>1, <2>4, JoinFacts
    <3>2. c = IF phase[t] = "building" THEN op.build ELSE op.probe
      BY <1>1, <2>4 DEF Awaited
    <3>3. Asked(op, c) = {IF phase[t] = "building" THEN op.build_key ELSE op.probe_key}
      BY <2>4, <3>1, <3>2 DEF Asked
    <3>4. Touched(t, b) = {IF phase[t] = "building" THEN op.build_key ELSE op.probe_key}
      BY <1>1, <2>4 DEF Touched
    <3>. QED BY <3>3, <3>4
  <2>. QED BY <1>1, <1>4, <2>1, <2>2, <2>3, <2>4 DEF OperatorOK
<1>. QED BY <1>3, <1>5

(* So a column is missing only where the plan answers no rows. *)
LEMMA MissingOnlyOfNone ==
    ASSUME PlanIsGiven, NEW made, NEW taken, NEW width, InvOf(made, taken, width), HandedWide, MissingColumn
    PROVE  Ans[Root] = {<<>>}
<1>1. PICK t, c : t = Top /\ c = Awaited(t)
  OBVIOUS
<1>2. /\ StackInv /\ stack # <<>> /\ ret.tag = "batch" /\ ret # Calling
      /\ ~(Touched(t, ret) \subseteq 1..ret.width)
  BY <1>1, NotCalling DEF MissingColumn, InvOf
<1>3. t \in Ops /\ plan[t].kind # "scan" /\ c = Source
  BY <1>1, <1>2, TopOfStack DEF StackInv, Me, Source
<1>4. Touched(t, ret) \subseteq 1..Widths[c]
  BY <1>1, <1>3, TouchedIsThere
<1>5. ~Early(c) /\ Barren(c)
  <2>1. ret.width # Widths[c]
    BY <1>2, <1>4
  <2>2. Fine(c, ret.width)
    BY <1>2, <1>3 DEF HandedWide
  <2>. QED BY <2>1, <2>2 DEF Fine
<1>6. c \in Children(plan[t])
  BY <1>1, <1>3, AwaitedIsChild
<1>7. ~Early(t) /\ Barren(t)
  BY <1>3, <1>5, <1>6, BarrenParent
<1>8. Barren(Root)
  BY <1>1, <1>2, <1>7, BarrenStack
<1>. QED BY <1>8 DEF Barren

LEMMA ColumnsStayThere ==
    ASSUME Inv, HandedWide, ColumnsComeWithRows, [Next]_vars
    PROVE  ColumnsComeWithRows'
<1>1. Answers(plan, stores) = Ans[Root]
  BY DEF Answers, Ans, Root
<1>2. UNCHANGED <<plan, stores>>
  BY DEF Next, vars, Silent, MissingColumn, SkipGroup, ReadGroup, ScanEnd, AskChild, FilterBatch,
         ProjectBatch, PassEnd, Consume, AggregateBatch, AggregateResult, SortBatch, SortResult, Keep,
         JoinBuild, JoinBuildBatch, JoinBuilt, JoinProbe, JoinBatch, JoinEnd, Deliver, Finish
<1>3. Answers(plan, stores)' = Answers(plan, stores)
  BY <1>2
<1>4. CASE MissingColumn
  <2>1. Ans[Root] = {<<>>}
    BY <1>4, MissingOnlyOfNone DEF Inv, SomeInv
  <2>. QED BY <1>1, <1>3, <2>1 DEF ColumnsComeWithRows
<1>5. CASE ~MissingColumn
  <2>1. outcome' = outcome \/ outcome' = "done"
    BY <1>5 DEF Next, vars, Silent, SkipGroup, ReadGroup, ScanEnd, AskChild, FilterBatch,
         ProjectBatch, PassEnd, Consume, AggregateBatch, AggregateResult, SortBatch, SortResult, Keep,
         JoinBuild, JoinBuildBatch, JoinBuilt, JoinProbe, JoinBatch, JoinEnd, Deliver, Finish
  <2>. QED BY <1>3, <2>1 DEF ColumnsComeWithRows
<1>. QED BY <1>4, <1>5

(* An operator indexes a column its batch lacks only where the plan has no  *)
(* row in any answer, whatever the stores hold: a batch that has rows has   *)
(* all its columns (queries 24, 26 and 27 on a table without matches).      *)
THEOREM ColumnsAreThere == Spec => []ColumnsComeWithRows
<1>1. Init => HandedWide /\ KeptWide /\ ColumnsComeWithRows
  BY DEF Init, HandedWide, KeptWide, ColumnsComeWithRows, Calling
<1>2. Inv /\ HandedWide /\ KeptWide /\ ColumnsComeWithRows /\ [Next]_vars =>
        (HandedWide /\ KeptWide /\ ColumnsComeWithRows)'
  BY WideHanded, WideKept, ColumnsStayThere
<1>. QED BY <1>1, <1>2, InvHolds, PTL DEF Spec
=============================================================================
