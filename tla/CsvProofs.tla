------------------------------ MODULE CsvProofs ------------------------------
(***************************************************************************)
(* The reader of a CSV and its writer, for files of any length and any     *)
(* rows.  First the text of a row: what the loops of the writer append, and *)
(* how one place in it leads to the next.  Then the types and the quotes:  *)
(* upto keeps the quotes up to every counted character, the count of       *)
(* read_row is its last entry, and the flag of parse_line says whether its *)
(* entry at i is odd, so no row ends inside quotes.  Then what is read back *)
(* is what was written.                                                    *)
(***************************************************************************)
EXTENDS Csv, SequenceTheorems, WellFoundedInduction, TLAPS

(* A bounded, non-empty set of natural numbers has a least element. *)
LEMMA LeastOf ==
    ASSUME NEW S \in SUBSET Nat, S # {}
    PROVE  \E m \in S : \A v \in S : m <= v
<1>1. \E x \in S : \A y \in S : ~(<<y, x>> \in OpToRel(<, Nat))
  BY NatLessThanWellFounded, WFMin
<1>2. PICK x \in S : \A y \in S : ~(y < x)
  BY <1>1 DEF OpToRel
<1> QED
  BY <1>2

-----------------------------------------------------------------------------
(* What a loop over parts appends. *)

(* g is what it has appended after each of the first n parts. *)
SoFar(g, n, parts) ==
    /\ DOMAIN g = 0..n
    /\ g = [k \in 0..n |-> IF k = 0 THEN <<>> ELSE g[k - 1] \o parts[k]]
    /\ \A k \in 0..n : g[k] \in Seq(Char)

LEMMA OnePartMore ==
    ASSUME NEW parts \in Seq(Seq(Char)), NEW n \in Nat, n + 1 <= Len(parts),
           NEW g, SoFar(g, n, parts)
    PROVE  \E h : SoFar(h, n + 1, parts)
<1> DEFINE h == [k \in 0..n + 1 |-> IF k <= n THEN g[k] ELSE g[n] \o parts[n + 1]]
<1>1. g[n] \in Seq(Char) /\ parts[n + 1] \in Seq(Char) /\ n \in 0..n /\ n + 1 \in 1..Len(parts)
  BY ElementOfSeq DEF SoFar
<1>2. g[n] \o parts[n + 1] \in Seq(Char)
  BY <1>1, ConcatProperties
<1>3. \A k \in 0..n + 1 : h[k] \in Seq(Char)
  BY <1>2 DEF SoFar
<1>4. ASSUME NEW k \in 0..n + 1
      PROVE  h[k] = IF k = 0 THEN <<>> ELSE h[k - 1] \o parts[k]
  <2>1. CASE k <= n
    <3>1. k \in 0..n /\ h[k] = g[k] /\ (k # 0 => k - 1 \in 0..n /\ h[k - 1] = g[k - 1])
      BY <2>1
    <3> QED
      BY <3>1 DEF SoFar
  <2>2. CASE k = n + 1
    <3>1. k - 1 = n /\ n \in 0..n + 1 /\ n <= n /\ k # 0 /\ ~(k <= n)
      BY <2>2
    <3>2. h[n] = g[n] /\ h[k] = g[n] \o parts[n + 1]
      BY <3>1
    <3> QED
      BY <2>2, <3>1, <3>2
  <2> QED
    BY <2>1, <2>2
<1>5. SoFar(h, n + 1, parts)
  <2>1. DOMAIN h = 0..n + 1
    OBVIOUS
  <2>2. h = [k \in 0..n + 1 |-> IF k = 0 THEN <<>> ELSE h[k - 1] \o parts[k]]
    <3>1. h = [k \in 0..n + 1 |-> h[k]]
      OBVIOUS
    <3> HIDE DEF h
    <3> QED
      BY <1>4, <3>1
  <2> HIDE DEF h
  <2> QED
    BY <1>3, <2>1, <2>2 DEF SoFar
<1> QED
  BY <1>5

LEMMA SoFarExists ==
    ASSUME NEW parts \in Seq(Seq(Char)), NEW n \in 0..Len(parts)
    PROVE  \E g : SoFar(g, n, parts)
<1> DEFINE Bad == {k \in 0..Len(parts) : ~\E g : SoFar(g, k, parts)}
<1>1. SUFFICES ASSUME Bad # {} PROVE FALSE
  OBVIOUS
<1>2. PICK k \in Bad : \A v \in Bad : k <= v
  <2>1. Bad \in SUBSET Nat
    OBVIOUS
  <2> HIDE DEF Bad
  <2> QED
    BY <1>1, <2>1, LeastOf
<1>3. k # 0
  <2> DEFINE z == [j \in 0..0 |-> <<>>]
  <2>1. SoFar(z, 0, parts)
    <3>1. <<>> \in Seq(Char) /\ \A j \in 0..0 : j = 0
      OBVIOUS
    <3> QED
      BY <3>1 DEF SoFar
  <2> QED
    BY <2>1
<1>4. k - 1 \in 0..Len(parts) /\ k - 1 \notin Bad /\ k \in Nat /\ k - 1 \in Nat /\ (k - 1) + 1 = k
      /\ (k - 1) + 1 <= Len(parts)
  <2>1. k \in 0..Len(parts) /\ Bad \subseteq Nat
    BY <1>2
  <2> HIDE DEF Bad
  <2> QED
    BY <1>2, <1>3, <2>1
<1>5. PICK g : SoFar(g, k - 1, parts)
  BY <1>4
<1>6. \E h : SoFar(h, (k - 1) + 1, parts)
  BY <1>4, <1>5, OnePartMore
<1> QED
  BY <1>2, <1>4, <1>6

LEMMA AppendedPart ==
    ASSUME NEW parts \in Seq(Seq(Char))
    PROVE  /\ Appended(parts)[0] = <<>>
           /\ \A k \in 0..Len(parts) : Appended(parts)[k] \in Seq(Char)
           /\ \A k \in 1..Len(parts) : Appended(parts)[k] = Appended(parts)[k - 1] \o parts[k]
<1> DEFINE Unfolds(g) == g = [k \in 0..Len(parts) |-> IF k = 0 THEN <<>> ELSE g[k - 1] \o parts[k]]
           A == Appended(parts)
<1>1. A = CHOOSE g : Unfolds(g)
  BY DEF Appended
<1>2. \E g : Unfolds(g) /\ SoFar(g, Len(parts), parts)
  <2>1. Len(parts) \in 0..Len(parts)
    OBVIOUS
  <2>2. PICK g : SoFar(g, Len(parts), parts)
    BY <2>1, SoFarExists
  <2> QED
    BY <2>2 DEF SoFar
<1>3. Unfolds(A)
  <2> HIDE DEF A, Unfolds
  <2> QED
    BY <1>1, <1>2
<1>4. ASSUME NEW k \in 1..Len(parts) PROVE A[k] = A[k - 1] \o parts[k]
  <2>1. k \in 0..Len(parts) /\ k # 0
    OBVIOUS
  <2> HIDE DEF A
  <2> QED
    BY <1>3, <2>1
<1>5. A[0] = <<>>
  <2>1. 0 \in 0..Len(parts)
    OBVIOUS
  <2> HIDE DEF A
  <2> QED
    BY <1>3, <2>1
<1>6. \A k \in 0..Len(parts) : A[k] \in Seq(Char)
  <2> DEFINE Bad == {k \in 0..Len(parts) : A[k] \notin Seq(Char)}
  <2>1. SUFFICES ASSUME Bad # {} PROVE FALSE
    OBVIOUS
  <2>2. PICK k \in Bad : \A v \in Bad : k <= v
    <3>1. Bad \in SUBSET Nat
      OBVIOUS
    <3> HIDE DEF Bad
    <3> QED
      BY <2>1, <3>1, LeastOf
  <2>3. k # 0
    <3>1. A[k] \notin Seq(Char) /\ <<>> \in Seq(Char)
      BY <2>2
    <3> HIDE DEF A
    <3> QED
      BY <1>5, <3>1
  <2>4. k \in 1..Len(parts) /\ k - 1 \in 0..Len(parts) /\ A[k - 1] \in Seq(Char) /\ parts[k] \in Seq(Char)
    BY <2>2, <2>3, ElementOfSeq
  <2>5. A[k - 1] \o parts[k] \in Seq(Char)
    BY <2>4, ConcatProperties
  <2> QED
    BY <1>4, <2>2, <2>4, <2>5
<1> QED
  BY <1>4, <1>5, <1>6

LEMMA TwoTexts ==
    ASSUME NEW a \in Seq(Char), NEW b \in Seq(Char)
    PROVE  /\ a \o b \in Seq(Char) /\ Len(a \o b) = Len(a) + Len(b)
           /\ \A j \in 1..Len(a) : (a \o b)[j] = a[j]
           /\ \A j \in 1..Len(b) : (a \o b)[Len(a) + j] = b[j]
BY ConcatProperties

Begins(s, t) == Len(s) <= Len(t) /\ \A j \in 1..Len(s) : t[j] = s[j]

(* Each part follows what was there before it. *)
LEMMA AppendedGrows ==
    ASSUME NEW parts \in Seq(Seq(Char)), NEW k \in 1..Len(parts)
    PROVE  /\ Len(Appended(parts)[k - 1]) \in Nat /\ parts[k] \in Seq(Char)
           /\ Len(Appended(parts)[k]) = Len(Appended(parts)[k - 1]) + Len(parts[k])
           /\ Begins(Appended(parts)[k - 1], Appended(parts)[k])
           /\ \A j \in 1..Len(parts[k]) :
                Appended(parts)[k][Len(Appended(parts)[k - 1]) + j] = parts[k][j]
<1> DEFINE a == Appended(parts)[k - 1]
<1>1. k - 1 \in 0..Len(parts) /\ parts[k] \in Seq(Char)
  BY ElementOfSeq
<1>2. a \in Seq(Char)
  BY <1>1, AppendedPart
<1>3. Appended(parts)[k] = a \o parts[k]
  BY AppendedPart
<1> HIDE DEF a
<1>4. /\ Len(a) \in Nat /\ Len(a \o parts[k]) = Len(a) + Len(parts[k])
      /\ Len(parts[k]) \in Nat
      /\ \A j \in 1..Len(a) : (a \o parts[k])[j] = a[j]
      /\ \A j \in 1..Len(parts[k]) : (a \o parts[k])[Len(a) + j] = parts[k][j]
  BY <1>1, <1>2, TwoTexts
<1>5. Begins(a, a \o parts[k])
  BY <1>4 DEF Begins
<1> QED
  BY <1>1, <1>3, <1>4, <1>5 DEF a

LEMMA AppendedBegins ==
    ASSUME NEW parts \in Seq(Seq(Char)), NEW a \in 0..Len(parts), NEW b \in 0..Len(parts), a <= b
    PROVE  Begins(Appended(parts)[a], Appended(parts)[b])
<1> DEFINE A == Appended(parts)
           Bad == {k \in 0..Len(parts) : a <= k /\ ~Begins(A[a], A[k])}
<1>1. SUFFICES ASSUME Bad # {} PROVE FALSE
  <2>1. Bad = {} => Begins(A[a], A[b])
    OBVIOUS
  <2> QED
    BY <2>1
<1>2. PICK k \in Bad : \A v \in Bad : k <= v
  <2>1. Bad \in SUBSET Nat
    OBVIOUS
  <2> HIDE DEF Bad
  <2> QED
    BY <1>1, <2>1, LeastOf
<1>3. k \in 0..Len(parts) /\ a <= k /\ ~Begins(A[a], A[k]) /\ A[k] \in Seq(Char)
      /\ A[a] \in Seq(Char)
  BY <1>2, AppendedPart
<1>4. k # a
  BY <1>3 DEF Begins
<1>5. k \in 1..Len(parts) /\ k - 1 \in 0..Len(parts) /\ a <= k - 1
  BY <1>3, <1>4
<1>6. k - 1 \notin Bad
  <2>1. Bad \subseteq Nat
    OBVIOUS
  <2> HIDE DEF Bad
  <2> QED
    BY <1>2, <1>5, <2>1
<1>7. Begins(A[a], A[k - 1]) /\ A[k - 1] \in Seq(Char)
  BY <1>5, <1>6, AppendedPart
<1>8. Begins(A[k - 1], A[k])
  BY <1>5, AppendedGrows
<1> HIDE DEF A, Bad
<1> QED
  BY <1>3, <1>7, <1>8 DEF Begins

(* So each part is in the whole, in its place. *)
LEMMA PartInWhole ==
    ASSUME NEW parts \in Seq(Seq(Char)), NEW k \in 1..Len(parts)
    PROVE  /\ Len(Appended(parts)[k - 1]) + Len(parts[k]) <= Len(Appended(parts)[Len(parts)])
           /\ \A j \in 1..Len(parts[k]) :
                Appended(parts)[Len(parts)][Len(Appended(parts)[k - 1]) + j] = parts[k][j]
<1> DEFINE A == Appended(parts)
<1>1. /\ Len(A[k - 1]) \in Nat /\ Len(A[k]) = Len(A[k - 1]) + Len(parts[k])
      /\ Len(parts[k]) \in Nat
      /\ \A j \in 1..Len(parts[k]) : A[k][Len(A[k - 1]) + j] = parts[k][j]
  <2>1. parts[k] \in Seq(Char) => Len(parts[k]) \in Nat
    OBVIOUS
  <2> QED
    BY <2>1, AppendedGrows
<1>2. Begins(A[k], A[Len(parts)])
  BY AppendedBegins
<1> HIDE DEF A
<1>3. Len(A[k - 1]) + Len(parts[k]) <= Len(A[Len(parts)])
  BY <1>1, <1>2 DEF Begins
<1>4. ASSUME NEW j \in 1..Len(parts[k])
      PROVE  A[Len(parts)][Len(A[k - 1]) + j] = parts[k][j]
  <2>1. j \in Nat /\ 1 <= j /\ j <= Len(parts[k])
    BY <1>1
  <2>2. Len(A[k - 1]) + j \in 1..Len(A[k])
    <3>1. PICK x \in Nat : x = Len(A[k - 1])
      BY <1>1
    <3>2. Len(A[k]) = x + Len(parts[k]) /\ Len(parts[k]) \in Nat
      BY <1>1, <3>1
    <3>3. x + j \in 1..x + Len(parts[k])
      BY <2>1, <3>2
    <3> QED
      BY <3>1, <3>2, <3>3
  <2> QED
    BY <1>1, <1>2, <2>2 DEF Begins
<1> QED
  BY <1>3, <1>4 DEF A

-----------------------------------------------------------------------------
(* The text of a field. *)

(* How long the first k characters of a field are once escaped. *)
Width(f, k) == Len(Appended(Escaped(f))[k])

LEMMA EscapedParts ==
    ASSUME NEW f \in Seq(Char)
    PROVE  /\ Escaped(f) \in Seq(Seq(Char)) /\ Len(Escaped(f)) = Len(f)
           /\ \A k \in 1..Len(f) :
                IF f[k] = Quote
                  THEN /\ Len(Escaped(f)[k]) = 2
                       /\ Escaped(f)[k][1] = Quote /\ Escaped(f)[k][2] = Quote
                  ELSE Len(Escaped(f)[k]) = 1 /\ Escaped(f)[k][1] = f[k]
<1>1. \A k \in 1..Len(f) : f[k] \in Char /\ Quote \in Char
  BY ElementOfSeq DEF Char
<1>2. \A ch \in Char : <<ch>> \in Seq(Char) /\ <<ch, ch>> \in Seq(Char)
  OBVIOUS
<1>3. Escaped(f) \in [1..Len(f) -> Seq(Char)]
  BY <1>1, <1>2 DEF Escaped
<1> QED
  BY <1>1, <1>3 DEF Escaped

LEMMA Widths ==
    ASSUME NEW f \in Seq(Char)
    PROVE  /\ Width(f, 0) = 0 /\ \A k \in 0..Len(f) : Width(f, k) \in Nat
           /\ \A k \in 1..Len(f) : /\ Width(f, k) <= Width(f, Len(f))
                                   /\ Width(f, k) = Width(f, k - 1) + IF f[k] = Quote THEN 2 ELSE 1
<1> DEFINE E == Escaped(f)
<1>1. E \in Seq(Seq(Char)) /\ Len(E) = Len(f)
  BY EscapedParts
<1>2. \A k \in 0..Len(f) : Appended(E)[k] \in Seq(Char)
  BY <1>1, AppendedPart
<1>3. \A k \in 0..Len(f) : Width(f, k) \in Nat
  BY <1>2 DEF Width
<1>4. Width(f, 0) = 0
  <2>1. Appended(E)[0] = <<>> /\ Len(<<>>) = 0
    BY <1>1, AppendedPart
  <2> HIDE DEF E
  <2> QED
    BY <2>1 DEF Width, E
<1>5. ASSUME NEW k \in 1..Len(f)
      PROVE  Width(f, k) = Width(f, k - 1) + IF f[k] = Quote THEN 2 ELSE 1
  <2>1. Len(Appended(E)[k]) = Len(Appended(E)[k - 1]) + Len(E[k])
    BY <1>1, AppendedGrows
  <2>2. Len(E[k]) = IF f[k] = Quote THEN 2 ELSE 1
    BY EscapedParts
  <2> HIDE DEF E
  <2> QED
    BY <2>1, <2>2 DEF Width, E
<1>6. ASSUME NEW k \in 1..Len(f) PROVE Width(f, k) <= Width(f, Len(f))
  <2>1. Begins(Appended(E)[k], Appended(E)[Len(f)])
    BY <1>1, AppendedBegins
  <2> QED
    BY <2>1 DEF Width, Begins
<1> QED
  BY <1>3, <1>4, <1>5, <1>6

(* Where the characters of a field that needs quotes are in its text.       *)
Quoted(f, t) ==
    /\ Len(t) = Width(f, Len(f)) + 2
    /\ t[1] = Quote /\ t[Width(f, Len(f)) + 2] = Quote
    /\ \A k \in 1..Len(f) : /\ t[Width(f, k - 1) + 2] = f[k]
                            /\ f[k] = Quote => t[Width(f, k - 1) + 3] = Quote

LEMMA FieldText ==
    ASSUME NEW f \in Seq(Char)
    PROVE  /\ EscapeField(f) \in Seq(Char)
           /\ NeedsQuotes(f) => Quoted(f, EscapeField(f))
           /\ ~NeedsQuotes(f) => EscapeField(f) = f
<1>1. CASE ~NeedsQuotes(f)
  BY <1>1 DEF EscapeField
<1>2. CASE NeedsQuotes(f)
  <2> DEFINE E == Escaped(f)
             m == Appended(E)[Len(f)]
             q == <<Quote>>
  <2>1. E \in Seq(Seq(Char)) /\ Len(E) = Len(f)
    BY EscapedParts
  <2>2. /\ m \in Seq(Char) /\ q \in Seq(Char) /\ Len(q) = 1 /\ q[1] = Quote
        /\ Len(m) = Width(f, Len(f)) /\ Len(m) \in Nat
    <3>1. Len(f) \in 0..Len(E)
      BY <2>1
    <3>2. m \in Seq(Char) /\ m = Appended(E)[Len(f)]
      BY <2>1, <3>1, AppendedPart
    <3>3. Len(m) = Width(f, Len(f)) /\ q \in Seq(Char) /\ Len(q) = 1 /\ q[1] = Quote
      BY DEF Width, Char
    <3> QED
      BY <3>2, <3>3
  <2>3. EscapeField(f) = (q \o m) \o q
    BY <1>2 DEF EscapeField
  <2> HIDE DEF m, q
  <2>4. /\ q \o m \in Seq(Char) /\ Len(q \o m) = 1 + Len(m) /\ (q \o m)[1] = Quote
        /\ \A j \in 1..Len(m) : (q \o m)[1 + j] = m[j]
    <3>1. 1 \in 1..Len(q)
      BY <2>2
    <3>2. /\ q \o m \in Seq(Char) /\ Len(q \o m) = Len(q) + Len(m)
          /\ \A j \in 1..Len(q) : (q \o m)[j] = q[j]
          /\ \A j \in 1..Len(m) : (q \o m)[Len(q) + j] = m[j]
      BY <2>2, TwoTexts
    <3> QED
      BY <2>2, <3>1, <3>2
  <2>5. /\ EscapeField(f) \in Seq(Char) /\ Len(EscapeField(f)) = Len(m) + 2
        /\ \A j \in 1..1 + Len(m) : EscapeField(f)[j] = (q \o m)[j]
        /\ EscapeField(f)[Len(m) + 2] = Quote
    <3>1. /\ (q \o m) \o q \in Seq(Char) /\ Len((q \o m) \o q) = (1 + Len(m)) + 1
          /\ \A j \in 1..1 + Len(m) : ((q \o m) \o q)[j] = (q \o m)[j]
          /\ ((q \o m) \o q)[(1 + Len(m)) + 1] = Quote
      <4>1. 1 \in 1..Len(q)
        BY <2>2
      <4> QED
        BY <2>2, <2>4, <4>1, TwoTexts
    <3>2. (1 + Len(m)) + 1 = Len(m) + 2
      BY <2>2
    <3> QED
      BY <2>3, <3>1, <3>2
  <2>6. ASSUME NEW k \in 1..Len(f)
        PROVE  /\ EscapeField(f)[Width(f, k - 1) + 2] = f[k]
               /\ f[k] = Quote => EscapeField(f)[Width(f, k - 1) + 3] = Quote
    <3>1. /\ Width(f, k - 1) + Len(E[k]) <= Len(m)
          /\ \A j \in 1..Len(E[k]) : m[Width(f, k - 1) + j] = E[k][j]
      <4>1. k \in 1..Len(E)
        BY <2>1
      <4>2. /\ Len(Appended(E)[k - 1]) + Len(E[k]) <= Len(Appended(E)[Len(E)])
            /\ \A j \in 1..Len(E[k]) :
                 Appended(E)[Len(E)][Len(Appended(E)[k - 1]) + j] = E[k][j]
        BY <2>1, <4>1, PartInWhole
      <4> QED
        BY <2>1, <4>2 DEF Width, m
    <3>2. Width(f, k - 1) \in Nat
      BY Widths
    <3>3. IF f[k] = Quote THEN Len(E[k]) = 2 /\ E[k][1] = Quote /\ E[k][2] = Quote
                          ELSE Len(E[k]) = 1 /\ E[k][1] = f[k]
      BY EscapedParts
    <3> HIDE DEF E
    <3>4. m[Width(f, k - 1) + 1] = f[k] /\ Width(f, k - 1) + 1 \in 1..Len(m)
      <4>1. 1 \in 1..Len(E[k]) /\ E[k][1] = f[k] /\ 1 <= Len(E[k]) /\ Len(E[k]) \in Nat
        BY <3>3
      <4> QED
        BY <2>2, <3>1, <3>2, <4>1
    <3>5. f[k] = Quote => m[Width(f, k - 1) + 2] = Quote /\ Width(f, k - 1) + 2 \in 1..Len(m)
      <4> HAVE f[k] = Quote
      <4>1. 2 \in 1..Len(E[k]) /\ E[k][2] = Quote /\ Len(E[k]) = 2
        BY <3>3
      <4> QED
        BY <2>2, <3>1, <3>2, <4>1
    <3>6. /\ 1 + (Width(f, k - 1) + 1) = Width(f, k - 1) + 2
          /\ 1 + (Width(f, k - 1) + 2) = Width(f, k - 1) + 3
      BY <3>2
    <3>7. \A j \in 1..Len(m) : 1 + j \in 1..1 + Len(m) /\ EscapeField(f)[1 + j] = m[j]
      BY <2>2, <2>4, <2>5
    <3> QED
      BY <3>4, <3>5, <3>6, <3>7
  <2>7. EscapeField(f)[1] = Quote
    BY <2>2, <2>4, <2>5
  <2> QED
    BY <1>2, <2>2, <2>5, <2>6, <2>7 DEF Quoted
<1> QED
  BY <1>1, <1>2

-----------------------------------------------------------------------------
(* The text of a row. *)

LEMMA RowOfFields ==
    ASSUME NEW row \in Rows
    PROVE  row \in Seq(Seq(Char)) /\ Len(row) \in Nat \ {0}
<1>1. PICK n \in RowWidths : row \in [1..n -> Fields]
  BY DEF Rows
<1>2. n \in Nat \ {0}
  BY <1>1, WidthsAssumption
<1>3. row \in [1..n -> Seq(Char)]
  BY <1>1, FieldsAssumption
<1> QED
  BY <1>2, <1>3

LEMMA OfLength ==
    ASSUME NEW n \in Nat, NEW s \in [1..n -> Seq(Char)]
    PROVE  s \in Seq(Seq(Char)) /\ Len(s) = n
OBVIOUS

Sep(c) == IF c = 1 THEN 0 ELSE 1

LEMMA SeparatedParts ==
    ASSUME NEW row \in Seq(Seq(Char))
    PROVE  /\ Separated(row) \in Seq(Seq(Char)) /\ Len(Separated(row)) = Len(row)
           /\ \A c \in 1..Len(row) :
                /\ EscapeField(row[c]) \in Seq(Char) /\ Len(EscapeField(row[c])) \in Nat
                /\ Len(Separated(row)[c]) = Sep(c) + Len(EscapeField(row[c]))
                /\ c # 1 => Separated(row)[c][1] = Comma
                /\ \A j \in 1..Len(EscapeField(row[c])) :
                     Separated(row)[c][Sep(c) + j] = EscapeField(row[c])[j]
<1>1. ASSUME NEW c \in 1..Len(row) PROVE EscapeField(row[c]) \in Seq(Char)
  <2>1. row[c] \in Seq(Char)
    BY ElementOfSeq
  <2> QED
    BY <2>1, FieldText
<1> DEFINE comma == <<Comma>>
<1>2. comma \in Seq(Char) /\ Len(comma) = 1 /\ comma[1] = Comma
  BY DEF Char
<1>3. ASSUME NEW c \in 1..Len(row)
      PROVE  /\ comma \o EscapeField(row[c]) \in Seq(Char)
             /\ Len(comma \o EscapeField(row[c])) = 1 + Len(EscapeField(row[c]))
             /\ (comma \o EscapeField(row[c]))[1] = Comma
             /\ \A j \in 1..Len(EscapeField(row[c])) :
                  (comma \o EscapeField(row[c]))[1 + j] = EscapeField(row[c])[j]
  <2> HIDE DEF comma
  <2>1. /\ comma \o EscapeField(row[c]) \in Seq(Char)
        /\ Len(comma \o EscapeField(row[c])) = Len(comma) + Len(EscapeField(row[c]))
        /\ \A j \in 1..Len(comma) : (comma \o EscapeField(row[c]))[j] = comma[j]
        /\ \A j \in 1..Len(EscapeField(row[c])) :
             (comma \o EscapeField(row[c]))[Len(comma) + j] = EscapeField(row[c])[j]
    BY <1>1, <1>2, TwoTexts
  <2>2. 1 \in 1..Len(comma)
    BY <1>2
  <2> QED
    BY <1>2, <2>1, <2>2
<1>4. Separated(row) \in [1..Len(row) -> Seq(Char)]
  BY <1>1, <1>3 DEF Separated
<1>5. Separated(row) \in Seq(Seq(Char)) /\ Len(Separated(row)) = Len(row)
  <2>1. Len(row) \in Nat
    OBVIOUS
  <2> QED
    BY <1>4, <2>1, OfLength
<1>6. ASSUME NEW c \in 1..Len(row)
      PROVE  /\ Len(EscapeField(row[c])) \in Nat
             /\ Len(Separated(row)[c]) = Sep(c) + Len(EscapeField(row[c]))
             /\ c # 1 => Separated(row)[c][1] = Comma
             /\ \A j \in 1..Len(EscapeField(row[c])) :
                  Separated(row)[c][Sep(c) + j] = EscapeField(row[c])[j]
  <2>1. Len(EscapeField(row[c])) \in Nat
    BY <1>1
  <2>2. CASE c = 1
    <3>1. Separated(row)[c] = EscapeField(row[c]) /\ Sep(c) = 0
      BY <2>2 DEF Separated, Sep
    <3> QED
      BY <2>1, <2>2, <3>1
  <2>3. CASE c # 1
    <3>1. Separated(row)[c] = comma \o EscapeField(row[c]) /\ Sep(c) = 1
      BY <2>3 DEF Separated, Sep
    <3> HIDE DEF comma
    <3> QED
      BY <1>3, <2>1, <2>3, <3>1
  <2> QED
    BY <2>2, <2>3
<1> QED
  BY <1>1, <1>5, <1>6

(* Where field c of a row is in its text, and what follows it. *)
FieldAt(row, c) ==
    LET start == Start(row, c)
        len   == Len(EscapeField(row[c]))
        t     == RowText(row)
    IN  /\ start \in Nat /\ len \in Nat /\ start + len + 1 <= Len(t)
        /\ \A j \in 1..len : t[start + j] = EscapeField(row[c])[j]
        /\ IF c < Len(row)
             THEN t[start + len + 1] = Comma /\ Start(row, c + 1) = start + len + 1
             ELSE t[start + len + 1] = Newline /\ Len(t) = start + len + 1

LEMMA RowLayout ==
    ASSUME NEW row \in Seq(Seq(Char)), Len(row) # 0
    PROVE  /\ RowText(row) \in Seq(Char) /\ Start(row, 1) = 0
           /\ \A c \in 1..Len(row) : FieldAt(row, c)
<1> DEFINE S == Separated(row)
           A == Appended(S)
           n == Len(row)
           T == RowText(row)
<1>1. S \in Seq(Seq(Char)) /\ Len(S) = n /\ n \in Nat /\ n \in 1..n
  BY SeparatedParts
<1>2. A[0] = <<>> /\ \A k \in 0..n : A[k] \in Seq(Char)
  BY <1>1, AppendedPart
<1>3. Start(row, 1) = 0
  <2>1. Len(<<>>) = 0 /\ 1 - 1 = 0
    OBVIOUS
  <2> HIDE DEF A
  <2>2. Len(A[1 - 1]) = 0
    BY <1>2, <2>1
  <2> QED
    BY <2>2 DEF Start, A, S
<1>4. /\ T \in Seq(Char) /\ Len(T) = Len(A[n]) + 1 /\ Len(A[n]) \in Nat
      /\ \A j \in 1..Len(A[n]) : T[j] = A[n][j]
      /\ T[Len(A[n]) + 1] = Newline
  <2> DEFINE nl == <<Newline>>
             all == A[n]
  <2>1. nl \in Seq(Char) /\ Len(nl) = 1 /\ nl[1] = Newline /\ 1 \in 1..Len(nl)
    BY DEF Char
  <2>2. all \in Seq(Char)
    BY <1>1, <1>2
  <2>3. T = all \o nl
    BY DEF RowText
  <2> HIDE DEF all, nl, T
  <2>4. /\ T \in Seq(Char) /\ Len(T) = Len(all) + 1 /\ Len(all) \in Nat
        /\ \A j \in 1..Len(all) : T[j] = all[j]
        /\ T[Len(all) + 1] = Newline
    <3>1. /\ all \o nl \in Seq(Char) /\ Len(all \o nl) = Len(all) + Len(nl)
          /\ \A j \in 1..Len(all) : (all \o nl)[j] = all[j]
          /\ \A j \in 1..Len(nl) : (all \o nl)[Len(all) + j] = nl[j]
      BY <2>1, <2>2, TwoTexts
    <3> QED
      BY <2>1, <2>2, <2>3, <3>1
  <2> QED
    BY <2>4 DEF all
<1>5. ASSUME NEW c \in 1..n
      PROVE  FieldAt(row, c)
  <2> DEFINE len == Len(EscapeField(row[c]))
             before == Len(A[c - 1])
  <2>1. /\ c - 1 \in 0..n /\ before \in Nat /\ len \in Nat /\ Sep(c) \in {0, 1}
    <3>1. c - 1 \in 0..n
      BY <1>1
    <3>2. A[c - 1] \in Seq(Char)
      BY <1>2, <3>1
    <3> HIDE DEF A
    <3> QED
      BY <3>1, <3>2, SeparatedParts DEF Sep
  <2>2. Start(row, c) = before + Sep(c)
    BY DEF Start, Sep
  <2>3. /\ Len(S[c]) = Sep(c) + len
        /\ c # 1 => S[c][1] = Comma
        /\ \A j \in 1..len : S[c][Sep(c) + j] = EscapeField(row[c])[j]
    BY SeparatedParts
  <2>4. /\ before + Len(S[c]) <= Len(A[n])
        /\ \A j \in 1..Len(S[c]) : A[n][before + j] = S[c][j]
        /\ Len(A[c]) = before + Len(S[c])
    <3>1. c \in 1..Len(S)
      BY <1>1
    <3>2. /\ Len(A[c - 1]) + Len(S[c]) <= Len(A[Len(S)])
          /\ \A j \in 1..Len(S[c]) : A[Len(S)][Len(A[c - 1]) + j] = S[c][j]
      BY <1>1, <3>1, PartInWhole
    <3>3. Len(A[c]) = Len(A[c - 1]) + Len(S[c])
      BY <1>1, <3>1, AppendedGrows
    <3> HIDE DEF A, S
    <3> QED
      BY <1>1, <3>2, <3>3
  <2>5. /\ before + Sep(c) \in Nat
        /\ \A j \in 1..len : /\ T[(before + Sep(c)) + j] = EscapeField(row[c])[j]
    <3>1. before + Sep(c) \in Nat
      BY <2>1
    <3> SUFFICES ASSUME NEW j \in 1..len
                 PROVE  T[(before + Sep(c)) + j] = EscapeField(row[c])[j]
      BY <3>1
    <3> HIDE DEF A, S, T, len, before
    <3>2. Sep(c) + j \in 1..Len(S[c]) /\ (before + Sep(c)) + j = before + (Sep(c) + j)
          /\ before + (Sep(c) + j) \in 1..Len(A[n])
      <4>1. PICK x \in Nat : x = Len(A[n])
        BY <1>4
      <4>2. PICK y \in Nat : y = Sep(c)
        BY <2>1
      <4>3. j \in Nat /\ 1 <= j /\ j <= len /\ len \in Nat /\ before \in Nat
        BY <2>1
      <4>4. Len(S[c]) = y + len /\ before + (y + len) <= x
        BY <2>3, <2>4, <4>1, <4>2
      <4>5. y + j \in 1..y + len /\ (before + y) + j = before + (y + j)
            /\ before + (y + j) \in 1..x
        BY <4>3, <4>4
      <4> QED
        BY <4>1, <4>2, <4>4, <4>5
    <3> QED
      BY <1>4, <2>3, <2>4, <3>2 DEF len
  <2>6. CASE c = n
    <3> HIDE DEF A, S, T, len, before
    <3>1. Len(A[n]) = before + Sep(c) + len
      BY <2>1, <2>3, <2>4, <2>6
    <3>2. /\ Len(T) = before + Sep(c) + len + 1 /\ T[before + Sep(c) + len + 1] = Newline
          /\ ~(c < n)
      BY <1>1, <1>4, <3>1, <2>6
    <3> QED
      BY <2>1, <2>2, <2>5, <3>2 DEF FieldAt, T, len
  <2>7. CASE c < n
    <3>1. c + 1 \in 1..n /\ (c + 1) - 1 = c /\ c \in 0..n
      BY <1>1, <2>7
    <3>2. Start(row, c + 1) = Len(A[c]) + 1
      <4>1. c + 1 # 1
        BY <2>7
      <4> HIDE DEF A
      <4> QED
        BY <3>1, <4>1 DEF Start, A, S
    <3>3. S[c + 1][1] = Comma /\ Len(S[c + 1]) \in Nat /\ 1 <= Len(S[c + 1])
      <4>1. /\ EscapeField(row[c + 1]) \in Seq(Char) /\ Len(EscapeField(row[c + 1])) \in Nat
            /\ Len(S[c + 1]) = Sep(c + 1) + Len(EscapeField(row[c + 1]))
            /\ c + 1 # 1 => S[c + 1][1] = Comma
        BY <3>1, SeparatedParts
      <4>2. Sep(c + 1) = 1 /\ c + 1 # 1
        BY <2>7 DEF Sep
      <4> HIDE DEF S
      <4> QED
        BY <4>1, <4>2
    <3>4. /\ Len(A[c]) + Len(S[c + 1]) <= Len(A[n])
          /\ \A j \in 1..Len(S[c + 1]) : A[n][Len(A[c]) + j] = S[c + 1][j]
      <4>1. c + 1 \in 1..Len(S)
        BY <1>1, <3>1
      <4>2. /\ Len(A[(c + 1) - 1]) + Len(S[c + 1]) <= Len(A[Len(S)])
            /\ \A j \in 1..Len(S[c + 1]) : A[Len(S)][Len(A[(c + 1) - 1]) + j] = S[c + 1][j]
        BY <1>1, <4>1, PartInWhole
      <4> HIDE DEF A, S
      <4> QED
        BY <1>1, <3>1, <4>2
    <3> HIDE DEF A, S, T, len, before
    <3>5. Len(A[c]) = before + Sep(c) + len
      BY <2>1, <2>3, <2>4
    <3>6. T[Len(A[c]) + 1] = Comma /\ Len(A[c]) + 1 <= Len(A[n]) /\ Len(A[c]) \in Nat
      <4>1. Len(A[c]) \in Nat /\ 1 \in 1..Len(S[c + 1])
        BY <2>1, <3>3, <3>5
      <4>2. A[n][Len(A[c]) + 1] = Comma
        BY <3>3, <3>4, <4>1
      <4>3. Len(A[c]) + 1 \in 1..Len(A[n])
        <5>1. PICK x \in Nat : x = Len(A[n])
          BY <1>4
        <5>2. PICK y \in Nat : y = Len(A[c])
          BY <4>1
        <5>3. PICK z \in Nat : z = Len(S[c + 1]) /\ 1 <= z
          BY <3>3
        <5>4. y + z <= x
          BY <3>4, <5>1, <5>2, <5>3
        <5>5. y + 1 \in 1..x
          BY <5>3, <5>4
        <5> QED
          BY <5>1, <5>2, <5>5
      <4> QED
        BY <1>4, <4>1, <4>2, <4>3
    <3>7. /\ T[before + Sep(c) + len + 1] = Comma
          /\ Start(row, c + 1) = before + Sep(c) + len + 1
          /\ before + Sep(c) + len + 1 <= Len(T)
      BY <1>4, <3>2, <3>5, <3>6
    <3> QED
      BY <2>1, <2>2, <2>5, <2>7, <3>7 DEF FieldAt, T, len
  <2> QED
    BY <1>1, <2>6, <2>7
<1> QED
  BY <1>3, <1>4, <1>5

-----------------------------------------------------------------------------
(* From one place in a row to the next. *)

(* Field c ends after p characters: a comma and the next field follow, or   *)
(* the line break of the row.                                               *)
Ended(row, p, c) ==
    IF c < Len(row)
      THEN /\ RowText(row)[p + 1] = Comma
           /\ \E where \in {"plain", "open"} : Place(row, p + 1, c + 1, 0, where)
      ELSE RowText(row)[p + 1] = Newline /\ Len(RowText(row)) = p + 1

Leads(row, p, c, k, where) ==
    LET t == RowText(row)
        f == row[c]
    IN  /\ p \in Nat /\ p < Len(t)
        /\ where = "plain" =>
             IF k = Len(f) THEN Ended(row, p, c)
             ELSE /\ t[p + 1] = f[k + 1] /\ t[p + 1] \notin {Quote, Comma, Newline}
                  /\ k + 1 \in 0..Len(f) /\ Place(row, p + 1, c, k + 1, "plain")
        /\ where = "closed" => k = Len(f) /\ Ended(row, p, c)
        /\ where = "open" => k = 0 /\ t[p + 1] = Quote /\ Place(row, p + 1, c, 0, "quoted")
        /\ where = "between" => t[p + 1] = Quote /\ Place(row, p + 1, c, k, "quoted")
        /\ where = "quoted" =>
             CASE k = Len(f) ->
                    /\ t[p + 1] = Quote /\ p + 2 <= Len(t) /\ t[p + 2] # Quote
                    /\ Place(row, p + 1, c, k, "closed")
               [] k # Len(f) /\ f[k + 1] = Quote ->
                    /\ t[p + 1] = Quote /\ t[p + 2] = Quote
                    /\ k + 1 \in 0..Len(f)
                    /\ Place(row, p + 1, c, k + 1, "between")
                    /\ Place(row, p + 2, c, k + 1, "quoted")
               [] k # Len(f) /\ f[k + 1] # Quote ->
                    /\ t[p + 1] = f[k + 1]
                    /\ k + 1 \in 0..Len(f) /\ Place(row, p + 1, c, k + 1, "quoted")

LEMMA FirstPlace ==
    ASSUME NEW row \in Rows, NEW c \in 1..Len(row), NEW p, p = Start(row, c)
    PROVE  \E where \in {"plain", "open"} : Place(row, p, c, 0, where)
<1>1. row[c] \in Seq(Char) /\ Start(row, c) \in Nat
  BY RowOfFields, RowLayout, ElementOfSeq DEF FieldAt
<1>2. 0 \in 0..Len(row[c])
  BY <1>1
<1> QED
  BY <1>1, <1>2 DEF Place

LEMMA EndOfField ==
    ASSUME NEW row \in Rows, NEW c \in 1..Len(row), NEW p,
           p = Start(row, c) + Len(EscapeField(row[c]))
    PROVE  p \in Nat /\ p < Len(RowText(row)) /\ Ended(row, p, c)
<1>1. /\ FieldAt(row, c) /\ RowText(row) \in Seq(Char) /\ Len(row) \in Nat
  BY RowOfFields, RowLayout
<1>2. p \in Nat /\ p < Len(RowText(row))
  BY <1>1 DEF FieldAt
<1>3. CASE c < Len(row)
  <2>1. RowText(row)[p + 1] = Comma /\ Start(row, c + 1) = p + 1
    BY <1>1, <1>3 DEF FieldAt
  <2>2. c + 1 \in 1..Len(row)
    BY <1>1, <1>3
  <2>3. \E where \in {"plain", "open"} : Place(row, p + 1, c + 1, 0, where)
    BY <2>1, <2>2, FirstPlace
  <2> QED
    BY <1>2, <1>3, <2>1, <2>3 DEF Ended
<1>4. CASE ~(c < Len(row))
  BY <1>1, <1>2, <1>4 DEF FieldAt, Ended
<1> QED
  BY <1>3, <1>4

LEMMA NextPlace ==
    ASSUME NEW row \in Rows, NEW c \in 1..Len(row), NEW k \in 0..Len(row[c]),
           NEW p, NEW where, Place(row, p, c, k, where)
    PROVE  Leads(row, p, c, k, where)
<1> DEFINE f == row[c]
           e == EscapeField(f)
           t == RowText(row)
           s == Start(row, c)
           n == Len(f)
           d == Width(f, k)
           w == Width(f, n)
<1>1. f \in Seq(Char) /\ n \in Nat /\ k \in Nat /\ k <= n
  <2>1. f \in Seq(Char)
    BY RowOfFields, ElementOfSeq
  <2> QED
    BY <2>1
<1>2. FieldAt(row, c) /\ t \in Seq(Char)
  BY RowOfFields, RowLayout
<1>3. /\ s \in Nat /\ Len(e) \in Nat /\ s + Len(e) + 1 <= Len(t)
      /\ \A j \in 1..Len(e) : t[s + j] = e[j]
      /\ Len(t) \in Nat
  BY <1>2 DEF FieldAt
<1>4. CASE ~NeedsQuotes(f)
  <2>1. e = f /\ where = "plain" /\ p = s + k
    BY <1>1, <1>4, FieldText DEF Place
  <2>2. CASE k = n
    <3>1. p = s + Len(e)
      BY <2>1, <2>2
    <3>2. p \in Nat /\ p < Len(t) /\ Ended(row, p, c)
      BY <3>1, EndOfField
    <3> QED
      BY <2>1, <2>2, <3>2 DEF Leads
  <2>3. CASE k # n
    <3>1. k + 1 \in 1..n /\ k + 1 \in 0..n /\ Len(e) = n
      BY <1>1, <2>1, <2>3
    <3>2. p \in Nat /\ p < Len(t) /\ p + 1 = s + (k + 1)
      BY <1>1, <1>3, <2>1, <3>1
    <3>3. t[p + 1] = f[k + 1]
      BY <1>3, <2>1, <3>1, <3>2
    <3>4. f[k + 1] \notin {Quote, Comma, Newline}
      BY <1>4, <3>1 DEF NeedsQuotes
    <3>5. Place(row, p + 1, c, k + 1, "plain")
      BY <1>4, <3>1, <3>2 DEF Place
    <3> HIDE DEF e, t, s
    <3> QED
      BY <2>1, <2>3, <3>1, <3>2, <3>3, <3>4, <3>5 DEF Leads, t
  <2> QED
    BY <2>2, <2>3
<1>5. CASE NeedsQuotes(f)
  <2>1. /\ Width(f, 0) = 0 /\ \A j \in 0..n : Width(f, j) \in Nat
        /\ \A j \in 1..n : /\ Width(f, j) <= w
                           /\ Width(f, j) = Width(f, j - 1) + IF f[j] = Quote THEN 2 ELSE 1
    BY <1>1, Widths
  <2>2. d \in Nat /\ w \in Nat
    BY <1>1, <2>1
  <2>3. /\ Len(e) = w + 2 /\ e[1] = Quote /\ e[w + 2] = Quote
        /\ \A j \in 1..n : /\ e[Width(f, j - 1) + 2] = f[j]
                           /\ f[j] = Quote => e[Width(f, j - 1) + 3] = Quote
    BY <1>1, <1>5, FieldText DEF Quoted
  <2>4. \/ where = "open"    /\ k = 0 /\ p = s
        \/ where = "quoted"  /\ p = s + 1 + d
        \/ where = "between" /\ k # 0 /\ f[k] = Quote /\ p = s + d
        \/ where = "closed"  /\ k = n /\ p = s + 2 + d
    BY <1>5 DEF Place, Width
  <2>5. ASSUME NEW j \in 0..n, NEW q
        PROVE  /\ q = s + 1 + Width(f, j) => Place(row, q, c, j, "quoted")
               /\ j # 0 /\ f[j] = Quote /\ q = s + Width(f, j) => Place(row, q, c, j, "between")
               /\ j = n /\ q = s + 2 + Width(f, j) => Place(row, q, c, j, "closed")
    BY <1>5, <2>5 DEF Place, Width
  <2>6. s + w + 3 <= Len(t)
    BY <1>3, <2>2, <2>3
  <2>7. \A j \in 1..w + 2 : t[s + j] = e[j]
    BY <1>3, <2>3
  <2> HIDE DEF e, t, s, d, w, f, n
  <2>71. s \in Nat /\ Len(t) \in Nat /\ Len(e) \in Nat
    BY <1>3
  <2>8. CASE where = "open"
    <3>1. p = s /\ k = 0
      BY <2>4, <2>8
    <3>2. t[p + 1] = Quote /\ p \in Nat /\ p < Len(t)
      BY <1>3, <2>2, <2>3, <2>6, <2>7, <3>1
    <3>3. 0 \in 0..n /\ p + 1 = s + 1 + Width(f, 0)
      BY <1>1, <1>3, <2>1, <3>1
    <3>4. Place(row, p + 1, c, 0, "quoted")
      BY <2>5, <3>3
    <3> QED
      BY <2>8, <3>1, <3>2, <3>4 DEF Leads, t, f, n
  <2>9. CASE where = "closed"
    <3>1. p = s + Len(e) /\ k = n
      <4>1. p = s + 2 + d /\ k = n /\ d = w /\ Len(e) = w + 2
        BY <2>3, <2>4, <2>9 DEF d, w
      <4> QED
        BY <2>2, <2>71, <4>1
    <3>2. p \in Nat /\ p < Len(t) /\ Ended(row, p, c)
      BY <3>1, EndOfField DEF s, e, f, t
    <3> QED
      BY <2>9, <3>1, <3>2 DEF Leads, t, f, n
  <2>10. CASE where = "between"
    <3>1. k \in 1..n /\ k - 1 \in 0..n /\ f[k] = Quote /\ p = s + d
      BY <1>1, <2>4, <2>10
    <3>2. d = Width(f, k - 1) + 2 /\ d <= w /\ e[Width(f, k - 1) + 3] = Quote
          /\ Width(f, k - 1) \in Nat
      BY <2>1, <2>3, <3>1 DEF d
    <3>3. e[d + 1] = Quote /\ d + 1 \in 1..w + 2
      <4>1. Width(f, k - 1) + 3 = d + 1
        BY <3>2
      <4> QED
        BY <2>2, <3>2, <4>1
    <3>4. p + 1 = s + (d + 1) /\ p + 1 = s + 1 + d /\ p \in Nat /\ p < Len(t)
      <4>1. p = s + d /\ d <= w
        BY <3>1, <3>2
      <4> QED
        BY <2>2, <2>6, <2>71, <4>1
    <3>5. t[p + 1] = Quote
      BY <2>7, <3>3, <3>4
    <3>6. Place(row, p + 1, c, k, "quoted")
      BY <1>1, <2>5, <3>4 DEF d, n
    <3> QED
      BY <2>10, <3>4, <3>5, <3>6 DEF Leads, t, f, n
  <2>11. CASE where = "quoted" /\ k = n
    <3>1. p = s + 1 + d /\ d = w
      BY <2>4, <2>11 DEF d, w
    <3>2. p \in Nat /\ p + 2 <= Len(t) /\ p < Len(t) /\ p + 1 = s + (w + 2) /\ w + 2 \in 1..w + 2
          /\ p + 1 = s + 2 + d /\ p + 1 = s + Len(e)
      BY <1>3, <2>2, <2>3, <2>6, <3>1
    <3>3. t[p + 1] = Quote
      BY <2>3, <2>7, <3>2
    <3>4. Place(row, p + 1, c, k, "closed")
      BY <1>1, <2>5, <2>11, <3>2 DEF d
    <3>5. t[p + 2] # Quote
      <4>1. Ended(row, p + 1, c)
        BY <3>2, EndOfField DEF s, e, f, t
      <4>2. (p + 1) + 1 = p + 2
        BY <3>2
      <4> QED
        BY <4>1, <4>2 DEF Ended, t, Comma, Newline, Quote
    <3> QED
      BY <2>11, <3>2, <3>3, <3>4, <3>5 DEF Leads, t, f, n
  <2>12. CASE where = "quoted" /\ k # n
    <3>1. p = s + 1 + d
      BY <2>4, <2>12
    <3>2. k + 1 \in 1..n /\ k + 1 \in 0..n /\ (k + 1) - 1 = k
      BY <1>1, <2>12
    <3>3. /\ Width(f, k + 1) <= w
          /\ Width(f, k + 1) = d + IF f[k + 1] = Quote THEN 2 ELSE 1
          /\ e[d + 2] = f[k + 1]
          /\ f[k + 1] = Quote => e[d + 3] = Quote
      BY <2>1, <2>3, <3>2 DEF d
    <3>4. /\ p \in Nat /\ p < Len(t) /\ p + 1 = s + (d + 2) /\ d + 2 \in 1..w + 2
      <4>1. d + 1 <= w
        BY <2>2, <3>3
      <4> QED
        BY <2>2, <2>6, <2>71, <3>1, <4>1
    <3>5. t[p + 1] = f[k + 1]
      BY <2>7, <3>3, <3>4
    <3>6. CASE f[k + 1] = Quote
      <4>1. Width(f, k + 1) = d + 2 /\ e[d + 3] = Quote
        BY <3>3, <3>6
      <4>2. p + 2 = s + (d + 3) /\ d + 3 \in 1..w + 2
        BY <1>3, <2>2, <3>1, <3>3, <4>1
      <4>3. t[p + 2] = Quote
        BY <2>7, <4>1, <4>2
      <4>4. p + 1 = s + Width(f, k + 1) /\ p + 2 = s + 1 + Width(f, k + 1) /\ k + 1 # 0
        BY <1>1, <1>3, <2>2, <3>1, <4>1
      <4>5. Place(row, p + 1, c, k + 1, "between") /\ Place(row, p + 2, c, k + 1, "quoted")
        BY <2>5, <3>2, <3>6, <4>4
      <4> QED
        BY <2>12, <3>2, <3>4, <3>5, <3>6, <4>3, <4>5 DEF Leads, t, f, n
    <3>7. CASE f[k + 1] # Quote
      <4>1. p + 1 = s + 1 + Width(f, k + 1)
        BY <1>3, <2>2, <3>1, <3>3, <3>7
      <4>2. Place(row, p + 1, c, k + 1, "quoted")
        BY <2>5, <3>2, <4>1
      <4> QED
        BY <2>12, <3>2, <3>4, <3>5, <3>7, <4>2 DEF Leads, t, f, n
    <3> QED
      BY <3>6, <3>7
  <2> QED
    BY <2>4, <2>8, <2>9, <2>10, <2>11, <2>12
<1> QED
  BY <1>4, <1>5

-----------------------------------------------------------------------------
(* Types and quotes. *)

(* Nothing has been read while the writer writes. *)
Unread == pc = "write" => pos = 0 /\ origin = "writer"

IInv == TypeOK /\ QuotesAgree /\ Unread

LEMMA EmptySeqs ==
    /\ <<>> \in Seq(Char) /\ Len(<<>>) = 0 /\ <<>> \in Seq(Nat)
    /\ <<>> \in Seq(Seq(Char)) /\ <<>> \in Seq(Seq(Seq(Char)))
OBVIOUS

LEMMA Parity ==
    ASSUME NEW n \in Nat
    PROVE  /\ n % 2 \in {0, 1} /\ (n + 2) % 2 = n % 2
           /\ n % 2 = 1 => (n + 1) % 2 = 0
           /\ n % 2 = 0 => (n + 1) % 2 = 1
OBVIOUS

(* A part of the file is a sequence of characters. *)
LEMMA PartOfText ==
    ASSUME NEW t \in Seq(Char), NEW a \in Nat, NEW b \in Int, 1 <= a, b <= Len(t)
    PROVE  SubSeq(t, a, b) \in Seq(Char)
<1>1. \A k \in a..b : t[k] \in Char
  BY ElementOfSeq
<1> QED
  BY <1>1, SubSeqProperties

-----------------------------------------------------------------------------
(* The writer. *)

LEMMA WriterStep ==
    ASSUME IInv, (\E row \in Rows : WriteRow(row)) \/ CloseWriter \/ Kill
    PROVE  IInv'
<1> USE DEF IInv, TypeOK, Unread, lineVars, parseVars
<1>0. pc = "write" /\ UNCHANGED <<lineVars, parseVars, rows>> /\ pc' \in {"write", "row"}
  BY DEF WriteRow, CloseWriter, Kill
<1>1. CASE \E row \in Rows : WriteRow(row)
  <2>1. PICK row \in Rows : WriteRow(row)
    BY <1>1
  <2>2. RowText(row) \in Seq(Char) /\ row \in Seq(Seq(Char))
    BY RowLayout, RowOfFields
  <2>3. text' \in Seq(Char) /\ Len(text') >= Len(text) /\ Len(text') \in Nat
    <3>1. text' = text \o RowText(row)
      BY <2>1 DEF WriteRow
    <3> QED
      BY <2>2, <3>1, ConcatProperties
  <2>4. written' \in Seq(Seq(Seq(Char)))
    BY <2>1, <2>2, AppendProperties DEF WriteRow
  <2> QED
    BY <1>0, <2>1, <2>3, <2>4 DEF WriteRow, QuotesAgree, UpTo
<1>2. CASE CloseWriter
  BY <1>0, <1>2 DEF CloseWriter, fileVars, QuotesAgree, UpTo
<1>3. CASE Kill
  <2>1. PICK n \in 0..Len(text) : text' = SubSeq(text, 1, n)
    BY <1>3 DEF Kill
  <2>2. text' \in Seq(Char)
    BY <2>1, PartOfText
  <2> QED
    BY <1>0, <1>3, <2>2 DEF Kill, QuotesAgree, UpTo
<1> QED
  BY <1>1, <1>2, <1>3

-----------------------------------------------------------------------------
(* Taking lines from the file. *)

LEMMA NextLine ==
    ASSUME TypeOK, NEW n \in pos+1..Len(text)+1
    PROVE  /\ SubSeq(text, pos + 1, n - 1) \in Seq(Char)
           /\ After(n) \in 0..Len(text)
<1>1. pos \in Nat /\ Len(text) \in Nat /\ text \in Seq(Char)
  BY DEF TypeOK
<1> QED
  BY <1>1, PartOfText DEF After

LEMMA LineStep ==
    ASSUME IInv, FirstLine \/ EndOfFile \/ JoinLine \/ JoinAtEnd
    PROVE  IInv'
<1> USE DEF IInv, TypeOK, Unread, fileVars, lineVars, parseVars
<1>1. CASE FirstLine
  <2>1. PICK n \in pos+1..Len(text)+1 :
          line' = SubSeq(text, pos + 1, n - 1) /\ pos' = After(n)
    BY <1>1 DEF FirstLine
  <2>2. line' \in Seq(Char) /\ pos' \in 0..Len(text)
    BY <2>1, NextLine
  <2>3. quotes' = 0 /\ upto' = <<>> /\ pc' = "count"
        /\ UNCHANGED <<text, origin, written, i, in_quotes, field, fields, rows>>
        /\ pc = "row"
    BY <1>1 DEF FirstLine
  <2>4. i = 0 /\ ~in_quotes
    BY <2>3 DEF QuotesAgree
  <2>5. TypeOK'
    BY <2>2, <2>3, <2>4, EmptySeqs
  <2>6. QuotesAgree'
    BY <2>2, <2>3, <2>4, EmptySeqs DEF QuotesAgree, UpTo
  <2> QED
    BY <2>3, <2>5, <2>6
<1>2. CASE EndOfFile
  BY <1>2 DEF EndOfFile, QuotesAgree, UpTo
<1>3. CASE JoinLine
  <2>1. PICK n \in pos+1..Len(text)+1 :
          /\ line' = line \o <<Newline>> \o SubSeq(text, pos + 1, n - 1)
          /\ pos' = After(n)
    BY <1>3 DEF JoinLine
  <2>2. SubSeq(text, pos + 1, n - 1) \in Seq(Char) /\ pos' \in 0..Len(text)
    BY <2>1, NextLine
  <2>3. PICK t \in Seq(Char) : line' = Append(line, Newline) \o t
    <3>1. line \o <<Newline>> = Append(line, Newline)
      BY AppendIsConcat DEF Char
    <3> QED
      BY <2>1, <2>2, <3>1
  <2>4. /\ Append(line, Newline) \in Seq(Char)
        /\ Len(Append(line, Newline)) = Len(line) + 1
        /\ \A k \in 1..Len(line) : Append(line, Newline)[k] = line[k]
        /\ Append(line, Newline)[Len(line) + 1] = Newline
    BY AppendProperties DEF Char
  <2>5. /\ line' \in Seq(Char) /\ Len(line') >= Len(line) + 1 /\ Len(line') \in Nat
        /\ \A k \in 1..Len(line) + 1 : line'[k] = Append(line, Newline)[k]
    BY <2>3, <2>4, ConcatProperties
  <2>6. /\ upto' = Append(upto, quotes) /\ pc' = "count" /\ pc = "join"
        /\ UNCHANGED <<text, origin, written, quotes, i, in_quotes, field, fields, rows>>
    BY <1>3 DEF JoinLine
  <2>7. Len(upto) = Len(line) /\ i = 0 /\ ~in_quotes /\ quotes = UpTo(Len(upto))
        /\ \A k \in 1..Len(upto) :
             upto[k] = IF line[k] = Quote THEN UpTo(k - 1) + 1 ELSE UpTo(k - 1)
    BY <2>6 DEF QuotesAgree
  <2>8. /\ upto' \in Seq(Nat) /\ Len(upto') = Len(upto) + 1
        /\ \A k \in 1..Len(upto) : upto'[k] = upto[k]
        /\ upto'[Len(upto) + 1] = quotes
    BY <2>6, AppendProperties
  <2>9. TypeOK'
    BY <2>2, <2>5, <2>6, <2>7, <2>8
  <2>10. \A k \in 0..Len(upto) : UpTo(k)' = UpTo(k)
    BY <2>8 DEF UpTo
  <2>11. ASSUME NEW k \in 1..Len(upto')
         PROVE  upto'[k] = IF line'[k] = Quote THEN UpTo(k - 1)' + 1 ELSE UpTo(k - 1)'
    <3>1. CASE k <= Len(upto)
      <4>1. k \in 1..Len(upto) /\ k - 1 \in 0..Len(upto) /\ line'[k] = line[k]
        BY <2>4, <2>5, <2>7, <3>1
      <4> QED
        BY <2>7, <2>8, <2>10, <4>1
    <3>2. CASE k = Len(upto) + 1
      <4>1. line'[k] = Newline /\ k - 1 \in 0..Len(upto) /\ k - 1 = Len(upto)
        <5>1. Len(line) + 1 \in 1..Len(line) + 1 /\ k = Len(line) + 1 /\ Len(line) \in Nat
          BY <2>7, <3>2
        <5>2. line'[Len(line) + 1] = Newline
          BY <2>4, <2>5, <5>1
        <5> QED
          BY <2>7, <5>1, <5>2
      <4>2. line'[k] # Quote
        BY <4>1 DEF Newline, Quote
      <4> QED
        BY <2>7, <2>8, <2>10, <3>2, <4>1, <4>2
    <3> QED
      BY <2>8, <3>1, <3>2
  <2>12. quotes' = UpTo(Len(upto))'
    BY <2>6, <2>8 DEF UpTo
  <2>13. QuotesAgree'
    BY <2>5, <2>6, <2>7, <2>8, <2>11, <2>12 DEF QuotesAgree
  <2> QED
    BY <2>6, <2>9, <2>13 DEF Unread
<1>4. CASE JoinAtEnd
  <2>1. /\ pc = "join" /\ pc' = "parse" /\ pos = Len(text)
        /\ UNCHANGED <<fileVars, lineVars, parseVars, rows>>
    BY <1>4 DEF JoinAtEnd
  <2>2. ~in_quotes /\ UpTo(0) = 0 /\ i = 0
    BY <2>1 DEF QuotesAgree, UpTo
  <2> QED
    BY <2>1, <2>2 DEF QuotesAgree, UpTo
<1> QED
  BY <1>1, <1>2, <1>3, <1>4

-----------------------------------------------------------------------------
(* Counting quotes and splitting into fields. *)

LEMMA CountStep ==
    ASSUME IInv, CountChar \/ Counted
    PROVE  IInv'
<1> USE DEF IInv, TypeOK, Unread, fileVars, lineVars, parseVars
<1>1. CASE CountChar
  <2>1. /\ Len(upto) < Len(line) /\ pc = "count" /\ pc' = pc
        /\ quotes' = IF line[Len(upto) + 1] = Quote THEN quotes + 1 ELSE quotes
        /\ upto' = Append(upto, quotes')
        /\ UNCHANGED <<text, origin, written, pos, line, i, in_quotes, field, fields, rows>>
    BY <1>1 DEF CountChar
  <2>2. /\ i = 0 /\ ~in_quotes /\ quotes = UpTo(Len(upto))
        /\ \A k \in 1..Len(upto) :
             upto[k] = IF line[k] = Quote THEN UpTo(k - 1) + 1 ELSE UpTo(k - 1)
    BY <2>1 DEF QuotesAgree
  <2>3. quotes' \in Nat
    BY <2>1
  <2>4. /\ upto' \in Seq(Nat) /\ Len(upto') = Len(upto) + 1
        /\ \A k \in 1..Len(upto) : upto'[k] = upto[k]
        /\ upto'[Len(upto) + 1] = quotes'
    BY <2>1, <2>3, AppendProperties
  <2>5. \A k \in 0..Len(upto) : UpTo(k)' = UpTo(k)
    BY <2>4 DEF UpTo
  <2>6. ASSUME NEW k \in 1..Len(upto')
        PROVE  upto'[k] = IF line'[k] = Quote THEN UpTo(k - 1)' + 1 ELSE UpTo(k - 1)'
    <3>1. k - 1 \in 0..Len(upto) /\ line' = line
      BY <2>1, <2>4
    <3>2. CASE k <= Len(upto)
      BY <2>2, <2>4, <2>5, <3>1, <3>2
    <3>3. CASE k = Len(upto) + 1
      <4>1. upto'[k] = quotes' /\ UpTo(k - 1)' = quotes
        BY <2>2, <2>4, <2>5, <3>1, <3>3
      <4> QED
        BY <2>1, <3>1, <3>3, <4>1
    <3> QED
      BY <2>4, <3>2, <3>3
  <2>7. quotes' = UpTo(Len(upto))'
    BY <2>4 DEF UpTo
  <2>8. TypeOK' /\ Unread'
    BY <2>1, <2>3, <2>4
  <2>9. QuotesAgree'
    BY <2>1, <2>2, <2>4, <2>6, <2>7 DEF QuotesAgree
  <2> QED
    BY <2>8, <2>9
<1>2. CASE Counted
  <2>1. /\ pc = "count" /\ pc' = IF quotes % 2 # 0 THEN "join" ELSE "parse"
        /\ Len(upto) = Len(line) /\ UNCHANGED <<fileVars, lineVars, parseVars, rows>>
    BY <1>2 DEF Counted
  <2>2. ~in_quotes /\ UpTo(0) = 0 /\ i = 0 /\ quotes % 2 \in {0, 1}
    BY <2>1, Parity DEF QuotesAgree, UpTo
  <2>3. TypeOK' /\ Unread'
    BY <2>1
  <2>4. \A k : UpTo(k)' = UpTo(k)
    BY <2>1 DEF UpTo
  <2>5. in_quotes' = (UpTo(i)' % 2 = 1) /\ ~in_quotes' /\ i' = 0
    BY <2>1, <2>2, <2>4
  <2>6. QuotesAgree'
    BY <2>1, <2>2, <2>4, <2>5 DEF QuotesAgree
  <2> QED
    BY <2>3, <2>6
<1> QED
  BY <1>1, <1>2

(* The quotes up to the next character of the line, and of the one after.   *)
LEMMA NextQuotes ==
    ASSUME IInv, Parsing
    PROVE  /\ UpTo(i) \in Nat /\ UpTo(i + 1) \in Nat
           /\ UpTo(i + 1) = IF line[i + 1] = Quote THEN UpTo(i) + 1 ELSE UpTo(i)
           /\ Doubled => UpTo(i + 2) = UpTo(i + 1) + 1
           /\ in_quotes = (UpTo(i) % 2 = 1)
<1>1. /\ i \in 0..Len(line) /\ i + 1 \in 1..Len(upto) /\ Len(upto) = Len(line)
      /\ in_quotes = (UpTo(i) % 2 = 1)
      /\ \A k \in 1..Len(upto) :
           upto[k] = IF line[k] = Quote THEN UpTo(k - 1) + 1 ELSE UpTo(k - 1)
      /\ \A k \in 1..Len(upto) : upto[k] \in Nat
  BY ElementOfSeq DEF IInv, TypeOK, QuotesAgree, Parsing
<1>2. UpTo(i) \in Nat /\ UpTo(i + 1) \in Nat /\ UpTo(i + 1) = upto[i + 1]
  BY <1>1 DEF UpTo
<1>3. UpTo(i + 1) = IF line[i + 1] = Quote THEN UpTo(i) + 1 ELSE UpTo(i)
  <2>1. (i + 1) - 1 = i
    BY <1>1
  <2> QED
    BY <1>1, <1>2, <2>1
<1>4. ASSUME Doubled PROVE UpTo(i + 2) = UpTo(i + 1) + 1
  <2>1. i + 2 \in 1..Len(upto) /\ line[i + 2] = Quote /\ (i + 2) - 1 = i + 1
    BY <1>1, <1>4 DEF Doubled
  <2>2. UpTo(i + 2) = upto[i + 2]
    BY <1>1 DEF UpTo
  <2> QED
    BY <1>1, <2>1, <2>2
<1> QED
  BY <1>1, <1>2, <1>3, <1>4

(* What a step of parse_line leaves to show. *)
LEMMA ParseFrame ==
    ASSUME IInv, pc = "parse", pc' = "parse", UNCHANGED <<fileVars, lineVars, rows>>,
           i' \in 0..Len(line), in_quotes' \in BOOLEAN, in_quotes' = (UpTo(i') % 2 = 1),
           field' \in Seq(Char), fields' \in Seq(Seq(Char))
    PROVE  IInv'
<1>1. TypeOK'
  BY DEF IInv, TypeOK, fileVars, lineVars
<1>2. \A k : UpTo(k)' = UpTo(k)
  BY DEF UpTo, lineVars
<1>3. UpTo(i)' = UpTo(i')
  BY DEF UpTo, lineVars
<1>4. QuotesAgree'
  BY <1>2, <1>3 DEF IInv, QuotesAgree, fileVars, lineVars
<1> QED
  BY <1>1, <1>4 DEF IInv, Unread

LEMMA ParseStep ==
    ASSUME IInv, OpenQuotes \/ EndField \/ KeepChar \/ KeepQuote \/ CloseQuotes
    PROVE  IInv'
<1>1. Parsing /\ pc = "parse" /\ pc' = "parse" /\ UNCHANGED <<fileVars, lineVars, rows>>
  BY DEF OpenQuotes, EndField, KeepChar, KeepQuote, CloseQuotes, Parsing
<1>2. /\ UpTo(i) \in Nat /\ UpTo(i + 1) \in Nat
      /\ UpTo(i + 1) = IF line[i + 1] = Quote THEN UpTo(i) + 1 ELSE UpTo(i)
      /\ Doubled => UpTo(i + 2) = UpTo(i + 1) + 1
      /\ in_quotes = (UpTo(i) % 2 = 1)
  BY <1>1, NextQuotes
<1>3. /\ i \in Nat /\ i < Len(line) /\ Len(line) \in Nat /\ line \in Seq(Char)
      /\ field \in Seq(Char) /\ fields \in Seq(Seq(Char)) /\ in_quotes \in BOOLEAN
      /\ line[i + 1] \in Char /\ Quote \in Char /\ Comma # Quote
  <2>1. i + 1 \in 1..Len(line)
    BY <1>1 DEF IInv, TypeOK, Parsing
  <2> QED
    BY <1>1, <2>1, ElementOfSeq DEF IInv, TypeOK, Parsing, Char, Comma, Quote
<1>4. CASE OpenQuotes
  <2>1. in_quotes' = TRUE /\ i' = i + 1 /\ UNCHANGED <<field, fields>>
        /\ ~in_quotes /\ line[i + 1] = Quote
    BY <1>4 DEF OpenQuotes
  <2>2. UpTo(i) % 2 = 0 /\ UpTo(i') = UpTo(i) + 1
    BY <1>2, <2>1, Parity
  <2>3. UpTo(i') % 2 = 1
    BY <1>2, <2>2, Parity
  <2>4. in_quotes' = (UpTo(i') % 2 = 1) /\ in_quotes' \in BOOLEAN
    BY <2>1, <2>3
  <2> QED
    BY <1>1, <1>3, <2>1, <2>4, ParseFrame
<1>5. CASE CloseQuotes
  <2>1. in_quotes' = FALSE /\ i' = i + 1 /\ UNCHANGED <<field, fields>>
        /\ in_quotes /\ line[i + 1] = Quote
    BY <1>5 DEF CloseQuotes
  <2>2. UpTo(i) % 2 = 1 /\ UpTo(i') = UpTo(i) + 1
    BY <1>2, <2>1
  <2>3. UpTo(i') % 2 # 1
    BY <1>2, <2>2, Parity
  <2>4. in_quotes' = (UpTo(i') % 2 = 1) /\ in_quotes' \in BOOLEAN
    BY <2>1, <2>3
  <2> QED
    BY <1>1, <1>3, <2>1, <2>4, ParseFrame
<1>6. CASE EndField
  <2>1. /\ i' = i + 1 /\ in_quotes' = in_quotes /\ field' = <<>>
        /\ fields' = Append(fields, field) /\ line[i + 1] = Comma
    BY <1>6 DEF EndField
  <2>2. UpTo(i') = UpTo(i)
    BY <1>2, <1>3, <2>1
  <2>3. fields' \in Seq(Seq(Char)) /\ field' \in Seq(Char)
    BY <1>3, <2>1, AppendProperties, EmptySeqs
  <2> QED
    BY <1>1, <1>2, <1>3, <2>1, <2>2, <2>3, ParseFrame
<1>7. CASE KeepChar
  <2>1. /\ i' = i + 1 /\ in_quotes' = in_quotes /\ UNCHANGED fields
        /\ field' = Append(field, line[i + 1]) /\ line[i + 1] # Quote
    BY <1>7 DEF KeepChar
  <2>2. UpTo(i') = UpTo(i)
    BY <1>2, <2>1
  <2>3. field' \in Seq(Char)
    BY <1>3, <2>1, AppendProperties
  <2> QED
    BY <1>1, <1>2, <1>3, <2>1, <2>2, <2>3, ParseFrame
<1>8. CASE KeepQuote
  <2>1. /\ i' = i + 2 /\ in_quotes' = in_quotes /\ UNCHANGED fields /\ Doubled
        /\ field' = Append(field, Quote) /\ line[i + 1] = Quote
    BY <1>8 DEF KeepQuote
  <2>2. UpTo(i') = UpTo(i) + 2 /\ i + 2 <= Len(line)
    BY <1>2, <2>1 DEF Doubled
  <2>3. UpTo(i') % 2 = UpTo(i) % 2
    BY <1>2, <2>2
  <2>4. field' \in Seq(Char)
    BY <1>3, <2>1, AppendProperties
  <2> QED
    BY <1>1, <1>2, <1>3, <2>1, <2>2, <2>3, <2>4, ParseFrame
<1> QED
  BY <1>4, <1>5, <1>6, <1>7, <1>8

LEMMA ReturnStep ==
    ASSUME IInv, ReturnRow
    PROVE  IInv'
<1>1. /\ pc = "parse" /\ pc' = "row" /\ i' = 0 /\ in_quotes' = FALSE
      /\ field' = <<>> /\ fields' = <<>>
      /\ rows' = Append(rows, Append(fields, field)) /\ UNCHANGED <<fileVars, lineVars>>
  BY DEF ReturnRow
<1>2. rows' \in Seq(Seq(Seq(Char)))
  <2>1. Append(fields, field) \in Seq(Seq(Char))
    BY AppendProperties DEF IInv, TypeOK
  <2> QED
    BY <1>1, <2>1, AppendProperties DEF IInv, TypeOK
<1>3. TypeOK'
  <2>1. Len(line') \in Nat /\ i' \in 0..Len(line')
    BY <1>1 DEF IInv, TypeOK, lineVars
  <2> QED
    BY <1>1, <1>2, <2>1, EmptySeqs DEF IInv, TypeOK, fileVars, lineVars
<1>4. \A k : UpTo(k)' = UpTo(k)
  BY <1>1 DEF UpTo, lineVars
<1>5. QuotesAgree'
  BY <1>1, <1>4 DEF IInv, QuotesAgree, fileVars, lineVars
<1> QED
  BY <1>1, <1>3, <1>5 DEF IInv, Unread

-----------------------------------------------------------------------------
LEMMA InitInv == Init => IInv
<1> SUFFICES ASSUME Init PROVE IInv
  OBVIOUS
<1>1. /\ text \in Seq(Char) /\ origin \in {"writer", "torn", "elsewhere"}
      /\ pc \in {"write", "row"}
  BY TextsAssumption, EmptySeqs DEF Init
<1>2. /\ written = <<>> /\ pos = 0 /\ line = <<>> /\ quotes = 0 /\ upto = <<>>
      /\ i = 0 /\ in_quotes = FALSE /\ field = <<>> /\ fields = <<>> /\ rows = <<>>
  BY DEF Init
<1>3. TypeOK
  <2>1. Len(text) \in Nat /\ pos \in 0..Len(text) /\ i \in 0..Len(line)
    BY <1>1, <1>2, EmptySeqs
  <2> QED
    BY <1>1, <1>2, <2>1, EmptySeqs DEF TypeOK
<1>4. QuotesAgree
  BY <1>1, <1>2, EmptySeqs DEF QuotesAgree, UpTo
<1>5. pc = "write" => origin = "writer"
  BY DEF Init
<1> QED
  BY <1>2, <1>3, <1>4, <1>5 DEF IInv, Unread

LEMMA StepInv == IInv /\ [Next]_vars => IInv'
<1> SUFFICES ASSUME IInv, [Next]_vars PROVE IInv'
  OBVIOUS
<1>1. CASE UNCHANGED vars
  BY <1>1 DEF vars, fileVars, lineVars, parseVars, IInv, TypeOK, QuotesAgree, Unread, UpTo
<1> QED
  BY <1>1, WriterStep, LineStep, CountStep, ParseStep, ReturnStep DEF Next

(* The reader of a CSV keeps its types, and its two loops over the quotes   *)
(* of a row agree.                                                          *)
THEOREM CsvInvariance == Spec => [](TypeOK /\ QuotesAgree)
<1>1. IInv => TypeOK /\ QuotesAgree
  BY DEF IInv
<1> QED
  BY <1>1, InitInv, StepInv, PTL DEF Spec

(* Whatever the file holds, a row ends inside quotes only at its end.       *)
THEOREM QuotedLineBreaksAreSafe == Spec => []RowsEndOutsideQuotes
<1>1. TypeOK /\ QuotesAgree => RowsEndOutsideQuotes
  <2> SUFFICES ASSUME TypeOK, QuotesAgree, pc = "parse", i = Len(line), in_quotes
               PROVE  pos = Len(text)
    BY DEF RowsEndOutsideQuotes
  <2>1. quotes % 2 = 1
    BY DEF QuotesAgree
  <2> QED
    BY <2>1 DEF QuotesAgree
<1> QED
  BY <1>1, CsvInvariance, PTL

-----------------------------------------------------------------------------
(* What the writer wrote. *)

(* Of a file the writer wrote. *)
Trip == origin # "elsewhere" => \E ends : TripInv(ends)

LEMMA LastOfRow ==
    ASSUME NEW row \in Rows
    PROVE  /\ RowText(row) \in Seq(Char) /\ Len(RowText(row)) \in Nat \ {0}
           /\ RowText(row)[Len(RowText(row))] = Newline
<1>1. Len(row) \in 1..Len(row) /\ row \in Seq(Seq(Char)) /\ Len(row) # 0
  BY RowOfFields
<1>2. FieldAt(row, Len(row)) /\ RowText(row) \in Seq(Char)
  BY <1>1, RowLayout
<1> QED
  BY <1>1, <1>2 DEF FieldAt

(* Row m + 1 in the file. *)
RowIs(m, e, t) ==
    /\ e[m] \in Nat /\ Len(t) \in Nat \ {0} /\ e[m + 1] = e[m] + Len(t) /\ t[Len(t)] = Newline
    /\ t \in Seq(Char)
    /\ \A j \in 1..Len(t) : e[m] + j <= Len(text) => text[e[m] + j] = t[j]

LEMMA RowInFile ==
    ASSUME TypeOK, NEW ends, RowsEndAt(ends), NEW m \in Nat, m < Len(written)
    PROVE  written[m + 1] \in Rows /\ RowIs(m, ends, RowText(written[m + 1]))
<1>1. m + 1 \in 1..Len(written) /\ m \in 0..Len(written) /\ (m + 1) - 1 = m
  BY DEF TypeOK
<1>2. /\ written[m + 1] \in Rows /\ ends[m] \in Nat
      /\ ends[m + 1] = ends[m] + Len(RowText(written[m + 1]))
      /\ \A j \in 1..Len(RowText(written[m + 1])) :
           ends[m] + j <= Len(text) => text[ends[m] + j] = RowText(written[m + 1])[j]
  BY <1>1 DEF RowsEndAt
<1> QED
  BY <1>2, LastOfRow DEF RowIs

(* A file that ends within a row is torn. *)
LEMMA ShortIsTorn ==
    ASSUME TypeOK, origin # "elsewhere", NEW ends, RowsEndAt(ends),
           NEW m \in Nat, m < Len(written), Len(text) < ends[m + 1]
    PROVE  origin = "torn"
<1>1. /\ m + 1 \in 0..Len(written) /\ Len(written) \in 0..Len(written)
      /\ (m + 1 = Len(written) \/ m + 1 < Len(written)) /\ Len(text) \in Nat
  BY DEF TypeOK
<1>2. ends[m + 1] <= ends[Len(written)] /\ ends[m + 1] \in Nat /\ ends[Len(written)] \in Nat
  BY <1>1 DEF RowsEndAt
<1>3. Len(text) # ends[Len(written)]
  BY <1>1, <1>2
<1> QED
  BY <1>3 DEF TypeOK, RowsEndAt

(* The line std::getline takes next, from within row m + 1 of the file. *)
LEMMA LineOfText ==
    ASSUME TypeOK, NEW ends, NEW m \in Nat, NEW t, RowIs(m, ends, t),
           ends[m] <= pos, pos < ends[m] + Len(t),
           NEW n \in pos+1..Len(text)+1, LineEnd(n)
    PROVE  /\ n - ends[m] \in 1..Len(t)
           /\ n <= Len(text) => t[n - ends[m]] = Newline
           /\ SubSeq(text, pos + 1, n - 1) \in Seq(Char)
           /\ Len(SubSeq(text, pos + 1, n - 1)) = n - 1 - pos
           /\ \A j \in 1..n - 1 - pos : SubSeq(text, pos + 1, n - 1)[j] = t[pos - ends[m] + j]
<1> DEFINE e == ends[m]
<1>1. /\ text \in Seq(Char) /\ pos \in Nat /\ Len(text) \in Nat /\ pos <= Len(text)
      /\ e \in Nat /\ Len(t) \in Nat \ {0} /\ t[Len(t)] = Newline
      /\ \A j \in 1..Len(t) : e + j <= Len(text) => text[e + j] = t[j]
      /\ n \in Nat /\ e <= pos /\ pos < e + Len(t)
  BY DEF TypeOK, RowIs
<1> HIDE DEF e
<1>2. n - e \in 1..Len(t)
  <2>1. CASE n - 1 < e + Len(t)
    BY <1>1, <2>1
  <2>2. CASE e + Len(t) <= n - 1
    <3>1. e + Len(t) \in pos+1..n-1 /\ e + Len(t) <= Len(text) /\ Len(t) \in 1..Len(t)
      BY <1>1, <2>2
    <3>2. text[e + Len(t)] = Newline
      BY <1>1, <3>1
    <3> QED
      BY <3>1, <3>2 DEF LineEnd
  <2> QED
    BY <1>1, <2>1, <2>2
<1>3. n <= Len(text) => t[n - e] = Newline
  <2> HAVE n <= Len(text)
  <2>1. text[n] = Newline /\ e + (n - e) = n
    BY <1>1 DEF LineEnd
  <2> QED
    BY <1>1, <1>2, <2>1
<1>4. SubSeq(text, pos + 1, n - 1) \in Seq(Char)
  BY NextLine
<1>5. /\ Len(SubSeq(text, pos + 1, n - 1)) = n - 1 - pos
      /\ \A j \in 1..n - 1 - pos : SubSeq(text, pos + 1, n - 1)[j] = text[pos + j]
  <2>1. pos + 1 \in Nat /\ n - 1 \in Nat /\ pos + 1 \in 1..Len(text)+1 /\ n - 1 \in pos..Len(text)
    BY <1>1
  <2> QED
    BY <1>1, <2>1, SubSeqProperties
<1>6. ASSUME NEW j \in 1..n - 1 - pos
      PROVE  SubSeq(text, pos + 1, n - 1)[j] = t[pos - e + j]
  <2>1. e + (pos - e + j) = pos + j /\ pos - e + j \in 1..Len(t) /\ pos + j <= Len(text)
    BY <1>1, <1>2
  <2>2. text[pos + j] = t[pos - e + j]
    BY <1>1, <2>1
  <2> QED
    BY <1>5, <2>2
<1> QED
  BY <1>2, <1>3, <1>4, <1>5, <1>6 DEF e

LEMMA SameFile ==
    ASSUME NEW ends, RowsEndAt(ends), UNCHANGED fileVars
    PROVE  RowsEndAt(ends)'
BY DEF RowsEndAt, fileVars

-----------------------------------------------------------------------------
(* The writer. *)

LEMMA TripWrite ==
    ASSUME TypeOK, NEW ends, TripInv(ends), NEW row \in Rows, WriteRow(row)
    PROVE  \E e : TripInv(e)'
<1> DEFINE n == Len(written)
           t == RowText(row)
           more == [m \in 0..n + 1 |-> IF m <= n THEN ends[m] ELSE ends[n] + Len(t)]
<1>1. /\ pc = "write" /\ pc' = pc /\ text' = text \o t /\ written' = Append(written, row)
      /\ UNCHANGED <<origin, pos, line, quotes, upto, i, in_quotes, field, fields, rows>>
  BY DEF WriteRow, lineVars, parseVars
<1>3. /\ n \in Nat /\ ends \in [0..n -> Nat] /\ ends[0] = 0 /\ Len(text) = ends[n]
      /\ \A a, b \in 0..n : a < b => ends[a] < ends[b]
      /\ text \in Seq(Char) /\ Len(text) \in Nat /\ n \in 0..n
  BY <1>1 DEF TripInv, RowsEndAt, BetweenRows, ReadingRow, TypeOK
<1>4. t \in Seq(Char) /\ Len(t) \in Nat \ {0}
  BY LastOfRow
<1>5. /\ Len(text') = ends[n] + Len(t)
      /\ \A j \in 1..Len(text) : text'[j] = text[j]
      /\ \A j \in 1..Len(t) : text'[ends[n] + j] = t[j]
  <2> HIDE DEF t
  <2>1. /\ Len(text \o t) = Len(text) + Len(t)
        /\ \A j \in 1..Len(text) : (text \o t)[j] = text[j]
        /\ \A j \in 1..Len(t) : (text \o t)[Len(text) + j] = t[j]
    BY <1>3, <1>4, TwoTexts
  <2> QED
    BY <1>1, <1>3, <2>1
<1>6. /\ Len(written') = n + 1 /\ written'[n + 1] = row
      /\ \A m \in 1..n : written'[m] = written[m]
  <2>1. written \in Seq(Seq(Seq(Char))) /\ row \in Seq(Seq(Char))
    BY RowOfFields DEF TypeOK
  <2> QED
    BY <1>1, <2>1, AppendProperties
<1>7. PICK e : /\ e \in [0..n + 1 -> Nat] /\ e[n + 1] = ends[n] + Len(t)
               /\ \A m \in 0..n : e[m] = ends[m]
  <2>1. /\ more \in [0..n + 1 -> Nat] /\ more[n + 1] = ends[n] + Len(t)
        /\ \A m \in 0..n : more[m] = ends[m]
    BY <1>3, <1>4
  <2> HIDE DEF more
  <2> QED
    BY <2>1
<1> HIDE DEF t, n
<1>8. RowsEndAt(e)'
  <2>1. e \in [0..Len(written') -> Nat] /\ e[0] = 0 /\ Len(text') = e[Len(written')]
    BY <1>3, <1>5, <1>6, <1>7
  <2>2. ASSUME NEW a \in 0..Len(written'), NEW b \in 0..Len(written'), a < b
        PROVE  e[a] < e[b]
    <3>1. a \in 0..n /\ e[a] = ends[a] /\ ends[a] \in Nat /\ ends[n] \in Nat
      BY <1>3, <1>6, <1>7, <2>2
    <3>2. CASE b \in 0..n
      BY <1>3, <1>7, <2>2, <3>1, <3>2
    <3>3. CASE b = n + 1
      <4>1. ends[a] <= ends[n]
        BY <1>3, <3>1
      <4> QED
        BY <1>4, <1>7, <3>1, <3>3, <4>1
    <3> QED
      BY <1>3, <1>6, <3>2, <3>3
  <2>3. ASSUME NEW m \in 1..Len(written')
        PROVE  /\ written'[m] \in Rows
               /\ e[m] = e[m - 1] + Len(RowText(written'[m]))
               /\ \A j \in 1..Len(RowText(written'[m])) :
                    e[m - 1] + j <= Len(text') => text'[e[m - 1] + j] = RowText(written'[m])[j]
    <3>1. CASE m \in 1..n
      <4>1. /\ m - 1 \in 0..n /\ m \in 0..n /\ written'[m] = written[m]
            /\ e[m] = ends[m] /\ e[m - 1] = ends[m - 1] /\ ends[m] <= ends[n]
            /\ ends[m - 1] \in Nat /\ ends[m] \in Nat
        BY <1>3, <1>6, <1>7, <3>1
      <4>2. /\ written[m] \in Rows /\ ends[m] = ends[m - 1] + Len(RowText(written[m]))
            /\ \A j \in 1..Len(RowText(written[m])) :
                 ends[m - 1] + j <= Len(text) => text[ends[m - 1] + j] = RowText(written[m])[j]
        BY <3>1 DEF TripInv, RowsEndAt, n
      <4>3. Len(RowText(written[m])) \in Nat
        BY <4>2, LastOfRow
      <4>4. ASSUME NEW j \in 1..Len(RowText(written[m]))
            PROVE  text'[ends[m - 1] + j] = RowText(written[m])[j]
        <5>1. ends[m - 1] + j \in 1..Len(text)
          BY <1>3, <4>1, <4>2, <4>3
        <5> QED
          BY <1>5, <4>2, <5>1
      <4> QED
        BY <4>1, <4>2, <4>4
    <3>2. CASE m = n + 1
      <4>1. m - 1 = n /\ e[m - 1] = ends[n] /\ written'[m] = row
        BY <1>3, <1>6, <1>7, <3>2
      <4> QED
        BY <1>5, <1>7, <3>2, <4>1 DEF t
    <3> QED
      BY <1>3, <1>6, <3>1, <3>2
  <2>4. Len(text') <= e[Len(written')]
    BY <1>3, <1>4, <1>5, <2>1
  <2>5. \A a, b \in 0..Len(written') : a < b => e[a] < e[b]
    BY <2>2
  <2> QED
    BY <2>1, <2>3, <2>4, <2>5 DEF RowsEndAt
<1>9. BetweenRows(e)'
  <2>1. rows = <<>> /\ origin = "writer" /\ pos = 0
    BY <1>1, <1>3 DEF TripInv, BetweenRows, ReadingRow
  <2>2. Len(rows') = 0 /\ rows' = <<>>
    BY <1>1, <2>1
  <2>3. e[0] = 0
    BY <1>3, <1>7
  <2>4. pos' = e[Len(rows')] /\ Len(rows') <= Len(written') /\ pc' = "write" /\ origin' = "writer"
    BY <1>1, <1>3, <1>6, <2>1, <2>2, <2>3
  <2> QED
    BY <2>2, <2>4 DEF BetweenRows
<1>10. LineOfRow(e)' /\ CountOfRow' /\ FieldsOfRow'
  BY <1>1 DEF TripInv, LineOfRow, ReadingRow, CountOfRow, FieldsOfRow
<1> QED
  BY <1>8, <1>9, <1>10 DEF TripInv

LEMMA TripClose ==
    ASSUME TypeOK, NEW ends, TripInv(ends), CloseWriter \/ EndOfFile
    PROVE  TripInv(ends)'
<1>1. /\ pc \in {"write", "row"} /\ pc' \in {"row", "eof"} /\ (pc' = "eof" => pos = Len(text))
      /\ UNCHANGED <<text, origin, written, pos, line, quotes, upto, i, in_quotes, field, fields, rows>>
  BY DEF CloseWriter, EndOfFile, fileVars, lineVars, parseVars
<1>2. RowsEndAt(ends)'
  BY <1>1, SameFile DEF TripInv, fileVars
<1> QED
  BY <1>1, <1>2 DEF TripInv, BetweenRows, LineOfRow, ReadingRow, CutRow, CountOfRow, FieldsOfRow

LEMMA TripKill ==
    ASSUME IInv, NEW ends, TripInv(ends), Kill
    PROVE  TripInv(ends)'
<1>1. /\ pc = "write" /\ pc' = "row" /\ origin' = "torn"
      /\ UNCHANGED <<written, pos, line, quotes, upto, i, in_quotes, field, fields, rows>>
  BY DEF Kill, lineVars, parseVars
<1>2. PICK n \in 0..Len(text) : text' = SubSeq(text, 1, n)
  BY DEF Kill
<1>3. /\ text \in Seq(Char) /\ Len(text') = n /\ n <= Len(text) /\ n \in Nat /\ Len(text) \in Nat
      /\ \A j \in 1..n : text'[j] = text[j]
  <2>1. text \in Seq(Char) /\ 1 \in 1..Len(text)+1 /\ n \in 0..Len(text)
    BY DEF IInv, TypeOK
  <2>2. /\ Len(SubSeq(text, 1, n)) = n
        /\ \A j \in 1..n : SubSeq(text, 1, n)[j] = text[j]
    BY <2>1, SubSeqProperties
  <2> QED
    BY <1>2, <2>1, <2>2
<1>4. RowsEndAt(ends)'
  <2>1. ends \in [0..Len(written) -> Nat] /\ Len(text) <= ends[Len(written)] /\ Len(written) \in Nat
    BY DEF TripInv, RowsEndAt, IInv, TypeOK
  <2>2. ends[Len(written)] \in Nat
    BY <2>1
  <2>3. Len(text') <= ends[Len(written)]
    BY <1>3, <2>1, <2>2
  <2>4. ASSUME NEW m \in 1..Len(written), NEW j \in 1..Len(RowText(written[m])),
               ends[m - 1] + j <= Len(text')
        PROVE  text'[ends[m - 1] + j] = RowText(written[m])[j]
    <3>1. ends[m - 1] \in Nat
      BY <2>1
    <3>2. ends[m - 1] + j \in 1..n /\ ends[m - 1] + j <= Len(text)
      <4>1. j \in Nat /\ 1 <= j
        <5>1. written[m] \in Rows
          BY DEF TripInv, RowsEndAt
        <5> QED
          BY <5>1, LastOfRow
      <4> QED
        BY <1>3, <2>4, <3>1, <4>1
    <3> QED
      BY <1>3, <3>2 DEF TripInv, RowsEndAt
  <2> QED
    BY <1>1, <2>3, <2>4 DEF TripInv, RowsEndAt
<1>5. BetweenRows(ends)'
  <2>1. rows = <<>> /\ pos = 0 /\ Len(rows) = 0 /\ ends[0] = 0 /\ Len(written) \in Nat
    <3>1. rows = <<>>
      BY <1>1 DEF TripInv, BetweenRows, ReadingRow
    <3> QED
      BY <1>1, <3>1 DEF IInv, Unread, TripInv, RowsEndAt, TypeOK
  <2> QED
    BY <1>1, <2>1 DEF BetweenRows
<1> QED
  BY <1>1, <1>4, <1>5 DEF TripInv, LineOfRow, ReadingRow, CountOfRow, FieldsOfRow

-----------------------------------------------------------------------------
(* The lines of a row. *)

LEMMA InRow ==
    ASSUME IInv, NEW ends, TripInv(ends), ReadingRow
    PROVE  /\ Len(rows) \in Nat /\ Len(rows) < Len(written)
           /\ This \in Rows /\ RowIs(Len(rows), ends, ThisText)
           /\ Len(line) \in Nat /\ Len(line) < Len(ThisText)
           /\ \A j \in 1..Len(line) : line[j] = ThisText[j]
           /\ \/ pos = Len(text) /\ ends[Len(rows)] + Len(line) = Len(text)
              \/ pos = ends[Len(rows)] + Len(line) + 1 /\ ThisText[Len(line) + 1] = Newline
<1>1. /\ Len(rows) \in Nat /\ Len(line) \in Nat /\ Len(rows) < Len(written) /\ TypeOK
      /\ RowsEndAt(ends)
  BY DEF IInv, TypeOK, TripInv, LineOfRow
<1>2. This \in Rows /\ RowIs(Len(rows), ends, ThisText)
  BY <1>1, RowInFile DEF This, ThisText
<1> QED
  BY <1>1, <1>2 DEF TripInv, LineOfRow

(* A step within a row that takes no line. *)
LEMMA SameLine ==
    ASSUME NEW ends, TripInv(ends), ReadingRow, ReadingRow',
           UNCHANGED <<fileVars, rows, pos, line>>
    PROVE  /\ RowsEndAt(ends)' /\ BetweenRows(ends)' /\ LineOfRow(ends)'
           /\ This' = This /\ ThisText' = ThisText
<1>1. RowsEndAt(ends)'
  BY SameFile DEF TripInv
<1>2. BetweenRows(ends)'
  BY DEF BetweenRows
<1>3. This' = This
  BY DEF This, fileVars
<1>4. ThisText' = ThisText
  BY <1>3 DEF ThisText
<1>5. LineOfRow(ends)'
  BY <1>3, <1>4 DEF LineOfRow, TripInv, fileVars
<1> QED
  BY <1>1, <1>2, <1>3, <1>4, <1>5

LEMMA TripFirst ==
    ASSUME IInv, origin # "elsewhere", NEW ends, TripInv(ends), FirstLine
    PROVE  TripInv(ends)'
<1> DEFINE m == Len(rows)
<1>1. /\ pc = "row" /\ pc' = "count" /\ pos < Len(text) /\ quotes' = 0 /\ upto' = <<>>
      /\ UNCHANGED <<text, origin, written, i, in_quotes, field, fields, rows>>
  BY DEF FirstLine, fileVars, parseVars
<1>2. PICK n \in pos+1..Len(text)+1 :
         LineEnd(n) /\ line' = SubSeq(text, pos + 1, n - 1) /\ pos' = After(n)
  BY DEF FirstLine
<1>3. TypeOK /\ RowsEndAt(ends) /\ pos \in Nat /\ Len(text) \in Nat /\ m \in Nat /\ Len(written) \in Nat
  BY DEF IInv, TypeOK, TripInv
<1>4. /\ m <= Len(written) /\ pos = ends[m]
      /\ \A k \in 1..m : rows[k] = written[k]
  BY <1>1, <1>3 DEF TripInv, BetweenRows, ReadingRow, CutRow
<1>5. m < Len(written)
  <2>1. m # Len(written)
    BY <1>1, <1>3, <1>4 DEF RowsEndAt
  <2> QED
    BY <1>3, <1>4, <2>1
<1>6. This \in Rows /\ RowIs(m, ends, ThisText)
  BY <1>3, <1>5, RowInFile DEF This, ThisText
<1>7. /\ Len(ThisText) \in Nat \ {0} /\ ends[m] \in Nat /\ ends[m] <= pos
      /\ pos < ends[m] + Len(ThisText)
  BY <1>3, <1>4, <1>6 DEF RowIs
<1>8. This' = This /\ ThisText' = ThisText
  BY <1>1 DEF This, ThisText
<1> HIDE DEF m
<1>9. /\ n - ends[m] \in 1..Len(ThisText)
      /\ n <= Len(text) => ThisText[n - ends[m]] = Newline
      /\ Len(line') = n - 1 - pos
      /\ \A j \in 1..n - 1 - pos : line'[j] = ThisText[pos - ends[m] + j]
  BY <1>2, <1>3, <1>6, <1>7, LineOfText
<1>10. /\ Len(line') = n - 1 - ends[m] /\ Len(line') < Len(ThisText) /\ Len(line') + 1 = n - ends[m]
       /\ \A j \in 1..Len(line') : line'[j] = ThisText[j]
  <2>1. n - 1 - pos = n - 1 - ends[m] /\ n \in Nat
    BY <1>3, <1>4
  <2>2. ASSUME NEW j \in 1..n - 1 - pos PROVE line'[j] = ThisText[j]
    <3>1. pos - ends[m] + j = j
      BY <1>4, <1>7
    <3> QED
      BY <1>9, <3>1
  <2>3. n - ends[m] \in 1..Len(ThisText) /\ Len(line') = n - 1 - pos
    BY <1>9
  <2>4. Len(line') = n - 1 - ends[m] /\ Len(line') < Len(ThisText) /\ Len(line') + 1 = n - ends[m]
    BY <1>7, <2>1, <2>3
  <2> QED
    BY <2>2, <2>3, <2>4
<1>11. \/ pos' = Len(text') /\ ends[m] + Len(line') = Len(text')
       \/ pos' = ends[m] + Len(line') + 1 /\ ThisText[Len(line') + 1] = Newline
  <2>1. CASE n <= Len(text)
    <3>1. pos' = n /\ ThisText[n - ends[m]] = Newline /\ Len(line') + 1 = n - ends[m]
      BY <1>2, <1>3, <1>9, <1>10, <2>1 DEF After
    <3>2. n = ends[m] + Len(line') + 1
      BY <1>3, <1>7, <1>10
    <3> QED
      BY <3>1, <3>2
  <2>2. CASE n = Len(text) + 1
    <3>1. pos' = Len(text) /\ text' = text
      BY <1>1, <1>2, <1>3, <2>2 DEF After
    <3>2. ends[m] + Len(line') = Len(text)
      BY <1>3, <1>7, <1>10, <2>2
    <3> QED
      BY <3>1, <3>2
  <2> QED
    BY <1>3, <2>1, <2>2
<1>12. LineOfRow(ends)'
  BY <1>1, <1>4, <1>5, <1>8, <1>10, <1>11 DEF LineOfRow, m
<1>13. CountOfRow'
  <2>1. /\ 1 \in 1..Len(This) /\ Start(This, 1) = 0 /\ 0 \in 0..Len(This[1]) /\ Len(<<>>) = 0
    <3>1. This \in Seq(Seq(Char)) /\ Len(This) \in Nat \ {0}
      BY <1>6, RowOfFields
    <3>2. 1 \in 1..Len(This)
      BY <3>1
    <3>3. This[1] \in Seq(Char)
      BY <3>1, <3>2, ElementOfSeq
    <3> QED
      BY <3>1, <3>2, <3>3, RowLayout
  <2>2. PICK where \in {"plain", "open"} : Place(This, 0, 1, 0, where)
    BY <1>6, <2>1, FirstPlace
  <2>3. ~(0 % 2 = 1) /\ ~(where = "quoted")
    BY <2>2
  <2>4. Place(This', Len(upto'), 1, 0, where) /\ (quotes' % 2 = 1 <=> where = "quoted")
    BY <1>1, <1>8, <2>1, <2>2, <2>3
  <2> QED
    BY <1>8, <2>1, <2>2, <2>4 DEF CountOfRow
<1>14. FieldsOfRow'
  BY <1>1 DEF TripInv, FieldsOfRow
<1>15. RowsEndAt(ends)' /\ BetweenRows(ends)'
  BY <1>1, <1>3, SameFile DEF fileVars, BetweenRows, ReadingRow
<1> QED
  BY <1>12, <1>13, <1>14, <1>15 DEF TripInv

Wheres == {"plain", "open", "quoted", "between", "closed"}

LEMMA TripCount ==
    ASSUME IInv, NEW ends, TripInv(ends), CountChar
    PROVE  TripInv(ends)'
<1> DEFINE p == Len(upto)
           t == ThisText
<1>1. /\ pc = "count" /\ pc' = "count" /\ Len(upto) < Len(line)
      /\ quotes' = IF line[p + 1] = Quote THEN quotes + 1 ELSE quotes
      /\ upto' = Append(upto, quotes')
      /\ UNCHANGED <<fileVars, pos, line, parseVars, rows>>
  BY DEF CountChar
<1>2. ReadingRow /\ ReadingRow' /\ UNCHANGED <<fileVars, rows, pos, line>>
  BY <1>1 DEF ReadingRow
<1>3. /\ RowsEndAt(ends)' /\ BetweenRows(ends)' /\ LineOfRow(ends)'
      /\ This' = This /\ ThisText' = ThisText
  BY <1>2, SameLine
<1>4. /\ This \in Rows /\ Len(line) \in Nat /\ Len(line) < Len(t) /\ p \in Nat
      /\ Len(t) \in Nat /\ line[p + 1] = t[p + 1] /\ quotes \in Nat /\ t = RowText(This)
  <2>1. p \in Nat /\ quotes \in Nat
    BY DEF IInv, TypeOK
  <2>2. /\ This \in Rows /\ Len(line) \in Nat /\ Len(line) < Len(t) /\ t \in Seq(Char)
        /\ \A j \in 1..Len(line) : line[j] = t[j]
    BY <1>2, InRow DEF RowIs
  <2> HIDE DEF p, t
  <2>3. p + 1 \in 1..Len(line)
    BY <1>1, <2>1, <2>2 DEF p
  <2> QED
    BY <2>1, <2>2, <2>3 DEF t, ThisText
<1>5. PICK c \in 1..Len(This) : \E k \in 0..Len(This[c]) : \E where \in Wheres :
         Place(This, p, c, k, where) /\ (quotes % 2 = 1 <=> where = "quoted")
  BY <1>1 DEF TripInv, CountOfRow, Wheres
<1>6. PICK k \in 0..Len(This[c]) : \E where \in Wheres :
         Place(This, p, c, k, where) /\ (quotes % 2 = 1 <=> where = "quoted")
  BY <1>5
<1>7. PICK where \in Wheres :
         Place(This, p, c, k, where) /\ (quotes % 2 = 1 <=> where = "quoted")
  BY <1>6
<1>8. Leads(This, p, c, k, where)
  BY <1>4, <1>7, NextPlace
<1>9. /\ quotes' \in Nat
      /\ t[p + 1] = Quote => (quotes' % 2 = 1 <=> where # "quoted")
      /\ t[p + 1] # Quote => (quotes' % 2 = 1 <=> where = "quoted")
  <2>1. quotes' = IF t[p + 1] = Quote THEN quotes + 1 ELSE quotes
    BY <1>1, <1>4
  <2>2. quotes % 2 \in {0, 1} /\ (quotes + 1) % 2 = 1 - (quotes % 2)
    BY <1>4
  <2> HIDE DEF t, p
  <2> QED
    BY <1>4, <1>7, <2>1, <2>2
<1>10. Len(upto') = p + 1
  BY <1>1, <1>9, AppendProperties DEF IInv, TypeOK
<1>11. ASSUME NEW c1 \in 1..Len(This), NEW k1 \in 0..Len(This[c1]), NEW w1 \in Wheres,
              Place(This, p + 1, c1, k1, w1), quotes' % 2 = 1 <=> w1 = "quoted"
       PROVE  CountOfRow'
  <2>1. Place(This', Len(upto'), c1, k1, w1) /\ (quotes' % 2 = 1 <=> w1 = "quoted")
    BY <1>3, <1>10, <1>11
  <2> QED
    BY <1>3, <2>1 DEF CountOfRow, Wheres
<1> HIDE DEF p
<1>12. CountOfRow'
  <2>1. Quote # Comma /\ 0 \in 0..Len(This[c]) /\ k \in 0..Len(This[c]) /\ t = RowText(This)
        /\ (p + 1 # Len(t)) /\ Len(This) \in Nat
    <3>1. p + 1 < Len(t)
      BY <1>1, <1>4 DEF p
    <3>2. This[c] \in Seq(Char) /\ Len(This) \in Nat
      BY <1>4, RowOfFields, ElementOfSeq
    <3> QED
      BY <1>4, <3>1, <3>2 DEF Quote, Comma
  <2>2. ASSUME Ended(This, p, c), where # "quoted"
        PROVE  CountOfRow'
    <3>1. c < Len(This) /\ t[p + 1] # Quote
      BY <2>1, <2>2 DEF Ended
    <3>2. PICK w \in {"plain", "open"} : Place(This, p + 1, c + 1, 0, w)
      BY <2>2, <3>1 DEF Ended
    <3>3. c + 1 \in 1..Len(This) /\ w \in Wheres /\ w # "quoted"
      BY <2>1, <3>1, <3>2 DEF Wheres
    <3>4. 0 \in 0..Len(This[c + 1])
      BY <3>2 DEF Place
    <3> QED
      BY <1>9, <1>11, <2>2, <3>1, <3>2, <3>3, <3>4
  <2>3. CASE where = "plain"
    <3>1. CASE k = Len(This[c])
      BY <1>8, <2>2, <2>3, <3>1 DEF Leads
    <3>2. CASE k # Len(This[c])
      <4>1. t[p + 1] # Quote /\ k + 1 \in 0..Len(This[c]) /\ Place(This, p + 1, c, k + 1, "plain")
        BY <1>8, <2>1, <2>3, <3>2 DEF Leads
      <4> QED
        BY <1>9, <1>11, <2>3, <4>1 DEF Wheres
    <3> QED
      BY <3>1, <3>2
  <2>4. CASE where = "closed"
    BY <1>8, <2>2, <2>4 DEF Leads
  <2>5. CASE where = "open"
    <3>1. t[p + 1] = Quote /\ Place(This, p + 1, c, 0, "quoted")
      BY <1>8, <2>1, <2>5 DEF Leads
    <3> QED
      BY <1>9, <1>11, <2>1, <2>5, <3>1 DEF Wheres
  <2>6. CASE where = "between"
    <3>1. t[p + 1] = Quote /\ Place(This, p + 1, c, k, "quoted")
      BY <1>8, <2>1, <2>6 DEF Leads
    <3> QED
      BY <1>9, <1>11, <2>1, <2>6, <3>1 DEF Wheres
  <2>7. CASE where = "quoted"
    <3>1. CASE k = Len(This[c])
      <4>1. t[p + 1] = Quote /\ Place(This, p + 1, c, k, "closed")
        BY <1>8, <2>1, <2>7, <3>1 DEF Leads
      <4> QED
        BY <1>9, <1>11, <2>1, <2>7, <4>1 DEF Wheres
    <3>2. CASE k # Len(This[c]) /\ This[c][k + 1] = Quote
      <4>1. /\ t[p + 1] = Quote /\ k + 1 \in 0..Len(This[c])
            /\ Place(This, p + 1, c, k + 1, "between")
        BY <1>8, <2>1, <2>7, <3>2 DEF Leads
      <4> QED
        BY <1>9, <1>11, <2>7, <4>1 DEF Wheres
    <3>3. CASE k # Len(This[c]) /\ This[c][k + 1] # Quote
      <4>1. /\ t[p + 1] # Quote /\ k + 1 \in 0..Len(This[c])
            /\ Place(This, p + 1, c, k + 1, "quoted")
        BY <1>8, <2>1, <2>7, <3>3 DEF Leads
      <4> QED
        BY <1>9, <1>11, <2>7, <4>1 DEF Wheres
    <3> QED
      BY <3>1, <3>2, <3>3
  <2> QED
    BY <2>3, <2>4, <2>5, <2>6, <2>7 DEF Wheres
<1>13. FieldsOfRow'
  BY <1>1 DEF TripInv, FieldsOfRow, parseVars
<1> QED
  BY <1>3, <1>12, <1>13 DEF TripInv

(* The line break that ends a row is not within quotes. *)
LEMMA QuotedGoesOn ==
    ASSUME NEW row \in Rows, NEW c \in 1..Len(row), NEW k \in 0..Len(row[c]),
           NEW p, Place(row, p, c, k, "quoted")
    PROVE  p \in Nat /\ p + 1 < Len(RowText(row))
<1> DEFINE t == RowText(row)
<1>1. Leads(row, p, c, k, "quoted") /\ Len(t) \in Nat
  BY NextPlace, LastOfRow
<1>2. p \in Nat
  BY <1>1 DEF Leads
<1>3. CASE k = Len(row[c])
  BY <1>1, <1>2, <1>3 DEF Leads
<1>4. CASE k # Len(row[c])
  <2>1. k + 1 \in 0..Len(row[c])
    BY <1>1, <1>4 DEF Leads
  <2>2. PICK w : Place(row, p + 1, c, k + 1, w)
    BY <1>1, <1>4 DEF Leads
  <2>3. Leads(row, p + 1, c, k + 1, w)
    BY <2>1, <2>2, NextPlace
  <2> QED
    BY <1>2, <2>3 DEF Leads
<1> QED
  BY <1>3, <1>4

LEMMA CutInRow ==
    ASSUME IInv, origin # "elsewhere", NEW ends, TripInv(ends), ReadingRow, pos = Len(text),
           ends[Len(rows)] + Len(line) = Len(text) \/ Len(line) + 1 < Len(ThisText)
    PROVE  CutRow
<1> DEFINE m == Len(rows)
           t == ThisText
<1>1. /\ m \in Nat /\ m < Len(written) /\ RowIs(m, ends, t) /\ Len(line) \in Nat
      /\ Len(line) < Len(t)
      /\ \/ pos = Len(text) /\ ends[m] + Len(line) = Len(text)
         \/ pos = ends[m] + Len(line) + 1
      /\ TypeOK /\ RowsEndAt(ends)
  BY InRow DEF IInv, TripInv
<1>2. ends[m] \in Nat /\ Len(t) \in Nat /\ ends[m + 1] = ends[m] + Len(t)
  BY <1>1 DEF RowIs
<1> HIDE DEF m, t
<1>3. Len(text) < ends[m + 1]
  BY <1>1, <1>2 DEF m, t
<1> QED
  BY <1>1, <1>3, ShortIsTorn DEF CutRow

LEMMA TripCounted ==
    ASSUME IInv, origin # "elsewhere", NEW ends, TripInv(ends), Counted
    PROVE  TripInv(ends)'
<1>1. /\ pc = "count" /\ Len(upto) = Len(line)
      /\ pc' = IF quotes % 2 # 0 THEN "join" ELSE "parse"
      /\ UNCHANGED <<fileVars, lineVars, parseVars, rows>>
  BY DEF Counted
<1>2. ReadingRow /\ ReadingRow' /\ UNCHANGED <<fileVars, rows, pos, line>>
  BY <1>1 DEF ReadingRow, lineVars
<1>3. /\ RowsEndAt(ends)' /\ BetweenRows(ends)' /\ LineOfRow(ends)'
      /\ This' = This /\ ThisText' = ThisText
  BY <1>2, SameLine
<1>4. CountOfRow'
  BY <1>1, <1>3 DEF TripInv, CountOfRow, lineVars
<1>5. FieldsOfRow'
  <2>0. field' = <<>> /\ fields' = <<>> /\ i = 0 /\ in_quotes = FALSE /\ i' = i /\ in_quotes' = in_quotes
    <3>1. in_quotes \in BOOLEAN /\ i = 0 /\ ~in_quotes
      BY <1>1 DEF IInv, TypeOK, QuotesAgree
    <3> QED
      BY <1>1, <3>1 DEF TripInv, FieldsOfRow, parseVars
  <2>1. CASE pc' = "join"
    BY <2>0, <2>1 DEF FieldsOfRow
  <2>2. CASE pc' = "parse"
    <3> DEFINE p == Len(line)
               t == ThisText
    <3>1. ~(quotes % 2 = 1)
      <4>1. ~(quotes % 2 # 0)
        BY <1>1, <2>2
      <4> QED
        BY <4>1
    <3>2. PICK c \in 1..Len(This) : \E k \in 0..Len(This[c]) : \E where \in Wheres :
             Place(This, p, c, k, where) /\ (quotes % 2 = 1 <=> where = "quoted")
      BY <1>1 DEF TripInv, CountOfRow, Wheres
    <3>3. PICK k \in 0..Len(This[c]) : \E where \in Wheres :
             Place(This, p, c, k, where) /\ (quotes % 2 = 1 <=> where = "quoted")
      BY <3>2
    <3>4. PICK where \in Wheres : Place(This, p, c, k, where) /\ where # "quoted"
      BY <3>1, <3>3
    <3>5. /\ This \in Rows /\ Len(t) \in Nat /\ p \in Nat /\ t = RowText(This)
          /\ \/ pos = Len(text) /\ ends[Len(rows)] + Len(line) = Len(text)
             \/ t[p + 1] = Newline
      BY <1>2, InRow DEF ThisText, RowIs
    <3>6. Leads(This, p, c, k, where)
      BY <3>4, <3>5, NextPlace
    <3>7. CASE pos = Len(text) /\ ends[Len(rows)] + Len(line) = Len(text)
      <4>1. CutRow
        BY <1>2, <3>7, CutInRow
      <4>2. CutRow'
        BY <1>1, <4>1 DEF CutRow, fileVars, lineVars
      <4> QED
        BY <2>2, <4>2 DEF FieldsOfRow
    <3>8. CASE t[p + 1] = Newline
      <4>1. Newline # Quote /\ Newline # Comma
        BY DEF Newline, Quote, Comma
      <4> HIDE DEF p
      <4>2. Len(t) = p + 1
        <5>1. ASSUME Ended(This, p, c) PROVE Len(t) = p + 1
          BY <3>5, <3>8, <4>1, <5>1 DEF Ended
        <5>2. CASE where = "plain" \/ where = "closed"
          BY <3>5, <3>6, <3>8, <5>1, <5>2 DEF Leads
        <5>3. CASE where = "open" \/ where = "between"
          BY <3>5, <3>6, <3>8, <4>1, <5>3 DEF Leads
        <5> QED
          BY <3>4, <5>2, <5>3 DEF Wheres
      <4>3. /\ 1 \in 1..Len(This) /\ Start(This, 1) = 0 /\ 0 \in 0..Len(This[1])
        <5>1. This \in Seq(Seq(Char)) /\ Len(This) \in Nat \ {0}
          BY <3>5, RowOfFields
        <5>2. 1 \in 1..Len(This)
          BY <5>1
        <5>3. This[1] \in Seq(Char)
          BY <5>1, <5>2, ElementOfSeq
        <5> QED
          BY <5>1, <5>2, <5>3, RowLayout
      <4>4. PICK w \in {"plain", "open"} : Place(This, 0, 1, 0, w)
        BY <3>5, <4>3, FirstPlace
      <4>5. Len(<<>>) = 1 - 1 /\ Len(<<>>) = 0 /\ 1..1 - 1 = {} /\ 1..0 = {}
        OBVIOUS
      <4>6. Len(line') + 1 = Len(ThisText')
        BY <1>3, <1>1, <4>2 DEF p, t, lineVars
      <4>7. /\ Place(This', i', 1, 0, w) /\ w \in {"plain", "open", "quoted", "closed"}
            /\ in_quotes' <=> w = "quoted"
        BY <1>3, <2>0, <4>4
      <4>8. /\ Len(fields') = 1 - 1 /\ \A j \in 1..1 - 1 : fields'[j] = This'[j]
            /\ Len(field') = 0 /\ \A j \in 1..0 : field'[j] = This'[1][j]
        BY <2>0, <4>5
      <4>9. 1 \in 1..Len(This') /\ 0 \in 0..Len(This'[1])
        BY <1>3, <4>3
      <4> QED
        BY <4>6, <4>7, <4>8, <4>9 DEF FieldsOfRow
    <3> QED
      BY <3>5, <3>7, <3>8
  <2> QED
    BY <1>1, <2>1, <2>2
<1> QED
  BY <1>3, <1>4, <1>5 DEF TripInv

(* What the quotes of a row left open say of its place. *)
LEMMA OpenRow ==
    ASSUME IInv, NEW ends, TripInv(ends), pc = "join"
    PROVE  /\ ReadingRow /\ Len(upto) = Len(line) /\ quotes % 2 = 1
           /\ \E c \in 1..Len(This) : \E k \in 0..Len(This[c]) :
                Place(This, Len(line), c, k, "quoted")
           /\ Len(line) + 1 < Len(ThisText)
<1>1. Len(upto) = Len(line) /\ quotes % 2 = 1 /\ ReadingRow
  BY DEF IInv, QuotesAgree, ReadingRow
<1>2. PICK c \in 1..Len(This) : \E k \in 0..Len(This[c]) :
         Place(This, Len(line), c, k, "quoted")
  BY <1>1 DEF TripInv, CountOfRow
<1>3. PICK k \in 0..Len(This[c]) : Place(This, Len(line), c, k, "quoted")
  BY <1>2
<1>4. This \in Rows
  BY <1>1, InRow
<1>5. Len(line) + 1 < Len(ThisText)
  BY <1>3, <1>4, QuotedGoesOn DEF ThisText
<1> QED
  BY <1>1, <1>2, <1>5

LEMMA TripJoinAtEnd ==
    ASSUME IInv, origin # "elsewhere", NEW ends, TripInv(ends), JoinAtEnd
    PROVE  TripInv(ends)'
<1>1. /\ pc = "join" /\ pos = Len(text) /\ pc' = "parse"
      /\ UNCHANGED <<fileVars, lineVars, parseVars, rows>>
  BY DEF JoinAtEnd
<1>2. ReadingRow /\ ReadingRow' /\ UNCHANGED <<fileVars, rows, pos, line>>
  BY <1>1 DEF ReadingRow, lineVars
<1>3. RowsEndAt(ends)' /\ BetweenRows(ends)' /\ LineOfRow(ends)'
  BY <1>2, SameLine
<1>4. CutRow
  BY <1>1, <1>2, OpenRow, CutInRow
<1>5. CutRow' /\ CountOfRow' /\ FieldsOfRow'
  BY <1>1, <1>4 DEF CutRow, fileVars, lineVars, CountOfRow, FieldsOfRow
<1> QED
  BY <1>3, <1>5 DEF TripInv

LEMMA TripJoin ==
    ASSUME IInv, origin # "elsewhere", NEW ends, TripInv(ends), JoinLine
    PROVE  TripInv(ends)'
<1> DEFINE m == Len(rows)
           t == ThisText
           b == Len(line) + 1
<1>1. /\ pc = "join" /\ pc' = "count" /\ pos < Len(text) /\ upto' = Append(upto, quotes)
      /\ UNCHANGED <<text, origin, written, quotes, i, in_quotes, field, fields, rows>>
  BY DEF JoinLine, fileVars, parseVars
<1>2. PICK n \in pos+1..Len(text)+1 :
         /\ LineEnd(n) /\ pos' = After(n)
         /\ line' = line \o <<Newline>> \o SubSeq(text, pos + 1, n - 1)
  BY DEF JoinLine
<1>3. /\ ReadingRow /\ Len(upto) = Len(line) /\ quotes % 2 = 1 /\ Len(line) + 1 < Len(t)
  BY <1>1, OpenRow
<1>4. /\ m \in Nat /\ m < Len(written) /\ This \in Rows /\ RowIs(m, ends, t)
      /\ Len(line) \in Nat /\ \A j \in 1..Len(line) : line[j] = t[j]
      /\ \/ pos = Len(text)
         \/ pos = ends[m] + Len(line) + 1 /\ t[Len(line) + 1] = Newline
      /\ TypeOK /\ pos \in Nat /\ Len(text) \in Nat /\ line \in Seq(Char)
  BY <1>3, InRow DEF IInv, TypeOK
<1>5. /\ pos = ends[m] + b /\ t[b] = Newline /\ ends[m] \in Nat /\ Len(t) \in Nat \ {0}
      /\ b \in Nat /\ b < Len(t) /\ ends[m] <= pos /\ pos < ends[m] + Len(t)
  <2>1. pos = ends[m] + Len(line) + 1 /\ t[Len(line) + 1] = Newline
    BY <1>1, <1>4
  <2>2. ends[m] \in Nat /\ Len(t) \in Nat \ {0}
    BY <1>4 DEF RowIs
  <2>3. Len(line) \in Nat /\ Len(line) + 1 < Len(t) /\ pos \in Nat
    BY <1>3, <1>4
  <2> HIDE DEF m, t
  <2>4. pos = ends[m] + b /\ b \in Nat /\ b < Len(t) /\ t[b] = Newline
    BY <2>1, <2>2, <2>3 DEF m, t
  <2> HIDE DEF b
  <2>5. ends[m] <= pos /\ pos < ends[m] + Len(t)
    BY <2>2, <2>4
  <2> QED
    BY <2>2, <2>4, <2>5
<1>6. This' = This /\ ThisText' = ThisText
  BY <1>1 DEF This, ThisText
<1> DEFINE s == SubSeq(text, pos + 1, n - 1)
<1>7. /\ n - ends[m] \in 1..Len(t)
      /\ n <= Len(text) => t[n - ends[m]] = Newline
      /\ s \in Seq(Char) /\ Len(s) = n - 1 - pos
      /\ \A j \in 1..n - 1 - pos : s[j] = t[pos - ends[m] + j]
  <2> HIDE DEF m, t, b
  <2>1. TypeOK /\ m \in Nat /\ RowIs(m, ends, t) /\ LineEnd(n)
    BY <1>2, <1>4
  <2>2. ends[m] <= pos /\ pos < ends[m] + Len(t)
    BY <1>5
  <2> QED
    BY <2>1, <2>2, LineOfText
<1> HIDE DEF m, t, b, s
<1>8. /\ Len(line') = b + Len(s)
      /\ \A j \in 1..Len(line) : line'[j] = line[j]
      /\ line'[b] = Newline
      /\ \A j \in 1..Len(s) : line'[b + j] = s[j]
  <2> DEFINE h == Append(line, Newline)
  <2>1. line' = h \o s
    <3>1. line \o <<Newline>> = h
      BY <1>4, AppendIsConcat DEF Char
    <3> QED
      BY <1>2, <3>1 DEF s
  <2>2. /\ h \in Seq(Char) /\ Len(h) = b /\ h[b] = Newline
        /\ \A j \in 1..Len(line) : h[j] = line[j]
    BY <1>4, AppendProperties DEF Char, b
  <2>3. b \in 1..Len(h) /\ \A j \in 1..Len(line) : j \in 1..Len(h)
    BY <1>4, <1>5, <2>2 DEF b
  <2> HIDE DEF h
  <2>4. /\ Len(h \o s) = Len(h) + Len(s)
        /\ \A j \in 1..Len(h) : (h \o s)[j] = h[j]
        /\ \A j \in 1..Len(s) : (h \o s)[Len(h) + j] = s[j]
    BY <1>7, <2>2, TwoTexts
  <2> QED
    BY <2>1, <2>2, <2>3, <2>4
<1>9. /\ Len(line') = n - 1 - ends[m] /\ Len(line') < Len(t) /\ Len(line') + 1 = n - ends[m]
      /\ n \in Nat
  <2>1. Len(line') = b + (n - 1 - pos) /\ n \in Nat
    BY <1>4, <1>7, <1>8
  <2>2. n - ends[m] \in 1..Len(t) /\ ends[m] \in Nat /\ b \in Nat /\ pos = ends[m] + b
    BY <1>5, <1>7
  <2>3. PICK x \in Nat : x = ends[m]
    BY <2>2
  <2>4. PICK z \in Nat : z = Len(t)
    BY <1>5
  <2>5. n - x \in 1..z
    BY <2>2, <2>3, <2>4
  <2>6. Len(line') = b + (n - 1 - (x + b))
    BY <2>1, <2>2, <2>3
  <2>7. Len(line') = n - 1 - x /\ n - 1 - x < z /\ Len(line') + 1 = n - x
    <3>1. b \in Nat /\ n \in Nat /\ x \in Nat /\ z \in Nat
      BY <2>1, <2>2
    <3>2. b + (n - 1 - (x + b)) = n - 1 - x /\ (n - 1 - x) + 1 = n - x
      BY <3>1
    <3>3. n - 1 - x < z
      BY <2>5, <3>1
    <3> QED
      BY <2>6, <3>2, <3>3
  <2> QED
    BY <2>1, <2>3, <2>4, <2>7
<1>10. ASSUME NEW j \in 1..Len(line') PROVE line'[j] = t[j]
  <2>1. CASE j <= Len(line)
    <3>1. j \in 1..Len(line)
      BY <1>4, <2>1
    <3> QED
      BY <1>4, <1>8, <3>1
  <2>2. CASE j = b
    BY <1>5, <1>8, <2>2
  <2>3. CASE j > b
    <3>1. Len(s) = n - 1 - pos /\ Len(line') = b + Len(s) /\ Len(s) \in Nat
      BY <1>7, <1>8
    <3>2. j - b \in 1..Len(s) /\ b + (j - b) = j /\ pos - ends[m] + (j - b) = j
      <4>1. /\ ends[m] \in Nat /\ b \in Nat /\ pos = ends[m] + b /\ j \in Nat
            /\ j <= b + Len(s) /\ b < j
        BY <1>5, <2>3, <3>1
      <4>2. PICK x \in Nat : x = ends[m]
        BY <4>1
      <4>3. (x + b) - x + (j - b) = j
        BY <4>1
      <4> QED
        BY <3>1, <4>1, <4>2, <4>3
    <3>3. line'[j] = s[j - b]
      BY <1>8, <3>2
    <3>4. s[j - b] = t[pos - ends[m] + (j - b)]
      BY <1>7, <3>1, <3>2
    <3> QED
      BY <3>2, <3>3, <3>4
  <2> QED
    BY <1>4, <1>5, <2>1, <2>2, <2>3 DEF b
<1>11. \/ pos' = Len(text') /\ ends[m] + Len(line') = Len(text')
       \/ pos' = ends[m] + Len(line') + 1 /\ t[Len(line') + 1] = Newline
  <2>1. CASE n <= Len(text)
    <3>1. pos' = n /\ t[n - ends[m]] = Newline /\ Len(line') + 1 = n - ends[m]
      BY <1>2, <1>4, <1>7, <1>9, <2>1 DEF After
    <3>2. n = ends[m] + Len(line') + 1
      <4>1. PICK x \in Nat : x = ends[m]
        BY <1>5
      <4>2. Len(line') = n - 1 - x /\ n \in Nat
        BY <1>9, <4>1
      <4> QED
        BY <4>1, <4>2
    <3> QED
      BY <3>1, <3>2
  <2>2. CASE n = Len(text) + 1
    <3>1. pos' = Len(text) /\ text' = text
      BY <1>1, <1>2, <1>4, <2>2 DEF After
    <3>2. ends[m] + Len(line') = Len(text)
      <4>1. PICK x \in Nat : x = ends[m]
        BY <1>5
      <4>2. Len(line') = n - 1 - x /\ Len(text) \in Nat
        BY <1>4, <1>9, <4>1
      <4> QED
        BY <2>2, <4>1, <4>2
    <3> QED
      BY <3>1, <3>2
  <2> QED
    BY <1>4, <2>1, <2>2
<1>12. LineOfRow(ends)'
  <2>1. \A k \in 1..m : rows[k] = written[k]
    BY <1>3 DEF TripInv, LineOfRow, m
  <2> QED
    BY <1>1, <1>4, <1>6, <1>9, <1>10, <1>11, <2>1 DEF LineOfRow, m, t
<1>13. CountOfRow'
  <2>1. PICK c \in 1..Len(This) : \E k \in 0..Len(This[c]) :
           Place(This, Len(line), c, k, "quoted")
    BY <1>1, OpenRow
  <2>2. PICK k \in 0..Len(This[c]) : Place(This, Len(line), c, k, "quoted")
    BY <2>1
  <2>3. Leads(This, Len(line), c, k, "quoted")
    BY <1>4, <2>2, NextPlace
  <2>4. RowText(This)[Len(line) + 1] = Newline /\ Newline # Quote
    BY <1>5 DEF t, b, ThisText, Newline, Quote
  <2>5. k + 1 \in 0..Len(This[c]) /\ Place(This, Len(line) + 1, c, k + 1, "quoted")
    BY <2>3, <2>4 DEF Leads
  <2>6. Len(upto') = Len(line) + 1
    <3>1. upto \in Seq(Nat) /\ quotes \in Nat
      BY DEF IInv, TypeOK
    <3> QED
      BY <1>1, <1>3, <3>1, AppendProperties
  <2>7. Place(This', Len(upto'), c, k + 1, "quoted") /\ quotes' % 2 = 1
    BY <1>1, <1>3, <1>6, <2>5, <2>6
  <2> QED
    BY <1>6, <2>5, <2>7 DEF CountOfRow
<1>14. FieldsOfRow'
  BY <1>1 DEF TripInv, FieldsOfRow
<1>15. RowsEndAt(ends)' /\ BetweenRows(ends)'
  BY <1>1, SameFile DEF fileVars, BetweenRows, ReadingRow, TripInv
<1> QED
  BY <1>12, <1>13, <1>14, <1>15 DEF TripInv

-----------------------------------------------------------------------------
(* Splitting a row into its fields. *)

LEMMA RowEqual ==
    ASSUME NEW a \in Seq(Seq(Char)), NEW b \in Seq(Seq(Char)), Len(a) = Len(b),
           \A j \in 1..Len(b) : a[j] = b[j]
    PROVE  a = b
BY SeqEqual

ParseWheres == {"plain", "open", "quoted", "closed"}

(* parse_line is in field c, of which it has k characters. *)
Progress(c, k, where) ==
    /\ Place(This, i, c, k, where)
    /\ in_quotes <=> where = "quoted"
    /\ Len(fields) = c - 1 /\ \A j \in 1..c - 1 : fields[j] = This[j]
    /\ Len(field) = k /\ \A j \in 1..k : field[j] = This[c][j]

LEMMA WholeRow ==
    ASSUME IInv, NEW ends, TripInv(ends), pc = "parse", ~CutRow
    PROVE  /\ This \in Rows /\ Len(line) + 1 = Len(RowText(This)) /\ Len(line) \in Nat
           /\ \A j \in 1..Len(line) : line[j] = RowText(This)[j]
           /\ \E c \in 1..Len(This) : \E k \in 0..Len(This[c]) : \E where \in ParseWheres :
                Progress(c, k, where)
<1>1. ReadingRow
  BY DEF ReadingRow
<1>2. /\ This \in Rows /\ Len(line) \in Nat
      /\ \A j \in 1..Len(line) : line[j] = RowText(This)[j]
  BY <1>1, InRow DEF ThisText
<1>3. /\ Len(line) + 1 = Len(RowText(This))
      /\ \E c \in 1..Len(This) : \E k \in 0..Len(This[c]) : \E where \in ParseWheres :
           Progress(c, k, where)
  BY DEF TripInv, FieldsOfRow, ThisText, ParseWheres, Progress
<1> QED
  BY <1>2, <1>3

(* What a step of parse_line leaves to show. *)
LEMMA ParseGoesOn ==
    ASSUME NEW ends, TripInv(ends), pc = "parse", pc' = "parse",
           UNCHANGED <<fileVars, lineVars, rows>>,
           CutRow \/ \E c \in 1..Len(This) : \E k \in 0..Len(This[c]) :
                       \E where \in ParseWheres : Progress(c, k, where)'
    PROVE  TripInv(ends)'
<1>1. /\ RowsEndAt(ends)' /\ BetweenRows(ends)' /\ LineOfRow(ends)'
      /\ This' = This /\ ThisText' = ThisText
  BY SameLine DEF ReadingRow, lineVars
<1>2. CountOfRow'
  BY DEF CountOfRow
<1>3. FieldsOfRow'
  <2>1. CASE CutRow
    BY <2>1 DEF CutRow, FieldsOfRow, fileVars, lineVars
  <2>2. CASE ~CutRow
    <3>1. Len(line') + 1 = Len(ThisText')
      BY <1>1, <2>2 DEF TripInv, FieldsOfRow, lineVars
    <3>2. \E c \in 1..Len(This') : \E k \in 0..Len(This'[c]) :
            \E where \in ParseWheres : Progress(c, k, where)'
      BY <1>1, <2>2
    <3> QED
      BY <3>1, <3>2 DEF FieldsOfRow, Progress, ParseWheres
  <2> QED
    BY <2>1, <2>2
<1> QED
  BY <1>1, <1>2, <1>3 DEF TripInv

LEMMA TripParse ==
    ASSUME IInv, NEW ends, TripInv(ends),
           OpenQuotes \/ EndField \/ KeepChar \/ KeepQuote \/ CloseQuotes
    PROVE  TripInv(ends)'
<1>1. /\ Parsing /\ pc = "parse" /\ pc' = "parse" /\ UNCHANGED <<fileVars, lineVars, rows>>
      /\ This' = This
  BY DEF OpenQuotes, EndField, KeepChar, KeepQuote, CloseQuotes, Parsing, This, fileVars
<1> SUFFICES ASSUME ~CutRow
             PROVE  \E c \in 1..Len(This) : \E k \in 0..Len(This[c]) :
                      \E where \in ParseWheres : Progress(c, k, where)'
  BY <1>1, ParseGoesOn
<1> DEFINE t == RowText(This)
<1>2. /\ This \in Rows /\ Len(line) + 1 = Len(t) /\ Len(line) \in Nat
      /\ \A j \in 1..Len(line) : line[j] = t[j]
      /\ \E c \in 1..Len(This) : \E k \in 0..Len(This[c]) : \E where \in ParseWheres :
           Progress(c, k, where)
  BY <1>1, WholeRow
<1>3. PICK c \in 1..Len(This) : \E k \in 0..Len(This[c]) : \E where \in ParseWheres :
         Progress(c, k, where)
  BY <1>2
<1>4. PICK k \in 0..Len(This[c]) : \E where \in ParseWheres : Progress(c, k, where)
  BY <1>3
<1>5. PICK where \in ParseWheres : Progress(c, k, where)
  BY <1>4
<1> DEFINE f == This[c]
<1>6. Leads(This, i, c, k, where)
  BY <1>2, <1>5, NextPlace DEF Progress
<1>7. /\ i \in Nat /\ i < Len(line) /\ line[i + 1] = t[i + 1] /\ i + 1 # Len(t)
      /\ Len(t) \in Nat
  <2>1. i \in Nat /\ i < Len(line) /\ i + 1 \in 1..Len(line)
    BY <1>1, <1>2 DEF IInv, TypeOK, Parsing
  <2> QED
    BY <1>2, <2>1
<1>8. /\ Quote # Comma /\ Quote # Newline /\ Comma # Newline
      /\ c \in Nat /\ k \in Nat /\ k <= Len(f) /\ Len(f) \in Nat /\ Len(This) \in Nat
      /\ f \in Seq(Char) /\ 0 \in 0..Len(f) /\ 1 <= c /\ This \in Seq(Seq(Char))
  <2>1. f \in Seq(Char) /\ This \in Seq(Seq(Char)) /\ Len(This) \in Nat
    BY <1>2, RowOfFields, ElementOfSeq
  <2> QED
    BY <2>1 DEF Quote, Comma, Newline
<1>9. /\ in_quotes <=> where = "quoted"
      /\ Len(fields) = c - 1 /\ \A j \in 1..c - 1 : fields[j] = This[j]
      /\ Len(field) = k /\ \A j \in 1..k : field[j] = f[j]
      /\ field \in Seq(Char) /\ fields \in Seq(Seq(Char))
  BY <1>5 DEF Progress, IInv, TypeOK
<1> HIDE DEF t, f
<1>10. ASSUME Ended(This, i, c)
       PROVE  /\ c < Len(This) /\ t[i + 1] = Comma
              /\ \E w \in {"plain", "open"} : Place(This, i + 1, c + 1, 0, w)
  BY <1>7, <1>8, <1>10 DEF Ended, t
<1>11. where \in {"plain", "closed"} /\ (where = "plain" => k = Len(f)) => Ended(This, i, c)
  BY <1>6 DEF Leads, f
<1>12. CASE OpenQuotes
  <2>1. /\ in_quotes' = TRUE /\ i' = i + 1 /\ UNCHANGED <<field, fields>>
        /\ ~in_quotes /\ t[i + 1] = Quote
    BY <1>7, <1>12 DEF OpenQuotes
  <2>2. where = "open"
    <3>1. where # "quoted"
      BY <1>9, <2>1
    <3>2. where # "closed"
      BY <1>8, <1>10, <1>11, <2>1
    <3>3. where # "plain"
      <4> SUFFICES ASSUME where = "plain" PROVE FALSE
        OBVIOUS
      <4>1. CASE k = Len(f)
        BY <1>8, <1>10, <1>11, <2>1, <4>1
      <4>2. CASE k # Len(f)
        BY <1>6, <2>1, <4>2 DEF Leads, t, f
      <4> QED
        BY <4>1, <4>2
    <3> QED
      BY <3>1, <3>2, <3>3 DEF ParseWheres
  <2>3. k = 0 /\ Place(This, i + 1, c, 0, "quoted")
    BY <1>6, <2>2 DEF Leads
  <2>4. Progress(c, k, "quoted")'
    BY <1>1, <1>9, <2>1, <2>3 DEF Progress, f
  <2> QED
    BY <2>4 DEF ParseWheres
<1>13. CASE CloseQuotes
  <2>1. /\ in_quotes' = FALSE /\ i' = i + 1 /\ UNCHANGED <<field, fields>>
        /\ in_quotes /\ t[i + 1] = Quote /\ ~Doubled
    BY <1>7, <1>13 DEF CloseQuotes
  <2>2. where = "quoted"
    BY <1>9, <2>1
  <2>3. CASE k = Len(f)
    <3>1. Place(This, i + 1, c, k, "closed")
      BY <1>6, <2>2, <2>3 DEF Leads, f
    <3>2. Progress(c, k, "closed")'
      BY <1>1, <1>9, <2>1, <3>1 DEF Progress, f
    <3> QED
      BY <3>2 DEF ParseWheres
  <2>4. CASE k # Len(f) /\ f[k + 1] = Quote
    <3>1. t[i + 2] = Quote /\ k + 1 \in 0..Len(f) /\ Place(This, i + 2, c, k + 1, "quoted")
      BY <1>6, <2>2, <2>4 DEF Leads, f, t
    <3>2. (i + 2) + 1 < Len(t)
      BY <1>2, <3>1, QuotedGoesOn DEF t, f
    <3>3. i + 2 <= Len(line) /\ i + 2 \in 1..Len(line)
      BY <1>2, <1>7, <3>2
    <3>4. line[i + 2] = Quote
      BY <1>2, <3>1, <3>3
    <3> QED
      BY <2>1, <3>3, <3>4 DEF Doubled
  <2>5. CASE k # Len(f) /\ f[k + 1] # Quote
    BY <1>6, <2>1, <2>2, <2>5 DEF Leads, f, t
  <2> QED
    BY <2>3, <2>4, <2>5
<1>14. CASE EndField
  <2>1. /\ i' = i + 1 /\ in_quotes' = in_quotes /\ field' = <<>> /\ ~in_quotes
        /\ fields' = Append(fields, field) /\ t[i + 1] = Comma
    BY <1>7, <1>14 DEF EndField
  <2>2. k = Len(f) /\ Ended(This, i, c)
    <3>1. where # "quoted" /\ where # "open"
      <4>1. where # "quoted"
        BY <1>9, <2>1
      <4>2. where # "open"
        BY <1>6, <1>8, <2>1 DEF Leads, t
      <4> QED
        BY <4>1, <4>2
    <3>2. CASE where = "closed"
      BY <1>6, <3>2 DEF Leads, f
    <3>3. CASE where = "plain"
      BY <1>6, <2>1, <3>3 DEF Leads, f, t
    <3> QED
      BY <3>1, <3>2, <3>3 DEF ParseWheres
  <2>3. c < Len(This)
    BY <1>10, <2>2
  <2>4. PICK w \in {"plain", "open"} : Place(This, i + 1, c + 1, 0, w)
    BY <1>10, <2>2
  <2>5. field = f
    <3>1. Len(field) = Len(f) /\ \A j \in 1..Len(f) : field[j] = f[j]
      BY <1>9, <2>2
    <3> QED
      BY <1>8, <1>9, <3>1, SeqEqual
  <2>6. /\ Len(fields') = c /\ fields'[c] = f
        /\ \A j \in 1..c - 1 : fields'[j] = This[j]
    <3>1. field \in Seq(Char) /\ (c - 1) + 1 = c
      BY <1>8, <1>9
    <3>2. /\ Len(Append(fields, field)) = Len(fields) + 1
          /\ Append(fields, field)[Len(fields) + 1] = field
          /\ \A j \in 1..Len(fields) : Append(fields, field)[j] = fields[j]
      BY <1>9, AppendProperties
    <3> QED
      BY <1>8, <1>9, <2>1, <2>5, <3>1, <3>2
  <2>7. \A j \in 1..c : fields'[j] = This[j]
    <3> SUFFICES ASSUME NEW j \in 1..c PROVE fields'[j] = This[j]
      OBVIOUS
    <3>1. CASE j = c
      BY <2>6, <3>1 DEF f
    <3>2. CASE j # c
      <4>1. j \in 1..c - 1
        BY <1>8, <3>2
      <4> QED
        BY <2>6, <4>1
    <3> QED
      BY <3>1, <3>2
  <2>8. c + 1 \in 1..Len(This) /\ (c + 1) - 1 = c /\ Len(<<>>) = 0 /\ w # "quoted" /\ w \in ParseWheres
    BY <1>8, <2>3, <2>4 DEF ParseWheres
  <2>9. 0 \in 0..Len(This[c + 1])
    BY <2>4 DEF Place
  <2>10. Progress(c + 1, 0, w)'
    <3>1. Place(This', i', c + 1, 0, w) /\ (in_quotes' <=> w = "quoted")
      BY <1>1, <2>1, <2>4, <2>8
    <3>2. Len(fields') = (c + 1) - 1 /\ \A j \in 1..(c + 1) - 1 : fields'[j] = This'[j]
      BY <1>1, <2>6, <2>7, <2>8
    <3>3. Len(field') = 0 /\ \A j \in 1..0 : field'[j] = This'[c + 1][j]
      BY <2>1, <2>8
    <3> QED
      BY <3>1, <3>2, <3>3 DEF Progress
  <2> QED
    BY <2>8, <2>9, <2>10
<1>15. ASSUME k + 1 \in 0..Len(f), UNCHANGED <<in_quotes, fields>>,
              field' = Append(field, f[k + 1]), Place(This, i', c, k + 1, where),
              where \in {"plain", "quoted"}
       PROVE  \E c1 \in 1..Len(This) : \E k1 \in 0..Len(This[c1]) :
                \E w1 \in ParseWheres : Progress(c1, k1, w1)'
  <2>1. f[k + 1] \in Char
    <3>1. k + 1 \in 1..Len(f)
      BY <1>8, <1>15
    <3> QED
      BY <1>8, <3>1, ElementOfSeq
  <2>2. /\ Len(field') = k + 1 /\ field'[k + 1] = f[k + 1]
        /\ \A j \in 1..k : field'[j] = f[j]
    <3>1. /\ Len(Append(field, f[k + 1])) = Len(field) + 1
          /\ Append(field, f[k + 1])[Len(field) + 1] = f[k + 1]
          /\ \A j \in 1..Len(field) : Append(field, f[k + 1])[j] = field[j]
      BY <1>9, <2>1, AppendProperties
    <3> QED
      BY <1>9, <1>15, <3>1
  <2>3. ASSUME NEW j \in 1..k + 1 PROVE field'[j] = f[j]
    <3>1. j = k + 1 \/ j \in 1..k
      BY <1>8
    <3> QED
      BY <2>2, <3>1
  <2>4. Progress(c, k + 1, where)'
    BY <1>1, <1>9, <1>15, <2>2, <2>3 DEF Progress, f
  <2> QED
    BY <1>15, <2>4 DEF f, ParseWheres
<1>16. CASE KeepChar
  <2>1. /\ i' = i + 1 /\ UNCHANGED <<in_quotes, fields>>
        /\ field' = Append(field, t[i + 1])
        /\ t[i + 1] # Quote /\ (~in_quotes => t[i + 1] # Comma)
    BY <1>7, <1>16 DEF KeepChar
  <2>2. CASE where = "quoted"
    <3>1. /\ k # Len(f) /\ t[i + 1] = f[k + 1] /\ k + 1 \in 0..Len(f)
          /\ Place(This, i + 1, c, k + 1, "quoted")
      BY <1>6, <2>1, <2>2 DEF Leads, f, t
    <3> QED
      BY <1>15, <2>1, <2>2, <3>1
  <2>3. CASE where = "plain"
    <3>1. k # Len(f)
      BY <1>9, <1>10, <1>11, <2>1, <2>3
    <3>2. /\ t[i + 1] = f[k + 1] /\ k + 1 \in 0..Len(f)
          /\ Place(This, i + 1, c, k + 1, "plain")
      BY <1>6, <2>3, <3>1 DEF Leads, f, t
    <3> QED
      BY <1>15, <2>1, <2>3, <3>2
  <2>4. CASE where = "open"
    BY <1>6, <2>1, <2>4 DEF Leads, t
  <2>5. CASE where = "closed"
    BY <1>9, <1>10, <1>11, <2>1, <2>5
  <2> QED
    BY <2>2, <2>3, <2>4, <2>5 DEF ParseWheres
<1>17. CASE KeepQuote
  <2>1. /\ i' = i + 2 /\ UNCHANGED <<in_quotes, fields>> /\ Doubled /\ in_quotes
        /\ field' = Append(field, Quote) /\ t[i + 1] = Quote
    BY <1>7, <1>17 DEF KeepQuote
  <2>2. where = "quoted"
    BY <1>9, <2>1
  <2>3. t[i + 2] = Quote
    <3>1. i + 2 \in 1..Len(line) /\ line[i + 2] = Quote
      BY <1>2, <1>7, <2>1 DEF Doubled
    <3> QED
      BY <1>2, <3>1
  <2>4. k # Len(f)
    BY <1>6, <2>2, <2>3 DEF Leads, f, t
  <2>5. f[k + 1] = Quote
    BY <1>6, <2>1, <2>2, <2>4 DEF Leads, f, t
  <2>6. k + 1 \in 0..Len(f) /\ Place(This, i + 2, c, k + 1, "quoted")
    BY <1>6, <2>2, <2>4, <2>5 DEF Leads, f, t
  <2> QED
    BY <1>15, <2>1, <2>2, <2>5, <2>6
<1> QED
  BY <1>12, <1>13, <1>14, <1>16, <1>17

LEMMA TripReturn ==
    ASSUME IInv, origin # "elsewhere", NEW ends, TripInv(ends), ReturnRow
    PROVE  TripInv(ends)'
<1> DEFINE m == Len(rows)
           row == Append(fields, field)
<1>1. /\ pc = "parse" /\ pc' = "row" /\ i = Len(line) /\ field' = <<>> /\ fields' = <<>>
      /\ rows' = Append(rows, row) /\ UNCHANGED <<fileVars, lineVars>>
  BY DEF ReturnRow
<1>2. ReadingRow
  BY <1>1 DEF ReadingRow
<1>3. /\ m \in Nat /\ m < Len(written) /\ RowIs(m, ends, ThisText) /\ Len(line) \in Nat
      /\ \/ pos = Len(text) /\ ends[m] + Len(line) = Len(text)
         \/ pos = ends[m] + Len(line) + 1
      /\ \A k \in 1..m : rows[k] = written[k]
      /\ Len(written) \in Nat /\ fields \in Seq(Seq(Char)) /\ field \in Seq(Char)
      /\ rows \in Seq(Seq(Seq(Char)))
  BY <1>2, InRow DEF TripInv, LineOfRow, IInv, TypeOK
<1>4. /\ Len(rows') = m + 1 /\ rows'[m + 1] = row
      /\ \A k \in 1..m : rows'[k] = rows[k]
  <2>1. row \in Seq(Seq(Char))
    BY <1>3, AppendProperties
  <2> HIDE DEF row
  <2> QED
    BY <1>1, <1>3, <2>1, AppendProperties
<1> HIDE DEF row
<1>5. (row = This /\ pos = ends[m + 1]) \/ CutRow
  <2> SUFFICES ASSUME ~CutRow PROVE row = This /\ pos = ends[m + 1]
    OBVIOUS
  <2> DEFINE t == RowText(This)
  <2>1. /\ This \in Rows /\ Len(line) + 1 = Len(t)
        /\ \E c \in 1..Len(This) : \E k \in 0..Len(This[c]) : \E where \in ParseWheres :
             Progress(c, k, where)
    BY <1>1, WholeRow
  <2>2. PICK c \in 1..Len(This) : \E k \in 0..Len(This[c]) : \E where \in ParseWheres :
           Progress(c, k, where)
    BY <2>1
  <2>3. PICK k \in 0..Len(This[c]) : \E where \in ParseWheres : Progress(c, k, where)
    BY <2>2
  <2>4. PICK where \in ParseWheres : Progress(c, k, where)
    BY <2>3
  <2>5. Leads(This, i, c, k, where) /\ i + 1 = Len(t) /\ i \in Nat /\ Len(t) \in Nat
    BY <1>1, <1>3, <2>1, <2>4, NextPlace, LastOfRow DEF Progress
  <2>6. ASSUME NEW k1 \in 0..Len(This[c]), NEW w, Place(This, i + 1, c, k1, w)
        PROVE  FALSE
    <3>1. Leads(This, i + 1, c, k1, w)
      BY <2>1, <2>6, NextPlace
    <3> QED
      BY <2>5, <3>1 DEF Leads
  <2>7. /\ This \in Seq(Seq(Char)) /\ This[c] \in Seq(Char) /\ Len(This) \in Nat
        /\ c \in Nat /\ 1 <= c /\ c <= Len(This) /\ 0 \in 0..Len(This[c])
    <3>1. This \in Seq(Seq(Char)) /\ Len(This) \in Nat
      BY <2>1, RowOfFields
    <3>2. This[c] \in Seq(Char)
      BY <3>1, ElementOfSeq
    <3> QED
      BY <3>1, <3>2
  <2>8. k = Len(This[c]) /\ Ended(This, i, c)
    <3>1. CASE where = "plain"
      BY <2>5, <2>6, <3>1 DEF Leads
    <3>2. CASE where = "closed"
      BY <2>5, <3>2 DEF Leads
    <3>3. CASE where = "open"
      BY <2>5, <2>6, <2>7, <3>3 DEF Leads
    <3>4. CASE where = "quoted"
      BY <2>5, <2>6, <3>4 DEF Leads
    <3> QED
      BY <2>4, <3>1, <3>2, <3>3, <3>4 DEF ParseWheres
  <2>9. c = Len(This)
    <3>1. ASSUME c < Len(This) PROVE FALSE
      <4>1. PICK w : Place(This, i + 1, c + 1, 0, w)
        BY <2>8, <3>1 DEF Ended
      <4>2. c + 1 \in 1..Len(This) /\ 0 \in 0..Len(This[c + 1])
        BY <4>1 DEF Place
      <4>3. Leads(This, i + 1, c + 1, 0, w)
        BY <2>1, <4>1, <4>2, NextPlace
      <4> QED
        BY <2>5, <4>3 DEF Leads
    <3> QED
      BY <2>7, <3>1
  <2>10. /\ Len(fields) = c - 1 /\ \A j \in 1..c - 1 : fields[j] = This[j]
         /\ Len(field) = k /\ \A j \in 1..k : field[j] = This[c][j]
    BY <2>4 DEF Progress
  <2>11. field = This[c]
    <3>1. Len(field) = Len(This[c]) /\ \A j \in 1..Len(This[c]) : field[j] = This[c][j]
      BY <2>8, <2>10
    <3> QED
      BY <1>3, <2>7, <3>1, SeqEqual
  <2>12. row = This
    <3>1. /\ row \in Seq(Seq(Char)) /\ Len(row) = Len(fields) + 1
          /\ row[Len(fields) + 1] = field
          /\ \A j \in 1..Len(fields) : row[j] = fields[j]
      BY <1>3, AppendProperties DEF row
    <3>2. Len(row) = c /\ row[c] = This[c] /\ \A j \in 1..c - 1 : row[j] = This[j]
      <4>1. Len(fields) + 1 = c
        BY <2>7, <2>10
      <4> QED
        BY <2>10, <2>11, <3>1, <4>1
    <3>3. \A j \in 1..c : j = c \/ j \in 1..c - 1
      BY <2>7
    <3>4. \A j \in 1..c : row[j] = This[j]
      BY <3>2, <3>3
    <3> QED
      BY <2>7, <2>9, <3>1, <3>2, <3>4, RowEqual
  <2>13. pos = ends[m + 1]
    <3>1. ends[m + 1] = ends[m] + Len(ThisText) /\ Len(ThisText) = Len(t) /\ ends[m] \in Nat
      BY <1>3 DEF RowIs, ThisText
    <3>2. ~(pos = Len(text) /\ ends[m] + Len(line) = Len(text))
      BY <1>2, CutInRow
    <3>3. pos = ends[m] + Len(line) + 1
      BY <1>3, <3>2
    <3> QED
      BY <1>3, <2>1, <3>1, <3>3
  <2> QED
    BY <2>12, <2>13
<1> HIDE DEF m
<1>6. RowsEndAt(ends)' /\ CutRow' = CutRow
  BY <1>1, SameFile DEF TripInv, CutRow, fileVars, lineVars
<1>7. BetweenRows(ends)'
  <2>1. Len(rows') <= Len(written') /\ rows' # <<>> /\ written' = written /\ pos' = pos /\ pc' = "row"
    <3>1. rows' # <<>>
      <4>1. Len(<<>>) = 0 /\ m + 1 # 0
        BY <1>3
      <4> QED
        BY <1>4, <4>1
    <3> QED
      BY <1>1, <1>3, <1>4, <3>1 DEF fileVars, lineVars
  <2>2. pos' = ends[Len(rows')] \/ (CutRow' /\ rows' # <<>>)
    BY <1>4, <1>5, <1>6, <2>1
  <2>3. ASSUME NEW k \in 1..Len(rows')
        PROVE  rows'[k] = written'[k] \/ (CutRow' /\ k = Len(rows'))
    <3>1. CASE k = m + 1
      BY <1>4, <1>5, <1>6, <2>1, <3>1 DEF This, m
    <3>2. CASE k # m + 1
      <4>1. k \in 1..m
        BY <1>3, <1>4, <3>2
      <4> QED
        BY <1>3, <1>4, <2>1, <4>1
    <3> QED
      BY <3>1, <3>2
  <2> QED
    BY <2>1, <2>2, <2>3 DEF BetweenRows
<1>8. LineOfRow(ends)' /\ CountOfRow' /\ FieldsOfRow'
  BY <1>1 DEF LineOfRow, CountOfRow, FieldsOfRow, ReadingRow
<1> QED
  BY <1>6, <1>7, <1>8 DEF TripInv

-----------------------------------------------------------------------------
LEMMA InitTrip == Init => Trip
<1> SUFFICES ASSUME Init, origin # "elsewhere" PROVE \E ends : TripInv(ends)
  BY DEF Trip
<1>1. /\ text = <<>> /\ origin = "writer" /\ pc = "write" /\ written = <<>> /\ pos = 0
      /\ field = <<>> /\ fields = <<>> /\ rows = <<>> /\ Len(<<>>) = 0
  BY DEF Init
<1> DEFINE ends == [m \in 0..0 |-> 0]
<1>2. /\ ends \in [0..Len(written) -> Nat] /\ ends[0] = 0 /\ Len(text) = ends[Len(written)]
      /\ Len(rows) = 0 /\ Len(written) = 0 /\ Len(text) = 0
  BY <1>1
<1> HIDE DEF ends
<1>3. RowsEndAt(ends)
  BY <1>1, <1>2 DEF RowsEndAt
<1>4. BetweenRows(ends)
  BY <1>1, <1>2 DEF BetweenRows
<1>5. LineOfRow(ends) /\ CountOfRow /\ FieldsOfRow
  BY <1>1 DEF LineOfRow, ReadingRow, CountOfRow, FieldsOfRow
<1> QED
  BY <1>3, <1>4, <1>5 DEF TripInv

LEMMA StepTrip == IInv /\ Trip /\ [Next]_vars => Trip'
<1> SUFFICES ASSUME IInv, Trip, [Next]_vars, origin' # "elsewhere" PROVE \E ends : TripInv(ends)'
  BY DEF Trip
<1>1. origin # "elsewhere"
  <2>1. CASE UNCHANGED vars
    BY <2>1 DEF vars, fileVars
  <2>2. CASE Kill
    <3>1. pc = "write"
      BY <2>2 DEF Kill
    <3> QED
      BY <3>1 DEF IInv, Unread
  <2>3. CASE Next /\ ~Kill
    BY <2>3 DEF Next, WriteRow, CloseWriter, FirstLine, EndOfFile, CountChar, Counted, JoinLine,
                JoinAtEnd, OpenQuotes, EndField, KeepChar, KeepQuote, CloseQuotes, ReturnRow,
                fileVars
  <2> QED
    BY <2>1, <2>2, <2>3
<1>2. PICK ends : TripInv(ends)
  BY <1>1 DEF Trip
<1>3. CASE UNCHANGED vars
  <2>1. /\ UNCHANGED <<text, origin, written, pc, pos, line, quotes, upto>>
        /\ UNCHANGED <<i, in_quotes, field, fields, rows>>
    BY <1>3 DEF vars, fileVars, lineVars, parseVars
  <2>2. RowsEndAt(ends)' /\ This' = This /\ ThisText' = ThisText
    BY <1>2, <2>1, SameFile DEF TripInv, This, ThisText, fileVars
  <2>3. BetweenRows(ends)' /\ LineOfRow(ends)'
    BY <1>2, <2>1, <2>2 DEF TripInv, BetweenRows, LineOfRow, ReadingRow, CutRow
  <2>4. CountOfRow' /\ FieldsOfRow'
    BY <1>2, <2>1, <2>2 DEF TripInv, CountOfRow, FieldsOfRow, CutRow
  <2> QED
    BY <2>2, <2>3, <2>4 DEF TripInv
<1>4. CASE \E row \in Rows : WriteRow(row)
  BY <1>2, <1>4, TripWrite DEF IInv
<1>5. CASE CloseWriter \/ EndOfFile
  BY <1>2, <1>5, TripClose DEF IInv
<1>6. CASE Kill
  BY <1>2, <1>6, TripKill
<1>7. CASE FirstLine
  BY <1>1, <1>2, <1>7, TripFirst
<1>8. CASE CountChar
  BY <1>2, <1>8, TripCount
<1>9. CASE Counted
  BY <1>1, <1>2, <1>9, TripCounted
<1>10. CASE JoinLine
  BY <1>1, <1>2, <1>10, TripJoin
<1>11. CASE JoinAtEnd
  BY <1>1, <1>2, <1>11, TripJoinAtEnd
<1>12. CASE OpenQuotes \/ EndField \/ KeepChar \/ KeepQuote \/ CloseQuotes
  BY <1>2, <1>12, TripParse
<1>13. CASE ReturnRow
  BY <1>1, <1>2, <1>13, TripReturn
<1> QED
  BY <1>3, <1>4, <1>5, <1>6, <1>7, <1>8, <1>9, <1>10, <1>11, <1>12, <1>13 DEF Next

LEMMA TripIsExact == IInv /\ Trip => ReadsWhatWasWritten
<1> SUFFICES ASSUME IInv, Trip, origin # "elsewhere"
             PROVE  /\ \A k \in 1..Len(rows) :
                         /\ k <= Len(written)
                         /\ \/ rows[k] = written[k]
                            \/ origin = "torn" /\ k = Len(rows) /\ pos = Len(text)
                    /\ pc = "eof" /\ origin = "writer" => Len(rows) = Len(written)
  BY DEF ReadsWhatWasWritten
<1>1. PICK ends : TripInv(ends)
  BY DEF Trip
<1>2. Len(rows) \in Nat /\ Len(written) \in Nat
  BY DEF IInv, TypeOK
<1>3. CASE ReadingRow
  <2>1. Len(rows) < Len(written) /\ (\A k \in 1..Len(rows) : rows[k] = written[k]) /\ pc # "eof"
    BY <1>1, <1>3 DEF TripInv, LineOfRow, ReadingRow
  <2> QED
    BY <1>2, <2>1
<1>4. CASE ~ReadingRow
  <2>1. /\ Len(rows) <= Len(written)
        /\ pos = ends[Len(rows)] \/ CutRow
        /\ \A k \in 1..Len(rows) : rows[k] = written[k] \/ (CutRow /\ k = Len(rows))
        /\ pc = "eof" => pos = Len(text)
    BY <1>1, <1>4 DEF TripInv, BetweenRows
  <2>2. ASSUME pc = "eof", origin = "writer" PROVE Len(rows) = Len(written)
    <3>1. ends[Len(rows)] = ends[Len(written)]
      BY <1>1, <2>1, <2>2 DEF TripInv, RowsEndAt, CutRow
    <3>2. Len(rows) \in 0..Len(written) /\ Len(written) \in 0..Len(written)
      BY <1>2, <2>1
    <3>3. ~(Len(rows) < Len(written))
      <4>1. ends[Len(written)] \in Nat
        BY <1>1, <3>2 DEF TripInv, RowsEndAt
      <4> QED
        BY <1>1, <3>1, <3>2, <4>1 DEF TripInv, RowsEndAt
    <3> QED
      BY <1>2, <2>1, <3>3
  <2> QED
    BY <1>2, <2>1, <2>2 DEF CutRow
<1> QED
  BY <1>3, <1>4

(* What the writer of a CSV wrote is what its reader reads, whatever the    *)
(* fields hold and however many lines a row takes; of a file cut off, every *)
(* row before the cut one.                                                  *)
THEOREM CsvTripIsExact == Spec => []ReadsWhatWasWritten
BY InitInv, StepInv, InitTrip, StepTrip, TripIsExact, PTL DEF Spec
=============================================================================
