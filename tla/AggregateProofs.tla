---------------------------- MODULE AggregateProofs ----------------------------
(***************************************************************************)
(* The two halves of a hash aggregate, for any types, widths and values.   *)
(*                                                                         *)
(* Its keys tell the rows apart.  Two different cells of one type have     *)
(* encodings that differ at a place both have; this is kept when more is   *)
(* appended to the keys, and a common beginning does not hide it.          *)
(*                                                                         *)
(* Its accumulators are those of the rows seen, and the accumulators of    *)
(* the global aggregate are the same.  A loop over a column is a function  *)
(* of the number of its rounds; wrapping around adds a multiple of the     *)
(* size of the integers, so it does not matter when it happens.            *)
(***************************************************************************)
EXTENDS RowKeys, Accumulators, LoopTheorems, FiniteSetTheorems

(* The keys. *)

EqualRowsEqualKeys == left = right => left_key = right_key

IInv == TypeOK /\ Len(left) \in Nat /\ KeysArePrefixFree /\ EqualRowsEqualKeys

-----------------------------------------------------------------------------
(* Places where sequences differ. *)

LEMMA ApartIsDifferent ==
    ASSUME NEW k, NEW l, Apart(k, l)
    PROVE  k # l
BY DEF Apart

LEMMA ApartStays ==
    ASSUME NEW S, NEW k \in Seq(S), NEW l \in Seq(S),
           NEW a \in Seq(S), NEW b \in Seq(S), Apart(k, l)
    PROVE  Apart(k \o a, l \o b)
<1>1. PICK p \in 1..Len(k) : p <= Len(l) /\ k[p] # l[p]
  BY DEF Apart
<1>2. p \in 1..Len(l) /\ Len(k) \in Nat /\ Len(l) \in Nat /\ Len(a) \in Nat /\ Len(b) \in Nat
  BY <1>1, LenProperties
<1>3. (k \o a)[p] = k[p] /\ (l \o b)[p] = l[p]
  BY <1>1, <1>2, ConcatProperties
<1>4. Len(k \o a) = Len(k) + Len(a) /\ Len(l \o b) = Len(l) + Len(b)
  BY ConcatProperties
<1> QED
  BY <1>1, <1>2, <1>3, <1>4 DEF Apart

LEMMA ApartAfterTheSame ==
    ASSUME NEW S, NEW k \in Seq(S), NEW a \in Seq(S), NEW b \in Seq(S), Apart(a, b)
    PROVE  Apart(k \o a, k \o b)
<1>1. PICK p \in 1..Len(a) : p <= Len(b) /\ a[p] # b[p]
  BY DEF Apart
<1>2. Len(k) \in Nat /\ Len(a) \in Nat /\ Len(b) \in Nat
  BY LenProperties
<1> DEFINE q == Len(k) + p
<1>3. Len(k \o a) = Len(k) + Len(a) /\ Len(k \o b) = Len(k) + Len(b)
  BY ConcatProperties
<1>4. q \in 1..Len(k) + Len(a) /\ q \in 1..Len(k) + Len(b) /\ q > Len(k) /\ q - Len(k) = p
  BY <1>1, <1>2
<1>5. (k \o a)[q] = a[p] /\ (k \o b)[q] = b[p]
  BY <1>3, <1>4, ConcatProperties
<1> QED
  <2>1. q \in 1..Len(k \o a) /\ q <= Len(k \o b)
    BY <1>3, <1>4
  <2>2. (k \o a)[q] # (k \o b)[q]
    BY <1>1, <1>5
  <2> HIDE DEF q
  <2> QED
    BY <2>1, <2>2 DEF Apart

-----------------------------------------------------------------------------
(* Cells. *)

LEMMA FixedWidth ==
    ASSUME NEW n \in Nat, NEW k \in [1..n -> Byte]
    PROVE  k \in Seq(Byte) /\ Len(k) = n
OBVIOUS

LEMMA StringLength ==
    ASSUME NEW v \in String
    PROVE  v \in Seq(Byte) /\ Len(v) \in 0..MaxLength /\ v \in [1..Len(v) -> Byte]
<1>1. PICK n \in 0..MaxLength : v \in [1..n -> Byte]
  BY DEF String
<1>2. n \in Nat
  BY <1>1, WidthAssumption
<1> QED
  BY <1>1, <1>2, FixedWidth

(* Different sequences of one length differ at a place. *)
LEMMA DifferentIsApart ==
    ASSUME NEW n \in Nat, NEW k \in [1..n -> Byte], NEW l \in [1..n -> Byte], k # l
    PROVE  Apart(k, l)
<1>1. PICK p \in 1..n : k[p] # l[p]
  OBVIOUS
<1>2. Len(k) = n /\ Len(l) = n
  BY FixedWidth
<1> QED
  BY <1>1, <1>2 DEF Apart

LEMMA EncodedIsBytes ==
    ASSUME NEW t, NEW v \in Cell(t)
    PROVE  encode_cell(t, v) \in Seq(Byte)
<1>1. CASE t = "String"
  <2>1. v \in Seq(Byte) /\ Len(v) \in 0..MaxLength
    BY <1>1, StringLength DEF Cell
  <2>2. LengthBytes[Len(v)] \in [1..LengthWidth -> Byte]
    BY <2>1, LengthBytesAssumption
  <2>3. LengthBytes[Len(v)] \in Seq(Byte)
    BY <2>2, FixedWidth, WidthAssumption
  <2> QED
    BY <1>1, <2>1, <2>3, ConcatProperties DEF encode_cell
<1>2. CASE t # "String"
  BY <1>2, FixedWidth, WidthAssumption, NumberBytesAssumption DEF Cell, encode_cell
<1> QED
  BY <1>1, <1>2

LEMMA CellsApart ==
    ASSUME NEW t, NEW v \in Cell(t), NEW w \in Cell(t), v # w
    PROVE  Apart(encode_cell(t, v), encode_cell(t, w))
<1>1. CASE t = "String"
  <2> DEFINE lv == LengthBytes[Len(v)]
             lw == LengthBytes[Len(w)]
  <2>1. /\ v \in Seq(Byte) /\ Len(v) \in 0..MaxLength /\ v \in [1..Len(v) -> Byte]
        /\ w \in Seq(Byte) /\ Len(w) \in 0..MaxLength /\ w \in [1..Len(w) -> Byte]
    BY <1>1, StringLength DEF Cell
  <2>2. lv \in [1..LengthWidth -> Byte] /\ lw \in [1..LengthWidth -> Byte]
    BY <2>1, LengthBytesAssumption
  <2>3. lv \in Seq(Byte) /\ lw \in Seq(Byte)
    BY <2>2, FixedWidth, WidthAssumption
  <2>4. encode_cell(t, v) = lv \o v /\ encode_cell(t, w) = lw \o w
    BY <1>1 DEF encode_cell
  <2>5. CASE Len(v) = Len(w)
    <3>1. Len(v) \in Nat
      BY <2>1, WidthAssumption
    <3>2. Apart(v, w)
      BY <2>1, <2>5, <3>1, DifferentIsApart
    <3>3. lv = lw
      BY <2>5
    <3> HIDE DEF lv, lw
    <3> QED
      BY <2>1, <2>3, <2>4, <3>2, <3>3, ApartAfterTheSame
  <2>6. CASE Len(v) # Len(w)
    <3>1. lv # lw
      BY <2>1, <2>6, LengthBytesAssumption
    <3> HIDE DEF lv, lw
    <3>2. Apart(lv, lw)
      BY <2>2, <3>1, DifferentIsApart, WidthAssumption
    <3> QED
      BY <2>1, <2>3, <2>4, <3>2, ApartStays
  <2> QED
    BY <2>5, <2>6
<1>2. CASE t # "String"
  <2>1. v \in Number /\ w \in Number
    BY <1>2 DEF Cell
  <2>2. NumberBytes[v] # NumberBytes[w]
    BY <2>1, NumberBytesAssumption
  <2>3. NumberBytes[v] \in [1..NumberWidth -> Byte] /\ NumberBytes[w] \in [1..NumberWidth -> Byte]
    BY <2>1, NumberBytesAssumption
  <2> QED
    BY <1>2, <2>2, <2>3, DifferentIsApart, WidthAssumption DEF encode_cell
<1> QED
  BY <1>1, <1>2

-----------------------------------------------------------------------------
(* A column more. *)

LEMMA CellsAreSeq ==
    ASSUME NEW row, Cells(row), Len(row) \in Nat
    PROVE  row \in Seq(String \cup Number)
BY DEF Cells, Cell

LEMMA MoreCells ==
    ASSUME NEW row, Cells(row), Len(row) \in Nat, Len(row) < Len(GroupTypes),
           NEW v \in Cell(GroupTypes[Len(row) + 1])
    PROVE  Cells(Append(row, v)) /\ Len(Append(row, v)) = Len(row) + 1
<1>1. row \in Seq(String \cup Number) /\ Len(row) \in Nat /\ Len(GroupTypes) \in Nat
  BY CellsAreSeq, GroupTypesAssumption, LenProperties
<1>2. v \in String \cup Number
  BY DEF Cell
<1>3. Append(row, v) \in Seq(String \cup Number) /\ Len(Append(row, v)) = Len(row) + 1
  BY <1>1, <1>2, AppendProperties
<1>4. \A c \in 1..Len(row) + 1 :
        Append(row, v)[c] = IF c = Len(row) + 1 THEN v ELSE row[c]
  BY <1>1, <1>2, AppendProperties
<1> DEFINE longer == Append(row, v)
<1>5. longer = [c \in 1..Len(longer) |-> longer[c]]
  <2>1. longer \in Seq(String \cup Number)
    BY <1>3
  <2> HIDE DEF longer
  <2>2. longer \in [1..Len(longer) -> String \cup Number]
    BY <2>1, LenProperties
  <2> QED
    BY <2>2
<1>6. \A c \in 1..Len(longer) : longer[c] \in Cell(GroupTypes[c])
  <2> SUFFICES ASSUME NEW c \in 1..Len(longer) PROVE longer[c] \in Cell(GroupTypes[c])
    OBVIOUS
  <2>1. CASE c = Len(row) + 1
    BY <1>1, <1>4, <2>1
  <2>2. CASE c # Len(row) + 1
    BY <1>1, <1>3, <1>4, <2>2 DEF Cells
  <2> QED
    BY <2>1, <2>2
<1> HIDE DEF longer
<1>7. Cells(longer)
  BY <1>1, <1>3, <1>5, <1>6 DEF Cells, longer
<1> QED
  BY <1>3, <1>7 DEF longer

LEMMA SameRows ==
    ASSUME NEW S, NEW a \in Seq(S), NEW b \in Seq(S), NEW v \in S, NEW w \in S,
           Len(a) = Len(b)
    PROVE  Append(a, v) = Append(b, w) <=> a = b /\ v = w
OBVIOUS

LEMMA InvInit == Init => IInv
<1> SUFFICES ASSUME Init PROVE IInv
  OBVIOUS
<1>1. <<>> \in Seq(String \cup Number) /\ <<>> \in Seq(Byte) /\ Len(<<>>) = 0
  OBVIOUS
<1>2. Len(GroupTypes) \in Nat
  BY GroupTypesAssumption, LenProperties
<1> QED
  BY <1>1, <1>2 DEF Init, IInv, TypeOK, Cells, KeysArePrefixFree, EqualRowsEqualKeys

LEMMA InvNext == IInv /\ [EncodeCells]_vars => IInv'
<1> SUFFICES ASSUME IInv, [EncodeCells]_vars PROVE IInv'
  OBVIOUS
<1>1. CASE UNCHANGED vars
  BY <1>1 DEF vars, IInv, TypeOK, Cells, KeysArePrefixFree, EqualRowsEqualKeys, Apart
<1>2. CASE EncodeCells
  <2> DEFINE t == GroupTypes[Len(left) + 1]
  <2>1. PICK v, w \in Cell(t) :
          /\ left' = Append(left, v) /\ right' = Append(right, w)
          /\ left_key' = left_key \o encode_cell(t, v)
          /\ right_key' = right_key \o encode_cell(t, w)
    BY <1>2 DEF EncodeCells
  <2>2. /\ Len(left) < Len(GroupTypes) /\ Len(left) = Len(right) /\ Cells(left) /\ Cells(right)
        /\ Len(left) \in Nat
    BY <1>2 DEF EncodeCells, IInv, TypeOK
  <2>3. left_key \in Seq(Byte) /\ right_key \in Seq(Byte)
    BY DEF IInv, TypeOK
  <2> HIDE DEF t
  <2>4. encode_cell(t, v) \in Seq(Byte) /\ encode_cell(t, w) \in Seq(Byte)
    BY EncodedIsBytes
  <2>5. TypeOK' /\ Len(left') \in Nat
    <3>1. Cells(left') /\ Cells(right') /\ Len(left') = Len(right') /\ Len(left') \in Nat
      BY <2>1, <2>2, MoreCells DEF t
    <3>2. left_key' \in Seq(Byte) /\ right_key' \in Seq(Byte)
      BY <2>1, <2>3, <2>4, ConcatProperties
    <3> QED
      BY <3>1, <3>2 DEF TypeOK, Cells
  <2>6. left' = right' <=> left = right /\ v = w
    <3>1. left \in Seq(String \cup Number) /\ right \in Seq(String \cup Number)
      BY <2>2, CellsAreSeq DEF IInv
    <3>2. v \in String \cup Number /\ w \in String \cup Number
      BY DEF Cell
    <3> QED
      BY <2>1, <2>2, <3>1, <3>2, SameRows
  <2>7. EqualRowsEqualKeys'
    BY <2>1, <2>6 DEF IInv, EqualRowsEqualKeys
  <2>8. KeysArePrefixFree'
    <3>1. CASE left # right
      <4>1. Apart(left_key, right_key)
        BY <3>1 DEF IInv, KeysArePrefixFree
      <4>2. Apart(left_key', right_key')
        BY <2>1, <2>3, <2>4, <4>1, ApartStays
      <4> QED
        BY <4>2 DEF KeysArePrefixFree, Apart
    <3>2. CASE left = right /\ v # w
      <4>1. left_key = right_key
        BY <3>2 DEF IInv, EqualRowsEqualKeys
      <4>2. Apart(left_key', right_key')
        BY <2>1, <2>3, <2>4, <3>2, <4>1, CellsApart, ApartAfterTheSame
      <4> QED
        BY <4>2 DEF KeysArePrefixFree, Apart
    <3>3. CASE left = right /\ v = w
      BY <2>6, <3>3 DEF KeysArePrefixFree
    <3> QED
      BY <3>1, <3>2, <3>3
  <2> QED
    BY <2>5, <2>7, <2>8 DEF IInv
<1> QED
  BY <1>1, <1>2

(* Rows of one group have one key, and rows of different groups different   *)
(* keys that are not beginnings of one another: RowEncoder loses nothing,   *)
(* whatever the strings hold.                                               *)
THEOREM KeysAreUnambiguous == Spec => [](TypeOK /\ KeysTellRowsApart /\ KeysArePrefixFree)
<1>1. IInv => TypeOK /\ KeysTellRowsApart /\ KeysArePrefixFree
  <2> SUFFICES ASSUME IInv PROVE KeysTellRowsApart
    BY DEF IInv
  <2> QED
    BY ApartIsDifferent DEF IInv, KeysArePrefixFree, EqualRowsEqualKeys, KeysTellRowsApart
<1> QED
  BY InvInit, InvNext, <1>1, PTL DEF Spec

-----------------------------------------------------------------------------
(* Arithmetic that wraps around. *)

Int64Range == IntMin..IntMax

LEMMA SizeIs ==
    /\ IntMax \in Nat /\ IntMin \in Int /\ IntSize \in Nat \ {0}
    /\ IntMax - IntMin = IntSize - 1 /\ IntMin <= 0
BY BitsAssumption DEF IntMin, IntSize

(* Wrap adds a multiple of 2^64 ... *)
LEMMA WrapIs ==
    ASSUME NEW v \in Int
    PROVE  Wrap(v) \in Int64Range /\ \E q \in Int : Wrap(v) = v + q * IntSize
<1>1. PICK m \in Nat \ {0} : m = IntSize
  BY SizeIs
<1>2. PICK lo \in Int : lo = IntMin
  BY SizeIs
<1>3. PICK d \in Int, r \in 0..m - 1 : v - lo = d * m + r /\ r = (v - lo) % m
  <2>1. PICK x \in Int : x = v - lo
    BY <1>2
  <2>2. x \div m \in Int /\ x % m \in 0..m - 1 /\ x = (x \div m) * m + (x % m)
    OBVIOUS
  <2> QED
    BY <2>1, <2>2
<1>4. Wrap(v) = r + lo
  BY <1>1, <1>2, <1>3 DEF Wrap
<1>5. r + lo = v + (-d) * m
  BY <1>3
<1>6. r + lo \in lo..IntMax
  BY <1>1, <1>2, SizeIs
<1> QED
  BY <1>1, <1>2, <1>4, <1>5, <1>6 DEF Int64Range

(* ... and there is one in range that does. *)
LEMMA WrapIsOne ==
    ASSUME NEW v \in Int, NEW w \in Int64Range, NEW q \in Int, w = v + q * IntSize
    PROVE  Wrap(v) = w
<1>1. PICK m \in Nat \ {0} : m = IntSize
  BY SizeIs
<1>2. PICK lo \in Int : lo = IntMin
  BY SizeIs
<1>3. w \in Int /\ w - lo \in 0..m - 1
  BY <1>1, <1>2, SizeIs DEF Int64Range
<1>4. v - lo = (-q) * m + (w - lo)
  BY <1>1, <1>3
<1>5. ((-q) * m + (w - lo)) % m = w - lo
  <2>1. -q \in Int
    OBVIOUS
  <2> QED
    BY <1>3, <2>1, DivMod
<1>6. (v - lo) % m = w - lo
  BY <1>4, <1>5
<1>7. Wrap(v) = ((v - lo) % m) + lo
  BY <1>1, <1>2 DEF Wrap
<1>8. (w - lo) + lo = w
  BY <1>2, <1>3
<1> QED
  BY <1>6, <1>7, <1>8

LEMMA WrapInRange ==
    ASSUME NEW v \in Int64Range
    PROVE  v \in Int /\ Wrap(v) = v
<1>1. v \in Int /\ v = v + 0 * IntSize
  BY SizeIs DEF Int64Range
<1> QED
  BY <1>1, WrapIsOne

(* It does not matter when a sum is wrapped. *)
LEMMA WrapOfWrapped ==
    ASSUME NEW a \in Int, NEW b \in Int
    PROVE  Wrap(Wrap(a) + b) = Wrap(a + b) /\ Wrap(b + Wrap(a)) = Wrap(b + a)
<1>1. PICK m \in Nat \ {0} : m = IntSize
  BY SizeIs
<1>2. PICK p \in Int : Wrap(a) = a + p * m /\ Wrap(a) \in Int
  <2>1. Wrap(a) \in Int
    BY WrapIs, SizeIs DEF Int64Range
  <2> QED
    BY <1>1, <2>1, WrapIs
<1>3. PICK q \in Int : Wrap(a + b) = (a + b) + q * m /\ Wrap(a + b) \in Int64Range
  <2>1. PICK c \in Int : c = a + b
    OBVIOUS
  <2>2. Wrap(c) \in Int64Range /\ \E q \in Int : Wrap(c) = c + q * IntSize
    BY WrapIs
  <2> QED
    BY <1>1, <2>1, <2>2
<1>4. Wrap(a + b) = (Wrap(a) + b) + (q - p) * m
  BY <1>2, <1>3
<1>5. Wrap(Wrap(a) + b) = Wrap(a + b)
  <2>1. q - p \in Int /\ Wrap(a) + b \in Int
    BY <1>2
  <2> QED
    BY <1>1, <1>3, <1>4, <2>1, WrapIsOne
<1>6. b + Wrap(a) = Wrap(a) + b /\ b + a = a + b
  BY <1>2
<1> QED
  BY <1>5, <1>6

LEMMA PlusIs ==
    ASSUME NEW a \in Int64Range, NEW x \in Int64Range, NEW v \in Int64Range
    PROVE  /\ Plus(a, x) \in Int64Range /\ Plus(a, 0) = a
           /\ Plus(a, Plus(x, v)) = Plus(Plus(a, x), v)
<1>1. a \in Int /\ x \in Int /\ v \in Int
  BY SizeIs DEF Int64Range
<1>2. Wrap(a + Wrap(x + v)) = Wrap(a + (x + v)) /\ Wrap(Wrap(a + x) + v) = Wrap((a + x) + v)
  <2>1. x + v \in Int /\ a + x \in Int
    BY <1>1
  <2> QED
    BY <1>1, <2>1, WrapOfWrapped
<1>3. a + (x + v) = (a + x) + v /\ a + 0 = a /\ a + x \in Int
  BY <1>1
<1> QED
  BY <1>2, <1>3, WrapIs, WrapInRange DEF Plus

LEMMA SmallerIs ==
    ASSUME NEW a \in Int64Range, NEW x \in Int64Range, NEW v \in Int64Range
    PROVE  /\ Smaller(a, x) \in Int64Range /\ Smaller(a, IntMax) = a
           /\ Smaller(a, Smaller(x, v)) = Smaller(Smaller(a, x), v)
BY SizeIs DEF Int64Range, Smaller

LEMMA GreaterIs ==
    ASSUME NEW a \in Int64Range, NEW x \in Int64Range, NEW v \in Int64Range
    PROVE  /\ Greater(a, x) \in Int64Range /\ Greater(a, IntMin) = a
           /\ Greater(a, Greater(x, v)) = Greater(Greater(a, x), v)
BY SizeIs DEF Int64Range, Greater

-----------------------------------------------------------------------------
(* The loops over a column. *)

LEMMA SumsAre ==
    ASSUME NEW s \in Seq(Int)
    PROVE  /\ Summed(s) \in [0..Len(s) -> Int] /\ Summed(s)[0] = 0
           /\ \A k \in 1..Len(s) : Summed(s)[k] = Summed(s)[k - 1] + s[k]
<1> DEFINE Unfolds(g) == g = [k \in 0..Len(s) |-> IF k = 0 THEN 0 ELSE g[k - 1] + s[k]]
           F == [k \in 1..Len(s) |-> [a \in Int |-> a + s[k]]]
<1>1. Len(s) \in Nat /\ \A k \in 1..Len(s) : s[k] \in Int
  BY ElementOfSeq
<1>2. F \in [1..Len(s) -> [Int -> Int]] /\ \A k \in 1..Len(s), a \in Int : F[k][a] = a + s[k]
  BY <1>1
<1>3. PICK g \in [0..Len(s) -> Int] : Rounds(g, Len(s), 0, F)
  <2>1. 0 \in Int /\ F \in [1..Len(s) -> [Int -> Int]] /\ Len(s) \in Nat
    BY <1>1, <1>2
  <2> HIDE DEF F
  <2> QED
    BY <2>1, RoundsExist
<1>4. Unfolds(g)
  <2> HIDE DEF F
  <2>1. g = [k \in 0..Len(s) |-> g[k]]
    OBVIOUS
  <2>2. ASSUME NEW k \in 0..Len(s) PROVE g[k] = IF k = 0 THEN 0 ELSE g[k - 1] + s[k]
    <3>1. CASE k = 0
      BY <1>3, <3>1 DEF Rounds
    <3>2. CASE k # 0
      <4>1. k \in 1..Len(s) /\ k - 1 \in 0..Len(s)
        BY <1>1, <3>2
      <4>2. g[k - 1] \in Int
        BY <4>1
      <4> QED
        BY <1>2, <1>3, <3>2, <4>1, <4>2 DEF Rounds
    <3> QED
      BY <3>1, <3>2
  <2> QED
    BY <2>1, <2>2
<1>5. Unfolds(Summed(s))
  <2>1. Summed(s) = CHOOSE f : Unfolds(f)
    BY DEF Summed
  <2> HIDE DEF Unfolds
  <2> QED
    BY <1>4, <2>1
<1> HIDE DEF F
<1>6. Summed(s)[0] = 0
  BY <1>1, <1>5
<1>7. ASSUME NEW k \in 1..Len(s) PROVE Summed(s)[k] = Summed(s)[k - 1] + s[k]
  <2>1. k \in 0..Len(s) /\ k # 0
    BY <1>1
  <2> QED
    BY <1>5, <2>1
<1>8. \A k \in 0..Len(s) : Summed(s)[k] \in Int
  <2>1. ASSUME NEW k \in 1..Len(s), Summed(s)[k - 1] \in Int PROVE Summed(s)[k] \in Int
    BY <1>1, <1>7, <2>1
  <2>2. Summed(s)[0] \in Int
    BY <1>6
  <2> QED
    BY <1>1, <2>1, <2>2, EveryRound
<1>9. Summed(s) = [k \in 0..Len(s) |-> Summed(s)[k]]
  BY <1>5
<1> QED
  BY <1>6, <1>7, <1>8, <1>9

(* What Sum of aggregation.cpp does. *)
LEMMA ColumnSumIs ==
    ASSUME NEW col \in Seq(Int64Range)
    PROVE  \E f : /\ f[0] = 0 /\ ColumnSum(col) = f[Len(col)]
                  /\ \A k \in 0..Len(col) : f[k] \in Int64Range
                  /\ \A k \in 1..Len(col) : f[k] = Plus(f[k - 1], col[k])
<1> DEFINE Unfolds(g) ==
             g = [k \in 0..Len(col) |-> IF k = 0 THEN 0 ELSE Plus(g[k - 1], col[k])]
           F == [k \in 1..Len(col) |-> [x \in Int64Range |-> Plus(x, col[k])]]
<1>1. Len(col) \in Nat /\ 0 \in Int64Range
  BY SizeIs DEF Int64Range
<1>2. \A k \in 1..Len(col), x \in Int64Range : Plus(x, col[k]) \in Int64Range
  BY ElementOfSeq, PlusIs
<1>3. /\ F \in [1..Len(col) -> [Int64Range -> Int64Range]]
      /\ \A k \in 1..Len(col), x \in Int64Range : F[k][x] = Plus(x, col[k])
  BY <1>2
<1>4. PICK g \in [0..Len(col) -> Int64Range] : Rounds(g, Len(col), 0, F)
  <2>1. 0 \in Int64Range /\ F \in [1..Len(col) -> [Int64Range -> Int64Range]] /\ Len(col) \in Nat
    BY <1>1, <1>3
  <2> HIDE DEF F
  <2> QED
    BY <2>1, RoundsExist
<1>5. Unfolds(g)
  <2> HIDE DEF F
  <2>1. g = [k \in 0..Len(col) |-> g[k]]
    OBVIOUS
  <2>2. ASSUME NEW k \in 0..Len(col)
        PROVE  g[k] = IF k = 0 THEN 0 ELSE Plus(g[k - 1], col[k])
    <3>1. CASE k = 0
      BY <1>4, <3>1 DEF Rounds
    <3>2. CASE k # 0
      <4>1. k \in 1..Len(col) /\ k - 1 \in 0..Len(col)
        BY <1>1, <3>2
      <4>2. g[k - 1] \in Int64Range
        BY <4>1
      <4> QED
        BY <1>3, <1>4, <3>2, <4>1, <4>2 DEF Rounds
    <3> QED
      BY <3>1, <3>2
  <2> QED
    BY <2>1, <2>2
<1>6. PICK f : Unfolds(f) /\ ColumnSum(col) = f[Len(col)]
  <2>1. ColumnSum(col) = (CHOOSE f : Unfolds(f))[Len(col)]
    BY DEF ColumnSum
  <2> HIDE DEF Unfolds
  <2> QED
    BY <1>5, <2>1
<1> HIDE DEF F
<1>7. f[0] = 0
  BY <1>1, <1>6
<1>8. ASSUME NEW k \in 1..Len(col) PROVE f[k] = Plus(f[k - 1], col[k])
  <2>1. k \in 0..Len(col) /\ k # 0
    BY <1>1
  <2> QED
    BY <1>6, <2>1
<1>9. \A k \in 0..Len(col) : f[k] \in Int64Range
  <2>1. ASSUME NEW k \in 1..Len(col), f[k - 1] \in Int64Range PROVE f[k] \in Int64Range
    BY <1>2, <1>8, <2>1
  <2>2. f[0] \in Int64Range
    BY <1>1, <1>7
  <2> HIDE DEF Unfolds
  <2> QED
    BY <1>1, <2>1, <2>2, EveryRound
<1> HIDE DEF Unfolds
<1> QED
  BY <1>6, <1>7, <1>8, <1>9

(* What Min does. *)
LEMMA ColumnMinIs ==
    ASSUME NEW col \in Seq(Int64Range)
    PROVE  \E f : /\ f[0] = IntMax /\ ColumnMin(col) = f[Len(col)]
                  /\ \A k \in 0..Len(col) : f[k] \in Int64Range
                  /\ \A k \in 1..Len(col) : f[k] = Smaller(f[k - 1], col[k])
<1> DEFINE Unfolds(g) ==
             g = [k \in 0..Len(col) |-> IF k = 0 THEN IntMax ELSE Smaller(g[k - 1], col[k])]
           F == [k \in 1..Len(col) |-> [x \in Int64Range |-> Smaller(x, col[k])]]
<1>1. Len(col) \in Nat /\ IntMax \in Int64Range
  BY SizeIs DEF Int64Range
<1>2. \A k \in 1..Len(col), x \in Int64Range : Smaller(x, col[k]) \in Int64Range
  BY ElementOfSeq, SmallerIs
<1>3. /\ F \in [1..Len(col) -> [Int64Range -> Int64Range]]
      /\ \A k \in 1..Len(col), x \in Int64Range : F[k][x] = Smaller(x, col[k])
  BY <1>2
<1>4. PICK g \in [0..Len(col) -> Int64Range] : Rounds(g, Len(col), IntMax, F)
  <2>1. /\ IntMax \in Int64Range
        /\ F \in [1..Len(col) -> [Int64Range -> Int64Range]] /\ Len(col) \in Nat
    BY <1>1, <1>3
  <2> HIDE DEF F
  <2> QED
    BY <2>1, RoundsExist
<1>5. Unfolds(g)
  <2> HIDE DEF F
  <2>1. g = [k \in 0..Len(col) |-> g[k]]
    OBVIOUS
  <2>2. ASSUME NEW k \in 0..Len(col)
        PROVE  g[k] = IF k = 0 THEN IntMax ELSE Smaller(g[k - 1], col[k])
    <3>1. CASE k = 0
      BY <1>4, <3>1 DEF Rounds
    <3>2. CASE k # 0
      <4>1. k \in 1..Len(col) /\ k - 1 \in 0..Len(col)
        BY <1>1, <3>2
      <4>2. g[k - 1] \in Int64Range
        BY <4>1
      <4> QED
        BY <1>3, <1>4, <3>2, <4>1, <4>2 DEF Rounds
    <3> QED
      BY <3>1, <3>2
  <2> QED
    BY <2>1, <2>2
<1>6. PICK f : Unfolds(f) /\ ColumnMin(col) = f[Len(col)]
  <2>1. ColumnMin(col) = (CHOOSE f : Unfolds(f))[Len(col)]
    BY DEF ColumnMin
  <2> HIDE DEF Unfolds
  <2> QED
    BY <1>5, <2>1
<1> HIDE DEF F
<1>7. f[0] = IntMax
  BY <1>1, <1>6
<1>8. ASSUME NEW k \in 1..Len(col) PROVE f[k] = Smaller(f[k - 1], col[k])
  <2>1. k \in 0..Len(col) /\ k # 0
    BY <1>1
  <2> QED
    BY <1>6, <2>1
<1>9. \A k \in 0..Len(col) : f[k] \in Int64Range
  <2>1. ASSUME NEW k \in 1..Len(col), f[k - 1] \in Int64Range PROVE f[k] \in Int64Range
    BY <1>2, <1>8, <2>1
  <2>2. f[0] \in Int64Range
    BY <1>1, <1>7
  <2> HIDE DEF Unfolds
  <2> QED
    BY <1>1, <2>1, <2>2, EveryRound
<1> HIDE DEF Unfolds
<1> QED
  BY <1>6, <1>7, <1>8, <1>9

(* What Max does. *)
LEMMA ColumnMaxIs ==
    ASSUME NEW col \in Seq(Int64Range)
    PROVE  \E f : /\ f[0] = IntMin /\ ColumnMax(col) = f[Len(col)]
                  /\ \A k \in 0..Len(col) : f[k] \in Int64Range
                  /\ \A k \in 1..Len(col) : f[k] = Greater(f[k - 1], col[k])
<1> DEFINE Unfolds(g) ==
             g = [k \in 0..Len(col) |-> IF k = 0 THEN IntMin ELSE Greater(g[k - 1], col[k])]
           F == [k \in 1..Len(col) |-> [x \in Int64Range |-> Greater(x, col[k])]]
<1>1. Len(col) \in Nat /\ IntMin \in Int64Range
  BY SizeIs DEF Int64Range
<1>2. \A k \in 1..Len(col), x \in Int64Range : Greater(x, col[k]) \in Int64Range
  BY ElementOfSeq, GreaterIs
<1>3. /\ F \in [1..Len(col) -> [Int64Range -> Int64Range]]
      /\ \A k \in 1..Len(col), x \in Int64Range : F[k][x] = Greater(x, col[k])
  BY <1>2
<1>4. PICK g \in [0..Len(col) -> Int64Range] : Rounds(g, Len(col), IntMin, F)
  <2>1. /\ IntMin \in Int64Range
        /\ F \in [1..Len(col) -> [Int64Range -> Int64Range]] /\ Len(col) \in Nat
    BY <1>1, <1>3
  <2> HIDE DEF F
  <2> QED
    BY <2>1, RoundsExist
<1>5. Unfolds(g)
  <2> HIDE DEF F
  <2>1. g = [k \in 0..Len(col) |-> g[k]]
    OBVIOUS
  <2>2. ASSUME NEW k \in 0..Len(col)
        PROVE  g[k] = IF k = 0 THEN IntMin ELSE Greater(g[k - 1], col[k])
    <3>1. CASE k = 0
      BY <1>4, <3>1 DEF Rounds
    <3>2. CASE k # 0
      <4>1. k \in 1..Len(col) /\ k - 1 \in 0..Len(col)
        BY <1>1, <3>2
      <4>2. g[k - 1] \in Int64Range
        BY <4>1
      <4> QED
        BY <1>3, <1>4, <3>2, <4>1, <4>2 DEF Rounds
    <3> QED
      BY <3>1, <3>2
  <2> QED
    BY <2>1, <2>2
<1>6. PICK f : Unfolds(f) /\ ColumnMax(col) = f[Len(col)]
  <2>1. ColumnMax(col) = (CHOOSE f : Unfolds(f))[Len(col)]
    BY DEF ColumnMax
  <2> HIDE DEF Unfolds
  <2> QED
    BY <1>5, <2>1
<1> HIDE DEF F
<1>7. f[0] = IntMin
  BY <1>1, <1>6
<1>8. ASSUME NEW k \in 1..Len(col) PROVE f[k] = Greater(f[k - 1], col[k])
  <2>1. k \in 0..Len(col) /\ k # 0
    BY <1>1
  <2> QED
    BY <1>6, <2>1
<1>9. \A k \in 0..Len(col) : f[k] \in Int64Range
  <2>1. ASSUME NEW k \in 1..Len(col), f[k - 1] \in Int64Range PROVE f[k] \in Int64Range
    BY <1>2, <1>8, <2>1
  <2>2. f[0] \in Int64Range
    BY <1>1, <1>7
  <2> HIDE DEF Unfolds
  <2> QED
    BY <1>1, <2>1, <2>2, EveryRound
<1> HIDE DEF Unfolds
<1> QED
  BY <1>6, <1>7, <1>8, <1>9

AggAccs == [count : Nat, sum_i : Int64Range, min_i : Int64Range, max_i : Int64Range,
            sum_f : Int, min_s : Nat, max_s : Nat, has_str : BOOLEAN,
            src_type : {"Int64", "Float64", "String"}]

(* b is a after one more row. *)
RowAdded(t, a, v, b) ==
    /\ b \in AggAccs /\ b.count = a.count + 1 /\ b.src_type = t
    /\ b.sum_i = IF t = "Int64" THEN Plus(a.sum_i, v) ELSE a.sum_i
    /\ b.min_i = IF t = "Int64" THEN Smaller(a.min_i, v) ELSE a.min_i
    /\ b.max_i = IF t = "Int64" THEN Greater(a.max_i, v) ELSE a.max_i
    /\ b.sum_f = IF t = "Float64" THEN a.sum_f + v ELSE a.sum_f
    /\ b.has_str <=> t = "String" \/ a.has_str
    /\ b.min_s = IF t # "String" THEN a.min_s ELSE IF a.has_str THEN Smaller(a.min_s, v) ELSE v
    /\ b.max_s = IF t # "String" THEN a.max_s ELSE IF a.has_str THEN Greater(a.max_s, v) ELSE v

LEMMA AddRowIs ==
    ASSUME NEW t \in {"Int64", "Float64", "String"}, NEW a \in AggAccs, NEW v \in Values(t)
    PROVE  RowAdded(t, a, v, AddRow(t, a, v))
<1> DEFINE b == [a EXCEPT !.count = @ + 1, !.src_type = t]
<1>0. /\ b \in AggAccs /\ b.has_str = a.has_str /\ b.sum_i = a.sum_i /\ b.min_i = a.min_i
      /\ b.max_i = a.max_i /\ b.sum_f = a.sum_f /\ b.min_s = a.min_s /\ b.max_s = a.max_s
      /\ b.count = a.count + 1 /\ b.src_type = t
  <2>1. PICK c \in Nat : c = a.count + 1
    BY DEF AggAccs
  <2>2. b = [a EXCEPT !.count = c, !.src_type = t]
    BY <2>1
  <2> HIDE DEF b
  <2>3. b \in AggAccs
    BY <2>2 DEF AggAccs
  <2> QED
    BY <2>1, <2>2, <2>3 DEF AggAccs
<1>1. CASE t = "Int64"
  <2>1. v \in Int64Range
    BY <1>1, ValuesAssumption DEF Values, Int64Range
  <2>2. PICK sum \in Int64Range, least \in Int64Range, greatest \in Int64Range :
          /\ sum = Plus(a.sum_i, v) /\ least = Smaller(a.min_i, v)
          /\ greatest = Greater(a.max_i, v)
    BY <2>1, PlusIs, SmallerIs, GreaterIs DEF AggAccs
  <2>3. AddRow(t, a, v) = [b EXCEPT !.sum_i = sum, !.min_i = least, !.max_i = greatest]
    BY <1>0, <1>1, <2>2 DEF AddRow
  <2> HIDE DEF b
  <2>4. [b EXCEPT !.sum_i = sum, !.min_i = least, !.max_i = greatest] \in AggAccs
    BY <1>0 DEF AggAccs
  <2> QED
    BY <1>0, <1>1, <2>2, <2>3, <2>4 DEF AggAccs, RowAdded
<1>2. CASE t = "Float64"
  <2>1. v \in Int
    BY <1>2, ValuesAssumption DEF Values
  <2>2. PICK f \in Int : f = a.sum_f + v
    BY <2>1 DEF AggAccs
  <2>3. AddRow(t, a, v) = [b EXCEPT !.sum_f = f]
    BY <1>0, <1>2, <2>2 DEF AddRow
  <2> HIDE DEF b
  <2>4. [b EXCEPT !.sum_f = f] \in AggAccs
    BY <1>0 DEF AggAccs
  <2> QED
    BY <1>0, <1>2, <2>2, <2>3, <2>4 DEF AggAccs, RowAdded
<1>3. CASE t = "String"
  <2>1. v \in Nat
    BY <1>3, ValuesAssumption DEF Values
  <2>2. Smaller(a.min_s, v) \in Nat /\ Greater(a.max_s, v) \in Nat
    BY <2>1 DEF AggAccs, Smaller, Greater
  <2>3. PICK least \in Nat, greatest \in Nat :
          /\ least = IF a.has_str THEN Smaller(a.min_s, v) ELSE v
          /\ greatest = IF a.has_str THEN Greater(a.max_s, v) ELSE v
    BY <2>1, <2>2
  <2>4. AddRow(t, a, v) = [b EXCEPT !.has_str = TRUE, !.min_s = least, !.max_s = greatest]
    BY <1>0, <1>3, <2>3 DEF AddRow
  <2> HIDE DEF b
  <2>5. [b EXCEPT !.has_str = TRUE, !.min_s = least, !.max_s = greatest] \in AggAccs
    BY <1>0 DEF AggAccs
  <2>6. PICK r \in AggAccs : r = [b EXCEPT !.has_str = TRUE, !.min_s = least, !.max_s = greatest]
    BY <2>5
  <2>7. r.has_str
    BY <1>0, <2>6 DEF AggAccs
  <2>8. /\ r.count = b.count /\ r.src_type = b.src_type /\ r.sum_i = b.sum_i /\ r.min_i = b.min_i
        /\ r.max_i = b.max_i /\ r.sum_f = b.sum_f /\ r.min_s = least /\ r.max_s = greatest
    BY <1>0, <2>6 DEF AggAccs
  <2>9. RowAdded(t, a, v, r)
    BY <1>0, <1>3, <2>3, <2>7, <2>8 DEF RowAdded
  <2> QED
    BY <2>4, <2>6, <2>9
<1> QED
  BY <1>1, <1>2, <1>3

(* f is what the loop of HashAggregateOperator over the rows of a batch has *)
(* made of a after each of them.                                            *)
RowsAdded(t, a, col, f) ==
    /\ f[0] = a /\ AddRows(t, a, col) = f[Len(col)]
    /\ \A k \in 0..Len(col) : f[k] \in AggAccs
    /\ \A k \in 1..Len(col) : f[k] = AddRow(t, f[k - 1], col[k])

LEMMA AddRowsIs ==
    ASSUME NEW t \in {"Int64", "Float64", "String"}, NEW a \in AggAccs,
           NEW col \in Seq(Values(t))
    PROVE  \E f : RowsAdded(t, a, col, f)
<1> DEFINE Unfolds(g) ==
             g = [k \in 0..Len(col) |-> IF k = 0 THEN a ELSE AddRow(t, g[k - 1], col[k])]
           F == [k \in 1..Len(col) |-> [x \in AggAccs |-> AddRow(t, x, col[k])]]
<1>1. Len(col) \in Nat /\ a \in AggAccs
  OBVIOUS
<1>2. \A k \in 1..Len(col), x \in AggAccs : AddRow(t, x, col[k]) \in AggAccs
  BY ElementOfSeq, AddRowIs DEF RowAdded
<1>3. /\ F \in [1..Len(col) -> [AggAccs -> AggAccs]]
      /\ \A k \in 1..Len(col), x \in AggAccs : F[k][x] = AddRow(t, x, col[k])
  BY <1>2
<1>4. PICK g \in [0..Len(col) -> AggAccs] : Rounds(g, Len(col), a, F)
  <2>1. a \in AggAccs /\ F \in [1..Len(col) -> [AggAccs -> AggAccs]] /\ Len(col) \in Nat
    BY <1>1, <1>3
  <2> HIDE DEF F
  <2> QED
    BY <2>1, RoundsExist
<1>5. Unfolds(g)
  <2> HIDE DEF F
  <2>1. g = [k \in 0..Len(col) |-> g[k]]
    OBVIOUS
  <2>2. ASSUME NEW k \in 0..Len(col)
        PROVE  g[k] = IF k = 0 THEN a ELSE AddRow(t, g[k - 1], col[k])
    <3>1. CASE k = 0
      BY <1>4, <3>1 DEF Rounds
    <3>2. CASE k # 0
      <4>1. k \in 1..Len(col) /\ k - 1 \in 0..Len(col)
        BY <1>1, <3>2
      <4>2. g[k - 1] \in AggAccs
        BY <4>1
      <4> QED
        BY <1>3, <1>4, <3>2, <4>1, <4>2 DEF Rounds
    <3> QED
      BY <3>1, <3>2
  <2> QED
    BY <2>1, <2>2
<1>6. PICK f : Unfolds(f) /\ AddRows(t, a, col) = f[Len(col)]
  <2>1. AddRows(t, a, col) = (CHOOSE f : Unfolds(f))[Len(col)]
    BY DEF AddRows
  <2> HIDE DEF Unfolds
  <2> QED
    BY <1>5, <2>1
<1> HIDE DEF F
<1>7. f[0] = a
  BY <1>1, <1>6
<1>8. ASSUME NEW k \in 1..Len(col) PROVE f[k] = AddRow(t, f[k - 1], col[k])
  <2>1. k \in 0..Len(col) /\ k # 0
    BY <1>1
  <2> QED
    BY <1>6, <2>1
<1>9. \A k \in 0..Len(col) : f[k] \in AggAccs
  <2>1. ASSUME NEW k \in 1..Len(col), f[k - 1] \in AggAccs PROVE f[k] \in AggAccs
    BY <1>2, <1>8, <2>1
  <2>2. f[0] \in AggAccs
    BY <1>1, <1>7
  <2> HIDE DEF Unfolds
  <2> QED
    BY <1>1, <2>1, <2>2, EveryRound
<1> HIDE DEF Unfolds
<1> QED
  BY <1>6, <1>7, <1>8, <1>9 DEF RowsAdded
-----------------------------------------------------------------------------
(* What an AggAcc says of the first n of rows s. *)

HashIs(t, a, s, n) ==
    /\ a \in AggAccs /\ a.count = n /\ a.src_type = IF n = 0 THEN "Int64" ELSE t
    /\ t = "Int64" =>
         /\ a.sum_i = Wrap(Summed(s)[n])
         /\ a.min_i = IntMax \/ \E i \in 1..n : a.min_i = s[i]
         /\ a.max_i = IntMin \/ \E i \in 1..n : a.max_i = s[i]
         /\ \A i \in 1..n : a.min_i <= s[i] /\ s[i] <= a.max_i
    /\ t # "Int64" => a.sum_i = 0 /\ a.min_i = IntMax /\ a.max_i = IntMin
    /\ t = "Float64" => a.sum_f = Summed(s)[n]
    /\ a.has_str <=> t = "String" /\ n > 0
    /\ t = "String" /\ n > 0 =>
         /\ \E i \in 1..n : a.min_s = s[i]
         /\ \E i \in 1..n : a.max_s = s[i]
         /\ \A i \in 1..n : a.min_s <= s[i] /\ s[i] <= a.max_s

LEMMA ValuesAreInts ==
    ASSUME NEW t \in {"Int64", "Float64", "String"}, NEW s \in Seq(Values(t))
    PROVE  s \in Seq(Int) /\ Len(s) \in Nat /\ \A i \in 1..Len(s) : s[i] \in Values(t) /\ s[i] \in Int
<1>1. Values(t) \subseteq Int
  BY ValuesAssumption, SizeIs DEF Values
<1> QED
  BY <1>1, ElementOfSeq, SeqDef

LEMMA HashStep ==
    ASSUME NEW t \in {"Int64", "Float64", "String"}, NEW s \in Seq(Values(t)), NEW n \in Nat,
           n + 1 <= Len(s), NEW a, HashIs(t, a, s, n), NEW b, RowAdded(t, a, s[n + 1], b)
    PROVE  HashIs(t, b, s, n + 1)
<1>1. n + 1 \in 1..Len(s) /\ s \in Seq(Int) /\ n \in 0..Len(s) /\ (n + 1) - 1 = n
      /\ Len(s) \in Nat /\ \A i \in 1..n + 1 : i \in 1..Len(s) /\ (i \in 1..n \/ i = n + 1)
  BY ValuesAreInts
<1>2. PICK v \in Values(t) : v = s[n + 1] /\ v \in Int
  BY <1>1, ValuesAreInts
<1>3. \A i \in 1..n : s[i] \in Values(t) /\ s[i] \in Int
  BY <1>1, ValuesAreInts
<1>4. RowAdded(t, a, v, b) /\ n + 1 > 0 /\ n + 1 \in 1..n + 1 /\ 1..n \subseteq 1..n + 1
  BY <1>2
<1>5. Summed(s)[n + 1] = Summed(s)[n] + v /\ Summed(s)[n] \in Int
  BY <1>1, <1>2, SumsAre
<1>6. b \in AggAccs /\ b.count = n + 1 /\ b.src_type = t /\ a \in AggAccs
  BY <1>4 DEF RowAdded, HashIs
<1>7. CASE t = "Int64"
  <2>1. b.sum_i = Wrap(Summed(s)[n + 1])
    <3>1. b.sum_i = Wrap(Wrap(Summed(s)[n]) + v)
      BY <1>4, <1>7 DEF RowAdded, HashIs, Plus
    <3> QED
      BY <1>2, <1>5, <3>1, WrapOfWrapped
  <2>2. b.min_i = Smaller(a.min_i, v) /\ b.max_i = Greater(a.max_i, v)
    BY <1>4, <1>7 DEF RowAdded
  <2>3. PICK l \in Int, g \in Int : l = a.min_i /\ g = a.max_i
    BY <1>6, SizeIs DEF AggAccs, Int64Range
  <2>4. \A i \in 1..n : l <= s[i] /\ s[i] <= g
    BY <1>7, <2>3 DEF HashIs
  <2>5. (b.min_i = l /\ l <= v) \/ (b.min_i = v /\ v <= l)
    BY <2>2, <2>3, <1>2 DEF Smaller
  <2>6. (b.max_i = g /\ v <= g) \/ (b.max_i = v /\ g <= v)
    BY <2>2, <2>3, <1>2 DEF Greater
  <2>7. b.min_i = IntMax \/ \E i \in 1..n + 1 : b.min_i = s[i]
    BY <1>2, <1>4, <1>7, <2>3, <2>5 DEF HashIs
  <2>8. b.max_i = IntMin \/ \E i \in 1..n + 1 : b.max_i = s[i]
    BY <1>2, <1>4, <1>7, <2>3, <2>6 DEF HashIs
  <2>9. ASSUME NEW i \in 1..n + 1 PROVE b.min_i <= s[i] /\ s[i] <= b.max_i
    <3>1. CASE i = n + 1
      BY <1>2, <2>5, <2>6, <3>1
    <3>2. CASE i # n + 1
      <4>1. PICK w \in Int : w = s[i] /\ l <= w /\ w <= g
        BY <1>1, <1>3, <2>4, <3>2
      <4>2. b.min_i <= w /\ w <= b.max_i
        BY <1>2, <2>5, <2>6, <4>1
      <4> QED
        BY <4>1, <4>2
    <3> QED
      BY <3>1, <3>2
  <2>10. ~b.has_str
    BY <1>4, <1>7 DEF RowAdded, HashIs
  <2> QED
    BY <1>6, <1>7, <2>1, <2>7, <2>8, <2>9, <2>10 DEF HashIs
<1>8. CASE t = "Float64"
  <2>1. b.sum_f = Summed(s)[n] + v /\ b.sum_i = 0 /\ b.min_i = IntMax /\ b.max_i = IntMin /\ ~b.has_str
    BY <1>4, <1>8 DEF RowAdded, HashIs
  <2> QED
    BY <1>5, <1>6, <1>8, <2>1 DEF HashIs
<1>9. CASE t = "String"
  <2>1. b.sum_i = 0 /\ b.min_i = IntMax /\ b.max_i = IntMin /\ b.has_str
    BY <1>4, <1>9 DEF RowAdded, HashIs
  <2>2. CASE n = 0
    <3>1. b.min_s = v /\ b.max_s = v
      BY <1>4, <1>9, <2>2 DEF RowAdded, HashIs
    <3>2. \A i \in 1..n + 1 : s[i] = v
      BY <1>2, <2>2
    <3>3. v <= v
      BY <1>2
    <3> QED
      BY <1>4, <1>6, <1>9, <2>1, <3>1, <3>2, <3>3 DEF HashIs
  <2>3. CASE n # 0
    <3>1. b.min_s = Smaller(a.min_s, v) /\ b.max_s = Greater(a.max_s, v)
      BY <1>4, <1>9, <2>3 DEF RowAdded, HashIs
    <3>2. PICK l \in Int, g \in Int : l = a.min_s /\ g = a.max_s
      BY <1>6 DEF AggAccs
    <3>3. n > 0
      BY <2>3
    <3>4. \A i \in 1..n : l <= s[i] /\ s[i] <= g
      BY <1>9, <3>2, <3>3 DEF HashIs
    <3>5. (b.min_s = l /\ l <= v) \/ (b.min_s = v /\ v <= l)
      BY <3>1, <3>2, <1>2 DEF Smaller
    <3>6. (b.max_s = g /\ v <= g) \/ (b.max_s = v /\ g <= v)
      BY <3>1, <3>2, <1>2 DEF Greater
    <3>7. \E i \in 1..n + 1 : b.min_s = s[i]
      BY <1>2, <1>4, <1>9, <3>2, <3>3, <3>5 DEF HashIs
    <3>8. \E i \in 1..n + 1 : b.max_s = s[i]
      BY <1>2, <1>4, <1>9, <3>2, <3>3, <3>6 DEF HashIs
    <3>9. ASSUME NEW i \in 1..n + 1 PROVE b.min_s <= s[i] /\ s[i] <= b.max_s
      <4>1. CASE i = n + 1
        BY <1>2, <3>5, <3>6, <4>1
      <4>2. CASE i # n + 1
        <5>1. PICK w \in Int : w = s[i] /\ l <= w /\ w <= g
          BY <1>1, <1>3, <3>4, <4>2
        <5>2. b.min_s <= w /\ w <= b.max_s
          BY <1>2, <3>5, <3>6, <5>1
        <5> QED
          BY <5>1, <5>2
      <4> QED
        BY <4>1, <4>2
    <3> QED
      BY <1>4, <1>6, <1>9, <2>1, <3>7, <3>8, <3>9 DEF HashIs
  <2> QED
    BY <2>2, <2>3
<1> QED
  BY <1>7, <1>8, <1>9
LEMMA TwoColumns ==
    ASSUME NEW S, NEW s \in Seq(S), NEW c \in Seq(S)
    PROVE  /\ s \o c \in Seq(S) /\ Len(s \o c) = Len(s) + Len(c)
           /\ Len(s) \in Nat /\ Len(c) \in Nat
           /\ \A i \in 1..Len(s) : (s \o c)[i] = s[i]
           /\ \A i \in 1..Len(c) : (s \o c)[Len(s) + i] = c[i]
OBVIOUS

LEMMA SumOfPrefix ==
    ASSUME NEW s \in Seq(Int), NEW c \in Seq(Int)
    PROVE  \A k \in 0..Len(s) : Summed(s \o c)[k] = Summed(s)[k]
<1> DEFINE P == {k \in 0..Len(s) : Summed(s \o c)[k] = Summed(s)[k]}
<1>1. PICK b \in Seq(Int) : b = s \o c /\ Len(b) = Len(s) + Len(c) /\ \A i \in 1..Len(s) : b[i] = s[i]
  <2>1. /\ s \o c \in Seq(Int) /\ Len(s \o c) = Len(s) + Len(c)
        /\ \A i \in 1..Len(s) : (s \o c)[i] = s[i]
    BY TwoColumns
  <2> QED
    BY <2>1
<1>2. Len(s) \in Nat /\ Len(c) \in Nat
  OBVIOUS
<1>3. 0 \in P
  <2>1. Summed(b)[0] = 0 /\ Summed(s)[0] = 0
    BY <1>1, SumsAre
  <2> QED
    BY <1>1, <1>2, <2>1
<1>4. ASSUME NEW k \in 0..Len(s), k \in P, k < Len(s) PROVE k + 1 \in P
  <2>1. k + 1 \in 0..Len(s) /\ k + 1 \in 1..Len(s) /\ k + 1 \in 1..Len(b) /\ (k + 1) - 1 = k
    BY <1>1, <1>2, <1>4
  <2>2. Summed(b)[k + 1] = Summed(b)[k] + b[k + 1] /\ Summed(s)[k + 1] = Summed(s)[k] + s[k + 1]
    BY <2>1, SumsAre
  <2>3. b[k + 1] = s[k + 1] /\ Summed(b)[k] = Summed(s)[k]
    BY <1>1, <1>4, <2>1
  <2> QED
    BY <1>1, <2>1, <2>2, <2>3
<1>5. 0..Len(s) \subseteq P
  <2> HIDE DEF P
  <2> QED
    BY <1>2, <1>3, <1>4, UpToN
<1> QED
  BY <1>5

LEMMA HashBatch ==
    ASSUME NEW t \in {"Int64", "Float64", "String"}, NEW s \in Seq(Values(t)),
           NEW col \in Seq(Values(t)), NEW a, HashIs(t, a, s, Len(s))
    PROVE  HashIs(t, AddRows(t, a, col), s \o col, Len(s) + Len(col))
<1>1. PICK b \in Seq(Values(t)) :
        /\ b = s \o col /\ Len(b) = Len(s) + Len(col)
        /\ \A i \in 1..Len(s) : b[i] = s[i]
        /\ \A i \in 1..Len(col) : b[Len(s) + i] = col[i]
  <2>1. /\ s \o col \in Seq(Values(t)) /\ Len(s \o col) = Len(s) + Len(col)
        /\ \A i \in 1..Len(s) : (s \o col)[i] = s[i]
        /\ \A i \in 1..Len(col) : (s \o col)[Len(s) + i] = col[i]
    BY TwoColumns
  <2> QED
    BY <2>1
<1>2. Len(s) \in Nat /\ Len(col) \in Nat /\ s \in Seq(Int) /\ col \in Seq(Int) /\ a \in AggAccs
  BY ValuesAreInts DEF HashIs
<1> PICK f : RowsAdded(t, a, col, f)
  BY <1>2, AddRowsIs
<1>3. HashIs(t, a, b, Len(s))
  <2>1. Summed(b)[Len(s)] = Summed(s)[Len(s)]
    BY <1>1, <1>2, SumOfPrefix
  <2> QED
    BY <1>1, <2>1 DEF HashIs
<1>4. /\ f[0] = a /\ AddRows(t, a, col) = f[Len(col)]
      /\ \A k \in 0..Len(col) : f[k] \in AggAccs
      /\ \A k \in 1..Len(col) : f[k] = AddRow(t, f[k - 1], col[k])
  BY DEF RowsAdded
<1> DEFINE P == {k \in 0..Len(col) : HashIs(t, f[k], b, Len(s) + k)}
<1>5. 0 \in P
  BY <1>2, <1>3, <1>4
<1>6. ASSUME NEW k \in 0..Len(col), k \in P, k < Len(col) PROVE k + 1 \in P
  <2>1. /\ k + 1 \in 0..Len(col) /\ k + 1 \in 1..Len(col) /\ (k + 1) - 1 = k
        /\ (Len(s) + k) + 1 <= Len(b) /\ (Len(s) + k) + 1 = Len(s) + (k + 1)
        /\ Len(s) + k \in Nat
    BY <1>1, <1>2, <1>6
  <2>2. f[k + 1] = AddRow(t, f[k], col[k + 1]) /\ f[k] \in AggAccs /\ col[k + 1] \in Values(t)
    BY <1>4, <2>1, ElementOfSeq
  <2>3. RowAdded(t, f[k], col[k + 1], f[k + 1])
    BY <2>2, AddRowIs
  <2>4. col[k + 1] = b[(Len(s) + k) + 1]
    BY <1>1, <2>1
  <2>5. HashIs(t, f[k], b, Len(s) + k)
    BY <1>6
  <2>6. HashIs(t, f[k + 1], b, (Len(s) + k) + 1)
    BY <2>1, <2>3, <2>4, <2>5, HashStep
  <2> QED
    BY <2>1, <2>6
<1>7. 0..Len(col) \subseteq P
  <2> HIDE DEF P
  <2> QED
    BY <1>2, <1>5, <1>6, UpToN
<1>8. HashIs(t, f[Len(col)], b, Len(s) + Len(col))
  <2>1. Len(col) \in 0..Len(col)
    BY <1>2
  <2> QED
    BY <1>7, <2>1
<1> QED
  BY <1>1, <1>4, <1>8

-----------------------------------------------------------------------------
(* The two operators keep the same of a column of integers. *)

Accs == [count : Nat, sum_i : Int64Range, min_i : Int64Range, max_i : Int64Range]

Matches(a, h) ==
    /\ a \in Accs /\ h \in AggAccs /\ a.count = h.count
    /\ a.sum_i = h.sum_i /\ a.min_i = h.min_i /\ a.max_i = h.max_i

LEMMA BatchesMatch ==
    ASSUME NEW a, NEW h, Matches(a, h), NEW col \in Seq(Values("Int64"))
    PROVE  Matches(AddBatch(a, col), AddRows("Int64", h, col))
<1>1. Len(col) \in Nat /\ col \in Seq(Int64Range)
  <2>1. Values("Int64") \subseteq Int64Range
    BY ValuesAssumption DEF Values, Int64Range
  <2> QED
    BY <2>1, SeqDef
<1> PICK f : RowsAdded("Int64", h, col, f)
  BY AddRowsIs DEF Matches
<1>2. /\ f[0] = h /\ AddRows("Int64", h, col) = f[Len(col)]
      /\ \A k \in 0..Len(col) : f[k] \in AggAccs
      /\ \A k \in 1..Len(col) : f[k] = AddRow("Int64", f[k - 1], col[k])
  BY DEF RowsAdded
<1>3. PICK sum : /\ sum[0] = 0 /\ ColumnSum(col) = sum[Len(col)]
                 /\ \A k \in 0..Len(col) : sum[k] \in Int64Range
                 /\ \A k \in 1..Len(col) : sum[k] = Plus(sum[k - 1], col[k])
  BY <1>1, ColumnSumIs
<1>4. PICK min : /\ min[0] = IntMax /\ ColumnMin(col) = min[Len(col)]
                 /\ \A k \in 0..Len(col) : min[k] \in Int64Range
                 /\ \A k \in 1..Len(col) : min[k] = Smaller(min[k - 1], col[k])
  BY <1>1, ColumnMinIs
<1>5. PICK max : /\ max[0] = IntMin /\ ColumnMax(col) = max[Len(col)]
                 /\ \A k \in 0..Len(col) : max[k] \in Int64Range
                 /\ \A k \in 1..Len(col) : max[k] = Greater(max[k - 1], col[k])
  BY <1>1, ColumnMaxIs
<1> DEFINE P == {k \in 0..Len(col) : /\ f[k].count = a.count + k
                                     /\ f[k].sum_i = Plus(a.sum_i, sum[k])
                                     /\ f[k].min_i = Smaller(a.min_i, min[k])
                                     /\ f[k].max_i = Greater(a.max_i, max[k])}
<1>6. a.count \in Nat /\ a.sum_i \in Int64Range /\ a.min_i \in Int64Range /\ a.max_i \in Int64Range
  BY DEF Matches, Accs
<1>7. 0 \in P
  <2>1. Plus(a.sum_i, 0) = a.sum_i /\ Smaller(a.min_i, IntMax) = a.min_i
        /\ Greater(a.max_i, IntMin) = a.max_i
    BY <1>6, PlusIs, SmallerIs, GreaterIs
  <2>2. a.count + 0 = a.count /\ 0 \in 0..Len(col)
    BY <1>1, <1>6
  <2> QED
    BY <1>2, <1>3, <1>4, <1>5, <2>1, <2>2 DEF Matches
<1>8. ASSUME NEW k \in 0..Len(col), k \in P, k < Len(col) PROVE k + 1 \in P
  <2>1. k + 1 \in 0..Len(col) /\ k + 1 \in 1..Len(col) /\ (k + 1) - 1 = k
    BY <1>1, <1>8
  <2>2. PICK v \in Values("Int64") : v = col[k + 1] /\ v \in Int64Range
    BY <1>1, <2>1, ElementOfSeq
  <2>3. RowAdded("Int64", f[k], v, f[k + 1])
    <3>1. f[k + 1] = AddRow("Int64", f[k], v) /\ f[k] \in AggAccs
      BY <1>2, <2>1, <2>2
    <3> QED
      BY <3>1, AddRowIs
  <2>4. /\ sum[k + 1] = Plus(sum[k], v) /\ sum[k] \in Int64Range
        /\ min[k + 1] = Smaller(min[k], v) /\ min[k] \in Int64Range
        /\ max[k + 1] = Greater(max[k], v) /\ max[k] \in Int64Range
    BY <1>3, <1>4, <1>5, <2>1, <2>2
  <2>5. f[k + 1].count = a.count + (k + 1)
    <3>1. f[k + 1].count = f[k].count + 1 /\ f[k].count = a.count + k
      BY <1>8, <2>3 DEF RowAdded
    <3> QED
      BY <1>6, <3>1
  <2>6. f[k + 1].sum_i = Plus(a.sum_i, sum[k + 1])
    <3>1. f[k + 1].sum_i = Plus(Plus(a.sum_i, sum[k]), v)
      BY <1>8, <2>3 DEF RowAdded
    <3>2. Plus(a.sum_i, Plus(sum[k], v)) = Plus(Plus(a.sum_i, sum[k]), v)
      <4>1. PICK c \in Int64Range, d \in Int64Range : c = a.sum_i /\ d = sum[k]
        BY <1>6, <2>4
      <4>2. Plus(c, Plus(d, v)) = Plus(Plus(c, d), v)
        <5>1. v \in Int64Range
          BY <2>2
        <5> QED
          BY <5>1, PlusIs
      <4> QED
        BY <4>1, <4>2
    <3>3. sum[k + 1] = Plus(sum[k], v)
      BY <2>4
    <3> QED
      BY <3>1, <3>2, <3>3
  <2>7. f[k + 1].min_i = Smaller(a.min_i, min[k + 1])
    <3>1. f[k + 1].min_i = Smaller(Smaller(a.min_i, min[k]), v)
      BY <1>8, <2>3 DEF RowAdded
    <3>2. Smaller(a.min_i, Smaller(min[k], v)) = Smaller(Smaller(a.min_i, min[k]), v)
      <4>1. PICK c \in Int64Range, d \in Int64Range : c = a.min_i /\ d = min[k]
        BY <1>6, <2>4
      <4>2. Smaller(c, Smaller(d, v)) = Smaller(Smaller(c, d), v)
        <5>1. v \in Int64Range
          BY <2>2
        <5> QED
          BY <5>1, SmallerIs
      <4> QED
        BY <4>1, <4>2
    <3>3. min[k + 1] = Smaller(min[k], v)
      BY <2>4
    <3> QED
      BY <3>1, <3>2, <3>3
  <2>8. f[k + 1].max_i = Greater(a.max_i, max[k + 1])
    <3>1. f[k + 1].max_i = Greater(Greater(a.max_i, max[k]), v)
      BY <1>8, <2>3 DEF RowAdded
    <3>2. Greater(a.max_i, Greater(max[k], v)) = Greater(Greater(a.max_i, max[k]), v)
      <4>1. PICK c \in Int64Range, d \in Int64Range : c = a.max_i /\ d = max[k]
        BY <1>6, <2>4
      <4>2. Greater(c, Greater(d, v)) = Greater(Greater(c, d), v)
        <5>1. v \in Int64Range
          BY <2>2
        <5> QED
          BY <5>1, GreaterIs
      <4> QED
        BY <4>1, <4>2
    <3>3. max[k + 1] = Greater(max[k], v)
      BY <2>4
    <3> QED
      BY <3>1, <3>2, <3>3
  <2> QED
    BY <2>1, <2>5, <2>6, <2>7, <2>8
<1>9. 0..Len(col) \subseteq P
  <2> HIDE DEF P
  <2> QED
    BY <1>1, <1>7, <1>8, UpToN
<1>10. CASE col = <<>>
  <2>1. AddBatch(a, col) = a /\ AddRows("Int64", h, col) = h
    BY <1>2, <1>10 DEF AddBatch
  <2> QED
    BY <2>1
<1>11. CASE col # <<>>
  <2>1. PICK n \in Nat : n = Len(col) /\ n \in P
    BY <1>1, <1>9
  <2>2. PICK r \in AggAccs : r = AddRows("Int64", h, col)
    BY <1>2, <2>1
  <2>3. /\ r.count = a.count + Len(col) /\ r.sum_i = Plus(a.sum_i, ColumnSum(col))
        /\ r.min_i = Smaller(a.min_i, ColumnMin(col)) /\ r.max_i = Greater(a.max_i, ColumnMax(col))
    BY <1>2, <1>3, <1>4, <1>5, <2>1, <2>2
  <2>4. AddBatch(a, col) = [count |-> r.count, sum_i |-> r.sum_i, min_i |-> r.min_i, max_i |-> r.max_i]
    BY <1>11, <2>3 DEF AddBatch
  <2>5. AddBatch(a, col) \in Accs
    BY <2>2, <2>4 DEF Accs, AggAccs
  <2> QED
    BY <2>2, <2>4, <2>5 DEF Matches
<1> QED
  BY <1>10, <1>11
-----------------------------------------------------------------------------
(* Texts of doubles. *)

(* The rounding of std::to_string, without the sign. *)
Rounded(x) == (2 * x + TicksPerMicro) \div (2 * TicksPerMicro)

LEMMA RoundedIs ==
    ASSUME NEW x \in Nat
    PROVE  /\ Rounded(x) \in Nat
           /\ Rounded(x) * (2 * TicksPerMicro) <= 2 * x + TicksPerMicro
           /\ 2 * x + TicksPerMicro < Rounded(x) * (2 * TicksPerMicro) + 2 * TicksPerMicro
<1>1. PICK m \in Nat \ {0}, y \in Nat : m = 2 * TicksPerMicro /\ y = 2 * x + TicksPerMicro
  BY BitsAssumption
<1>2. /\ y \div m \in Int /\ (y \div m) * m <= y /\ y < (y \div m) * m + m
  OBVIOUS
<1>3. PICK q \in Int, u \in Int : q = y \div m /\ u = q * m
  BY <1>2
<1>4. q >= 0
  <2> SUFFICES ASSUME q <= -1 PROVE FALSE
    OBVIOUS
  <2>1. PICK e \in Nat : q = -1 - e
    <3>1. -1 - q \in Nat /\ q = -1 - (-1 - q)
      OBVIOUS
    <3> QED
      BY <3>1
  <2>2. PICK w \in Nat : w = e * m
    OBVIOUS
  <2>3. u = -m - w
    BY <1>3, <2>1, <2>2
  <2> QED
    BY <1>2, <1>3, <2>3
<1>5. Rounded(x) = y \div m
  BY <1>1 DEF Rounded
<1> QED
  BY <1>1, <1>2, <1>3, <1>4, <1>5

LEMMA PrintedIs ==
    ASSUME NEW v \in Int
    PROVE  /\ v >= 0 => Printed(v) = Rounded(v)
           /\ v < 0 => Printed(v) = -Rounded(-v)
<1>1. CASE v >= 0
  <2>1. Printed(v) = 1 * Rounded(v) /\ Rounded(v) \in Nat
    BY <1>1, RoundedIs DEF Printed, Rounded
  <2> QED
    BY <1>1, <2>1
<1>2. CASE v < 0
  <2>1. -v \in Nat /\ ~(v >= 0)
    BY <1>2
  <2>2. Rounded(-v) \in Nat
    BY <2>1, RoundedIs
  <2>3. Printed(v) = (-1) * Rounded(-v)
    <3>1. (IF v >= 0 THEN v ELSE -v) = -v /\ (IF v >= 0 THEN 1 ELSE -1) = -1
      BY <2>1
    <3> QED
      BY <3>1, Zenon DEF Printed, Rounded
  <2> QED
    BY <1>2, <2>2, <2>3
<1> QED
  BY <1>1, <1>2

LEMMA RoundedWhole ==
    ASSUME NEW x \in Nat, NEW q \in Int, x = q * TicksPerMicro
    PROVE  Rounded(x) = q
<1>1. PICK m \in Nat \ {0} : m = 2 * TicksPerMicro /\ TicksPerMicro \in 0..m - 1
  BY BitsAssumption
<1>2. 2 * x + TicksPerMicro = q * m + TicksPerMicro
  BY <1>1, BitsAssumption
<1>3. (q * m + TicksPerMicro) \div m = q
  BY <1>1, DivMod
<1> QED
  BY <1>1, <1>2, <1>3 DEF Rounded

(* A double that is a whole number of the last decimal prints as that.      *)
LEMMA PrintedWhole ==
    ASSUME NEW v \in Int, v % TicksPerMicro = 0
    PROVE  \E q \in Int : Printed(v) = q /\ v = q * TicksPerMicro
<1>1. PICK q \in Int : v = q * TicksPerMicro
  <2>1. PICK T \in Nat \ {0} : T = TicksPerMicro
    BY BitsAssumption
  <2>2. PICK d \in Int : v = d * T + (v % T)
    <3>1. v = (v \div T) * T + (v % T) /\ v \div T \in Int
      OBVIOUS
    <3> QED
      BY <3>1
  <2>3. v % T = 0
    BY <2>1
  <2>4. v = d * T
    BY <2>2, <2>3
  <2> QED
    BY <2>1, <2>4
<1>2. CASE v >= 0
  <2>1. Rounded(v) = q
    BY <1>1, <1>2, RoundedWhole
  <2> QED
    BY <1>1, <1>2, <2>1, PrintedIs
<1>3. CASE v < 0
  <2>1. -v \in Nat /\ -q \in Int /\ -v = (-q) * TicksPerMicro
    BY <1>1, <1>3, BitsAssumption
  <2>2. Rounded(-v) = -q
    BY <2>1, RoundedWhole
  <2>3. Printed(v) = q
    BY <1>3, <2>2, PrintedIs
  <2> QED
    BY <1>1, <2>3
<1> QED
  BY <1>2, <1>3

(* Doubles more than a decimal apart print differently. *)
LEMMA PrintedApart ==
    ASSUME NEW v \in Int, NEW w \in Int, v < w, w - v > TicksPerMicro
    PROVE  Printed(v) # Printed(w)
<1>1. PICK T \in Nat \ {0} : T = TicksPerMicro
  BY BitsAssumption
<1>2. \A x \in Nat : \E r \in Nat, u \in Int :
        r = Rounded(x) /\ u = r * (2 * T) /\ u <= 2 * x + T /\ 2 * x + T < u + 2 * T
  <2> SUFFICES ASSUME NEW x \in Nat
               PROVE  \E r \in Nat, u \in Int :
                        r = Rounded(x) /\ u = r * (2 * T) /\ u <= 2 * x + T /\ 2 * x + T < u + 2 * T
    OBVIOUS
  <2>1. PICK r \in Nat : r = Rounded(x)
    BY RoundedIs
  <2>2. r * (2 * T) <= 2 * x + T /\ 2 * x + T < r * (2 * T) + 2 * T
    BY <1>1, <2>1, RoundedIs
  <2>3. r * (2 * T) \in Int
    OBVIOUS
  <2> QED
    BY <2>1, <2>2, <2>3
<1>3. CASE v >= 0
  <2>1. PICK r \in Nat, u \in Int :
          r = Rounded(v) /\ u = r * (2 * T) /\ u <= 2 * v + T /\ 2 * v + T < u + 2 * T
    BY <1>2, <1>3
  <2>2. PICK p \in Nat, z \in Int :
          p = Rounded(w) /\ z = p * (2 * T) /\ z <= 2 * w + T /\ 2 * w + T < z + 2 * T
    BY <1>2, <1>3
  <2>3. r # p
    <3>1. u # z
      BY <1>1, <2>1, <2>2
    <3> QED
      BY <2>1, <2>2, <3>1
  <2> QED
    BY <1>3, <2>1, <2>2, <2>3, PrintedIs
<1>4. CASE v < 0 /\ w >= 0
  <2>0. -v \in Nat /\ w \in Nat
    BY <1>4
  <2>1. PICK r \in Nat, u \in Int :
          r = Rounded(-v) /\ u = r * (2 * T) /\ u <= 2 * (-v) + T /\ 2 * (-v) + T < u + 2 * T
    BY <1>2, <2>0
  <2>2. PICK p \in Nat, z \in Int :
          p = Rounded(w) /\ z = p * (2 * T) /\ z <= 2 * w + T /\ 2 * w + T < z + 2 * T
    BY <1>2, <2>0
  <2>3. Printed(v) = -r /\ Printed(w) = p
    BY <1>4, <2>1, <2>2, PrintedIs
  <2>4. ~(r = 0 /\ p = 0)
    <3> SUFFICES ASSUME r = 0, p = 0 PROVE FALSE
      OBVIOUS
    <3>1. u = 0 /\ z = 0
      BY <2>1, <2>2
    <3> QED
      BY <1>1, <2>1, <2>2, <3>1
  <2>5. -r # p
    BY <2>4
  <2> QED
    BY <2>3, <2>5
<1>5. CASE w < 0
  <2>0. -v \in Nat /\ -w \in Nat /\ v < 0
    BY <1>5
  <2>1. PICK r \in Nat, u \in Int :
          r = Rounded(-v) /\ u = r * (2 * T) /\ u <= 2 * (-v) + T /\ 2 * (-v) + T < u + 2 * T
    BY <1>2, <2>0
  <2>2. PICK p \in Nat, z \in Int :
          p = Rounded(-w) /\ z = p * (2 * T) /\ z <= 2 * (-w) + T /\ 2 * (-w) + T < z + 2 * T
    BY <1>2, <2>0
  <2>3. r # p
    <3>1. u # z
      BY <1>1, <2>1, <2>2
    <3> QED
      BY <2>1, <2>2, <3>1
  <2>4. Printed(v) = -r /\ Printed(w) = -p
    BY <1>5, <2>0, <2>1, <2>2, PrintedIs
  <2> QED
    BY <2>3, <2>4
<1> QED
  BY <1>3, <1>4, <1>5

-----------------------------------------------------------------------------
(* The invariant. *)

AccInv ==
    /\ type \in {"Int64", "Float64", "String"} /\ seen \in Seq(Values(type))
    /\ HashIs(type, hash, seen, Len(seen))
    /\ distinct = {Text(type, seen[i]) : i \in 1..Len(seen)}
    /\ type = "Int64" => Matches(acc, hash)
    /\ type # "Int64" /\ ~threw => acc = NoAcc /\ hash = NoAggAcc

LEMMA AccInvInit == AccInit => AccInv
<1> SUFFICES ASSUME AccInit PROVE AccInv
  OBVIOUS
<1>1. type \in {"Int64", "Float64", "String"} /\ seen = <<>> /\ distinct = {} /\ acc = NoAcc
      /\ hash = NoAggAcc
  BY DEF AccInit
<1>2. seen \in Seq(Values(type)) /\ Len(seen) = 0 /\ seen \in Seq(Int) /\ \A i \in 1..0 : FALSE
  BY <1>1
<1>3. Summed(seen)[0] = 0 /\ Wrap(0) = 0 /\ 0 \in Int64Range /\ IntMax \in Int64Range
      /\ IntMin \in Int64Range
  <2>1. 0 \in Int64Range /\ IntMax \in Int64Range /\ IntMin \in Int64Range
    BY SizeIs DEF Int64Range
  <2> QED
    BY <1>2, <2>1, SumsAre, WrapInRange
<1>4. NoAggAcc \in AggAccs /\ NoAcc \in Accs
  BY <1>3 DEF NoAggAcc, NoAcc, AggAccs, Accs
<1>5. HashIs(type, NoAggAcc, seen, 0)
  BY <1>2, <1>3, <1>4 DEF HashIs, NoAggAcc
<1>6. Matches(NoAcc, NoAggAcc)
  BY <1>4 DEF Matches, NoAcc, NoAggAcc
<1>7. {Text(type, seen[i]) : i \in 1..Len(seen)} = {}
  BY <1>2
<1> QED
  BY <1>1, <1>2, <1>5, <1>6, <1>7 DEF AccInv

LEMMA AccInvNext == AccInv /\ [AccNext]_accVars => AccInv'
<1> SUFFICES ASSUME AccInv, [AccNext]_accVars PROVE AccInv'
  OBVIOUS
<1>1. CASE UNCHANGED accVars
  BY <1>1 DEF accVars, AccInv
<1>2. CASE AccNext
  <2>1. PICK n \in 0..MaxBatch : \E col \in [1..n -> Values(type)] : AggregateBatch(col)
    BY <1>2 DEF AccNext
  <2>2. PICK col \in [1..n -> Values(type)] : AggregateBatch(col)
    BY <2>1
  <2>3. col \in Seq(Values(type)) /\ DOMAIN col = 1..Len(col) /\ Len(col) \in Nat
    BY BatchAssumption
  <2>4. /\ type' = type /\ seen' = seen \o col /\ hash' = AddRows(type, hash, col)
        /\ distinct' = distinct \cup {Text(type, col[i]) : i \in DOMAIN col}
        /\ type = "Int64" => acc' = AddBatch(acc, col)
        /\ type # "Int64" => threw'
    BY <2>2 DEF AggregateBatch
  <2>5. /\ type \in {"Int64", "Float64", "String"} /\ seen \in Seq(Values(type))
        /\ HashIs(type, hash, seen, Len(seen))
        /\ distinct = {Text(type, seen[i]) : i \in 1..Len(seen)}
        /\ type = "Int64" => Matches(acc, hash)
    BY DEF AccInv
  <2>6. /\ seen \o col \in Seq(Values(type)) /\ Len(seen \o col) = Len(seen) + Len(col)
        /\ Len(seen) \in Nat
        /\ \A i \in 1..Len(seen) : (seen \o col)[i] = seen[i]
        /\ \A i \in 1..Len(col) : (seen \o col)[Len(seen) + i] = col[i]
    BY <2>3, <2>5, TwoColumns
  <2>7. HashIs(type', hash', seen', Len(seen'))
    <3>1. HashIs(type, AddRows(type, hash, col), seen \o col, Len(seen) + Len(col))
      BY <2>3, <2>5, HashBatch
    <3> QED
      BY <2>4, <2>6, <3>1
  <2>8. distinct' = {Text(type', seen'[i]) : i \in 1..Len(seen')}
    <3> DEFINE b == seen \o col
    <3>1. \A i \in 1..Len(b) : i \in 1..Len(seen) \/ \E j \in 1..Len(col) : i = Len(seen) + j
      <4> SUFFICES ASSUME NEW i \in 1..Len(b), i \notin 1..Len(seen)
                   PROVE  \E j \in 1..Len(col) : i = Len(seen) + j
        OBVIOUS
      <4>1. i - Len(seen) \in 1..Len(col) /\ i = Len(seen) + (i - Len(seen))
        BY <2>3, <2>6
      <4> QED
        BY <4>1
    <3>2. \A i \in 1..Len(seen) : i \in 1..Len(b) /\ b[i] = seen[i]
      BY <2>3, <2>6
    <3>3. \A j \in 1..Len(col) : Len(seen) + j \in 1..Len(b) /\ b[Len(seen) + j] = col[j]
      BY <2>3, <2>6
    <3> HIDE DEF b
    <3>4. {Text(type, seen[i]) : i \in 1..Len(seen)} \cup {Text(type, col[i]) : i \in 1..Len(col)}
          = {Text(type, b[i]) : i \in 1..Len(b)}
      BY <3>1, <3>2, <3>3
    <3> QED
      BY <2>3, <2>4, <2>5, <3>4 DEF b
  <2>9. type' = "Int64" => Matches(acc', hash')
    BY <2>3, <2>4, <2>5, BatchesMatch
  <2> QED
    BY <2>4, <2>5, <2>6, <2>7, <2>8, <2>9 DEF AccInv
<1> QED
  BY <1>1, <1>2
-----------------------------------------------------------------------------
(* The answers. *)

LEMMA AgreesWhenInvariant == AccInv => OperatorsAgree
<1> SUFFICES ASSUME AccInv, ~threw PROVE \A kind \in {"Count", "Sum", "Avg", "Min", "Max"} :
                                            GlobalAnswer(kind) = HashAnswer(kind)
  BY DEF OperatorsAgree
<1>1. /\ acc.count = hash.count /\ acc.sum_i = hash.sum_i
      /\ acc.min_i = hash.min_i /\ acc.max_i = hash.max_i /\ hash.src_type = "Int64"
  <2>1. CASE type = "Int64"
    BY <2>1 DEF AccInv, Matches, HashIs
  <2>2. CASE type # "Int64"
    BY <2>2 DEF AccInv, NoAcc, NoAggAcc
  <2> QED
    BY <2>1, <2>2
<1> QED
  BY <1>1 DEF GlobalAnswer, HashAnswer

LEMMA SumsWhenInvariant == AccInv => SumsThatFitAreRight
<1> SUFFICES ASSUME AccInv, type = "Int64", Total \in Int64Range
             PROVE  /\ HashAnswer("Sum") = Total
                    /\ seen # <<>> => HashAnswer("Avg") = <<Total, Len(seen)>>
  BY DEF SumsThatFitAreRight, Int64Range
<1>1. hash.sum_i = Wrap(Total) /\ hash.count = Len(seen) /\ hash.src_type = "Int64"
  BY DEF AccInv, HashIs, Total
<1>2. Wrap(Total) = Total
  BY WrapInRange
<1>3. seen # <<>> => Len(seen) # 0
  BY DEF AccInv
<1> QED
  BY <1>1, <1>2, <1>3 DEF HashAnswer

LEMMA SeenIsFinite ==
    ASSUME AccInv
    PROVE  /\ IsFiniteSet(Seen) /\ Seen = {seen[i] : i \in 1..Len(seen)} /\ Seen \subseteq Int
           /\ distinct = {Text(type, v) : v \in Seen}
<1>1. /\ type \in {"Int64", "Float64", "String"} /\ seen \in Seq(Values(type))
      /\ distinct = {Text(type, seen[i]) : i \in 1..Len(seen)}
  BY DEF AccInv
<1>2. DOMAIN seen = 1..Len(seen) /\ Len(seen) \in Nat /\ \A i \in 1..Len(seen) : seen[i] \in Int
  BY <1>1, ValuesAreInts
<1>3. Seen = {seen[i] : i \in 1..Len(seen)}
  BY <1>2 DEF Seen
<1> DEFINE f == [i \in 1..Len(seen) |-> seen[i]]
<1>4. f \in Surjection(1..Len(seen), Seen)
  BY <1>3 DEF Surjection
<1>5. IsFiniteSet(1..Len(seen))
  BY <1>2, FS_Interval
<1>6. IsFiniteSet(Seen)
  <2> HIDE DEF f
  <2> QED
    BY <1>4, <1>5, FS_Surjection
<1> QED
  BY <1>1, <1>2, <1>3, <1>6

(* Texts are no more than values, and as many if no two values share one. *)
LEMMA CountOfTexts ==
    ASSUME NEW S, IsFiniteSet(S), NEW T
    PROVE  /\ IsFiniteSet({Text(T, v) : v \in S})
           /\ Cardinality({Text(T, v) : v \in S}) <= Cardinality(S)
           /\ (\A v, w \in S : Text(T, v) = Text(T, w) => v = w) =>
                Cardinality({Text(T, v) : v \in S}) = Cardinality(S)
<1> DEFINE f == [v \in S |-> Text(T, v)]
           D == {Text(T, v) : v \in S}
<1>1. f \in Surjection(S, D)
  BY DEF Surjection
<1>2. (\A v, w \in S : Text(T, v) = Text(T, w) => v = w) => f \in Injection(S, D)
  <2>1. f \in [S -> D] /\ \A v \in S : f[v] = Text(T, v)
    OBVIOUS
  <2> HIDE DEF f, D
  <2> QED
    BY <2>1 DEF Injection, IsInjective
<1> HIDE DEF f, D
<1>3. /\ IsFiniteSet(D) /\ Cardinality(D) <= Cardinality(S)
      /\ Cardinality(D) = Cardinality(S) <=> f \in Injection(S, D)
  BY <1>1, FS_Surjection
<1> QED
  BY <1>2, <1>3 DEF D

LEMMA TwoElements ==
    ASSUME NEW S, IsFiniteSet(S), NEW x \in S, NEW y \in S, x # y
    PROVE  Cardinality(S) >= 2
<1>1. IsFiniteSet({x}) /\ Cardinality({x}) = 1
  BY FS_Singleton
<1>2. IsFiniteSet({x} \cup {y}) /\ Cardinality({x} \cup {y}) = 2
  <2>1. y \notin {x}
    OBVIOUS
  <2>2. Cardinality({x} \cup {y}) = Cardinality({x}) + 1
    BY <1>1, <2>1, FS_AddElement
  <2> QED
    BY <1>1, <2>2, FS_AddElement
<1>3. {x} \cup {y} \in SUBSET S
  OBVIOUS
<1>4. Cardinality({x} \cup {y}) <= Cardinality(S)
  BY <1>3, FS_Subset
<1>5. Cardinality(S) \in Nat
  BY FS_CardinalityType
<1> QED
  BY <1>2, <1>4, <1>5

LEMMA AnswersOfNoRows == AccInv /\ seen = <<>> => NoRowsAnswerZero
<1> SUFFICES ASSUME AccInv, seen = <<>> PROVE NoRowsAnswerZero
  OBVIOUS
<1>1. /\ type \in {"Int64", "Float64", "String"} /\ Len(seen) = 0 /\ seen \in Seq(Int)
      /\ HashIs(type, hash, seen, Len(seen))
      /\ distinct = {Text(type, seen[i]) : i \in 1..Len(seen)}
  BY ValuesAreInts DEF AccInv
<1>2. hash.count = 0 /\ hash.src_type = "Int64"
  BY <1>1 DEF HashIs
<1>3. hash.sum_i = 0
  <2>1. Summed(seen)[0] = 0
    BY <1>1, SumsAre
  <2>2. Wrap(0) = 0
    <3>1. 0 \in Int64Range
      BY SizeIs DEF Int64Range
    <3> QED
      BY <3>1, WrapInRange
  <2> QED
    BY <1>1, <2>1, <2>2 DEF HashIs
<1>4. Cardinality(distinct) = 0
  <2>1. distinct = {}
    BY <1>1
  <2> QED
    BY <2>1, FS_EmptySet
<1> QED
  BY <1>2, <1>3, <1>4 DEF NoRowsAnswerZero, HashAnswer

LEMMA AnswersWhenInvariant == AccInv => AnswersAreOfTheRows
<1> SUFFICES ASSUME AccInv, seen # <<>>
             PROVE  /\ HashAnswer("Count") = Len(seen)
                    /\ IF type = "Float64"
                         THEN /\ HashAnswer("Avg") = <<Total, Len(seen)>>
                              /\ DoublesHaveNoSumOrExtremes /\ DistinctDoublesByText
                         ELSE ExtremesAreSeen
  BY AnswersOfNoRows DEF AnswersAreOfTheRows
<1>1. /\ type \in {"Int64", "Float64", "String"} /\ seen \in Seq(Values(type))
      /\ HashIs(type, hash, seen, Len(seen))
  BY DEF AccInv
<1>2. Len(seen) \in Nat /\ Len(seen) # 0 /\ Len(seen) > 0 /\ 1 \in 1..Len(seen)
  BY <1>1
<1>3. hash.count = Len(seen) /\ hash.src_type = type /\ hash \in AggAccs
  BY <1>1, <1>2 DEF HashIs
<1>4. HashAnswer("Count") = Len(seen) /\ HashAnswer("CountDistinct") = Cardinality(distinct)
  BY <1>3 DEF HashAnswer
<1>5. CASE type = "Float64"
  <2>1. hash.sum_f = Total /\ hash.sum_i = 0 /\ hash.min_i = IntMax /\ hash.max_i = IntMin
    BY <1>1, <1>5 DEF HashIs, Total
  <2>2. HashAnswer("Avg") = <<Total, Len(seen)>>
    BY <1>2, <1>3, <1>5, <2>1 DEF HashAnswer
  <2>3. DoublesHaveNoSumOrExtremes
    BY <1>2, <1>3, <1>5, <2>1 DEF HashAnswer, DoublesHaveNoSumOrExtremes
  <2>4. /\ IsFiniteSet(Seen) /\ Seen \subseteq Int /\ distinct = {Text("Float64", v) : v \in Seen}
    BY <1>5, SeenIsFinite
  <2>5. IsFiniteSet(distinct) /\ Cardinality(distinct) <= Cardinality(Seen)
    BY <2>4, CountOfTexts
  <2>6. (\A v \in Seen : v % TicksPerMicro = 0) => Cardinality(distinct) = Cardinality(Seen)
    <3> SUFFICES ASSUME \A v \in Seen : v % TicksPerMicro = 0
                 PROVE  Cardinality(distinct) = Cardinality(Seen)
      OBVIOUS
    <3>1. ASSUME NEW v \in Seen, NEW w \in Seen, Text("Float64", v) = Text("Float64", w)
          PROVE  v = w
      <4>1. v \in Int /\ w \in Int /\ v % TicksPerMicro = 0 /\ w % TicksPerMicro = 0
        BY <2>4
      <4>2. PICK q \in Int : Printed(v) = q /\ v = q * TicksPerMicro
        BY <4>1, PrintedWhole
      <4>3. PICK r \in Int : Printed(w) = r /\ w = r * TicksPerMicro
        BY <4>1, PrintedWhole
      <4>4. Printed(v) = Printed(w)
        BY <3>1 DEF Text
      <4> QED
        BY <4>2, <4>3, <4>4
    <3> QED
      BY <2>4, <3>1, CountOfTexts
  <2>7. ASSUME NEW v \in Seen, NEW w \in Seen, v < w, w - v > TicksPerMicro
        PROVE  Cardinality(distinct) >= 2
    <3>1. Text("Float64", v) # Text("Float64", w)
      <4>1. Printed(v) # Printed(w)
        BY <2>4, <2>7, PrintedApart
      <4> QED
        BY <4>1 DEF Text
    <3>2. Text("Float64", v) \in distinct /\ Text("Float64", w) \in distinct
      BY <2>4
    <3> QED
      BY <2>5, <3>1, <3>2, TwoElements
  <2>8. DistinctDoublesByText
    BY <1>4, <2>5, <2>6, <2>7 DEF DistinctDoublesByText
  <2> QED
    BY <1>4, <1>5, <2>2, <2>3, <2>8
<1>6. CASE type # "Float64"
  <2>1. /\ Seen = {seen[i] : i \in 1..Len(seen)} /\ Seen \subseteq Int
        /\ distinct = {Text(type, v) : v \in Seen}
    BY SeenIsFinite
  <2>2. distinct = Seen
    BY <1>6, <2>1 DEF Text
  <2>3. PICK least, greatest :
          /\ HashAnswer("Min") = least /\ HashAnswer("Max") = greatest
          /\ \E i \in 1..Len(seen) : least = seen[i]
          /\ \E i \in 1..Len(seen) : greatest = seen[i]
          /\ \A i \in 1..Len(seen) : least <= seen[i] /\ seen[i] <= greatest
    <3>1. CASE type = "Int64"
      <4>1. HashAnswer("Min") = hash.min_i /\ HashAnswer("Max") = hash.max_i
        BY <1>2, <1>3, <3>1 DEF HashAnswer
      <4>2. /\ hash.min_i = IntMax \/ \E i \in 1..Len(seen) : hash.min_i = seen[i]
            /\ hash.max_i = IntMin \/ \E i \in 1..Len(seen) : hash.max_i = seen[i]
            /\ \A i \in 1..Len(seen) : hash.min_i <= seen[i] /\ seen[i] <= hash.max_i
        BY <1>1, <3>1 DEF HashIs
      <4>3. PICK w \in Int : w = seen[1] /\ IntMin <= w /\ w <= IntMax /\ hash.min_i <= w /\ w <= hash.max_i
        <5>1. seen[1] \in Values(type) /\ seen[1] \in Int
          BY <1>1, <1>2, ValuesAreInts
        <5>2. seen[1] \in IntMin..IntMax
          BY <3>1, <5>1, ValuesAssumption DEF Values
        <5> QED
          BY <1>2, <4>2, <5>1, <5>2, SizeIs
      <4>4. hash.min_i = IntMax => hash.min_i = seen[1]
        BY <4>3, SizeIs
      <4>5. hash.max_i = IntMin => hash.max_i = seen[1]
        BY <4>3, SizeIs
      <4> QED
        BY <1>2, <4>1, <4>2, <4>4, <4>5
    <3>2. CASE type = "String"
      <4>1. /\ hash.has_str
            /\ \E i \in 1..Len(seen) : hash.min_s = seen[i]
            /\ \E i \in 1..Len(seen) : hash.max_s = seen[i]
            /\ \A i \in 1..Len(seen) : hash.min_s <= seen[i] /\ seen[i] <= hash.max_s
        BY <1>1, <1>2, <3>2 DEF HashIs
      <4>2. HashAnswer("Min") = hash.min_s /\ HashAnswer("Max") = hash.max_s
        BY <1>3, <3>2, <4>1 DEF HashAnswer
      <4> QED
        BY <4>1, <4>2
    <3> QED
      BY <1>1, <1>6, <3>1, <3>2
  <2>4. least \in Seen /\ greatest \in Seen
    BY <2>1, <2>3
  <2>5. \A v \in Seen : least <= v /\ greatest >= v
    <3> SUFFICES ASSUME NEW v \in Seen PROVE least <= v /\ greatest >= v
      OBVIOUS
    <3>1. PICK i \in 1..Len(seen) : v = seen[i]
      BY <2>1
    <3>2. least <= v /\ v <= greatest
      BY <2>3, <3>1
    <3>3. v \in Int /\ greatest \in Int
      BY <2>1, <2>4
    <3> QED
      BY <3>2, <3>3
  <2>6. ExtremesAreSeen
    BY <1>4, <2>2, <2>3, <2>4, <2>5 DEF ExtremesAreSeen
  <2> QED
    BY <1>4, <1>6, <2>6
<1> QED
  BY <1>5, <1>6

(* AccInv is an invariant: after any batches, both sets of accumulators are *)
(* those of the rows seen.                                                  *)
THEOREM AccumulatorsAreOfTheRows == AccSpec => []AccInv
BY AccInvInit, AccInvNext, PTL DEF AccSpec

(* GlobalAggregateOperator, folding batches, and HashAggregateOperator,     *)
(* folding rows, answer the same unless the first has thrown, for any       *)
(* width of the integers, however the rows are cut into batches and         *)
(* whichever sums overflow on the way.                                      *)
THEOREM OperatorsAlwaysAgree == AccSpec => []OperatorsAgree
BY AccumulatorsAreOfTheRows, AgreesWhenInvariant, PTL

(* A sum or an average of integers is right whenever the sum of all rows    *)
(* fits, whatever the sums of some of them did.                             *)
THEOREM FittingSumsAreRight == AccSpec => []SumsThatFitAreRight
BY AccumulatorsAreOfTheRows, SumsWhenInvariant, PTL

(* The number of rows HashAggregateOperator answers with is theirs, and so  *)
(* are the extremes and distinct values of integers and strings and the     *)
(* average of doubles.  The sum and extremes of doubles are constants that  *)
(* say nothing of them, their distinct values are counted by what is        *)
(* printed, and a total over no rows is zero.                               *)
THEOREM GroupsAnswerForTheirRows == AccSpec => []AnswersAreOfTheRows
BY AccumulatorsAreOfTheRows, AnswersWhenInvariant, PTL
=============================================================================
